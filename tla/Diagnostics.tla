---------------------------- MODULE Diagnostics ----------------------------
(***************************************************************************)
(* The diagnostics a transcoder publishes (receiver_server.c) and answers  *)
(* GET /diagnostics with (http_server.c, main.c): the main thread replaces *)
(* the published buffer about once a second while it serves its client,    *)
(* the HTTP thread copies it, and a SIGINT runs stop() on the main thread  *)
(* between any two of its instructions.                                    *)
(*                                                                         *)
(* lastDiagnsotics is read and swapped by the one thread that writes it;   *)
(* an action is what a thread does between two looks at shared memory.     *)
(***************************************************************************)
EXTENDS Naturals, FiniteSets

CONSTANTS Buffers,       \* addresses av_malloc can return
          NULL,
          MaxInterrupts  \* bound on the SIGINTs

ASSUME DiagnosticsAssumption == NULL \notin Buffers /\ MaxInterrupts \in Nat

VARIABLES
    main,        \* where the main thread is, see MainPlaces
    tmpBuf,      \* its locals in receiver_server_calc_diagnostics
    oldDiag,
    lastDiagnsotics,
    live,        \* the diagnostics buffers that are allocated
    locker,      \* diagnostics_locker: its owner, "free" or "destroyed"
    listening,   \* the listening socket is open
    http,        \* where the HTTP thread is
    source,      \* the argument of its strcpy
    interrupts   \* SIGINTs so far

vars == <<main, tmpBuf, oldDiag, lastDiagnsotics, live, locker, listening, http,
          source, interrupts>>

MainPlaces == {"starting", "accepting", "serving", "calculated", "locked", "swapped",
               "unlocked", "served", "stopped", "exited"}
HttpPlaces == {"idle", "requested", "locked", "copying", "copied", "killed"}

Init ==
    /\ main = "starting"
    /\ tmpBuf = NULL /\ oldDiag = NULL /\ lastDiagnsotics = NULL
    /\ live = {}
    /\ locker = "free"
    /\ listening = FALSE
    /\ http = "idle"
    /\ source = NULL
    /\ interrupts = 0
-----------------------------------------------------------------------------
(* pthread_mutex_t: a destroyed mutex excludes nobody; to destroy one that is *)
(* held is undefined and either destroys it or, as in glibc, fails.           *)

Lock(thread) ==
    \/ locker = "free" /\ locker' = thread
    \/ locker = "destroyed" /\ UNCHANGED locker

Unlock(thread) == locker' = IF locker = thread THEN "free" ELSE locker

Destroy ==
    \/ locker' = "destroyed"
    \/ locker \in {"main", "http"} /\ UNCHANGED locker

\* receiver_server_close of a server without a listener thread, from stop().
Close == listening' = FALSE /\ Destroy
-----------------------------------------------------------------------------
(* The main thread.                                                           *)

MainMoves(from, to) == main = from /\ main' = to

\* Mutant of Open: lastDiagnsotics is left uninitialised.
OpenUninitialised ==
    /\ MainMoves("starting", "accepting")
    /\ lastDiagnsotics' = "garbage" /\ locker' = "free"
    /\ listening' \in BOOLEAN
    /\ UNCHANGED <<tmpBuf, oldDiag, live, http, source, interrupts>>

\* receiver_server_init.  It does not listen when the port is not free, nor as a
\* rule after a SIGINT: that has closed descriptor 0, which socket() then returns
\* and KMP_listen takes for an error.
Open ==
    /\ MainMoves("starting", "accepting")
    /\ lastDiagnsotics' = NULL /\ locker' = "free" /\ listening' \in BOOLEAN
    /\ UNCHANGED <<tmpBuf, oldDiag, live, http, source, interrupts>>

\* sync_listen accepts the one client it serves.
Accept ==
    /\ MainMoves("accepting", "serving")
    /\ listening
    /\ UNCHANGED <<tmpBuf, oldDiag, lastDiagnsotics, live, locker, listening,
                   http, source, interrupts>>

AcceptFails ==
    /\ MainMoves("accepting", "served")
    /\ ~listening
    /\ UNCHANGED <<tmpBuf, oldDiag, lastDiagnsotics, live, locker, listening,
                   http, source, interrupts>>

\* A second has passed: build the new diagnostics, look at the old ones.
Calculate ==
    /\ MainMoves("serving", "calculated")
    /\ \E b \in Buffers \ live : tmpBuf' = b /\ live' = live \cup {b}
    /\ oldDiag' = lastDiagnsotics
    /\ UNCHANGED <<lastDiagnsotics, locker, listening, http, source, interrupts>>

\* Mutant of CalculateLocks: the section is entered without the lock.
CalculateWithoutLock ==
    /\ MainMoves("calculated", "locked")
    /\ UNCHANGED <<tmpBuf, oldDiag, lastDiagnsotics, live, locker, listening,
                   http, source, interrupts>>

CalculateLocks ==
    /\ MainMoves("calculated", "locked")
    /\ Lock("main")
    /\ UNCHANGED <<tmpBuf, oldDiag, lastDiagnsotics, live, listening, http,
                   source, interrupts>>

CalculateSwaps ==
    /\ MainMoves("locked", "swapped")
    /\ lastDiagnsotics' = tmpBuf
    /\ UNCHANGED <<tmpBuf, oldDiag, live, locker, listening, http, source,
                   interrupts>>

\* Mutant of CalculateUnlocks: the lock is kept.
CalculateKeepsLock ==
    /\ MainMoves("swapped", "unlocked")
    /\ UNCHANGED <<tmpBuf, oldDiag, lastDiagnsotics, live, locker, listening,
                   http, source, interrupts>>

CalculateUnlocks ==
    /\ MainMoves("swapped", "unlocked")
    /\ Unlock("main")
    /\ UNCHANGED <<tmpBuf, oldDiag, lastDiagnsotics, live, listening, http,
                   source, interrupts>>

\* Mutant of CalculateFrees: the buffer just published is freed.
CalculateFreesNew ==
    /\ MainMoves("unlocked", "serving")
    /\ live' = live \ {tmpBuf}
    /\ UNCHANGED <<tmpBuf, oldDiag, lastDiagnsotics, locker, listening, http,
                   source, interrupts>>

CalculateFrees ==
    /\ MainMoves("unlocked", "serving")
    /\ live' = live \ {oldDiag}
    /\ UNCHANGED <<tmpBuf, oldDiag, lastDiagnsotics, locker, listening, http,
                   source, interrupts>>

\* The client is done: processClient and sync_listen return.
ClientEnds ==
    /\ MainMoves("serving", "served")
    /\ UNCHANGED <<tmpBuf, oldDiag, lastDiagnsotics, live, locker, listening,
                   http, source, interrupts>>

Stop ==
    /\ MainMoves("served", "stopped")
    /\ Close
    /\ UNCHANGED <<tmpBuf, oldDiag, lastDiagnsotics, live, http, source,
                   interrupts>>

\* main returns, which ends the HTTP thread wherever it is.
Exit ==
    /\ MainMoves("stopped", "exited")
    /\ http' = "killed"
    /\ UNCHANGED <<tmpBuf, oldDiag, lastDiagnsotics, live, locker, listening,
                   source, interrupts>>

\* intHandler runs stop() and returns to where the main thread was.
Interrupt ==
    /\ main # "exited"
    /\ interrupts < MaxInterrupts
    /\ interrupts' = interrupts + 1
    /\ Close
    /\ UNCHANGED <<main, tmpBuf, oldDiag, lastDiagnsotics, live, http, source>>
-----------------------------------------------------------------------------
(* The HTTP thread.                                                           *)

HttpMoves(from, to) == http = from /\ http' = to

Request ==
    /\ HttpMoves("idle", "requested")
    /\ main # "starting"
    /\ UNCHANGED <<main, tmpBuf, oldDiag, lastDiagnsotics, live, locker,
                   listening, source, interrupts>>

GetLocks ==
    /\ HttpMoves("requested", "locked")
    /\ Lock("http")
    /\ UNCHANGED <<main, tmpBuf, oldDiag, lastDiagnsotics, live, listening,
                   source, interrupts>>

GetLoads ==
    /\ HttpMoves("locked", "copying")
    /\ source' = lastDiagnsotics
    /\ UNCHANGED <<main, tmpBuf, oldDiag, lastDiagnsotics, live, locker,
                   listening, interrupts>>

GetCopies ==
    /\ HttpMoves("copying", "copied")
    /\ source # NULL
    /\ source' = NULL
    /\ UNCHANGED <<main, tmpBuf, oldDiag, lastDiagnsotics, live, locker,
                   listening, interrupts>>

\* strcpy from NULL ends the process.
GetCrashes ==
    /\ HttpMoves("copying", "killed")
    /\ source = NULL
    /\ main' = "exited"
    /\ UNCHANGED <<tmpBuf, oldDiag, lastDiagnsotics, live, locker, listening,
                   source, interrupts>>

GetUnlocks ==
    /\ HttpMoves("copied", "idle")
    /\ Unlock("http")
    /\ UNCHANGED <<main, tmpBuf, oldDiag, lastDiagnsotics, live, listening,
                   source, interrupts>>

MainStep == \/ Open \/ Accept \/ AcceptFails \/ Calculate \/ CalculateLocks
            \/ CalculateSwaps \/ CalculateUnlocks \/ CalculateFrees
            \/ ClientEnds \/ Stop \/ Exit

HttpStep == GetLocks \/ GetLoads \/ GetCopies \/ GetCrashes \/ GetUnlocks

Next == MainStep \/ Interrupt \/ Request \/ HttpStep

Spec == Init /\ [][Next]_vars

\* Both threads get the processor; the mutex is free for about a second between
\* two calculations, so a reader that waits for it gets it.  No client has to
\* come or to end, and no request.
Fairness ==
    /\ WF_vars(Open \/ AcceptFails \/ CalculateLocks \/ CalculateSwaps
               \/ CalculateUnlocks \/ CalculateFrees \/ Stop \/ Exit)
    /\ SF_vars(GetLocks)
    /\ WF_vars(HttpStep)

FairSpec == Spec /\ Fairness
-----------------------------------------------------------------------------
\* The variables have their types.
TypeOK ==
    /\ main \in MainPlaces /\ http \in HttpPlaces
    /\ {tmpBuf, oldDiag, lastDiagnsotics, source} \subseteq Buffers \cup {NULL}
    /\ live \subseteq Buffers
    /\ locker \in {"free", "main", "http", "destroyed"}
    /\ listening \in BOOLEAN
    /\ interrupts \in 0 .. MaxInterrupts

\* Unless a SIGINT has destroyed the mutex, the HTTP thread copies a buffer that
\* stays allocated until the copy is done, also while the server is being closed
\* and after a SIGINT that came before the server was open or found the mutex held.
CopiesLive ==
    /\ interrupts = 0 \/ locker # "destroyed"
    /\ http = "copying" /\ source # NULL
    => source \in live

\* Every buffer is the published one, or about to be published or freed, and
\* only one of these: none leaks and none is freed twice, whatever the reader
\* and the signals do.
Accounted ==
    LET kept == CASE main \in {"calculated", "locked"} ->
                        {lastDiagnsotics, tmpBuf}
                  [] main \in {"swapped", "unlocked"} ->
                        {lastDiagnsotics, oldDiag}
                  [] OTHER -> {lastDiagnsotics}
    IN  http # "killed" =>
          /\ live = kept \ {NULL}
          /\ main \in {"calculated", "locked"} => tmpBuf # lastDiagnsotics
          /\ main \in {"swapped", "unlocked"} => oldDiag # lastDiagnsotics

\* A request that was accepted is answered, or the process ends.
RequestAnswered == http = "requested" ~> http \in {"idle", "killed"}
=============================================================================
