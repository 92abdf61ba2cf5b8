-------------------------- MODULE DiagnosticsProofs --------------------------
(***************************************************************************)
(* The diagnostics buffers of Diagnostics.tla for any number of addresses  *)
(* and SIGINTs.                                                            *)
(***************************************************************************)
EXTENDS Diagnostics, TLAPS

USE DiagnosticsAssumption DEF DiagnosticsAssumption

\* Unless a SIGINT has destroyed the mutex, it is destroyed only when the main
\* thread is done, until then each thread in the section holds it, and the buffer
\* being copied is still the published one.
Excluded ==
    interrupts = 0 \/ locker # "destroyed" =>
        /\ main \in {"locked", "swapped"} => locker = "main"
        /\ http \in {"locked", "copying", "copied"} =>
              locker = "http" \/ main \in {"stopped", "exited"}
        /\ locker = "destroyed" => main \in {"stopped", "exited"}
        /\ http = "copying" => source = lastDiagnsotics

\* Until the swap the main thread remembers what is published.
Remembered ==
    http # "killed" /\ main \in {"calculated", "locked"} =>
        oldDiag = lastDiagnsotics

\* Nothing is published, and nobody served, before the server is opened.
Fresh ==
    main = "starting" => live = {} /\ lastDiagnsotics = NULL /\ http \in {"idle", "killed"}

IInv == TypeOK /\ Accounted /\ Remembered /\ Fresh /\ Excluded

\* The invariant holds at the start.
LEMMA InitIInv == Init => IInv
<1> SUFFICES ASSUME Init PROVE IInv
  OBVIOUS
<1> USE DEF Init
<1>1. TypeOK
  <2>1. main \in MainPlaces /\ http \in HttpPlaces
    BY DEF MainPlaces, HttpPlaces
  <2>2. interrupts \in 0 .. MaxInterrupts
    OBVIOUS
  <2> QED
    BY <2>1, <2>2 DEF TypeOK
<1>2. Accounted
  <2>1. main \notin {"calculated", "locked", "swapped", "unlocked"}
    OBVIOUS
  <2>2. live = {lastDiagnsotics} \ {NULL}
    OBVIOUS
  <2> QED
    BY <2>1, <2>2 DEF Accounted
<1>3. Remembered /\ Fresh /\ Excluded
  BY DEF Remembered, Fresh, Excluded
<1> QED
  BY <1>1, <1>2, <1>3 DEF IInv

\* Both threads keep the types.
LEMMA TypeStep ==
  ASSUME TypeOK, [Next]_vars
  PROVE  TypeOK'
<1> USE DEF TypeOK, MainPlaces, HttpPlaces
<1>1. CASE UNCHANGED vars
  BY <1>1 DEF vars
<1>2. CASE Open \/ Accept \/ AcceptFails \/ CalculateSwaps \/ CalculateFrees
           \/ ClientEnds \/ Exit
  BY <1>2 DEF Open, Accept, AcceptFails, CalculateSwaps, CalculateFrees, ClientEnds,
              Exit, MainMoves
<1>3. CASE Calculate
  BY <1>3 DEF Calculate, MainMoves
<1>4. CASE CalculateLocks \/ CalculateUnlocks
  BY <1>4 DEF CalculateLocks, CalculateUnlocks, MainMoves, Lock, Unlock
<1>5. CASE Stop
  BY <1>5 DEF Stop, MainMoves, Close, Destroy
<1>6. CASE Interrupt
  <2>1. interrupts' \in 0 .. MaxInterrupts
    BY <1>6 DEF Interrupt
  <2>2. /\ listening' \in BOOLEAN
        /\ locker' \in {"free", "main", "http", "destroyed"}
    BY <1>6 DEF Interrupt, Close, Destroy
  <2> QED
    BY <1>6, <2>1, <2>2 DEF Interrupt
<1>7. CASE Request \/ GetLoads \/ GetCopies \/ GetCrashes
  BY <1>7 DEF Request, GetLoads, GetCopies, GetCrashes, HttpMoves
<1>8. CASE GetLocks \/ GetUnlocks
  BY <1>8 DEF GetLocks, GetUnlocks, HttpMoves, Lock, Unlock
<1> QED
  BY <1>1, <1>2, <1>3, <1>4, <1>5, <1>6, <1>7, <1>8 DEF Next, MainStep, HttpStep

\* A buffer taken is not one that is in use; the one freed is the old one.
LEMMA AccountedStep ==
  ASSUME TypeOK, Accounted, Remembered, Fresh, [Next]_vars
  PROVE  Accounted'
<1> USE DEF TypeOK, Accounted
<1>1. CASE UNCHANGED vars
  BY <1>1 DEF vars
<1>2. CASE Accept \/ AcceptFails \/ ClientEnds \/ Exit \/ Stop
  BY <1>2 DEF Accept, AcceptFails, ClientEnds, Exit, Stop, MainMoves
<1>10. CASE Open
  BY <1>10 DEF Open, MainMoves, Fresh
<1>3. CASE Calculate
  BY <1>3 DEF Calculate, MainMoves
<1>4. CASE CalculateLocks
  BY <1>4 DEF CalculateLocks, MainMoves
<1>5. CASE CalculateSwaps
  BY <1>5 DEF CalculateSwaps, MainMoves, Remembered
<1>6. CASE CalculateUnlocks
  BY <1>6 DEF CalculateUnlocks, MainMoves
<1>7. CASE CalculateFrees
  <2>1. ASSUME http # "killed"
        PROVE  /\ live = {lastDiagnsotics, oldDiag} \ {NULL}
               /\ oldDiag # lastDiagnsotics
    BY <1>7, <2>1 DEF CalculateFrees, MainMoves
  <2>2. /\ main' = "serving"
        /\ live' = live \ {oldDiag}
        /\ UNCHANGED <<lastDiagnsotics, http>>
    BY <1>7 DEF CalculateFrees, MainMoves
  <2>3. http' # "killed" => live' = {lastDiagnsotics'} \ {NULL}
    BY <2>1, <2>2
  <2> QED
    BY <2>2, <2>3
<1>8. CASE Interrupt
  BY <1>8 DEF Interrupt
<1>9. CASE Request \/ HttpStep
  BY <1>9 DEF Request, HttpStep, GetLocks, GetLoads, GetCopies, GetCrashes,
              GetUnlocks, HttpMoves
<1> QED
  BY <1>1, <1>2, <1>3, <1>4, <1>5, <1>6, <1>7, <1>8, <1>9, <1>10 DEF Next, MainStep

\* Only the swap makes the two pointers differ.
LEMMA RememberedStep ==
  ASSUME Remembered, [Next]_vars
  PROVE  Remembered'
  BY DEF Remembered, Next, vars, MainStep, HttpStep, Open, Accept, AcceptFails,
         Calculate, CalculateLocks, CalculateSwaps, CalculateUnlocks,
         CalculateFrees, ClientEnds, Stop, Exit, MainMoves, Interrupt, Request,
         GetLocks, GetLoads, GetCopies, GetCrashes, GetUnlocks, HttpMoves

\* The server is opened once, and everything else needs it open.
LEMMA FreshStep ==
  ASSUME Fresh, [Next]_vars
  PROVE  Fresh'
  BY DEF Fresh, Next, vars, MainStep, HttpStep, Open, Accept, AcceptFails,
         Calculate, CalculateLocks, CalculateSwaps, CalculateUnlocks,
         CalculateFrees, ClientEnds, Stop, Exit, MainMoves, Interrupt, Request,
         GetLocks, GetLoads, GetCopies, GetCrashes, GetUnlocks, HttpMoves

\* A thread works on the pointers with the lock only.
LEMMA ExcludedStep ==
  ASSUME TypeOK, Fresh, Excluded, [Next]_vars
  PROVE  Excluded'
<1> USE DEF TypeOK, Excluded
<1>1. CASE UNCHANGED vars
  BY <1>1 DEF vars
<1>2. CASE Accept \/ AcceptFails \/ Calculate \/ ClientEnds \/ Exit
           \/ CalculateFrees
  BY <1>2 DEF Accept, AcceptFails, Calculate, ClientEnds, Exit, CalculateFrees,
              MainMoves
<1>11. CASE Open
  BY <1>11 DEF Open, MainMoves, Fresh
<1>3. CASE CalculateLocks
  BY <1>3 DEF CalculateLocks, MainMoves, Lock
<1>4. CASE CalculateSwaps
  BY <1>4 DEF CalculateSwaps, MainMoves
<1>5. CASE CalculateUnlocks
  BY <1>5 DEF CalculateUnlocks, MainMoves, Unlock
<1>6. CASE Stop
  BY <1>6 DEF Stop, MainMoves, Close, Destroy
<1>7. CASE Interrupt
  BY <1>7 DEF Interrupt, Close, Destroy
<1>8. CASE Request \/ GetLoads \/ GetCopies \/ GetCrashes
  BY <1>8 DEF Request, GetLoads, GetCopies, GetCrashes, HttpMoves
<1>9. CASE GetLocks
  BY <1>9 DEF GetLocks, HttpMoves, Lock
<1>10. CASE GetUnlocks
  BY <1>10 DEF GetUnlocks, HttpMoves, Unlock
<1> QED
  BY <1>1, <1>2, <1>3, <1>4, <1>5, <1>6, <1>7, <1>8, <1>9, <1>10, <1>11
     DEF Next, MainStep, HttpStep

\* The inductive invariant.
THEOREM Invariant == Spec => []IInv
<1>1. IInv /\ [Next]_vars => IInv'
  BY TypeStep, AccountedStep, RememberedStep, FreshStep, ExcludedStep DEF IInv
<1> QED
  BY InitIInv, <1>1, PTL DEF Spec

\* No diagnostics buffer leaks or is freed twice, whatever the reader and any
\* number of SIGINTs do.
THEOREM BuffersAccounted == Spec => []Accounted
<1>1. IInv => Accounted
  BY DEF IInv
<1> QED
  BY <1>1, Invariant, PTL

\* Unless a SIGINT has destroyed the mutex, the HTTP thread never copies a freed
\* buffer.
THEOREM CopiesAreLive == Spec => []CopiesLive
<1>1. IInv => CopiesLive
  BY DEF IInv, TypeOK, Accounted, Excluded, CopiesLive
<1> QED
  BY <1>1, Invariant, PTL
=============================================================================
