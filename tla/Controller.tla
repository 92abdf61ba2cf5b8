----------------------------- MODULE Controller -----------------------------
(***************************************************************************)
(* The life of one channel under the lock the controller really has: the   *)
(* setups and teardowns of Channels.tla poll for the entry of              *)
(* LocalCache.tla, whose leases run out by the clock.  BusinessLogic.ts    *)
(* calls lock() before, and unlock() after, what Channels describes.       *)
(*                                                                         *)
(* A poll that is granted and the code behind the await of lock() are one  *)
(* step: only resolved promises lie between them, no timer and no request. *)
(***************************************************************************)
EXTENDS Integers

CONSTANTS Setups, Teardowns,   \* requests of each kind that can be waiting
                               \* or in progress together
          NoEntry, LockTimeout, LockInterval, MaxTries,     \* see LocalCache
          None, Variants, Inputs, Profile,               \* see ChannelOutput
          Requests, Loops, MaxObjects, MaxCalls, Reporting, \* see Channels
          MaxPolls

VARIABLES entry, pc, tries, delay, setter, held, broken,
          setups, current, channel, pending, loops, stopper, backend, hazards

cacheVars == <<entry, pc, tries, delay, setter, held, broken>>
channelVars == <<setups, current, channel, pending, loops, stopper, backend,
                 hazards>>
vars == <<cacheVars, channelVars>>

cache == INSTANCE LocalCache WITH Callers <- Setups \cup Teardowns

\* The lock as Channels sees it; that a lease runs out is up to the clock.
life == INSTANCE Channels WITH owners <- cache!Holders, BreakIns <- TRUE

ASSUME ControllerAssumption ==
    /\ LockTimeout \in Nat
    /\ LockInterval \in Nat
    /\ MaxTries \in Nat \ {0}
    /\ NoEntry \notin Nat
    /\ NoEntry \notin Setups \cup Teardowns
    /\ None \notin Inputs \cup Nat
    /\ Profile \in life!ProfileType
    /\ Requests \subseteq life!RequestType
    /\ MaxObjects \in Nat \ {0}
    /\ MaxCalls \in Nat \ {0}
    /\ MaxPolls \in Nat \ {0}
    /\ Reporting \in BOOLEAN

Init ==
    /\ cache!Init
    /\ setups = [s \in Setups |-> life!NoSetup]
    /\ current = None
    /\ channel = [o \in life!Objects |-> life!NewChannel]
    /\ pending = FALSE
    /\ loops = [l \in Loops |-> life!NoLoop]
    /\ stopper = life!NoStop
    /\ backend = [status |-> "Stopped", by |-> None]
    /\ hazards = {}
-----------------------------------------------------------------------------
\* A caller that gets in although there is an entry has robbed its writer.
Remembered ==
    hazards' = IF entry = NoEntry THEN hazards ELSE hazards \cup {"brokeIn"}

\* The lock() of a setup returns; it goes on to its first await.
SetupBegins(s, req) ==
    /\ cache!Take(s) \/ cache!Override(s)
    /\ life!SetupOpens(s, req)
    /\ Remembered

\* Mutant of SetupEnds: unlock() is not in the finally.
SetupEndsLocked(s) ==
    \/ life!PackagerReady(s) /\ cache!Unlock(s)
    \/ life!SetupThrows(s) /\ UNCHANGED cacheVars

\* The finally of setup.
SetupEnds(s) ==
    /\ life!PackagerReady(s) \/ life!SetupThrows(s)
    /\ cache!Unlock(s)

\* The lock() of a teardown returns; it runs through its unlock().
Teardown(t, req) ==
    /\ cache!Pass(t)
    /\ life!TracksRemoved(req.input, req.type)
    /\ Remembered

\* A request comes, a poll of it fails, time passes.
Waits ==
    /\ \/ cache!Tick
       \/ \E c \in Setups \cup Teardowns : cache!Lock(c) \/ cache!Retry(c)
    /\ UNCHANGED channelVars

\* What runs without the lock, or between two awaits of a setup that has it.
Proceeds ==
    /\ UNCHANGED cacheVars
    /\ \/ life!Authenticate
       \/ \E s \in Setups : life!MetadataArrives(s)
       \/ \E l \in Loops : life!Poll(l)
       \/ life!StopFires
       \/ \E o \in life!Objects, ok \in BOOLEAN : life!BackendReplies(o, ok)

Next ==
    \/ Waits
    \/ Proceeds
    \/ \E s \in Setups : \/ \E req \in Requests : SetupBegins(s, req)
                         \/ SetupEnds(s)
    \/ \E t \in Teardowns, req \in Requests : Teardown(t, req)

Spec == Init /\ [][Next]_vars
-----------------------------------------------------------------------------
\* The variables of the lock and of the channel have their types.
TypeOK == cache!TypeOK /\ life!TypeOK

\* With its real lock the controller does only what Channels says it does under
\* the abstract one: whichever caller robs another, deletes its entry or gives up
\* polling, a request meets another inside only by what Channels counts as a
\* break-in, so everything stated of Channels holds here.
ImplementsChannels == life!Spec

\* The grace timer never takes a playable channel off the air, nor one that is
\* being started, whatever setups that outstay their lease, teardowns and answers
\* of the packager come in between.
StopSparesPlayable == life!StopSparesPlayable

\* A channel whose start is pending is polled for, until a loop has given up:
\* setups and teardowns that rob each other do not leave the id pending alone.
PendingIsPolled == life!PendingIsPolled

\* A channel whose start is pending has something to play, unless a caller broke
\* in or the grace timer removed the channel while it was in use: no teardown gets
\* the lock between a setup's outputs and its start in any other way.
PendingHasOutputs == life!PendingHasOutputs

\* Only the object the id has is playable, unless the grace timer, which takes no
\* lock, removed a channel that a setup or a poll was using.
PlayableIsCurrent == life!PlayableIsCurrent

\* A channel left without inputs waits out its grace period, or its id has the
\* entry of an earlier, fired timer, unless a caller broke in.
EmptiedIsTimed == life!EmptiedIsTimed
=============================================================================
