------------------------------ MODULE Supervisor ------------------------------
(***************************************************************************)
(* dockerlog.Supervisor: the owner of the goroutine that streams one       *)
(* container's log.  Its methods may be called by any client at any time,  *)
(* in any order; each critical section of s.mu is one atomic step.         *)
(*                                                                         *)
(* A cycle is what one effective Start creates: a context, a done channel  *)
(* and a streaming goroutine.  Cycles are numbered in the order of their   *)
(* creation, so that logDone = k says which cycle's channel the field      *)
(* holds, as the pointer comparison of clearCycleState does, and 0 is nil. *)
(* The fields logger and effectiveStopWait are set and cleared together    *)
(* with logDone and carry nothing else.                                    *)
(***************************************************************************)
EXTENDS Naturals

CONSTANTS
    Client,      \* goroutines that may be inside Wait
    MaxCycles    \* bound: how many cycles the clients start

ASSUME MaxCyclesAssumption == MaxCycles \in Nat

Cycle == 1 .. MaxCycles

VARIABLES
    cycles,      \* how many cycles were started
    logDone,     \* s.logDone: the cycle whose channel it holds, or 0
    logStop,     \* s.logStop: the cycle whose context it cancels, or 0
    cancelled,   \* the cycles whose context is cancelled
    stream,      \* stream[k]: where the goroutine of cycle k is
    terminated,  \* the cycles whose container is gone
    waiting,     \* waiting[c]: the cycle whose channel c's Wait holds, or 0
    watchdogs    \* the cycles some Wait gave up on: one watchdog stands for
                 \* all of a cycle, since only the first can find it current

vars == <<cycles, logDone, logStop, cancelled, stream, terminated, waiting, watchdogs>>

\* The channel of cycle k is closed: its goroutine has returned.
Done(k) == stream[k] = "exited"

Init ==
    /\ cycles = 0
    /\ logDone = 0
    /\ logStop = 0
    /\ cancelled = {}
    /\ stream = [k \in Cycle |-> "unborn"]
    /\ terminated = {}
    /\ waiting = [c \in Client |-> 0]
    /\ watchdogs = {}

-----------------------------------------------------------------------------
\* The context s.logStop cancels, if it is not nil.
CancelHeld == IF logStop = 0 THEN cancelled ELSE cancelled \cup {logStop}

\* Mutants of the two ways Start deals with the cycle before it.
ReusableAlways == TRUE
KeepPrevious   == cancelled

Reusable == logDone # 0 => Done(logDone)
ReleasePrevious == IF logDone = 0 THEN cancelled ELSE CancelHeld

\* Start is refused, silently, while the goroutine of the last cycle lives.
Start ==
    /\ Reusable
    /\ cycles < MaxCycles
    /\ cycles' = cycles + 1
    /\ logDone' = cycles'
    /\ logStop' = cycles'
    /\ cancelled' = ReleasePrevious
    /\ stream' = [stream EXCEPT ![cycles'] = "opening"]
    /\ UNCHANGED <<terminated, waiting, watchdogs>>

Cancel ==
    /\ logStop # 0
    /\ cancelled' = CancelHeld
    /\ logStop' = 0
    /\ UNCHANGED <<cycles, logDone, stream, terminated, waiting, watchdogs>>

\* Wait takes the channel under the lock; with none it just returns.
BeginWait(c) ==
    /\ waiting[c] = 0
    /\ logDone # 0
    /\ waiting' = [waiting EXCEPT ![c] = logDone]
    /\ UNCHANGED <<cycles, logDone, logStop, cancelled, stream, terminated, watchdogs>>

\* Mutant: no identity check.
ClearAnyCycle(k) ==
    /\ cancelled' = CancelHeld
    /\ logStop' = 0
    /\ logDone' = 0

\* clearCycleState(k): only the cycle that still owns the fields clears them.
ClearCycleState(k) ==
    IF logDone = k
    THEN /\ cancelled' = CancelHeld
         /\ logStop' = 0
         /\ logDone' = 0
    ELSE UNCHANGED <<logDone, logStop, cancelled>>

\* Wait sees the channel closed.
WaitDrained(c) ==
    /\ waiting[c] # 0
    /\ Done(waiting[c])
    /\ ClearCycleState(waiting[c])
    /\ waiting' = [waiting EXCEPT ![c] = 0]
    /\ UNCHANGED <<cycles, stream, terminated, watchdogs>>

\* StopWait elapses first; a watchdog takes over.
WaitTimesOut(c) ==
    /\ waiting[c] # 0
    /\ watchdogs' = watchdogs \cup {waiting[c]}
    /\ waiting' = [waiting EXCEPT ![c] = 0]
    /\ UNCHANGED <<cycles, logDone, logStop, cancelled, stream, terminated>>

Watchdog(k) ==
    /\ k \in watchdogs
    /\ Done(k)
    /\ ClearCycleState(k)
    /\ watchdogs' = watchdogs \ {k}
    /\ UNCHANGED <<cycles, stream, terminated, waiting>>

-----------------------------------------------------------------------------
\* The streaming goroutine (stream and streamFrom).

StreamStep(k, from, to) ==
    /\ stream[k] = from
    /\ stream' = [stream EXCEPT ![k] = to]
    /\ UNCHANGED <<cycles, logDone, logStop, cancelled, terminated, waiting, watchdogs>>

\* Mutant: the reopened stream does not know it was cancelled.
OpenAnyway(k) == StreamStep(k, "opening", "reading")

\* The Docker client refuses a request whose context is already cancelled.
OpenSucceeds(k) == k \notin cancelled /\ StreamStep(k, "opening", "reading")

\* No opener, or ContainerLogs fails: with or without a warning, it returns.
OpenFails(k) == StreamStep(k, "opening", "exited")

\* The copy fails: as above.
ReadFails(k) == StreamStep(k, "reading", "exited")

\* The daemon closes the stream cleanly, for a container that is gone or not.
ReadEOF(k) == StreamStep(k, "reading", "pausing")

\* The pause ends; where both are ready, select takes either branch.
PauseElapses(k)   == StreamStep(k, "pausing", "opening")
PauseCancelled(k) == k \in cancelled /\ StreamStep(k, "pausing", "exited")

\* The container of cycle k goes away, by Terminate or by itself.
Terminate(k) ==
    /\ k <= cycles
    /\ k \notin terminated
    /\ terminated' = terminated \cup {k}
    /\ UNCHANGED <<cycles, logDone, logStop, cancelled, stream, waiting, watchdogs>>

Goroutine(k) ==
    \/ OpenSucceeds(k)
    \/ OpenFails(k)
    \/ ReadFails(k)
    \/ ReadEOF(k)
    \/ PauseElapses(k)
    \/ PauseCancelled(k)

Next ==
    \/ Start
    \/ Cancel
    \/ \E c \in Client : BeginWait(c) \/ WaitDrained(c) \/ WaitTimesOut(c)
    \/ \E k \in Cycle : Goroutine(k) \/ Watchdog(k) \/ Terminate(k)

Spec == Init /\ [][Next]_vars

\* Open requests return and pauses end; a read is only sure to end once the
\* container is gone.  Timers fire and watchdogs are scheduled.  No client
\* is obliged to call anything.
Fairness ==
    /\ \A k \in Cycle :
        /\ WF_vars(OpenSucceeds(k) \/ OpenFails(k))
        /\ WF_vars(k \in terminated /\ (ReadFails(k) \/ ReadEOF(k)))
        /\ WF_vars(PauseElapses(k) \/ PauseCancelled(k))
        /\ WF_vars(Watchdog(k))
    /\ \A c \in Client : WF_vars(WaitDrained(c) \/ WaitTimesOut(c))

FairSpec == Spec /\ Fairness

-----------------------------------------------------------------------------
\* Properties.

\* Every variable has its type.
TypeOK ==
    /\ cycles \in 0 .. MaxCycles
    /\ logDone \in 0 .. MaxCycles
    /\ logStop \in 0 .. MaxCycles
    /\ cancelled \subseteq Cycle
    /\ stream \in [Cycle -> {"unborn", "opening", "reading", "pausing", "exited"}]
    /\ terminated \subseteq Cycle
    /\ waiting \in [Client -> 0 .. MaxCycles]
    /\ watchdogs \subseteq Cycle

Live(k) == stream[k] \in {"opening", "reading", "pausing"}

\* However Start, Cancel, Wait and the watchdogs of several cycles overlap,
\* two streaming goroutines never live at once.
AtMostOneLive == \A j, k \in Cycle : Live(j) /\ Live(k) => j = k

\* No goroutine is out of reach: while it lives, the supervisor holds its
\* channel and, until it has been cancelled, its cancel function.
NoOrphan ==
    \A k \in Cycle :
        Live(k) => logDone = k /\ (k \in cancelled \/ logStop = k)

\* No context outlives its cycle: whatever cycle the fields have moved on
\* from had its context cancelled, even if no client ever called Cancel.
NoContextLeak ==
    \A k \in 1 .. cycles : logDone # k => k \in cancelled

\* A late Wait or watchdog never takes the fields from a cycle that lives:
\* a channel is let go of only once it is closed.
ClearedAfterExit ==
    [][logDone # 0 /\ logDone' # logDone => Done(logDone)]_vars

\* Cancel and Terminate, in whatever order, end the goroutine.
DrainsAfterTerminate ==
    \A k \in Cycle : k \in cancelled \cap terminated ~> Done(k)
=============================================================================
