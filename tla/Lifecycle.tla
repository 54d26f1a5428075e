------------------------------ MODULE Lifecycle ------------------------------
(***************************************************************************)
(* What an Env promises to the test that owns it, without saying how.      *)
(*                                                                         *)
(* The environment is idle, starting, running or stopping, and each        *)
(* service is up or down.  A service comes up only on top of every service *)
(* of the earlier stages of its track; the environment is running only     *)
(* when every service is up; services go down in reverse stage order; and  *)
(* the environment is idle again only once nothing is left up.             *)
(*                                                                         *)
(* Module Env, read from env.go, is shown to implement this one.           *)
(***************************************************************************)
EXTENDS Naturals

CONSTANTS
    Service,    \* the services registered with the environment
    TrackOf,    \* the track a service belongs to
    StageOf     \* its stage within that track, numbered from 1

VARIABLES
    phase,      \* "idle", "starting", "running" or "stopping"
    up          \* the services that are up

vars == <<phase, up>>

\* The services of the earlier, respectively later, stages of s's own track.
Earlier(s) == {p \in Service : TrackOf[p] = TrackOf[s] /\ StageOf[p] < StageOf[s]}
Later(s)   == {p \in Service : TrackOf[p] = TrackOf[s] /\ StageOf[p] > StageOf[s]}

Init ==
    /\ phase = "idle"
    /\ up = {}

-----------------------------------------------------------------------------
Begin ==
    /\ phase = "idle"
    /\ phase' = "starting"
    /\ UNCHANGED up

BringUp(s) ==
    /\ phase = "starting"
    /\ s \notin up
    /\ Earlier(s) \subseteq up
    /\ up' = up \cup {s}
    /\ UNCHANGED phase

Ready ==
    /\ phase = "starting"
    /\ up = Service
    /\ phase' = "running"
    /\ UNCHANGED up

\* A stop, or the rollback of a start that failed.
TearDown ==
    /\ phase \in {"starting", "running"}
    /\ phase' = "stopping"
    /\ UNCHANGED up

TakeDown(s) ==
    /\ phase = "stopping"
    /\ s \in up
    /\ Later(s) \cap up = {}
    /\ up' = up \ {s}
    /\ UNCHANGED phase

Done ==
    /\ phase = "stopping"
    /\ up = {}
    /\ phase' = "idle"
    /\ UNCHANGED up

Next ==
    \/ Begin
    \/ \E s \in Service : BringUp(s)
    \/ Ready
    \/ TearDown
    \/ \E s \in Service : TakeDown(s)
    \/ Done

Spec == Init /\ [][Next]_vars

\* A teardown that began is carried through.
FairSpec ==
    /\ Spec
    /\ WF_vars(\E s \in Service : TakeDown(s))
    /\ WF_vars(Done)

-----------------------------------------------------------------------------
\* Properties.

\* What the owner of an env may rely on: nothing is up while it is idle,
\* everything is while it runs, and at any time a service stands on every
\* service of the earlier stages of its track.
Promise ==
    /\ up \subseteq Service
    /\ phase = "idle" => up = {}
    /\ phase = "running" => up = Service
    /\ \A s \in up : Earlier(s) \subseteq up
=============================================================================
