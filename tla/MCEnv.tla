-------------------------------- MODULE MCEnv --------------------------------
(***************************************************************************)
(* Instances of Env for TLC: a track of two stages, the first of them with *)
(* two services, beside a track of one stage.  svc_b and svc_d publish the *)
(* same key, which the code lets the later writer win.                     *)
(***************************************************************************)
EXTENDS Env, TLC

CONSTANTS svc_a, svc_b, svc_c, svc_d, track_1, track_2, key_1, key_2, key_3

MCService == {svc_a, svc_b, svc_c, svc_d}
MCTrack   == {track_1, track_2}
MCTrackOf == (svc_d :> track_2) @@ [s \in {svc_a, svc_b, svc_c} |-> track_1]
MCStageOf == (svc_c :> 2) @@ [s \in {svc_a, svc_b, svc_d} |-> 1]
MCNameOf  == [s \in MCService |-> s]
MCKey     == {key_1, key_2, key_3}
MCPublishes ==
    (svc_a :> {key_1}) @@ (svc_b :> {key_1, key_2}) @@ (svc_c :> {key_3})
        @@ (svc_d :> {key_2})

\* The services whose Start may wait for the end of its context.
MCBlocking == {svc_b, svc_d}

\* One track of two stages, for the runs whose calls overlap.
SmallService   == {svc_a, svc_c}
SmallTrack     == {track_1}
SmallTrackOf   == [s \in SmallService |-> track_1]
SmallStageOf   == [s \in SmallService |-> MCStageOf[s]]
SmallPublishes == [s \in SmallService |-> {key_1}]
SmallNameOf    == [s \in SmallService |-> s]
SmallKey       == {key_1}
=============================================================================
