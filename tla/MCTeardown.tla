----------------------------- MODULE MCTeardown -----------------------------
(***************************************************************************)
(* An instance of Teardown for TLC: a stage of two containers, a third one *)
(* on top of them, and a track beside them with a service that runs none.  *)
(***************************************************************************)
EXTENDS Teardown, TLC

CONSTANTS pg, mock, dep, custom, track_1, track_2

MCService   == {pg, mock, dep, custom}
MCTrack     == {track_1, track_2}
MCTrackOf   == (custom :> track_2) @@ [s \in {pg, mock, dep} |-> track_1]
MCStageOf   == (dep :> 2) @@ [s \in {pg, mock, custom} |-> 1]
MCHeight    == (track_1 :> 2) @@ (track_2 :> 1)
MCContainer == {pg, mock, dep}
=============================================================================
