----------------------------- MODULE MCScheduler -----------------------------
(***************************************************************************)
(* Small instances of Scheduler for TLC.                                   *)
(***************************************************************************)
EXTENDS Scheduler, TLC

CONSTANTS live, smoke, other, j1, j2, c1, c2

\* A live run of two jobs, of which one has two cases, against a smoke run of
\* one episode.
TwoRuns == {live, smoke}
LiveAndSmoke ==
  live :> {<<j1, c1>>, <<j1, c2>>, <<j2, c1>>} @@
  smoke :> {<<j1, c1>>}

\* Three requests for two places.
ThreeRuns == {live, smoke, other}
OneEpisodeEach == [r \in ThreeRuns |-> {<<j1, c1>>}]

=============================================================================
