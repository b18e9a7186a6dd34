------------------------------ MODULE MCRunner ------------------------------
(***************************************************************************)
(* Small instances of Runner for TLC.                                      *)
(***************************************************************************)
EXTENDS Runner

Limits(requests, usd, retries, concurrency) ==
  [maxRequests |-> requests, maxUsd |-> usd, maxRetries |-> retries,
   maxConcurrency |-> concurrency]

\* Two specs that differ in every limit, of which the first launched must
\* stay.  Two workers race for the last of four requests; the cost of one case
\* of three reaches max_usd; the rival spec allows fewer requests, no retry.
RivalSpecs == {Limits(4, 1, 1, 2), Limits(2, 3, 0, 1)}

\* One spec that can run out and one with requests and money for everything.
TightAndAmpleSpecs == {Limits(3, 2, 1, 2), Limits(4, 3, 1, 2)}

\* One future at a time and one paid unit: only retries can exceed it.
FrugalSpecs == {Limits(3, 1, 2, 1)}

EveryFault       == {FaultKinds}
EveryOrNoneFatal == {FaultKinds, RequestFaults}
OnlyJudgeFails   == {{"judge"}}

=============================================================================
