------------------------------ MODULE MCMoney ------------------------------
(***************************************************************************)
(* An episode of an Anthropic Messages harness whose agent sends up to     *)
(* three requests, of which the budget carries two; and an episode with    *)
(* one request that ended before.                                          *)
(***************************************************************************)
EXTENDS Money

Ask == [model |-> "m", effort |-> "high", context |-> FALSE, image |-> FALSE,
        tools |-> {"function", "named"}, output |-> Absent, bytes |-> 10,
        bytesWithoutTools |-> 5, system |-> "text_blocks"]

MCBody == [r \in Requests |->
  CASE r = "r1" -> Ask
    [] r = "r2" -> [Ask EXCEPT !.output = 5]
    [] r = "r3" -> Ask]

MCConfig == [model |-> "m", lyra |-> TRUE, path |-> "/v1/messages",
  effort |-> "high", allowTools |-> TRUE, maxOutput |-> 10,
  inputRate |-> 1, outputRate |-> 2, budget |-> 70000]

MCCharge  == [q \in Receipts |-> CASE q = "r1" -> 1 [] q = "r2" -> 2 [] OTHER -> 4]
MCEarlier == [e \in Episodes \ {Tested} |-> {"q1"}]
=============================================================================
