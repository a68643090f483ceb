----------------------------- MODULE MCAgentLoop -----------------------------
(***************************************************************************)
(* An instance of AgentLoop for TLC: a model that takes forty kibi, old    *)
(* talk that may fill its share, reads of a third of it that can be done   *)
(* again, and a failing call of each of two kinds that cannot.             *)
(***************************************************************************)
EXTENDS AgentLoop

Talk == {<<>>, <<8, 8>>}

Read == [trace |-> "read", ok |-> TRUE, size |-> 12, replayable |-> TRUE]
Propose == [trace |-> "propose", ok |-> FALSE, size |-> 2, replayable |-> FALSE]
Revise == [trace |-> "revise", ok |-> FALSE, size |-> 2, replayable |-> FALSE]
ToolResults == {Read, Propose, Revise}
=============================================================================
