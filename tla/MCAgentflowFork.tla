---------------------------- MODULE MCAgentflowFork ----------------------------
(***************************************************************************)
(* A human task on one of two routes that meet again:                      *)
(*                                                                         *)
(*     a --> h --0--> p --> j                                              *)
(*     a --> b -----------> j                                              *)
(***************************************************************************)
EXTENDS Agentflow, TLC

CONSTANTS a, h, p, b, j

NodesVal == {a, h, p, b, j}

KindVal == [n \in NodesVal |-> IF n = h THEN "human" ELSE "step"]

E(s, t, i) == [source |-> s, target |-> t, handle |-> i]

EdgesVal == << E(a, h, 0), E(a, b, 0), E(h, p, 0), E(p, j, 0), E(b, j, 0) >>

InsideVal == [n \in NodesVal |-> NoNode]

LoopToVal == [n \in NodesVal |-> NoNode]

MaxLoopVal == [n \in NodesVal |-> 1]

\* Which request is which does not matter.
Symmetry == Permutations(Requests)
==============================================================================
