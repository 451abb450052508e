--------------------------- MODULE MCAgentflowHuman ---------------------------
(***************************************************************************)
(* A human task, and an agent that may ask for approval:                   *)
(*                                                                         *)
(*     a --> h --0--> p                                                    *)
(*           h --1--> g                                                    *)
(***************************************************************************)
EXTENDS Agentflow, TLC

CONSTANTS a, h, p, g

NodesVal == {a, h, p, g}

KindVal ==
    [n \in NodesVal |-> CASE n = h -> "human" [] n = g -> "agent" [] OTHER -> "step"]

E(s, t, i) == [source |-> s, target |-> t, handle |-> i]

EdgesVal == << E(a, h, 0), E(h, p, 0), E(h, g, 1) >>

InsideVal == [n \in NodesVal |-> NoNode]

LoopToVal == [n \in NodesVal |-> NoNode]

MaxLoopVal == [n \in NodesVal |-> 1]
\* Which request is which does not matter.
Symmetry == Permutations(Requests)
==============================================================================
