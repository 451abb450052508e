--------------------------- MODULE MCAgentflowJoin ---------------------------
(***************************************************************************)
(* Forks, decisions and joins:                                             *)
(*                                                                         *)
(*     a --> b -----------> j                                              *)
(*     a --> d --0--> x --> j                                              *)
(*           d --1--> y --> j                                              *)
(*     a ----------> m                                                     *)
(*     b ----------> m                                                     *)
(*                                                                         *)
(* j waits for b and for one of x, y; m waits for a and b.                 *)
(***************************************************************************)
EXTENDS Agentflow

CONSTANTS a, b, d, x, y, j, m

NodesVal == {a, b, d, x, y, j, m}

KindVal == [n \in NodesVal |-> IF n = d THEN "decision" ELSE "step"]

E(s, t, h) == [source |-> s, target |-> t, handle |-> h]

EdgesVal == << E(a, d, 0), E(a, b, 0), E(d, x, 0), E(d, y, 1),
               E(b, j, 0), E(x, j, 0), E(y, j, 0), E(a, m, 0), E(b, m, 0) >>

InsideVal == [n \in NodesVal |-> NoNode]

LoopToVal == [n \in NodesVal |-> NoNode]

MaxLoopVal == [n \in NodesVal |-> 1]
==============================================================================
