--------------------------- MODULE MCAgentflowBlocks ---------------------------
(***************************************************************************)
(* An iteration block i holding a step s and an agent g, then two loops    *)
(* behind one decision:                                                    *)
(*                                                                         *)
(*     a --> i { s --> g } --> w --> d --0--> l1, back to w, at most 2     *)
(*                                   d --1--> l2, back to w, at most 3     *)
(*                                   d --2--> z                            *)
(***************************************************************************)
EXTENDS Agentflow

CONSTANTS a, i, s, g, w, d, l1, l2, z

NodesVal == {a, i, s, g, w, d, l1, l2, z}

KindVal ==
    [n \in NodesVal |->
        CASE n = i -> "iteration"
          [] n = g -> "agent"
          [] n = d -> "decision"
          [] n \in {l1, l2} -> "loop"
          [] OTHER -> "step"]

E(from, to, k) == [source |-> from, target |-> to, handle |-> k]

EdgesVal == << E(a, i, 0), E(s, g, 0), E(i, w, 0), E(w, d, 0),
               E(d, l1, 0), E(d, l2, 1), E(d, z, 2) >>

InsideVal == [n \in NodesVal |-> IF n \in {s, g} THEN i ELSE NoNode]

LoopToVal == [n \in NodesVal |-> IF n \in {l1, l2} THEN w ELSE NoNode]

MaxLoopVal == [n \in NodesVal |-> CASE n = l1 -> 2 [] n = l2 -> 3 [] OTHER -> 1]
==============================================================================
