------------------------------ MODULE FlowGraph ------------------------------
(***************************************************************************)
(* An agentflow as its canvas stores it, and what the engine derives from  *)
(* it before and while it runs: the starting nodes, the inputs a node      *)
(* waits for, and the children a decision leaves out.                      *)
(*                                                                         *)
(* Edges is a sequence because the code asks for the FIRST edge that       *)
(* matches: when it looks for the condition above a node, and when it      *)
(* drops the branch of a condition that was not fulfilled.                 *)
(***************************************************************************)
EXTENDS Integers, Sequences, FiniteSets

CONSTANTS
    Nodes,      \* the nodes of the canvas
    NoNode,     \* absence of a node
    Kind,       \* [Nodes -> Kinds]
    Edges,      \* sequence of [source, target, handle]
    Inside,     \* the iteration block a node lies in, or NoNode
    LoopTo,     \* the node a loop node goes back to, or NoNode
    MaxLoop     \* a loop node's "Max Loop Count"

(* "decision" stands for conditionAgentflow and conditionAgentAgentflow,   *)
(* "step" for every node that only computes (Start, LLM, Tool, HTTP, ...). *)
Kinds == {"step", "decision", "human", "agent", "loop", "iteration"}

Edge == [source : Nodes, target : Nodes, handle : Nat]

ASSUME FlowAssumption ==
    /\ IsFiniteSet(Nodes) /\ NoNode \notin Nodes
    /\ Kind \in [Nodes -> Kinds]
    /\ Edges \in Seq(Edge)
    /\ Inside \in [Nodes -> Nodes \cup {NoNode}]
    /\ LoopTo \in [Nodes -> Nodes \cup {NoNode}]
    /\ MaxLoop \in [Nodes -> Nat \ {0}]

InEdges == [n \in Nodes |-> {i \in DOMAIN Edges : Edges[i].target = n}]

OutEdges == [n \in Nodes |-> {i \in DOMAIN Edges : Edges[i].source = n}]

Sources == [n \in Nodes |-> {Edges[i].source : i \in InEdges[n]}]

\* The routes out of a node: one per output handle that has an edge.
Handles == [n \in Nodes |-> {Edges[i].handle : i \in OutEdges[n]}]

Earliest(S) == CHOOSE i \in S : \A j \in S : i <= j

IsDecision(n) == Kind[n] \in {"decision", "human"}

Children(n) == {c \in Nodes : Inside[c] = n}

(* The only node without an incoming edge on the canvas itself.  A flow    *)
(* with more than one is refused before anything is recorded.              *)
StartNodes == {n \in Nodes : InEdges[n] = {} /\ Inside[n] = NoNode}

ASSUME StartAssumption == \E n \in Nodes : StartNodes = {n}

Start == CHOOSE n \in StartNodes : TRUE

(***************************************************************************)
(* Which inputs a node waits for                                           *)
(***************************************************************************)
\* The walk of findConditionParent: up the first incoming edge, k times.
Ancestor(n) ==
    LET up[k \in 0 .. Cardinality(Nodes)] ==
            IF k = 0 THEN n
            ELSE IF up[k - 1] = NoNode THEN NoNode
            ELSE IF InEdges[up[k - 1]] = {} THEN NoNode
            ELSE Edges[Earliest(InEdges[up[k - 1]])].source
    IN  up

\* The nearest decision on that walk, the node itself included.
ConditionParent ==
    [n \in Nodes |->
        LET up   == Ancestor(n)
            hits == {k \in DOMAIN up : up[k] # NoNode /\ IsDecision(up[k])}
        IN  IF hits = {} THEN NoNode ELSE up[Earliest(hits)]]

ExpectedInputs ==
    [n \in Nodes |-> {s \in Sources[n] : ConditionParent[s] = NoNode}]

ConditionalGroups ==
    [n \in Nodes |->
        {{s \in Sources[n] : ConditionParent[s] = d} :
            d \in {ConditionParent[s] : s \in Sources[n]} \ {NoNode}}]

\* Mutants: the required inputs are not tested; one input of any kind will do;
\* every input is waited for, those of a branch not taken included.
GroupsOnly(n, received) ==
    \A group \in ConditionalGroups[n] : group \cap received # {}

AnyInput(n, received) == received # {}

EveryInput(n, received) == Sources[n] \subseteq received

HasRequiredInputs(n, received) ==
    /\ ExpectedInputs[n] \subseteq received
    /\ \A group \in ConditionalGroups[n] : group \cap received # {}

(***************************************************************************)
(* Which children a decision leaves out                                    *)
(*                                                                         *)
(* Of every handle that is not the branch taken, the target of the first   *)
(* edge.  A node that returns no conditions leaves out nothing.            *)
(***************************************************************************)
NoBranch == -1

(* What a decision may answer: human input proceeds or rejects, a condition *)
(* takes any of its outputs, one that nothing is connected to included.     *)
Branches ==
    [n \in Nodes |->
        CASE Kind[n] = "human"    -> {0, 1}
          [] Kind[n] = "decision" -> Handles[n] \cup 0 .. Cardinality(Handles[n])
          [] OTHER                -> {}]

\* Mutant: the branch that was taken is the one left out.
IgnoresFulfilled(n, branch) ==
    IF ~IsDecision(n) \/ branch = NoBranch
    THEN {}
    ELSE {Edges[i].target : i \in {j \in OutEdges[n] : Edges[j].handle = branch}}

NodesToIgnore(n, branch) ==
    IF ~IsDecision(n) \/ branch = NoBranch
    THEN {}
    ELSE {Edges[Earliest({i \in OutEdges[n] : Edges[i].handle = h})].target :
            h \in Handles[n] \ {branch}}

\* The edges of n along which its result is handed on, in canvas order.
Delivered(n, branch) ==
    LET ignored == NodesToIgnore(n, branch)
    IN  {i \in OutEdges[n] : Edges[i].target \notin ignored}
==============================================================================
