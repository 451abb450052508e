-------------------------- MODULE ExecutionLifecycle --------------------------
(***************************************************************************)
(* What the execution table promises the people who look at it: the life   *)
(* of the executions of one session, as states only.                       *)
(*                                                                         *)
(* An execution is started, ends in one of four states, and only one that  *)
(* waits for a human, or failed after a human had answered, runs again,    *)
(* and only while no later one exists.  FINISHED and TERMINATED are final. *)
(* A change is due before it is made: a crash may lose it, and a deletion  *)
(* in between is undone by it; nothing else brings an execution back.      *)
(***************************************************************************)
EXTENDS Naturals

CONSTANT MaxRecords     \* bound: executions of the session

VARIABLES
    state,      \* [1 .. MaxRecords -> States], by order of creation
    due         \* the state each of them is about to be given, or Nothing

vars == <<state, due>>

Ids == 1 .. MaxRecords

Ended == {"FINISHED", "STOPPED", "ERROR", "TERMINATED"}

Nothing == "nothing"

Init ==
    /\ state = [e \in Ids |-> "ABSENT"]
    /\ due = [e \in Ids |-> Nothing]

NoneAfter(e) == \A f \in Ids : f > e => state[f] = "ABSENT"

Idle(e) == due[e] = Nothing

Create(e) ==
    /\ state[e] = "ABSENT" /\ Idle(e) /\ NoneAfter(e)
    /\ state' = [state EXCEPT ![e] = "INPROGRESS"]
    /\ UNCHANGED due

Resume(e) ==
    /\ state[e] \in {"STOPPED", "ERROR"} /\ Idle(e) /\ NoneAfter(e)
    /\ due' = [due EXCEPT ![e] = "INPROGRESS"]
    /\ UNCHANGED state

\* The end of an execution, or a note of how far it has come.
Proceed(e) ==
    /\ state[e] = "INPROGRESS" /\ Idle(e)
    /\ \E s \in Ended \cup {"INPROGRESS"} : due' = [due EXCEPT ![e] = s]
    /\ UNCHANGED state

Write(e) ==
    /\ ~Idle(e)
    /\ state' = [state EXCEPT ![e] = due[e]]
    /\ due' = [due EXCEPT ![e] = Nothing]

Lose(e) ==
    /\ ~Idle(e)
    /\ due' = [due EXCEPT ![e] = Nothing]
    /\ UNCHANGED state

Delete(e) ==
    /\ state[e] # "ABSENT"
    /\ state' = [state EXCEPT ![e] = "ABSENT"]
    /\ UNCHANGED due

Next ==
    \E e \in Ids : Create(e) \/ Resume(e) \/ Proceed(e) \/ Write(e) \/ Lose(e) \/ Delete(e)

Spec == Init /\ [][Next]_vars
==============================================================================
