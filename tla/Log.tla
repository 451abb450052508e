--------------------------------- MODULE Log ---------------------------------
(***************************************************************************)
(* The arrays of the agentflow engine, as it uses them: values are pushed  *)
(* at the end, read at either end, and removed by a filter.  A log keeps   *)
(* its values as a set of stamped items: the stamp orders them, and a      *)
(* removal leaves a gap instead of renumbering the rest.                   *)
(***************************************************************************)
EXTENDS Naturals

Items(V) == [at : Nat, val : V]

Logs(V) == [next : Nat, items : SUBSET Items(V)]

EmptyLog == [next |-> 0, items |-> {}]

Push(log, v) ==
    [next |-> log.next + 1,
     items |-> log.items \cup {[at |-> log.next, val |-> v]}]

Without(log, gone) == [log EXCEPT !.items = @ \ gone]

IsFirst(log, x) == x \in log.items /\ \A y \in log.items : x.at <= y.at

IsLast(log, x) == x \in log.items /\ \A y \in log.items : y.at <= x.at

\* Stamps name positions: all are below next and no two items share one.
IsLog(log) ==
    /\ \A x \in log.items : x.at < log.next
    /\ \A x, y \in log.items : x.at = y.at => x = y
==============================================================================
