----------------------------- MODULE MCScheduler -----------------------------
(***************************************************************************)
(* Two expressions on a clock of three ticks, and one or two flows.        *)
(***************************************************************************)
EXTENDS Scheduler

CONSTANTS often, rarely

CronsVal == {often, rarely}

SlotsVal == [c \in CronsVal |-> IF c = often THEN {0, 2} ELSE {1}]

EndsVal == {Never, 1}
==============================================================================
