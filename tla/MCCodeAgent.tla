---------------------------- MODULE MCCodeAgent ----------------------------
(* Instances of CodeAgent for TLC: one or two calls of each kind, and the  *)
(* limits scaled down so that each of them is reached within the budget.   *)
EXTENDS CodeAgent, TLC

CONSTANTS edit1, exec1, start1, poll1, look1, ev1

OneEdit == {edit1}
OneExec == {exec1}
OneStart == {start1}
OnePoll == {poll1}
OneLook == {look1}
GatedThree == {edit1, exec1, start1}
OneEvidence == {ev1}
=============================================================================
