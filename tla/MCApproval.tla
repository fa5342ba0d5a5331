----------------------------- MODULE MCApproval -----------------------------
(* An instance of Approval for TLC: three racing answers to one approval,  *)
(* each from its own session or from another one.                          *)
EXTENDS Approval

CONSTANTS a1, r1, r2, r3, s1, s2

OneApproval == {a1}
ThreeRequests == {r1, r2, r3}
TwoSessions == {s1, s2}
InOneSession == [a \in Approvals |-> s1]

(* The requests are interchangeable, so one order of their arguments will  *)
(* do; a symmetry set would not be sound for the liveness properties.      *)
Rank(r) ==
  (IF rpc[r].session = s1 THEN 0 ELSE 2)
    + (IF rpc[r].decision = "approved" THEN 0 ELSE 1)

OrderedInit == Init /\ Rank(r1) <= Rank(r2) /\ Rank(r2) <= Rank(r3)

OrderedSpec == OrderedInit /\ [][Next]_vars /\ Fairness
=============================================================================
