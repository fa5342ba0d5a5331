------------------------------ MODULE Consent ------------------------------
(***************************************************************************)
(* What the approval of a tool call promises.  Its user may answer, more   *)
(* than once and both ways; the gate settles on at most one answer, and    *)
(* the call runs, once, only after an answer that allowed it.              *)
(***************************************************************************)
CONSTANT Approvals

VARIABLES
  allowed,  \* the approvals that some answer of their own session allowed
  verdict   \* "open", "granted", "refused" or "ran"

vars == <<allowed, verdict>>

Init == allowed = {} /\ verdict = [a \in Approvals |-> "open"]

Allow(a) == allowed' = allowed \cup {a} /\ UNCHANGED verdict

Grant(a) ==
  /\ verdict[a] = "open" /\ a \in allowed
  /\ verdict' = [verdict EXCEPT ![a] = "granted"]
  /\ UNCHANGED allowed

Run(a) ==
  /\ verdict[a] = "granted"
  /\ verdict' = [verdict EXCEPT ![a] = "ran"]
  /\ UNCHANGED allowed

(* An answer that denies, a timeout, a client that left, or a restart of   *)
(* the gate, which withdraws everything that waits.                        *)
Withdraw(A) ==
  /\ \A a \in A : verdict[a] # "ran"
  /\ verdict' = [a \in Approvals |-> IF a \in A THEN "refused" ELSE verdict[a]]
  /\ UNCHANGED allowed

Next ==
  \/ \E a \in Approvals : Allow(a) \/ Grant(a) \/ Run(a)
  \/ \E A \in SUBSET Approvals : Withdraw(A)

Spec == Init /\ [][Next]_vars
=============================================================================
