-------------------------- MODULE MCCodeAgentCost --------------------------
(* CodeAgentCost for TLC.  The gate is what matters here, so one edit and  *)
(* one exec are enough; looks only add evidence.                           *)
EXTENDS CodeAgentCost

CONSTANTS edit1, exec1

OneEdit == {edit1}
OneExec == {exec1}
=============================================================================
