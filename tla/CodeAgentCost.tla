--------------------------- MODULE CodeAgentCost ---------------------------
(***************************************************************************)
(* CodeAgent with two history variables: how often a run asked the model,  *)
(* and how often it sent a final answer back.  They say what the limits of *)
(* runCodeAgent bound: every decision but a rejected final answer uses up  *)
(* a tool step or one of the FailureLimit chances of its kind.             *)
(***************************************************************************)
EXTENDS CodeAgent

CONSTANT MaxRejected   \* bound of the model: rejected final answers explored

ASSUME RejectedIsCount == MaxRejected \in Nat

VARIABLES modelCalls, rejected

cost == <<modelCalls, rejected>>
costVars == <<vars, cost>>

CostInit == Init /\ modelCalls = 0 /\ rejected = 0

CountAsk == modelCalls' = modelCalls + 1 /\ UNCHANGED rejected

CountRejection ==
  /\ rejected < MaxRejected
  /\ rejected' = rejected + 1
  /\ UNCHANGED modelCalls

CostNext ==
  \/ (AskModel \/ HandOff) /\ CountAsk
  \/ RejectFinal /\ CountRejection
  \/ (Decide \/ Result \/ Finish \/ Daemon \/ ProcessWorks \/ Cancel) /\ UNCHANGED cost

CostSpec == CostInit /\ [][CostNext]_costVars

(* Model calls the limits allow so far: a tool step pays for itself and    *)
(* for the invalid and duplicate decisions it lets the run forget, a       *)
(* rejected final answer for itself and the invalid ones it forgets.       *)
Allowance ==
  (2 * FailureLimit - 1) * toolSteps + FailureLimit * rejected
    + decisionFailures + duplicateFailures

(* The step limit bounds the model calls of a run up to the rejected final *)
(* answers, which nothing in runCodeAgent counts.                          *)
ModelCallsBounded == modelCalls <= Allowance + FailureLimit
=============================================================================
