-------------------------- MODULE CodeAgentProofs --------------------------
(***************************************************************************)
(* What is proved about CodeAgent, for every set of calls and every value  *)
(* of the limits.                                                          *)
(***************************************************************************)
EXTENDS CodeAgentCost, TLAPS

(* The disjuncts of Next, one by one.                                      *)
LEMMA NextCases ==
  ASSUME Next
  PROVE  \/ AskModel \/ LeaveLoop \/ ModelFails \/ InvalidDecision
         \/ UnknownDecisionType \/ RejectFinal \/ AcceptFinal
         \/ \E c \in Calls : SkipDuplicate(c)
         \/ \E c \in Calls : StartTool(c)
         \/ DaemonSucceeds \/ DaemonFails
         \/ \E output \in Outputs : ReceiveResult(output)
         \/ ReceiveError \/ LoseReply \/ AbandonCall
         \/ AskApproval \/ UserApproves \/ ApprovalRefused
         \/ HandOff \/ SaveComplete \/ SendComplete \/ Return \/ Cancel
         \/ ProcessWorks
  BY DEF Next, Orchestrator, Decide, Result, Finish, Daemon

-----------------------------------------------------------------------------
(* Type correctness                                                        *)

(* The Boolean variables, by Zenon or SMT without arithmetic.               *)
LEMMA StepFlagsOK == FlagsOK /\ [Next]_vars => FlagsOK'
<1> SUFFICES ASSUME FlagsOK, [Next]_vars PROVE FlagsOK'
  OBVIOUS
<1> USE DEF FlagsOK, counters, gate, progress, request, result, history, edited,
        StreamClosed
<1>1. CASE AskModel BY <1>1 DEF AskModel
<1>2. CASE LeaveLoop BY <1>2 DEF LeaveLoop
<1>3. CASE ModelFails BY <1>3 DEF ModelFails
<1>4. CASE InvalidDecision BY <1>4 DEF InvalidDecision, CountInvalid
<1>5. CASE UnknownDecisionType BY <1>5 DEF UnknownDecisionType, CountInvalid
<1>6. CASE RejectFinal BY <1>6 DEF RejectFinal
<1>7. CASE AcceptFinal BY <1>7 DEF AcceptFinal
<1>8. ASSUME NEW c \in Calls, SkipDuplicate(c) PROVE FlagsOK'
  BY <1>8 DEF SkipDuplicate
<1>9. ASSUME NEW c \in Calls, StartTool(c) PROVE FlagsOK'
  BY <1>9 DEF StartTool
<1>10. CASE DaemonSucceeds BY <1>10 DEF DaemonSucceeds, Edit, RunCommand,
     StartProcess, Look, Verify
<1>11. CASE DaemonFails BY <1>11 DEF DaemonFails, FailMidway, Edit, RunCommand
<1>12. ASSUME NEW output \in Outputs, ReceiveResult(output) PROVE FlagsOK'
  BY <1>12 DEF ReceiveResult, Observe
<1>13. CASE ReceiveError BY <1>13 DEF ReceiveError, Observe
<1>14. CASE LoseReply BY <1>14 DEF LoseReply, FailMidway, Edit, RunCommand,
     StartProcess, Observe
<1>15. CASE AbandonCall BY <1>15 DEF AbandonCall, Observe
<1>16. CASE AskApproval BY <1>16 DEF AskApproval
<1>17. CASE UserApproves BY <1>17 DEF UserApproves
<1>18. CASE ApprovalRefused BY <1>18 DEF ApprovalRefused, Observe
<1>19. CASE HandOff BY <1>19 DEF HandOff
<1>20. CASE SaveComplete BY <1>20 DEF SaveComplete
<1>21. CASE SendComplete BY <1>21 DEF SendComplete
<1>22. CASE Return BY <1>22 DEF Return
<1>23. CASE Cancel BY <1>23 DEF Cancel
<1>24. CASE UNCHANGED vars BY <1>24 DEF vars
<1>25. CASE ProcessWorks BY <1>25 DEF ProcessWorks
<1> QED
  BY NextCases, <1>1, <1>2, <1>3, <1>4, <1>5, <1>6, <1>7, <1>8, <1>9, <1>10,
     <1>11, <1>12, <1>13, <1>14, <1>15, <1>16, <1>17, <1>18, <1>19, <1>20,
     <1>21, <1>22, <1>23, <1>24, <1>25

LEMMA InitTypeOK == Init => TypeOK
<1>1. Init => FlagsOK BY DEF Init, FlagsOK
<1> QED BY <1>1, LimitsAreCounts DEF Init, TypeOK, Phases, Outcomes

LEMMA StepTypeOK == TypeOK /\ [Next]_vars => TypeOK'
<1> SUFFICES ASSUME TypeOK, [Next]_vars PROVE TypeOK'
  OBVIOUS
<1>0. FlagsOK' BY StepFlagsOK DEF TypeOK
<1> USE <1>0, LimitsAreCounts
    DEF TypeOK, Phases, Outcomes, Outputs, counters, gate, progress, request,
        result, history, edited, StreamClosed, StopWithError, ContinuePlanning, Stored
<1>1. CASE AskModel BY <1>1 DEF AskModel
<1>2. CASE LeaveLoop BY <1>2 DEF LeaveLoop
<1>3. CASE ModelFails BY <1>3 DEF ModelFails
<1>4. CASE InvalidDecision BY <1>4 DEF InvalidDecision, CountInvalid
<1>5. CASE UnknownDecisionType BY <1>5 DEF UnknownDecisionType, CountInvalid
<1>6. CASE RejectFinal BY <1>6 DEF RejectFinal
<1>7. CASE AcceptFinal BY <1>7 DEF AcceptFinal
<1>8. ASSUME NEW c \in Calls, SkipDuplicate(c) PROVE TypeOK'
  BY <1>8 DEF SkipDuplicate
<1>9. ASSUME NEW c \in Calls, StartTool(c) PROVE TypeOK'
  BY <1>9 DEF StartTool
<1>10. CASE DaemonSucceeds BY <1>10 DEF DaemonSucceeds, Edit, RunCommand,
     StartProcess, Look, Verify
<1>11. CASE DaemonFails BY <1>11 DEF DaemonFails, FailMidway, Edit, RunCommand
<1>12. ASSUME NEW output \in Outputs, ReceiveResult(output) PROVE TypeOK'
  BY <1>12 DEF ReceiveResult, Observe
<1>13. CASE ReceiveError BY <1>13 DEF ReceiveError, Observe
<1>14. CASE LoseReply BY <1>14 DEF LoseReply, FailMidway, Edit, RunCommand,
     StartProcess, Observe
<1>15. CASE AbandonCall BY <1>15 DEF AbandonCall, Observe
<1>16. CASE AskApproval BY <1>16 DEF AskApproval
<1>17. CASE UserApproves BY <1>17 DEF UserApproves
<1>18. CASE ApprovalRefused BY <1>18 DEF ApprovalRefused, Observe
<1>19. CASE HandOff BY <1>19 DEF HandOff
<1>20. CASE SaveComplete BY <1>20 DEF SaveComplete
<1>21. CASE SendComplete BY <1>21 DEF SendComplete
<1>22. CASE Return BY <1>22 DEF Return
<1>23. CASE Cancel BY <1>23 DEF Cancel
<1>24. CASE UNCHANGED vars BY <1>24 DEF vars
<1>25. CASE ProcessWorks BY <1>25 DEF ProcessWorks
<1> QED
  BY NextCases, <1>1, <1>2, <1>3, <1>4, <1>5, <1>6, <1>7, <1>8, <1>9, <1>10,
     <1>11, <1>12, <1>13, <1>14, <1>15, <1>16, <1>17, <1>18, <1>19, <1>20,
     <1>21, <1>22, <1>23, <1>24, <1>25

(* Every variable keeps its type, and no run starts more tool calls than   *)
(* CodeMaxSteps.                                                           *)
THEOREM TypeCorrect == Spec => []TypeOK
<1> QED BY InitTypeOK, StepTypeOK, PTL DEF Spec

-----------------------------------------------------------------------------
(* The inductive invariant                                                 *)

InLoop == pc \in {"plan", "model", "call", "approval"}

(* While the loop runs no counter has reached its limit.                   *)
Limits ==
  /\ toolSteps <= MaxSteps
  /\ pc = "model" => toolSteps < MaxSteps
  /\ InLoop => /\ decisionFailures < FailureLimit
               /\ duplicateFailures < FailureLimit
               /\ stalled < StallLimit

(* Where a call can be: under way only while the loop waits for it, or     *)
(* after a cancelled run left it behind.                                   *)
CallInv ==
  /\ pc \in {"call", "approval"} => call \in Calls
  /\ pc \in {"plan", "model", "approval"} => reply = "none"
  /\ InLoop <=> outcome = "none"
  /\ reply # "none" => pc = "call" \/ outcome = "stream"

(* The gate is closed as long as a reported change is not verified; in     *)
(* between, the report of the change is on its way.                        *)
GateInv ==
  /\ unreported => dirty
  /\ dirty /\ ~unreported =>
       \/ NeedsVerification
       \/ pc = "call" /\ reply = "ok" /\ call \in Edits
  /\ pc = "call" /\ reply = "ok" /\ call \in Execs => ~dirty
  /\ pc = "call" /\ reply = "ok" /\ call \in Edits => dirty
  /\ outcome = "final" => ~NeedsVerification

(* Every tool step has paid for its change, or for its process.            *)
EffectInv ==
  /\ effects + background <= toolSteps
  /\ reply = "pending" \/ pc = "approval" => effects + background < toolSteps

(* The session row follows the run.                                        *)
RowInv ==
  /\ outcome = "stream" => cancelled
  /\ pc \in {"save", "complete"} => outcome \in {"final", "tool_limit"}
  /\ StoreReliable /\ ~cancelled /\ pc \in {"return", "done"} =>
       row = IF outcome \in {"final", "tool_limit"} THEN "complete" ELSE "error"
  /\ StoreReliable /\ cancelled /\ pc = "done" => row = "cancelled"

LEMMA StepLimits == TypeOK /\ Limits /\ [Next]_vars => Limits'
<1> SUFFICES ASSUME TypeOK, Limits, [Next]_vars PROVE Limits'
  OBVIOUS
<1> USE LimitsAreCounts
    DEF TypeOK, Limits, InLoop, Deciding,
        counters, gate, progress, request, result, history, edited, StreamClosed,
        StopWithError, ContinuePlanning, Stored
<1>1. CASE AskModel BY <1>1 DEF AskModel
<1>2. CASE LeaveLoop BY <1>2 DEF LeaveLoop
<1>3. CASE ModelFails BY <1>3 DEF ModelFails
<1>4. CASE InvalidDecision BY <1>4 DEF InvalidDecision, CountInvalid
<1>5. CASE UnknownDecisionType BY <1>5 DEF UnknownDecisionType, CountInvalid
<1>6. CASE RejectFinal BY <1>6 DEF RejectFinal
<1>7. CASE AcceptFinal BY <1>7 DEF AcceptFinal
<1>8. ASSUME NEW c \in Calls, SkipDuplicate(c) PROVE Limits'
  BY <1>8 DEF SkipDuplicate
<1>9. ASSUME NEW c \in Calls, StartTool(c) PROVE Limits'
  BY <1>9 DEF StartTool
<1>10. CASE DaemonSucceeds BY <1>10 DEF DaemonSucceeds, Edit, RunCommand,
     StartProcess, Look, Verify
<1>11. CASE DaemonFails BY <1>11 DEF DaemonFails, FailMidway, Edit, RunCommand
<1>12. ASSUME NEW output \in Outputs, ReceiveResult(output) PROVE Limits'
  BY <1>12 DEF ReceiveResult, Observe
<1>13. CASE ReceiveError BY <1>13 DEF ReceiveError, Observe
<1>14. CASE LoseReply BY <1>14 DEF LoseReply, FailMidway, Edit, RunCommand,
     StartProcess, Observe
<1>15. CASE AbandonCall BY <1>15 DEF AbandonCall, Observe
<1>16. CASE AskApproval BY <1>16 DEF AskApproval
<1>17. CASE UserApproves BY <1>17 DEF UserApproves
<1>18. CASE ApprovalRefused BY <1>18 DEF ApprovalRefused, Observe
<1>19. CASE HandOff BY <1>19 DEF HandOff
<1>20. CASE SaveComplete BY <1>20 DEF SaveComplete
<1>21. CASE SendComplete BY <1>21 DEF SendComplete
<1>22. CASE Return BY <1>22 DEF Return
<1>23. CASE Cancel BY <1>23 DEF Cancel
<1>24. CASE UNCHANGED vars BY <1>24 DEF vars
<1>25. CASE ProcessWorks BY <1>25 DEF ProcessWorks
<1> QED
  BY NextCases, <1>1, <1>2, <1>3, <1>4, <1>5, <1>6, <1>7, <1>8, <1>9, <1>10,
     <1>11, <1>12, <1>13, <1>14, <1>15, <1>16, <1>17, <1>18, <1>19, <1>20,
     <1>21, <1>22, <1>23, <1>24, <1>25

LEMMA StepCallInv == TypeOK /\ CallInv /\ [Next]_vars => CallInv'
<1> SUFFICES ASSUME TypeOK, CallInv, [Next]_vars PROVE CallInv'
  OBVIOUS
<1> USE DEF TypeOK, CallInv, InLoop, Deciding, Phases, Outcomes,
        counters, gate, progress, request, result, history, edited, StreamClosed,
        StopWithError, ContinuePlanning, Stored
<1>1. CASE AskModel BY <1>1 DEF AskModel
<1>2. CASE LeaveLoop BY <1>2 DEF LeaveLoop
<1>3. CASE ModelFails BY <1>3 DEF ModelFails
<1>4. CASE InvalidDecision BY <1>4 DEF InvalidDecision, CountInvalid
<1>5. CASE UnknownDecisionType BY <1>5 DEF UnknownDecisionType, CountInvalid
<1>6. CASE RejectFinal BY <1>6 DEF RejectFinal
<1>7. CASE AcceptFinal BY <1>7 DEF AcceptFinal
<1>8. ASSUME NEW c \in Calls, SkipDuplicate(c) PROVE CallInv'
  BY <1>8 DEF SkipDuplicate
<1>9. ASSUME NEW c \in Calls, StartTool(c) PROVE CallInv'
  BY <1>9 DEF StartTool
<1>10. CASE DaemonSucceeds BY <1>10 DEF DaemonSucceeds, Edit, RunCommand,
     StartProcess, Look, Verify
<1>11. CASE DaemonFails BY <1>11 DEF DaemonFails, FailMidway, Edit, RunCommand
<1>12. ASSUME NEW output \in Outputs, ReceiveResult(output) PROVE CallInv'
  BY <1>12 DEF ReceiveResult, Observe
<1>13. CASE ReceiveError BY <1>13 DEF ReceiveError, Observe
<1>14. CASE LoseReply BY <1>14 DEF LoseReply, FailMidway, Edit, RunCommand,
     StartProcess, Observe
<1>15. CASE AbandonCall BY <1>15 DEF AbandonCall, Observe
<1>16. CASE AskApproval BY <1>16 DEF AskApproval
<1>17. CASE UserApproves BY <1>17 DEF UserApproves
<1>18. CASE ApprovalRefused BY <1>18 DEF ApprovalRefused, Observe
<1>19. CASE HandOff BY <1>19 DEF HandOff
<1>20. CASE SaveComplete BY <1>20 DEF SaveComplete
<1>21. CASE SendComplete BY <1>21 DEF SendComplete
<1>22. CASE Return BY <1>22 DEF Return
<1>23. CASE Cancel BY <1>23 DEF Cancel
<1>24. CASE UNCHANGED vars BY <1>24 DEF vars
<1>25. CASE ProcessWorks BY <1>25 DEF ProcessWorks
<1> QED
  BY NextCases, <1>1, <1>2, <1>3, <1>4, <1>5, <1>6, <1>7, <1>8, <1>9, <1>10,
     <1>11, <1>12, <1>13, <1>14, <1>15, <1>16, <1>17, <1>18, <1>19, <1>20,
     <1>21, <1>22, <1>23, <1>24, <1>25

LEMMA StepGateInv == TypeOK /\ CallInv /\ GateInv /\ [Next]_vars => GateInv'
<1> SUFFICES ASSUME TypeOK, CallInv, GateInv, [Next]_vars PROVE GateInv'
  OBVIOUS
<1> USE KindsDisjoint
    DEF TypeOK, FlagsOK, CallInv, GateInv, InLoop, Deciding, NeedsVerification,
        counters, gate, progress, request, result, history, edited, StreamClosed,
        StopWithError, ContinuePlanning, Stored
<1>1. CASE AskModel BY <1>1 DEF AskModel
<1>2. CASE LeaveLoop BY <1>2 DEF LeaveLoop
<1>3. CASE ModelFails BY <1>3 DEF ModelFails
<1>4. CASE InvalidDecision BY <1>4 DEF InvalidDecision, CountInvalid
<1>5. CASE UnknownDecisionType BY <1>5 DEF UnknownDecisionType, CountInvalid
<1>6. CASE RejectFinal BY <1>6 DEF RejectFinal
<1>7. CASE AcceptFinal BY <1>7 DEF AcceptFinal
<1>8. ASSUME NEW c \in Calls, SkipDuplicate(c) PROVE GateInv'
  BY <1>8 DEF SkipDuplicate
<1>9. ASSUME NEW c \in Calls, StartTool(c) PROVE GateInv'
  BY <1>9 DEF StartTool
<1>10. CASE DaemonSucceeds
  <2>0. reply = "pending" /\ UNCHANGED <<pc, call, gate, outcome>>
    BY <1>10 DEF DaemonSucceeds
  <2>1. CASE Edit(pc = "call")
    <3>1. call \in Edits /\ call \notin Execs /\ dirty'
      BY <2>1, KindsDisjoint DEF Edit
    <3>2. pc # "call" => unreported'
      BY <2>1 DEF Edit
    <3> QED BY <1>10, <2>0, <3>1, <3>2 DEF DaemonSucceeds
  <2>2. CASE RunCommand /\ Verify
    <3>1. call \in Execs /\ call \notin Edits /\ ~dirty' /\ ~unreported'
      BY <2>2, KindsDisjoint DEF RunCommand, Verify
    <3> QED BY <1>10, <2>0, <3>1 DEF DaemonSucceeds
  <2>3. CASE StartProcess \/ Look
    <3>1. call \notin Edits /\ call \notin Execs /\ UNCHANGED edited
      BY <2>3, KindsDisjoint DEF StartProcess, Look
    <3> QED BY <1>10, <2>0, <3>1 DEF DaemonSucceeds
  <2> QED BY <1>10, <2>1, <2>2, <2>3 DEF DaemonSucceeds
<1>11. CASE DaemonFails
  <2>1. CASE UNCHANGED edited BY <1>11, <2>1 DEF DaemonFails
  <2>2. CASE Edit(FALSE)
    <3>1. dirty' /\ unreported' BY <2>2 DEF Edit
    <3> QED BY <1>11, <3>1 DEF DaemonFails
  <2> QED BY <1>11, <2>1, <2>2 DEF DaemonFails, FailMidway
<1>12. ASSUME NEW output \in Outputs, ReceiveResult(output) PROVE GateInv'
  BY <1>12 DEF ReceiveResult, Observe
<1>13. CASE ReceiveError BY <1>13 DEF ReceiveError, Observe
<1>14. CASE LoseReply
  <2>1. /\ outcome' # "final" /\ reply' = "none"
        /\ NeedsVerification => NeedsVerification'
    BY <1>14 DEF LoseReply, Observe
  <2>2. CASE Edit(FALSE)
    <3>1. dirty' /\ unreported' BY <2>2 DEF Edit
    <3> QED BY <2>1, <3>1
  <2>3. CASE reply \in {"pending", "error"} /\ UNCHANGED edited
    BY <2>1, <2>3
  <2>4. CASE /\ reply = "ok" /\ UNCHANGED dirty
             /\ unreported' = (unreported \/ call \in Edits)
    <3>1. call \in Edits => unreported' BY <2>4
    <3>2. call \notin Edits => unreported' = unreported BY <2>4
    <3>3. pc = "call" BY <1>14 DEF LoseReply
    <3> QED BY <2>1, <2>4, <3>1, <3>2, <3>3
  <2> QED BY <1>14, <2>2, <2>3, <2>4 DEF LoseReply, FailMidway, StartProcess
<1>15. CASE AbandonCall
  <2>1. /\ outcome' = "stream" /\ pc' = "return"
        /\ NeedsVerification => NeedsVerification'
    BY <1>15 DEF AbandonCall, Observe
  <2>2. /\ reply = "ok" /\ call \in Edits => unreported'
        /\ ~(reply = "ok" /\ call \in Edits) => unreported' = unreported
    BY <1>15 DEF AbandonCall
  <2> QED BY <1>15, <2>1, <2>2 DEF AbandonCall
<1>16. CASE AskApproval BY <1>16 DEF AskApproval
<1>17. CASE UserApproves BY <1>17 DEF UserApproves
<1>18. CASE ApprovalRefused BY <1>18 DEF ApprovalRefused, Observe
<1>19. CASE HandOff BY <1>19 DEF HandOff
<1>20. CASE SaveComplete BY <1>20 DEF SaveComplete
<1>21. CASE SendComplete BY <1>21 DEF SendComplete
<1>22. CASE Return BY <1>22 DEF Return
<1>23. CASE Cancel BY <1>23 DEF Cancel
<1>24. CASE UNCHANGED vars BY <1>24 DEF vars
<1>25. CASE ProcessWorks BY <1>25 DEF ProcessWorks
<1> QED
  BY NextCases, <1>1, <1>2, <1>3, <1>4, <1>5, <1>6, <1>7, <1>8, <1>9, <1>10,
     <1>11, <1>12, <1>13, <1>14, <1>15, <1>16, <1>17, <1>18, <1>19, <1>20,
     <1>21, <1>22, <1>23, <1>24, <1>25

LEMMA StepEffectInv ==
  TypeOK /\ CallInv /\ EffectInv /\ [Next]_vars => EffectInv'
<1> SUFFICES ASSUME TypeOK, CallInv, EffectInv, [Next]_vars PROVE EffectInv'
  OBVIOUS
<1> USE DEF TypeOK, CallInv, EffectInv, InLoop, Deciding,
        counters, gate, progress, request, result, history, edited, StreamClosed,
        StopWithError, ContinuePlanning, Stored
<1>1. CASE AskModel BY <1>1 DEF AskModel
<1>2. CASE LeaveLoop BY <1>2 DEF LeaveLoop
<1>3. CASE ModelFails BY <1>3 DEF ModelFails
<1>4. CASE InvalidDecision BY <1>4 DEF InvalidDecision, CountInvalid
<1>5. CASE UnknownDecisionType BY <1>5 DEF UnknownDecisionType, CountInvalid
<1>6. CASE RejectFinal BY <1>6 DEF RejectFinal
<1>7. CASE AcceptFinal BY <1>7 DEF AcceptFinal
<1>8. ASSUME NEW c \in Calls, SkipDuplicate(c) PROVE EffectInv'
  BY <1>8 DEF SkipDuplicate
<1>9. ASSUME NEW c \in Calls, StartTool(c) PROVE EffectInv'
  BY <1>9 DEF StartTool
<1>10. CASE DaemonSucceeds BY <1>10 DEF DaemonSucceeds, Edit, RunCommand,
     StartProcess, Look, Verify
<1>11. CASE DaemonFails BY <1>11 DEF DaemonFails, FailMidway, Edit, RunCommand
<1>12. ASSUME NEW output \in Outputs, ReceiveResult(output) PROVE EffectInv'
  BY <1>12 DEF ReceiveResult, Observe
<1>13. CASE ReceiveError BY <1>13 DEF ReceiveError, Observe
<1>14. CASE LoseReply BY <1>14 DEF LoseReply, FailMidway, Edit, RunCommand,
     StartProcess, Observe
<1>15. CASE AbandonCall BY <1>15 DEF AbandonCall, Observe
<1>16. CASE AskApproval BY <1>16 DEF AskApproval
<1>17. CASE UserApproves BY <1>17 DEF UserApproves
<1>18. CASE ApprovalRefused BY <1>18 DEF ApprovalRefused, Observe
<1>19. CASE HandOff BY <1>19 DEF HandOff
<1>20. CASE SaveComplete BY <1>20 DEF SaveComplete
<1>21. CASE SendComplete BY <1>21 DEF SendComplete
<1>22. CASE Return BY <1>22 DEF Return
<1>23. CASE Cancel BY <1>23 DEF Cancel
<1>24. CASE UNCHANGED vars BY <1>24 DEF vars
<1>25. CASE ProcessWorks BY <1>25 DEF ProcessWorks
<1> QED
  BY NextCases, <1>1, <1>2, <1>3, <1>4, <1>5, <1>6, <1>7, <1>8, <1>9, <1>10,
     <1>11, <1>12, <1>13, <1>14, <1>15, <1>16, <1>17, <1>18, <1>19, <1>20,
     <1>21, <1>22, <1>23, <1>24, <1>25

LEMMA StepRowInv ==
  TypeOK /\ CallInv /\ RowInv /\ [Next]_vars => RowInv'
<1> SUFFICES ASSUME TypeOK, CallInv, RowInv, [Next]_vars PROVE RowInv'
  OBVIOUS
<1> USE DEF TypeOK, FlagsOK, CallInv, RowInv, InLoop, Deciding,
        counters, gate, progress, request, result, history, edited, StreamClosed,
        StopWithError, ContinuePlanning, Stored
<1>1. CASE AskModel BY <1>1 DEF AskModel
<1>2. CASE LeaveLoop BY <1>2 DEF LeaveLoop
<1>3. CASE ModelFails BY <1>3 DEF ModelFails
<1>4. CASE InvalidDecision BY <1>4 DEF InvalidDecision, CountInvalid
<1>5. CASE UnknownDecisionType BY <1>5 DEF UnknownDecisionType, CountInvalid
<1>6. CASE RejectFinal BY <1>6 DEF RejectFinal
<1>7. CASE AcceptFinal BY <1>7 DEF AcceptFinal
<1>8. ASSUME NEW c \in Calls, SkipDuplicate(c) PROVE RowInv'
  BY <1>8 DEF SkipDuplicate
<1>9. ASSUME NEW c \in Calls, StartTool(c) PROVE RowInv'
  BY <1>9 DEF StartTool
<1>10. CASE DaemonSucceeds BY <1>10 DEF DaemonSucceeds, Edit, RunCommand,
     StartProcess, Look, Verify
<1>11. CASE DaemonFails BY <1>11 DEF DaemonFails, FailMidway, Edit, RunCommand
<1>12. ASSUME NEW output \in Outputs, ReceiveResult(output) PROVE RowInv'
  BY <1>12 DEF ReceiveResult, Observe
<1>13. CASE ReceiveError BY <1>13 DEF ReceiveError, Observe
<1>14. CASE LoseReply BY <1>14 DEF LoseReply, FailMidway, Edit, RunCommand,
     StartProcess, Observe
<1>15. CASE AbandonCall BY <1>15 DEF AbandonCall, Observe
<1>16. CASE AskApproval BY <1>16 DEF AskApproval
<1>17. CASE UserApproves BY <1>17 DEF UserApproves
<1>18. CASE ApprovalRefused BY <1>18 DEF ApprovalRefused, Observe
<1>19. CASE HandOff BY <1>19 DEF HandOff
<1>20. CASE SaveComplete BY <1>20 DEF SaveComplete
<1>21. CASE SendComplete BY <1>21 DEF SendComplete
<1>22. CASE Return BY <1>22 DEF Return
<1>23. CASE Cancel BY <1>23 DEF Cancel
<1>24. CASE UNCHANGED vars BY <1>24 DEF vars
<1>25. CASE ProcessWorks BY <1>25 DEF ProcessWorks
<1> QED
  BY NextCases, <1>1, <1>2, <1>3, <1>4, <1>5, <1>6, <1>7, <1>8, <1>9, <1>10,
     <1>11, <1>12, <1>13, <1>14, <1>15, <1>16, <1>17, <1>18, <1>19, <1>20,
     <1>21, <1>22, <1>23, <1>24, <1>25

IInv == TypeOK /\ Limits /\ CallInv /\ GateInv /\ EffectInv /\ RowInv

LEMMA IInvHolds == Spec => []IInv
<1>1. Init => IInv
  <2> SUFFICES ASSUME Init PROVE IInv
    OBVIOUS
  <2>1. TypeOK BY InitTypeOK
  <2>2. Limits BY LimitsAreCounts DEF Init, Limits, InLoop
  <2>3. CallInv BY DEF Init, CallInv, InLoop
  <2>4. GateInv BY DEF Init, GateInv
  <2>5. EffectInv BY DEF Init, EffectInv
  <2>6. RowInv BY DEF Init, RowInv
  <2> QED BY <2>1, <2>2, <2>3, <2>4, <2>5, <2>6 DEF IInv
<1>2. IInv /\ [Next]_vars => IInv'
  BY StepTypeOK, StepLimits, StepCallInv, StepGateInv, StepEffectInv,
     StepRowInv DEF IInv
<1> QED BY <1>1, <1>2, PTL DEF Spec

(* An accepted final answer covers every change reported to the loop.      *)
THEOREM FinalVerified == Spec => []FinalIsVerified
<1>1. IInv => FinalIsVerified
  BY DEF IInv, CallInv, GateInv, InLoop, FinalIsVerified
<1> QED BY <1>1, IInvHolds, PTL

(* The session row of a returned run tells how the run ended.              *)
THEOREM RowSettled == Spec => []RowTellsOutcome
<1>1. IInv => RowTellsOutcome
  BY DEF IInv, CallInv, RowInv, InLoop, RowTellsOutcome, TypeOK, FlagsOK, Outcomes
<1> QED BY <1>1, IInvHolds, PTL

-----------------------------------------------------------------------------
(* CodeAgent implements AgentRun                                           *)

(* Whatever the model decides, a run starts at most MaxSteps tool calls,   *)
(* one at a time and none once it has ended. The workspace is changed only *)
(* by a call that runs, or later by a process such a call started; a call  *)
(* held back for approval does nothing.                                    *)
THEOREM ImplementsAgentRun == Spec => RunSpec
<1>1. Init => Run!Init
  BY DEF Init, Run!Init, CallState
<1>2. IInv /\ IInv' /\ [Next]_vars => [Run!Next]_(Run!vars)
  <2> SUFFICES ASSUME IInv, IInv', [Next]_vars PROVE [Run!Next]_(Run!vars)
    OBVIOUS
  <2> USE DEF IInv, TypeOK, CallInv, InLoop, Deciding,
          counters, gate, progress, request, result, history, edited, StreamClosed,
          StopWithError, ContinuePlanning, Stored,
          CallState, Permitted, Run!Next, Run!Start, Run!Approve, Run!Settle,
          Run!Drop, Run!ChangeLater, Run!End, Run!vars, Run!workspace, Limits
  <2>1. CASE AskModel BY <2>1 DEF AskModel
  <2>2. CASE LeaveLoop BY <2>2 DEF LeaveLoop
  <2>3. CASE ModelFails BY <2>3 DEF ModelFails
  <2>4. CASE InvalidDecision BY <2>4 DEF InvalidDecision, CountInvalid
  <2>5. CASE UnknownDecisionType BY <2>5 DEF UnknownDecisionType, CountInvalid
  <2>6. CASE RejectFinal BY <2>6 DEF RejectFinal
  <2>7. CASE AcceptFinal BY <2>7 DEF AcceptFinal
  <2>8. ASSUME NEW c \in Calls, SkipDuplicate(c) PROVE [Run!Next]_(Run!vars)
    BY <2>8 DEF SkipDuplicate
  <2>9. ASSUME NEW c \in Calls, StartTool(c) PROVE [Run!Next]_(Run!vars)
    BY <2>9 DEF StartTool
  <2>10. CASE DaemonSucceeds BY <2>10 DEF DaemonSucceeds, Edit, RunCommand,
     StartProcess, Look, Verify
  <2>11. CASE DaemonFails BY <2>11 DEF DaemonFails, FailMidway, Edit, RunCommand
  <2>12. ASSUME NEW output \in Outputs, ReceiveResult(output) PROVE [Run!Next]_(Run!vars)
    BY <2>12 DEF ReceiveResult, Observe
  <2>13. CASE ReceiveError BY <2>13 DEF ReceiveError, Observe
  <2>14. CASE LoseReply BY <2>14 DEF LoseReply, FailMidway, Edit, RunCommand,
     StartProcess, Observe
  <2>15. CASE AbandonCall BY <2>15 DEF AbandonCall, Observe
  <2>16. CASE AskApproval BY <2>16 DEF AskApproval
  <2>17. CASE UserApproves BY <2>17 DEF UserApproves
  <2>18. CASE ApprovalRefused BY <2>18 DEF ApprovalRefused, Observe
  <2>19. CASE HandOff BY <2>19 DEF HandOff
  <2>20. CASE SaveComplete BY <2>20 DEF SaveComplete
  <2>21. CASE SendComplete BY <2>21 DEF SendComplete
  <2>22. CASE Return BY <2>22 DEF Return
  <2>23. CASE Cancel BY <2>23 DEF Cancel
  <2>24. CASE UNCHANGED vars BY <2>24 DEF vars
  <2>25. CASE ProcessWorks BY <2>25 DEF ProcessWorks
  <2> QED
    BY NextCases, <2>1, <2>2, <2>3, <2>4, <2>5, <2>6, <2>7, <2>8, <2>9, <2>10,
     <2>11, <2>12, <2>13, <2>14, <2>15, <2>16, <2>17, <2>18, <2>19, <2>20,
     <2>21, <2>22, <2>23, <2>24, <2>25
<1> QED BY <1>1, <1>2, IInvHolds, PTL DEF Spec, RunSpec, Run!Spec

(* The workspace is changed through at most as many calls as the run       *)
(* started, the processes that may still change it included.               *)
THEOREM ChangesBudgeted == Spec => []Run!EffectsWithinBudget
<1>1. IInv => Run!EffectsWithinBudget
  BY DEF IInv, TypeOK, Limits, EffectInv, CallState, Run!EffectsWithinBudget
<1> QED BY <1>1, IInvHolds, PTL

-----------------------------------------------------------------------------
(* The bound on model calls, for every value of the limits: the invariant  *)
(* charges each decision to the counter that lets the run go on.           *)

(* A step of CodeAgentCost is a step of CodeAgent.                         *)
LEMMA CostStep == [CostNext]_costVars => [Next]_vars
  BY DEF CostNext, costVars, Next, Orchestrator

LEMMA CostKeepsBase == CostSpec => [](TypeOK /\ Limits /\ CallInv)
<1>1. CostInit => TypeOK /\ Limits /\ CallInv
  <2> SUFFICES ASSUME CostInit PROVE TypeOK /\ Limits /\ CallInv
    OBVIOUS
  <2>1. Init BY DEF CostInit
  <2>2. Limits BY <2>1, LimitsAreCounts DEF Init, Limits, InLoop
  <2>3. CallInv BY <2>1 DEF Init, CallInv, InLoop
  <2> QED BY <2>1, <2>2, <2>3, InitTypeOK
<1>2. TypeOK /\ Limits /\ CallInv /\ [CostNext]_costVars
        => (TypeOK /\ Limits /\ CallInv)'
  BY CostStep, StepTypeOK, StepLimits, StepCallInv
<1> QED BY <1>1, <1>2, PTL DEF CostSpec

CostInv ==
  /\ modelCalls \in Nat /\ rejected \in Nat
  /\ pc \in {"plan", "call", "approval"} => modelCalls <= Allowance
  /\ pc = "model" => modelCalls <= Allowance + 1
  /\ ~InLoop => modelCalls <= Allowance + FailureLimit

LEMMA AllowanceType == TypeOK /\ rejected \in Nat => Allowance \in Int
  BY LimitsAreCounts DEF TypeOK, Allowance

(* A tool step allows for itself and for the failures it forgets.          *)
LEMMA StepCredit ==
  ASSUME TypeOK, Limits, pc = "model", rejected \in Nat
  PROVE  (2 * FailureLimit - 1) * toolSteps + FailureLimit * rejected
           + decisionFailures + duplicateFailures + 1
         <= (2 * FailureLimit - 1) * (toolSteps + 1) + FailureLimit * rejected
<1> DEFINE c == 2 * FailureLimit - 1
<1>1. c \in Nat /\ toolSteps \in Nat /\ FailureLimit * rejected \in Nat
  BY LimitsAreCounts DEF TypeOK
<1>2. c * (toolSteps + 1) = c * toolSteps + c /\ c * toolSteps \in Nat
  <2> HIDE DEF c
  <2> QED BY <1>1
<1>3. decisionFailures + duplicateFailures + 1 <= c
  BY LimitsAreCounts DEF TypeOK, Limits, InLoop
<1> HIDE DEF c
<1>4. c * toolSteps + FailureLimit * rejected + decisionFailures
        + duplicateFailures + 1
      <= c * (toolSteps + 1) + FailureLimit * rejected
  BY <1>1, <1>2, <1>3 DEF TypeOK
<1> QED BY <1>4 DEF c

(* A rejected final answer allows for itself and the invalid decisions.    *)
LEMMA RejectionCredit ==
  ASSUME TypeOK, Limits, pc = "model", rejected \in Nat
  PROVE  (2 * FailureLimit - 1) * toolSteps + FailureLimit * rejected
           + decisionFailures + duplicateFailures + 1
         <= (2 * FailureLimit - 1) * toolSteps + FailureLimit * (rejected + 1)
              + duplicateFailures
<1>1. FailureLimit * (rejected + 1) = FailureLimit * rejected + FailureLimit
  BY LimitsAreCounts
<1>2. /\ FailureLimit * rejected \in Nat
      /\ (2 * FailureLimit - 1) * toolSteps \in Int
  BY LimitsAreCounts DEF TypeOK
<1> QED BY <1>1, <1>2, LimitsAreCounts DEF TypeOK, Limits, InLoop

LEMMA WeakerBound == \A a, b \in Int, c \in Nat : a <= b => a <= b + c
  OBVIOUS

LEMMA StepCostInv ==
  TypeOK /\ Limits /\ CallInv /\ CostInv /\ [CostNext]_costVars => CostInv'
<1> SUFFICES ASSUME TypeOK, Limits, CallInv, CostInv, [CostNext]_costVars
             PROVE CostInv'
  OBVIOUS
<1>0. TypeOK' BY CostStep, StepTypeOK
<1> USE <1>0, AllowanceType, LimitsAreCounts
    DEF TypeOK, Limits, CostInv, InLoop, Deciding, cost,
        counters, gate, progress, request, result, history, edited, StreamClosed,
        StopWithError, ContinuePlanning, Stored
<1>1. CASE AskModel /\ CountAsk
  BY <1>1 DEF Allowance, AskModel, CountAsk
<1>2. CASE LeaveLoop /\ UNCHANGED cost
  BY <1>2 DEF Allowance, LeaveLoop
<1>3. CASE ModelFails /\ UNCHANGED cost
  BY <1>3 DEF Allowance, ModelFails
<1>4. CASE InvalidDecision /\ UNCHANGED cost
  BY <1>4 DEF Allowance, InvalidDecision, CountInvalid
<1>5. CASE UnknownDecisionType /\ UNCHANGED cost
  BY <1>5 DEF Allowance, UnknownDecisionType, CountInvalid
<1>6. CASE RejectFinal /\ CountRejection
  <2>1. toolSteps' = toolSteps /\ decisionFailures' = 0 /\ rejected' = rejected + 1
        /\ duplicateFailures' = duplicateFailures /\ pc = "model" /\ pc' = "plan"
    BY <1>6 DEF RejectFinal, CountRejection
  <2>2. Allowance + 1 <= Allowance'
    BY <2>1, RejectionCredit DEF Allowance
  <2>3. Allowance \in Int /\ Allowance' \in Int
    BY <1>6 DEF Allowance, CountRejection
  <2>4. modelCalls' <= Allowance' /\ modelCalls' \in Nat /\ rejected' \in Nat
    BY <1>6, <2>1, <2>2, <2>3 DEF CountRejection
  <2> QED BY <2>1, <2>4
<1>7. CASE AcceptFinal /\ UNCHANGED cost
  BY <1>7 DEF Allowance, AcceptFinal
<1>8. ASSUME NEW c \in Calls, SkipDuplicate(c), UNCHANGED cost PROVE CostInv'
  BY <1>8 DEF Allowance, SkipDuplicate
<1>9. ASSUME NEW c \in Calls, StartTool(c), UNCHANGED cost PROVE CostInv'
  <2>1. toolSteps' = toolSteps + 1 /\ decisionFailures' = 0
        /\ duplicateFailures' = 0 /\ pc = "model" /\ pc' \in {"call", "return"}
    BY <1>9 DEF StartTool
  <2>2. Allowance + 1 <= Allowance'
    BY <1>9, <2>1, StepCredit DEF Allowance, cost
  <2>3. Allowance \in Int /\ Allowance' \in Int
    BY <1>9 DEF Allowance, cost
  <2>4. modelCalls' <= Allowance' /\ modelCalls' \in Nat /\ rejected' \in Nat
    BY <1>9, <2>1, <2>2, <2>3
  <2>5. modelCalls' <= Allowance' + FailureLimit
    <3>1. FailureLimit \in Nat /\ Allowance' \in Int /\ modelCalls' \in Nat
      BY <2>3, <2>4
    <3>2. modelCalls' \in Int BY ONLY <3>1
    <3> QED BY ONLY <3>1, <3>2, <2>4, WeakerBound, Zenon
  <2>6. pc' # "model" BY <2>1
  <2> QED BY ONLY <2>4, <2>5, <2>6 DEF CostInv, InLoop
<1>10. CASE DaemonSucceeds /\ UNCHANGED cost
  BY <1>10 DEF Allowance, DaemonSucceeds, Edit, RunCommand,
     StartProcess, Look, Verify
<1>11. CASE DaemonFails /\ UNCHANGED cost
  BY <1>11 DEF Allowance, DaemonFails, FailMidway, Edit, RunCommand
<1>12. ASSUME NEW output \in Outputs, ReceiveResult(output), UNCHANGED cost PROVE CostInv'
  BY <1>12 DEF Allowance, ReceiveResult, Observe
<1>13. CASE ReceiveError /\ UNCHANGED cost
  BY <1>13 DEF Allowance, ReceiveError, Observe
<1>14. CASE LoseReply /\ UNCHANGED cost
  BY <1>14 DEF Allowance, LoseReply, FailMidway, Edit, RunCommand,
     StartProcess, Observe
<1>15. CASE AbandonCall /\ UNCHANGED cost
  BY <1>15 DEF Allowance, AbandonCall, Observe
<1>16. CASE AskApproval /\ UNCHANGED cost
  BY <1>16 DEF Allowance, AskApproval
<1>17. CASE UserApproves /\ UNCHANGED cost
  BY <1>17 DEF Allowance, UserApproves
<1>18. CASE ApprovalRefused /\ UNCHANGED cost
  BY <1>18 DEF Allowance, ApprovalRefused, Observe
<1>19. CASE HandOff /\ CountAsk
  BY <1>19 DEF Allowance, HandOff, CountAsk
<1>20. CASE SaveComplete /\ UNCHANGED cost
  BY <1>20 DEF Allowance, SaveComplete
<1>21. CASE SendComplete /\ UNCHANGED cost
  BY <1>21 DEF Allowance, SendComplete
<1>22. CASE Return /\ UNCHANGED cost
  BY <1>22 DEF Allowance, Return
<1>23. CASE Cancel /\ UNCHANGED cost
  BY <1>23 DEF Allowance, Cancel
<1>24. CASE UNCHANGED costVars BY <1>24 DEF costVars, vars, Allowance
<1>25. CASE ProcessWorks /\ UNCHANGED cost
  BY <1>25 DEF Allowance, ProcessWorks
<1> QED
  BY <1>1, <1>2, <1>3, <1>4, <1>5, <1>6, <1>7, <1>8, <1>9, <1>10, <1>11,
     <1>12, <1>13, <1>14, <1>15, <1>16, <1>17, <1>18, <1>19, <1>20, <1>21,
     <1>22, <1>23, <1>24, <1>25 DEF CostNext, Decide, Result, Finish, Daemon

(* The model is asked at most 2F - 1 times for each tool step and F times  *)
(* for each rejected final answer, and F times more; F is FailureLimit.    *)
THEOREM CallsBounded == CostSpec => []ModelCallsBounded
<1>1. CostInit => CostInv
  <2> SUFFICES ASSUME CostInit PROVE CostInv
    OBVIOUS
  <2>1. modelCalls = 0 /\ rejected = 0 /\ pc = "plan" BY DEF CostInit, Init
  <2>2. toolSteps = 0 /\ decisionFailures = 0 /\ duplicateFailures = 0
    BY DEF CostInit, Init
  <2>3. Allowance = 0 BY <2>1, <2>2, LimitsAreCounts DEF Allowance
  <2> QED BY <2>1, <2>3 DEF CostInv, InLoop
<1>2. TypeOK /\ CostInv => ModelCallsBounded
  BY AllowanceType, LimitsAreCounts DEF CostInv, ModelCallsBounded, InLoop, TypeOK, Phases
<1> QED BY <1>1, <1>2, CostKeepsBase, StepCostInv, PTL DEF CostSpec
=============================================================================
