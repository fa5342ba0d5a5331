----------------------------- MODULE CodeAgent -----------------------------
(***************************************************************************)
(* One run of the code agent: RunAgent in mode "code", which asks the      *)
(* coding model for one decision at a time, executes the tools it names    *)
(* through the beemo-code daemon (asking the user first where the daemon   *)
(* says so), and refuses a final answer while a file change has not been   *)
(* followed by a successful verification command.                          *)
(*                                                                         *)
(* A tool call is a member of Calls: it stands for a tool name with its    *)
(* arguments, so two calls are equal exactly when their signatures are.    *)
(* A non-empty tool output is a member of Evidence.  Message texts and     *)
(* prompts are left out; every guard, counter and early return is kept.    *)
(*                                                                         *)
(* The daemon runs concurrently with the loop: a call whose connection     *)
(* fails, or whose stream the client closed, may still have changed the    *)
(* workspace.  A command of code.exec and a process of code.process_start  *)
(* run in a shell with the workspace writable, so they may change it too:  *)
(* the command until it ends, the process at any later time (it is never   *)
(* assumed to have ended; ProcessTable has its life).  The daemon reports  *)
(* only what an edit changes, and the loop's gate is about edits; so dirty *)
(* and unreported are about edits, effects counts the calls of all three   *)
(* kinds.  These variables and background are history: they record what    *)
(* happened in the workspace and guard no step of the loop.                *)
(***************************************************************************)
EXTENDS Integers, FiniteSets

CONSTANTS
  Edits,         \* calls of code.create and code.patch
  Execs,         \* calls of code.exec
  Polls,         \* calls of code.process_poll, exempt from the duplicate check
  Starts,        \* calls of code.process_start
  Looks,         \* every other tool call
  Gated,         \* the calls the daemon runs only with the user's approval
  NoCall,        \* lastToolSignature = ""
  Evidence,      \* the non-empty outputs a call may return
  MaxSteps,      \* cfg.CodeMaxSteps (64)
  FailureLimit,  \* invalid or duplicate decisions that stop the run (3)
  StallLimit,    \* calls in a row without new evidence that stop it (8)
  StoreReliable  \* FALSE: a write to the session row may fail (only logged)

Calls == Edits \cup Execs \cup Starts \cup Polls \cup Looks

ASSUME KindsDisjoint ==
  /\ Edits \cap (Execs \cup Starts \cup Polls \cup Looks) = {}
  /\ Execs \cap (Starts \cup Polls \cup Looks) = {}
  /\ Starts \cap (Polls \cup Looks) = {} /\ Polls \cap Looks = {}

ASSUME GatedAreCalls == Gated \subseteq Calls /\ NoCall \notin Calls

ASSUME LimitsAreCounts ==
  /\ MaxSteps \in Nat
  /\ FailureLimit \in Nat \ {0}
  /\ StallLimit \in Nat \ {0}
  /\ StoreReliable \in BOOLEAN

VARIABLES
  pc,                 \* where the handler is
  cancelled,          \* ctx.Err() # nil: the client closed the stream
  toolSteps, lastCall, stalled, decisionFailures, duplicateFailures,
  seen,               \* seenEvidence
  required, verified, \* verificationRequired, verifiedAfterChange
  call, approved,     \* the tool call being executed; Approved: true was sent
  reply,              \* the daemon's side of that call
  row,                \* status column of the session row
  outcome,            \* why the run ended
  dirty,              \* an edit was made after the last successful exec
  unreported,         \* ... and some such edit was not reported to the loop
  background,         \* started processes that changed nothing so far
  effects             \* how many calls changed the workspace, by any means

counters == <<toolSteps, lastCall, decisionFailures, duplicateFailures>>
gate     == <<required, verified>>
progress == <<stalled, seen>>
request  == <<call, approved, reply>>
edited   == <<dirty, unreported>>
history  == <<edited, background, effects>>
result   == <<row, outcome>>
vars == <<pc, cancelled, counters, gate, progress, request, result, history>>

Phases == {"plan", "model", "call", "approval", "save", "complete", "return",
           "done"}
Outcomes == {"none", "final", "tool_limit", "model_failed", "invalid",
             "duplicate", "stalled", "stream"}

FlagsOK ==
  /\ cancelled \in BOOLEAN /\ required \in BOOLEAN /\ verified \in BOOLEAN
  /\ approved \in BOOLEAN /\ dirty \in BOOLEAN /\ unreported \in BOOLEAN

TypeOK ==
  /\ FlagsOK
  /\ pc \in Phases
  /\ toolSteps \in Nat
  /\ background \in Nat /\ effects \in Nat
  /\ lastCall \in Calls \cup {NoCall}
  /\ call \in Calls \cup {NoCall}
  /\ stalled \in Nat /\ decisionFailures \in Nat /\ duplicateFailures \in Nat
  /\ seen \subseteq Evidence
  /\ reply \in {"none", "pending", "ok", "error"}
  /\ row \in {"active", "complete", "error", "cancelled"}
  /\ outcome \in Outcomes

(* RunAgent has stored the session as active and enters the loop.          *)
Init ==
  /\ pc = "plan" /\ cancelled = FALSE
  /\ toolSteps = 0 /\ lastCall = NoCall /\ stalled = 0
  /\ decisionFailures = 0 /\ duplicateFailures = 0
  /\ seen = {}
  /\ required = FALSE /\ verified = FALSE
  /\ call = NoCall /\ approved = FALSE /\ reply = "none"
  /\ row = "active" /\ outcome = "none"
  /\ dirty = FALSE /\ unreported = FALSE /\ background = 0 /\ effects = 0

-----------------------------------------------------------------------------
(* Ways to leave the loop                                                  *)

(* A write of the status column: refused by a cancelled context, and its   *)
(* error is only logged.                                                   *)
Stored(status) ==
  IF cancelled THEN {row} ELSE IF StoreReliable THEN {status} ELSE {row, status}

(* return s.sendAgentEvent(..., "error", ...)                              *)
StopWithError(reason) ==
  /\ pc' = "return"
  /\ outcome' = reason
  /\ row' \in Stored("error")

(* return err, after stream.Send refused an event                          *)
StreamClosed ==
  /\ pc' = "return"
  /\ outcome' = "stream"
  /\ UNCHANGED row

ContinuePlanning == pc' = "plan" /\ UNCHANGED result

-----------------------------------------------------------------------------
(* The head of the loop and the model's decision                           *)

(* The status event is sent and the model is asked.                        *)
AskModel ==
  /\ pc = "plan" /\ toolSteps < MaxSteps /\ ~cancelled
  /\ pc' = "model"
  /\ UNCHANGED <<cancelled, counters, gate, progress, request, result, history>>

(* The loop's status event is refused: the client has gone.                *)
LeaveLoop ==
  /\ pc = "plan" /\ toolSteps < MaxSteps /\ cancelled
  /\ StreamClosed
  /\ UNCHANGED <<cancelled, counters, gate, progress, request, history>>

Deciding == pc = "model"

(* callCodeCompletion returned an error: a timeout, or the client left.    *)
ModelFails ==
  /\ Deciding
  /\ StopWithError("model_failed")
  /\ UNCHANGED <<cancelled, counters, gate, progress, request, history>>

CountInvalid ==
  /\ decisionFailures' = decisionFailures + 1
  /\ IF decisionFailures + 1 >= FailureLimit THEN StopWithError("invalid")
                                             ELSE ContinuePlanning

(* Not a JSON object, or a tool decision without a tool name.              *)
InvalidDecision ==
  /\ Deciding
  /\ CountInvalid
  /\ UNCHANGED <<cancelled, toolSteps, lastCall, duplicateFailures, gate,
                 progress, request, history>>

(* MUTANT of UnknownDecisionType: such decisions are not counted.          *)
UnknownDecisionUncounted ==
  /\ Deciding
  /\ ContinuePlanning
  /\ lastCall' = NoCall
  /\ UNCHANGED <<cancelled, toolSteps, decisionFailures, duplicateFailures, gate,
                 progress, request, history>>

(* A decision whose type is neither tool nor final.                        *)
UnknownDecisionType ==
  /\ Deciding
  /\ CountInvalid
  /\ lastCall' = NoCall
  /\ UNCHANGED <<cancelled, toolSteps, duplicateFailures, gate, progress,
                 request, history>>

NeedsVerification == required /\ ~verified

(* A final answer before the change was verified is sent back.             *)
RejectFinal ==
  /\ Deciding /\ NeedsVerification
  /\ decisionFailures' = 0
  /\ ContinuePlanning
  /\ UNCHANGED <<cancelled, toolSteps, lastCall, duplicateFailures, gate,
                 progress, request, history>>

AcceptFinal ==
  /\ Deciding /\ ~NeedsVerification
  /\ decisionFailures' = 0
  /\ IF cancelled THEN StreamClosed
                  ELSE pc' = "save" /\ outcome' = "final" /\ UNCHANGED row
  /\ UNCHANGED <<cancelled, toolSteps, lastCall, duplicateFailures, gate,
                 progress, request, history>>

IsDuplicate(c) == c = lastCall /\ c \notin Polls

(* MUTANT of SkipDuplicate: a skipped call counts as nothing.              *)
SkipDuplicateUncounted(c) ==
  /\ Deciding /\ IsDuplicate(c)
  /\ ContinuePlanning
  /\ UNCHANGED <<cancelled, counters, gate, progress, request, history>>

SkipDuplicate(c) ==
  /\ Deciding /\ IsDuplicate(c)
  /\ duplicateFailures' = duplicateFailures + 1
  /\ IF duplicateFailures + 1 >= FailureLimit THEN StopWithError("duplicate")
                                              ELSE ContinuePlanning
  /\ UNCHANGED <<cancelled, toolSteps, lastCall, decisionFailures, gate,
                 progress, request, history>>

StartTool(c) ==
  /\ Deciding /\ ~IsDuplicate(c)
  /\ decisionFailures' = 0 /\ duplicateFailures' = 0
  /\ lastCall' = c
  /\ toolSteps' = toolSteps + 1
  /\ IF cancelled
       THEN StreamClosed /\ UNCHANGED request
       ELSE /\ pc' = "call"
            /\ call' = c /\ approved' = FALSE /\ reply' = "pending"
            /\ UNCHANGED result
  /\ UNCHANGED <<cancelled, gate, progress, history>>
-----------------------------------------------------------------------------
(* The daemon                                                              *)

Permitted == approved \/ call \notin Gated

(* An edit is made. reported says whether its reply will say so.           *)
Edit(reported) ==
  /\ call \in Edits
  /\ dirty' = TRUE
  /\ unreported' = (unreported \/ ~reported)
  /\ effects' = effects + 1
  /\ UNCHANGED background

(* A command runs to its end, whatever becomes of its reply; it may change *)
(* the workspace on the way.                                               *)
RunCommand ==
  /\ call \in Execs
  /\ effects' \in {effects, effects + 1}
  /\ UNCHANGED background

(* A process is started.                                                   *)
StartProcess ==
  /\ call \in Starts
  /\ background' = background + 1
  /\ UNCHANGED <<edited, effects>>

Look == call \in Polls \cup Looks /\ UNCHANGED history

Verify == dirty' = FALSE /\ unreported' = FALSE

(* The daemon finishes the call; an edit reports its change.               *)
DaemonSucceeds ==
  /\ reply = "pending" /\ Permitted
  /\ reply' = "ok"
  /\ Edit(pc = "call") \/ (RunCommand /\ Verify) \/ StartProcess \/ Look
  /\ UNCHANGED <<pc, cancelled, counters, gate, progress, call, approved, result>>

(* What a call that failed may have done. An edit: create fails on the     *)
(* write after it made the file, a patch was applied and the command       *)
(* context expired before Run looked at it. A command: it exits with an    *)
(* error or is killed at its timeout. A process that fails to start: no    *)
(* more than nothing.                                                      *)
FailMidway == Permitted /\ (Edit(FALSE) \/ (RunCommand /\ UNCHANGED edited))

DaemonFails ==
  /\ reply = "pending"
  /\ reply' = "error"
  /\ UNCHANGED history \/ FailMidway
  /\ UNCHANGED <<pc, cancelled, counters, gate, progress, call, approved, result>>

(* A process changes the workspace for the first time, perhaps long after  *)
(* the run.                                                                *)
ProcessWorks ==
  /\ background > 0
  /\ background' = background - 1
  /\ effects' = effects + 1
  /\ UNCHANGED <<pc, cancelled, counters, gate, progress, request, result, edited>>

-----------------------------------------------------------------------------
(* The observation of a tool call                                          *)

Outputs == {{}} \cup {{e} : e \in Evidence}

(* MUTANT of Observe: a change does not reopen a verified gate.            *)
ObserveKeepsVerified(ok, output) ==
  LET changed == ok /\ call \in Edits
      fresh   == ok /\ output \ seen # {}
      idle    == IF fresh THEN 0 ELSE stalled + 1
  IN  /\ required' = (required \/ changed)
      /\ verified' = (verified \/ (required /\ ok /\ call \in Execs))
      /\ stalled' = idle
      /\ seen' = IF ok THEN seen \cup output ELSE seen
      /\ IF cancelled THEN StreamClosed
         ELSE IF idle >= StallLimit THEN StopWithError("stalled")
         ELSE ContinuePlanning
      /\ UNCHANGED <<cancelled, counters, call, approved>>

(* The rest of the loop body once executeAgentTool returned: ok is         *)
(* observation.Error = "" and output its evidence, if any.                 *)
Observe(ok, output) ==
  LET changed == ok /\ call \in Edits
      fresh   == ok /\ output \ seen # {}
      idle    == IF fresh THEN 0 ELSE stalled + 1
  IN  /\ required' = (required \/ changed)
      /\ verified' = IF changed THEN FALSE
                     ELSE verified \/ (required /\ ok /\ call \in Execs)
      /\ stalled' = idle
      /\ seen' = IF ok THEN seen \cup output ELSE seen
      /\ IF cancelled THEN StreamClosed
         ELSE IF idle >= StallLimit THEN StopWithError("stalled")
         ELSE ContinuePlanning
      /\ UNCHANGED <<cancelled, counters, call, approved>>

ReceiveResult(output) ==
  /\ pc = "call" /\ reply = "ok" /\ ~cancelled
  /\ Observe(TRUE, output)
  /\ reply' = "none"
  /\ UNCHANGED history

(* MUTANT of ReceiveError: a failed call is sent once more.                *)
ReceiveErrorRetries ==
  /\ pc = "call" /\ reply = "error" /\ ~cancelled
  /\ reply' = "pending"
  /\ UNCHANGED <<pc, cancelled, counters, gate, progress, call, approved, result, history>>

ReceiveError ==
  /\ pc = "call" /\ reply = "error" /\ ~cancelled
  /\ Observe(FALSE, {})
  /\ reply' = "none"
  /\ UNCHANGED history

(* The connection to the daemon broke (it exited or was restarted) before  *)
(* its reply arrived, and the call may or may not have run.                *)
LoseReply ==
  /\ pc = "call" /\ ~cancelled
  /\ Observe(FALSE, {})
  /\ reply' = "none"
  /\ \/ reply = "pending" /\ (FailMidway \/ (Permitted /\ StartProcess))
     \/ reply \in {"pending", "error"} /\ UNCHANGED history
     \/ reply = "ok" /\ unreported' = (unreported \/ call \in Edits)
                     /\ UNCHANGED <<dirty, background, effects>>

(* The client left: Execute returns ctx.Err() while the daemon may still   *)
(* be at work on the call.                                                 *)
AbandonCall ==
  /\ pc = "call" /\ cancelled
  /\ Observe(FALSE, {})
  /\ unreported' = (unreported \/ (reply = "ok" /\ call \in Edits))
  /\ UNCHANGED <<reply, dirty, background, effects>>

-----------------------------------------------------------------------------
(* waitForApproval, seen from the loop                                     *)

AskApproval ==
  /\ pc = "call" /\ reply = "pending" /\ ~Permitted /\ ~cancelled
  /\ pc' = "approval" /\ reply' = "none"
  /\ UNCHANGED <<cancelled, counters, gate, progress, call, approved, result, history>>

(* Approved: the call is sent again, unless the context is cancelled.      *)
UserApproves ==
  /\ pc = "approval" /\ ~cancelled
  /\ pc' = "call" /\ approved' = TRUE /\ reply' = "pending"
  /\ UNCHANGED <<cancelled, counters, gate, progress, call, result, history>>

(* Denied, timed out, or the client left: no second call is made.          *)
ApprovalRefused ==
  /\ pc = "approval"
  /\ Observe(FALSE, {})
  /\ UNCHANGED <<reply, history>>

-----------------------------------------------------------------------------
(* The end of the run                                                      *)

(* finishCodeAgentAtLimit: the hand-off text never fails, its event may.   *)
HandOff ==
  /\ pc = "plan" /\ toolSteps >= MaxSteps
  /\ IF cancelled THEN StreamClosed
                  ELSE pc' = "save" /\ outcome' = "tool_limit" /\ UNCHANGED row
  /\ UNCHANGED <<cancelled, counters, gate, progress, request, history>>

(* saveAgentSession(..., "complete"); its error is dropped.                *)
SaveComplete ==
  /\ pc = "save"
  /\ pc' = "complete"
  /\ row' \in Stored("complete")
  /\ UNCHANGED <<cancelled, counters, gate, progress, request, outcome, history>>

(* The complete event, which writes the status again.                      *)
SendComplete ==
  /\ pc = "complete"
  /\ pc' = "return"
  /\ row' \in Stored("complete")
  /\ UNCHANGED <<cancelled, counters, gate, progress, request, outcome, history>>

(* MUTANT of Return: the cancelled status is not written.                  *)
ReturnWithoutStatus ==
  /\ pc = "return"
  /\ pc' = "done"
  /\ UNCHANGED <<cancelled, counters, gate, progress, request, result, history>>

(* RunAgent's deferred function, on a context of its own.                  *)
Return ==
  /\ pc = "return"
  /\ pc' = "done"
  /\ IF cancelled /\ StoreReliable THEN row' = "cancelled"
     ELSE IF cancelled THEN row' \in {row, "cancelled"}
     ELSE UNCHANGED row
  /\ UNCHANGED <<cancelled, counters, gate, progress, request, outcome, history>>

(* The client closes the stream.                                           *)
Cancel ==
  /\ pc # "done" /\ ~cancelled
  /\ cancelled' = TRUE
  /\ UNCHANGED <<pc, counters, gate, progress, request, result, history>>

-----------------------------------------------------------------------------
Decide ==
  \/ LeaveLoop \/ ModelFails \/ InvalidDecision \/ UnknownDecisionType
  \/ AcceptFinal
  \/ \E c \in Calls : SkipDuplicate(c) \/ StartTool(c)

Result ==
  \/ \E output \in Outputs : ReceiveResult(output)
  \/ ReceiveError \/ LoseReply \/ AbandonCall
  \/ AskApproval \/ UserApproves \/ ApprovalRefused

Finish == SaveComplete \/ SendComplete \/ Return

Orchestrator == AskModel \/ HandOff \/ RejectFinal \/ Decide \/ Result \/ Finish
Daemon == DaemonSucceeds \/ DaemonFails

Next == Orchestrator \/ Daemon \/ ProcessWorks \/ Cancel

Spec == Init /\ [][Next]_vars

(* The model call, the daemon's commands and the approval wait all have a  *)
(* timeout, so the handler always takes its next step; nobody has to       *)
(* cancel, and nothing says which decision the model makes.                *)
FairSpec == Spec /\ WF_vars(Orchestrator) /\ WF_vars(Daemon)
-----------------------------------------------------------------------------
(* An accepted final answer covers every edit the daemon reported: a       *)
(* verification command succeeded after it, unless an edit's report was    *)
(* lost. (runCodeAgent's verificationRequired and verifiedAfterChange; the *)
(* gate does not ask for a command after what a shell wrote.)              *)
FinalIsVerified == outcome = "final" /\ ~unreported => ~dirty

(* When the handler has returned, the session row tells how the run ended: *)
(* never left active, complete only after an answer, cancelled exactly     *)
(* when the client left first.  (sendAgentEvent, saveAgentSession and the  *)
(* deferred status of RunAgent.)                                           *)
RowTellsOutcome ==
  pc = "done" /\ StoreReliable =>
    row = CASE cancelled -> "cancelled"
            [] ~cancelled /\ outcome \in {"final", "tool_limit"} -> "complete"
            [] OTHER -> "error"

(* Every run ends if, from some point on, the model stops answering with a *)
(* final decision that is sent back.                                       *)
EndsUnlessFinalsRejected == <>[][~RejectFinal]_vars => <>(pc = "done")

-----------------------------------------------------------------------------
(* What a run promises its surroundings: AgentRun with this refinement.    *)
CallState ==
  IF reply = "pending" /\ Permitted THEN "running"
  ELSE IF reply = "pending" \/ pc = "approval" THEN "held" ELSE "none"

Run == INSTANCE AgentRun WITH
  Budget  <- MaxSteps,
  started <- toolSteps,
  call    <- CallState,
  ended   <- pc \in {"return", "done"}

RunSpec == Run!Spec
=============================================================================
