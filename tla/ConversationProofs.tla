------------------------- MODULE ConversationProofs ------------------------
(***************************************************************************)
(* Proofs about ConversationAgent, for every profile length and window.    *)
(*                                                                         *)
(* The main result is that a window of 2 * MaxRounds - 4 observations (12  *)
(* for the 8 rounds of a research run) never drops the evidence of the     *)
(* run.  The argument counts what can be observed after it: one            *)
(* observation in the round after the search, two in every later one.      *)
(***************************************************************************)
EXTENDS ConversationAgent, TLAPS

Live == {"round", "model", "tool"}

HasSources(os, i) == os[i].sources # <<>>

(* Some evidence is at most age observations old.                          *)
Within(os, age) ==
  \E i \in 1 .. Len(os) : HasSources(os, i) /\ Len(os) - i <= age

-----------------------------------------------------------------------------
(* What Remember keeps                                                     *)

LEMMA NotesAreObservations == Note \in Observation /\ EmptySearch \in Observation
BY DEF Note, EmptySearch, Observation

LEMMA RememberType ==
  ASSUME NEW os \in Seq(Observation), NEW o \in Observation
  PROVE  /\ Remember(os, o) \in Seq(Observation)
         /\ Len(Remember(os, o)) <= KeepLimit
         /\ Len(Remember(os, o)) >= 1
         /\ Remember(os, o)[Len(Remember(os, o))] = o
<1> DEFINE all == Append(os, o)
<1>1. all \in Seq(Observation) /\ Len(all) = Len(os) + 1 /\ all[Len(all)] = o
  OBVIOUS
<1>2. CASE Len(all) <= KeepLimit
  BY <1>1, <1>2 DEF Remember
<1>3. CASE ~(Len(all) <= KeepLimit)
  <2> HIDE DEF all
  <2> DEFINE kept == SubSeq(all, Len(all) - KeepLimit + 1, Len(all))
  <2>1. Remember(os, o) = kept
    BY <1>3 DEF Remember, all
  <2>2. kept \in Seq(Observation)
    BY <1>1, <1>3, Limits
  <2>3. Len(kept) = KeepLimit /\ kept[KeepLimit] = all[Len(all)]
    BY <1>1, <1>3, Limits
  <2> HIDE DEF kept
  <2>4. QED  BY <1>1, <2>1, <2>2, <2>3, Limits
<1>4. QED  BY <1>2, <1>3

LEMMA RememberKeeps ==
  ASSUME NEW os \in Seq(Observation), NEW o \in Observation,
         NEW age \in Int, Within(os, age), age + 2 <= KeepLimit
  PROVE  Within(Remember(os, o), age + 1)
<1> DEFINE all == Append(os, o)
<1>1. PICK i \in 1 .. Len(os) : HasSources(os, i) /\ Len(os) - i <= age
  BY DEF Within
<1>2. all \in Seq(Observation) /\ Len(all) = Len(os) + 1 /\ all[i] = os[i]
  BY <1>1
<1>3. CASE Len(all) <= KeepLimit
  BY <1>1, <1>2, <1>3 DEF Remember, Within, HasSources
<1>4. CASE ~(Len(all) <= KeepLimit)
  <2> HIDE DEF all
  <2> DEFINE kept == SubSeq(all, Len(all) - KeepLimit + 1, Len(all))
             k == i - (Len(all) - KeepLimit)
  <2>1. Remember(os, o) = kept
    BY <1>4 DEF Remember, all
  <2>2. Len(kept) = KeepLimit /\ k \in 1 .. KeepLimit /\ kept[k] = all[i]
    BY <1>1, <1>2, <1>4, Limits
  <2>3. Len(kept) - k <= age + 1
    BY <1>1, <1>2, <2>2, Limits
  <2> HIDE DEF kept, k
  <2>4. Within(kept, age + 1)
    BY <1>1, <1>2, <2>2, <2>3 DEF Within, HasSources
  <2>5. QED  BY <2>1, <2>4
<1>5. QED  BY <1>3, <1>4

LEMMA RememberNew ==
  ASSUME NEW os \in Seq(Observation), NEW o \in Observation, o.sources # <<>>
  PROVE  Within(Remember(os, o), 0)
<1> DEFINE kept == Remember(os, o)
<1>1. kept \in Seq(Observation) /\ Len(kept) >= 1 /\ kept[Len(kept)] = o
  BY RememberType
<1> HIDE DEF kept
<1>2. Len(kept) \in 1 .. Len(kept) /\ Len(kept) - Len(kept) <= 0
  BY <1>1
<1>3. Within(kept, 0)
  BY <1>1, <1>2 DEF Within, HasSources
<1>4. QED  BY <1>3 DEF kept

LEMMA WithinMore ==
  ASSUME NEW os \in Seq(Observation), NEW age \in Int, NEW more \in Int,
         Within(os, age), age <= more
  PROVE  Within(os, more)
BY DEF Within

LEMMA WithinGrounded ==
  ASSUME NEW os \in Seq(Observation), NEW age \in Int, Within(os, age)
  PROVE  \E i \in DOMAIN os : os[i].sources # <<>>
BY DEF Within, HasSources

-----------------------------------------------------------------------------
(* The kinds of step                                                       *)

(* The observations, and what decides about them, stay as they are.        *)
Quiet ==
  /\ UNCHANGED <<round, observations, stalled, seen, got>>
  /\ pc' \in Live => pc \in Live
  /\ pc' = "tool" => pc = "tool" \/ (pc = "model" /\ round # MaxRounds)
  /\ pc' = "model" => pc = "model" \/ round <= MaxRounds

Retries ==
  /\ pc = "model" /\ pc' = "round" /\ round' = round + 1
  /\ stalled' \in {stalled, stalled + 1}
  /\ \E o \in {Note, EmptySearch} : observations' = Remember(observations, o)
  /\ UNCHANGED <<seen, got>>

Observes ==
  /\ pc = "tool"
  /\ \E o \in Observation, key \in SUBSET (SourceLists \cup Evidence) :
       /\ o.sources # <<>> => key = {o.sources}
       /\ Observe(o, key)

LEMMA UseToolKinds ==
  ASSUME NEW c \in Calls, pc = "model", UseTool(c)
  PROVE  Quiet \/ Retries
<1>1. CASE StopAtLimit
  BY <1>1 DEF StopAtLimit, Finish, StreamClosed, Quiet, Live, progress, history
<1>2. CASE SkipIdentical(c)
  BY <1>2 DEF SkipIdentical, Retry, NextRound, Retries, history
<1>3. CASE StartTool(c)
  BY <1>3 DEF StartTool, StreamClosed, Quiet, Live, LastRound
<1>4. QED  BY <1>1, <1>2, <1>3 DEF UseTool

(* The steps of the daemon and of the approval leave the loop as it is.    *)
LEMMA DaemonSteps ==
  ASSUME AskApproval \/ UserApproves \/ FinishAbandoned \/ ProcessWorks
  PROVE  UNCHANGED loop
BY DEF AskApproval, UserApproves, FinishAbandoned, ProcessWorks

LEMMA Kinds ==
  ASSUME [Next]_vars
  PROVE  Quiet \/ Retries \/ Observes
<1> USE DEF progress, history, result, input
<1>1. CASE AnswerOffline \/ RoundsUsedUp
  BY <1>1 DEF AnswerOffline, RoundsUsedUp, Finish, StreamClosed, Quiet, Live
<1>2. CASE AskModel
  BY <1>2 DEF AskModel, StreamClosed, Quiet, Live
<1>3. CASE ModelFails
  BY <1>3 DEF ModelFails, Quiet, Live
<1>4. CASE UnknownDecision
  <2>1. CASE FallsBack
    BY <1>4, <2>1, UseToolKinds, CallKinds DEF UnknownDecision, Deciding, Calls
  <2>2. CASE ~FallsBack
    BY <1>4, <2>2 DEF UnknownDecision, Deciding, Retry, NextRound, Retries
  <2>3. QED  BY <2>1, <2>2
<1>5. ASSUME NEW plain \in BOOLEAN, InvalidDecision(plain) PROVE Quiet \/ Retries
  <2>0. pc = "model"  BY <1>5 DEF InvalidDecision, Deciding
  <2>1. CASE UseTool(Recovered)
    BY <2>0, <2>1, UseToolKinds, CallKinds DEF Calls
  <2>2. CASE \E why \in {"plain", "invalid"} :
               Finish(why, 0) /\ UNCHANGED <<round, progress, call, history>>
    BY <2>0, <2>2 DEF Finish, StreamClosed, Quiet, Live
  <2>3. CASE Retry(Note) /\ UNCHANGED stalled
    BY <2>0, <2>3 DEF Retry, NextRound, Retries
  <2>4. QED  BY <1>5, <2>1, <2>2, <2>3 DEF InvalidDecision
<1>6. ASSUME NEW c \in Calls, DecideTool(c) PROVE Quiet \/ Retries
  BY <1>6, UseToolKinds DEF DecideTool, Deciding
<1>7. ASSUME NEW n, AcceptFinal(n) PROVE Quiet
  BY <1>7 DEF AcceptFinal, Deciding, Finish, StreamClosed, Quiet, Live
<1>8. ASSUME NEW n, RefuseFinal(n) PROVE Quiet \/ Retries
  BY <1>8 DEF RefuseFinal, Deciding, Finish, StreamClosed, Quiet, Live, Retry,
              NextRound, Retries
<1>9. ASSUME NEW list \in SourceLists, SearchFinds(list) PROVE Observes
  <2> DEFINE o == [tool |-> "search", sources |-> list]
  <2>1. o \in Observation /\ o.sources = list  BY DEF Observation
  <2> HIDE DEF o
  <2>2. pc = "tool" /\ Observe(o, {list})  BY <1>9 DEF SearchFinds, o
  <2>3. {list} \in SUBSET (SourceLists \cup Evidence)  OBVIOUS
  <2>4. QED  BY <2>1, <2>2, <2>3 DEF Observes
<1>10. ASSUME NEW output \in Evidence, ToolReturns(output) PROVE Observes
  <2>1. Note.sources = <<>>  BY DEF Note
  <2>2. {output} \in SUBSET (SourceLists \cup Evidence)  OBVIOUS
  <2>3. pc = "tool" /\ Observe(Note, {output})  BY <1>10 DEF ToolReturns
  <2>4. QED  BY <2>1, <2>2, <2>3, NotesAreObservations DEF Observes
<1>11. CASE SearchFails \/ ToolFails \/ AbandonTool
  <2>1. Note.sources = <<>> /\ EmptySearch.sources = <<>>
    BY DEF Note, EmptySearch
  <2>2. {} \in SUBSET (SourceLists \cup Evidence)  OBVIOUS
  <2>3. pc = "tool" /\ (Observe(Note, {}) \/ Observe(EmptySearch, {}))
    BY <1>11 DEF SearchFails, ToolFails, AbandonTool
  <2>4. QED  BY <2>1, <2>2, <2>3, NotesAreObservations DEF Observes
<1>12. CASE SaveComplete \/ SendComplete \/ Return \/ Cancel
  BY <1>12 DEF SaveComplete, SendComplete, Return, Cancel, Quiet, Live
<1>13. CASE UNCHANGED loop
  BY <1>13 DEF loop, Quiet
<1>14. QED
  BY <1>1, <1>2, <1>3, <1>4, <1>5, <1>6, <1>7, <1>8, <1>9, <1>10, <1>11, <1>12,
     <1>13, DaemonSteps
     DEF Next, Handler, Loop, BeginRound, Decide, Result, vars

-----------------------------------------------------------------------------
(* Types                                                                   *)

LEMMA TypeInit == ASSUME Init PROVE TypeOK
<1>1. FlagsOK  BY DEF Init, FlagsOK
<1>2. observations \in Seq(Observation) /\ Len(observations) <= KeepLimit
  BY Limits DEF Init
<1>3. QED
  BY <1>1, <1>2, Limits DEF Init, TypeOK, Phases, Outcomes

LEMMA FlagsStep == ASSUME FlagsOK, [Next]_vars PROVE FlagsOK'
<1> USE DEF FlagsOK, input, daemon
<1>1. CASE Loop /\ UNCHANGED <<consent, daemon>>
  BY <1>1 DEF Loop, BeginRound, Decide, AnswerOffline, AskModel, RoundsUsedUp,
              ModelFails, UnknownDecision, InvalidDecision, DecideTool,
              AcceptFinal, RefuseFinal, SaveComplete, SendComplete, Return
<1>2. ASSUME NEW o, NEW key, Observe(o, key), left' \in BOOLEAN PROVE FlagsOK'
  BY <1>2 DEF Observe
<1>3. CASE Cancel /\ UNCHANGED <<consent, daemon>>
  BY <1>3 DEF Cancel
<1>4. CASE AskApproval \/ UserApproves \/ FinishAbandoned \/ ProcessWorks
  BY <1>4 DEF AskApproval, UserApproves, FinishAbandoned, ProcessWorks, loop
<1>5. CASE UNCHANGED vars
  BY <1>5 DEF vars, loop
<1>6. QED
  BY <1>1, <1>2, <1>3, <1>4, <1>5
     DEF Next, Handler, Result, SearchFinds, SearchFails, ToolReturns, ToolFails,
         AbandonTool

(* The rest of the state, where no observation is added.                   *)
RestOK ==
  /\ policy \in {"none", "preferred", "required"}
  /\ pc \in Phases
  /\ round \in 1 .. MaxRounds + 1
  /\ lastCall \in Calls \cup {NoCall} /\ call \in Calls \cup {NoCall}
  /\ stalled \in Nat
  /\ outcome \in Outcomes /\ cite \in Nat
  /\ row \in {"active", "complete", "error", "cancelled"}
  /\ toolCalls \in Nat

DataOK ==
  /\ observations \in Seq(Observation) /\ Len(observations) <= KeepLimit
  /\ seen \subseteq SourceLists \cup Evidence
  /\ got \subseteq SourceLists

DaemonOK ==
  consent \in {"none", "asked", "given"} /\ background \in Nat /\ effects \in Nat

LEMMA TypeParts == TypeOK <=> FlagsOK /\ RestOK /\ DataOK /\ DaemonOK
BY DEF TypeOK, RestOK, DataOK, DaemonOK

LEMMA DaemonOKStep == ASSUME DaemonOK, [Next]_vars PROVE DaemonOK'
<1> USE DEF DaemonOK, daemon
<1>1. CASE UNCHANGED <<consent, daemon>>
  BY <1>1
<1>2. CASE (\E output \in Evidence : ToolReturns(output)) \/ ToolFails
  <2>1. consent' = "none" /\ (Work \/ UNCHANGED <<background, effects>>)
    BY <1>2 DEF ToolReturns, ToolFails
  <2>2. QED  BY <2>1 DEF Work
<1>3. CASE AbandonTool
  BY <1>3 DEF AbandonTool
<1>4. CASE AskApproval \/ UserApproves \/ FinishAbandoned \/ ProcessWorks
  BY <1>4 DEF AskApproval, UserApproves, FinishAbandoned, ProcessWorks, Work
<1>5. QED
  BY <1>1, <1>2, <1>3, <1>4
     DEF Next, Handler, Result, SearchFinds, SearchFails, vars

LEMMA DataStep == ASSUME DataOK, [Next]_vars PROVE DataOK'
<1>1. CASE Quiet
  BY <1>1 DEF Quiet, DataOK
<1>2. CASE Retries
  <2>1. PICK o \in {Note, EmptySearch} : observations' = Remember(observations, o)
    BY <1>2 DEF Retries
  <2>2. QED  BY <1>2, <2>1, RememberType, NotesAreObservations DEF Retries, DataOK
<1>3. CASE Observes
  <2>1. PICK o \in Observation, key \in SUBSET (SourceLists \cup Evidence) : Observe(o, key)
    BY <1>3 DEF Observes
  <2> DEFINE os == Remember(observations, o)
  <2>2. os \in Seq(Observation) /\ Len(os) <= KeepLimit
    BY RememberType DEF DataOK
  <2>3. /\ Remember(os, Note) \in Seq(Observation)
        /\ Len(Remember(os, Note)) <= KeepLimit
    BY <2>2, RememberType, NotesAreObservations
  <2>4. seen' = seen \cup key /\ got' = got \cup ({o.sources} \ {<<>>})
    BY <2>1 DEF Observe
  <2>5. observations' = os \/ observations' = Remember(os, Note)
    BY <2>1 DEF Observe
  <2>6. o.sources \in SourceLists \cup {<<>>}
    BY DEF Observation
  <2> HIDE DEF os
  <2>7. QED  BY <2>2, <2>3, <2>4, <2>5, <2>6 DEF DataOK
<1>4. QED  BY <1>1, <1>2, <1>3, Kinds

-----------------------------------------------------------------------------
(* Control: the rounds, the tool budget and the session row                *)

LoopInv ==
  /\ pc = "model" => round <= MaxRounds /\ toolCalls <= round - 1
  /\ pc = "tool" => round < MaxRounds /\ toolCalls <= round
  /\ pc = "round" => toolCalls <= round - 1

RowInv ==
  /\ pc \in Live => row = "active" /\ outcome = "none"
  /\ pc \in {"save", "complete"} => outcome \in Answers
  /\ pc = "save" => row = "active"
  /\ pc = "complete" /\ ~cancelled => row = "complete"
  /\ pc = "return" /\ ~cancelled =>
       row = IF outcome \in Answers THEN "complete" ELSE "error"
  /\ RowTellsOutcome

(* How a step may finish, or wait for another round.                       *)
LEMMA FinishStep ==
  ASSUME RestOK, RowInv, pc \in Live, NEW why \in Answers, NEW n \in Nat,
         Finish(why, n), UNCHANGED <<policy, cancelled, round, lastCall, call,
                                     stalled, toolCalls>>
  PROVE  RestOK' /\ LoopInv' /\ RowInv'
BY DEF RestOK, LoopInv, RowInv, Finish, StreamClosed, Live, Phases, Outcomes,
       Answers, RowTellsOutcome

LEMMA RetryStep ==
  ASSUME RestOK, LoopInv, RowInv, pc = "model", NEW o, Retry(o),
         stalled' \in {stalled, stalled + 1}, UNCHANGED <<policy, cancelled>>
  PROVE  RestOK' /\ LoopInv' /\ RowInv'
BY Limits
   DEF RestOK, LoopInv, RowInv, Retry, NextRound, Live, Phases, Outcomes, result,
       history, RowTellsOutcome

LEMMA UseToolStep ==
  ASSUME RestOK, LoopInv, RowInv, pc = "model", NEW c \in Calls, UseTool(c),
         UNCHANGED <<policy, cancelled>>
  PROVE  RestOK' /\ LoopInv' /\ RowInv'
<1>1. CASE StopAtLimit
  BY <1>1, FinishStep DEF StopAtLimit, Answers, Live, progress, history
<1>2. CASE SkipIdentical(c)
  BY <1>2, RetryStep DEF SkipIdentical
<1>3. CASE StartTool(c)
  <2>1. CASE cancelled
    BY <1>3, <2>1, Limits
       DEF StartTool, StreamClosed, RestOK, LoopInv, RowInv, Live, Phases,
           Outcomes, RowTellsOutcome
  <2>2. CASE ~cancelled
    BY <1>3, <2>2, Limits
       DEF StartTool, LastRound, RestOK, LoopInv, RowInv, Live, Phases, Outcomes,
           result, RowTellsOutcome
  <2>3. QED  BY <2>1, <2>2
<1>4. QED  BY <1>1, <1>2, <1>3 DEF UseTool

LEMMA ObserveStep ==
  ASSUME RestOK, LoopInv, RowInv, pc = "tool", NEW o, NEW key, Observe(o, key)
  PROVE  RestOK' /\ LoopInv' /\ RowInv'
<1>0. /\ stalled' \in Nat
      /\ lastCall' \in Calls \cup {NoCall}
      /\ UNCHANGED <<policy, cancelled, call, toolCalls>>
  BY DEF Observe, RestOK, input
<1>1. CASE cancelled
  BY <1>0, <1>1
     DEF Observe, StreamClosed, RestOK, LoopInv, RowInv, Live, Phases, Outcomes,
         RowTellsOutcome
<1>2. CASE ~cancelled
  BY <1>0, <1>2, Limits
     DEF Observe, NextRound, RestOK, LoopInv, RowInv, Live, Phases, Outcomes,
         result, RowTellsOutcome
<1>3. QED  BY <1>1, <1>2

LEMMA ControlStep ==
  ASSUME FlagsOK, RestOK, LoopInv, RowInv, [Next]_vars
  PROVE  RestOK' /\ LoopInv' /\ RowInv'
<1> USE DEF progress, history, result, input
<1>1. CASE AnswerOffline \/ RoundsUsedUp
  BY <1>1, FinishStep DEF AnswerOffline, RoundsUsedUp, Answers, Live
<1>2. CASE AskModel
  BY <1>2, Limits DEF AskModel, StreamClosed, RestOK, LoopInv, RowInv, Live, Phases,
              Outcomes, RowTellsOutcome
<1>3. CASE ModelFails
  BY <1>3 DEF ModelFails, Deciding, Stored, RestOK, LoopInv, RowInv, Live, Phases,
              Outcomes, Answers, RowTellsOutcome
<1>4. CASE UnknownDecision
  BY <1>4, UseToolStep, RetryStep, CallKinds DEF UnknownDecision, Deciding, Calls
<1>5. ASSUME NEW plain \in BOOLEAN, InvalidDecision(plain)
      PROVE  RestOK' /\ LoopInv' /\ RowInv'
  <2>1. CASE UseTool(Recovered)
    BY <1>5, <2>1, UseToolStep, CallKinds DEF InvalidDecision, Deciding, Calls
  <2>2. ASSUME NEW why \in {"plain", "invalid"}, Finish(why, 0),
               UNCHANGED <<round, progress, call, history>>
        PROVE  RestOK' /\ LoopInv' /\ RowInv'
    BY <1>5, <2>2, FinishStep DEF InvalidDecision, Deciding, Answers, Live
  <2>3. CASE Retry(Note) /\ UNCHANGED stalled
    BY <1>5, <2>3, RetryStep DEF InvalidDecision, Deciding
  <2>4. QED  BY <1>5, <2>1, <2>2, <2>3 DEF InvalidDecision
<1>6. ASSUME NEW c \in Calls, DecideTool(c)
      PROVE  RestOK' /\ LoopInv' /\ RowInv'
  BY <1>6, UseToolStep DEF DecideTool, Deciding
<1>7. ASSUME NEW n \in 0 .. SourceCount + 1, AcceptFinal(n)
      PROVE  RestOK' /\ LoopInv' /\ RowInv'
  <2>1. n \in Nat  OBVIOUS
  <2>2. QED  BY <1>7, <2>1, FinishStep DEF AcceptFinal, Deciding, Answers, Live
<1>8. ASSUME NEW n, RefuseFinal(n)
      PROVE  RestOK' /\ LoopInv' /\ RowInv'
  BY <1>8, FinishStep, RetryStep DEF RefuseFinal, Deciding, Answers, Live
<1>9. ASSUME NEW o, NEW key, pc = "tool", Observe(o, key)
      PROVE  RestOK' /\ LoopInv' /\ RowInv'
  BY <1>9, ObserveStep
<1>10. CASE SaveComplete \/ SendComplete
  BY <1>10 DEF SaveComplete, SendComplete, Stored, RestOK, LoopInv, RowInv, Live,
               Phases, RowTellsOutcome
<1>11. CASE Return
  BY <1>11 DEF Return, RestOK, LoopInv, RowInv, Live, Phases, RowTellsOutcome
<1>12. CASE Cancel
  BY <1>12 DEF Cancel, RestOK, LoopInv, RowInv, Live, Phases, RowTellsOutcome, FlagsOK
<1>13. CASE UNCHANGED loop
  BY <1>13 DEF loop, RestOK, LoopInv, RowInv, RowTellsOutcome
<1>14. QED
  BY <1>1, <1>2, <1>3, <1>4, <1>5, <1>6, <1>7, <1>8, <1>9, <1>10, <1>11, <1>12,
     <1>13, DaemonSteps
     DEF Next, Handler, Loop, BeginRound, Decide, Result, SearchFinds, SearchFails,
         ToolReturns, ToolFails, AbandonTool, vars

-----------------------------------------------------------------------------
(* The evidence                                                            *)

WindowFits == KeepLimit >= 2 * MaxRounds - 4

(* How old the newest evidence may be at the head of a round.              *)
MaxAge(r, idle) == IF idle = 0 THEN 2 * r - 4 ELSE 2 * r - 5

EvidenceInv ==
  /\ pc \in Live /\ round = 1 => seen = {} /\ got = {}
  /\ pc \in Live /\ round <= MaxRounds /\ got # {} =>
       Within(observations, MaxAge(round, stalled))
  /\ EvidenceKept

LEMMA MaxAgeFacts ==
  ASSUME NEW r \in Nat, NEW idle \in Nat
  PROVE  /\ MaxAge(r, idle) \in Int
         /\ MaxAge(r, idle) <= 2 * r - 4
         /\ idle = 0 => MaxAge(r, idle) + 1 = 2 * r - 3
         /\ idle # 0 => MaxAge(r, idle) + 2 = 2 * r - 3
         /\ MaxAge(r + 1, idle) >= 2 * r - 3
BY DEF MaxAge

LEMMA EvidenceRetry ==
  ASSUME WindowFits, RestOK, DataOK, LoopInv, EvidenceInv, Retries
  PROVE  EvidenceInv'
<1>1. PICK o \in {Note, EmptySearch} : observations' = Remember(observations, o)
  BY DEF Retries
<1>2. round \in Nat /\ stalled \in Nat /\ stalled' \in Nat
  BY Limits DEF RestOK, Retries
<1>3. CASE got # {} /\ round + 1 <= MaxRounds
  <2>1. Within(observations, MaxAge(round, stalled))
    BY <1>3, Limits DEF EvidenceInv, Retries, Live, RestOK
  <2>2. MaxAge(round, stalled) + 2 <= KeepLimit
    BY <1>2, <1>3, MaxAgeFacts, Limits DEF WindowFits
  <2>3. Within(observations', MaxAge(round, stalled) + 1)
    BY <1>1, <1>2, <2>1, <2>2, RememberKeeps, NotesAreObservations, MaxAgeFacts
       DEF DataOK
  <2>4. MaxAge(round, stalled) + 1 <= MaxAge(round + 1, stalled')
    BY <1>2, MaxAgeFacts
  <2>5. observations' \in Seq(Observation)
    BY <1>1, RememberType, NotesAreObservations DEF DataOK
  <2>6. Within(observations', MaxAge(round + 1, stalled'))
    <3>1. MaxAge(round, stalled) + 1 \in Int /\ MaxAge(round + 1, stalled') \in Int
      BY <1>2 DEF MaxAge
    <3>2. QED  BY <2>3, <2>4, <2>5, <3>1, WithinMore
  <2>7. Grounded'
    BY <2>3, <2>5 DEF Within, Grounded, HasSources
  <2>8. QED
    BY <1>2, <2>6, <2>7, Limits DEF EvidenceInv, EvidenceKept, Retries, RestOK
<1>4. CASE ~(got # {} /\ round + 1 <= MaxRounds)
  BY <1>2, <1>4, Limits DEF EvidenceInv, EvidenceKept, Retries, RestOK
<1>5. QED  BY <1>3, <1>4

(* An observation without sources, in a run that has evidence.             *)
LEMMA EvidenceAges ==
  ASSUME WindowFits, RestOK, DataOK, LoopInv, EvidenceInv, pc = "tool", got # {},
         NEW o \in Observation, NEW key, Observe(o, key), o.sources = <<>>
  PROVE  EvidenceInv'
<1> DEFINE os == Remember(observations, o)
           age == MaxAge(round, stalled)
<1>1. /\ round \in Nat /\ stalled \in Nat /\ stalled' \in Nat
      /\ round < MaxRounds /\ round >= 1
  BY Limits DEF RestOK, LoopInv, Observe
<1>2. Within(observations, age)
  BY <1>1, Limits DEF EvidenceInv, Live
<1>3. age \in Int /\ age + 2 <= KeepLimit
  BY <1>1, Limits DEF WindowFits, MaxAge
<1>9. MaxAge(round + 1, stalled') \in Int
  BY <1>1 DEF MaxAge
<1>4. os \in Seq(Observation) /\ Within(os, age + 1)
  BY <1>2, <1>3, RememberKeeps, RememberType DEF DataOK
<1>5. got' = got
  BY DEF Observe
<1>6. CASE cancelled
  <2>1. observations' = os /\ pc' = "return"
    BY <1>6 DEF Observe, StreamClosed
  <2>2. Grounded'
    BY <1>4, <2>1 DEF Within, Grounded, HasSources
  <2>3. QED  BY <2>1, <2>2 DEF EvidenceInv, EvidenceKept, Live
<1>7. CASE ~cancelled
  <2>1. /\ round' = round + 1
        /\ observations' = IF stalled' >= 2 THEN Remember(os, Note) ELSE os
        /\ stalled' = 0 \/ stalled' = stalled + 1
    BY <1>7 DEF Observe, NextRound
  <2> HIDE DEF os, age
  <2>2. CASE ~(stalled' >= 2)
    <3>1. age + 1 <= MaxAge(round + 1, stalled')
      BY <1>1, <2>1, <2>2 DEF age, MaxAge
    <3>2. observations' = os
      BY <2>1, <2>2
    <3>3. Within(observations', MaxAge(round + 1, stalled'))
      BY <1>3, <1>4, <1>9, <3>1, <3>2, WithinMore
    <3>4. Grounded'
      BY <1>4, <1>9, <3>2, <3>3, WithinGrounded DEF Grounded
    <3>5. QED  BY <1>1, <2>1, <3>3, <3>4, Limits DEF EvidenceInv, EvidenceKept
  <2>3. CASE stalled' >= 2
    <3>1. age + 2 = 2 * round - 3
      BY <1>1, <2>1, <2>3, MaxAgeFacts DEF age
    <3>2. age + 3 <= KeepLimit
      BY <1>1, <1>3, <3>1, Limits DEF WindowFits
    <3>3. observations' = Remember(os, Note)
      BY <2>1, <2>3
    <3>4. Within(observations', age + 2) /\ observations' \in Seq(Observation)
      BY <1>3, <1>4, <3>2, <3>3, RememberKeeps, RememberType, NotesAreObservations
    <3>5. age + 2 <= MaxAge(round + 1, stalled')
      BY <1>1, <3>1, MaxAgeFacts
    <3>6. Within(observations', MaxAge(round + 1, stalled'))
      BY <1>3, <1>9, <3>4, <3>5, WithinMore
    <3>7. Grounded'
      BY <1>9, <3>4, <3>6, WithinGrounded DEF Grounded
    <3>8. QED  BY <1>1, <2>1, <3>6, <3>7, Limits DEF EvidenceInv, EvidenceKept
  <2>4. QED  BY <2>2, <2>3
<1>8. QED  BY <1>6, <1>7

(* A search that returned sources.                                         *)
LEMMA EvidenceArrives ==
  ASSUME WindowFits, RestOK, DataOK, LoopInv, EvidenceInv, pc = "tool",
         NEW o \in Observation, Observe(o, {o.sources}), o.sources # <<>>
  PROVE  EvidenceInv'
<1> DEFINE os == Remember(observations, o)
<1>1. /\ round \in Nat /\ stalled \in Nat /\ stalled' \in Nat
      /\ round < MaxRounds /\ round >= 1
  BY Limits DEF RestOK, LoopInv, Observe
<1>2. os \in Seq(Observation) /\ Within(os, 0)
  BY RememberNew, RememberType DEF DataOK
<1>3. CASE cancelled
  <2>1. observations' = os /\ pc' = "return"
    BY <1>3 DEF Observe, StreamClosed
  <2>2. Grounded'
    BY <1>2, <2>1 DEF Within, Grounded, HasSources
  <2>3. QED  BY <2>1, <2>2 DEF EvidenceInv, EvidenceKept, Live
<1>4. CASE ~cancelled
  <2>1. /\ round' = round + 1
        /\ observations' = IF stalled' >= 2 THEN Remember(os, Note) ELSE os
        /\ stalled' = IF o.sources \notin seen THEN 0 ELSE stalled + 1
    BY <1>4 DEF Observe, NextRound
  <2> HIDE DEF os
  <2>2. CASE o.sources \notin seen
    <3>1. stalled' = 0 /\ observations' = os /\ 0 <= MaxAge(round + 1, 0)
      BY <1>1, <2>1, <2>2 DEF MaxAge
    <3>2. MaxAge(round + 1, 0) \in Int
      BY <1>1 DEF MaxAge
    <3>3. Within(observations', MaxAge(round + 1, 0))
      BY <1>2, <3>1, <3>2, WithinMore
    <3>4. Grounded'
      BY <1>2, <3>1, WithinGrounded DEF Grounded
    <3>5. QED  BY <1>1, <2>1, <3>1, <3>3, <3>4, Limits DEF EvidenceInv, EvidenceKept
  <2>3. CASE o.sources \in seen
    <3>1. round >= 2
      BY <1>1, <2>3 DEF EvidenceInv, Live
    <3>2. KeepLimit >= 2 /\ 1 <= MaxAge(round + 1, stalled')
      BY <1>1, <2>1, <2>3, <3>1, Limits DEF WindowFits, MaxAge
    <3>3. Within(Remember(os, Note), 1) /\ Remember(os, Note) \in Seq(Observation)
      BY <1>2, <3>2, RememberKeeps, RememberType, NotesAreObservations
    <3>4. Within(observations', 1) /\ observations' \in Seq(Observation)
      BY <1>2, <2>1, <3>3, WithinMore
    <3>5. MaxAge(round + 1, stalled') \in Int
      BY <1>1 DEF MaxAge
    <3>6. Within(observations', MaxAge(round + 1, stalled'))
      BY <3>2, <3>4, <3>5, WithinMore
    <3>7. Grounded'
      BY <3>4, WithinGrounded DEF Grounded
    <3>8. QED  BY <1>1, <2>1, <3>1, <3>6, <3>7, Limits DEF EvidenceInv, EvidenceKept
  <2>4. QED  BY <2>2, <2>3
<1>5. QED  BY <1>3, <1>4

(* The first round of a run without evidence.                              *)
LEMMA EvidenceNone ==
  ASSUME RestOK, DataOK, LoopInv, EvidenceInv, pc = "tool", got = {},
         NEW o \in Observation, NEW key, Observe(o, key), o.sources = <<>>
  PROVE  EvidenceInv'
<1>1. got' = {}  BY DEF Observe
<1>2. pc' \in Live => round' # 1
  BY Limits DEF Observe, NextRound, StreamClosed, Live, RestOK
<1>3. QED  BY <1>1, <1>2 DEF EvidenceInv, EvidenceKept

LEMMA EvidenceStep ==
  ASSUME WindowFits, RestOK, DataOK, LoopInv, EvidenceInv, [Next]_vars
  PROVE  EvidenceInv'
<1>1. CASE Quiet
  <2>1. UNCHANGED <<round, observations, stalled, seen, got>> /\ (pc' \in Live => pc \in Live)
    BY <1>1 DEF Quiet
  <2>2. EvidenceKept'  BY <2>1 DEF EvidenceInv, EvidenceKept, Grounded
  <2>3. QED  BY <2>1, <2>2 DEF EvidenceInv
<1>2. CASE Retries
  BY <1>2, EvidenceRetry
<1>3. CASE Observes
  <2>1. PICK o \in Observation, key \in SUBSET (SourceLists \cup Evidence) :
          Observe(o, key) /\ (o.sources # <<>> => key = {o.sources})
    BY <1>3 DEF Observes
  <2>2. pc = "tool"  BY <1>3 DEF Observes
  <2>3. QED  BY <2>1, <2>2, EvidenceAges, EvidenceArrives, EvidenceNone
<1>4. QED  BY <1>1, <1>2, <1>3, Kinds

-----------------------------------------------------------------------------
(* The searches                                                            *)

Searched(os) == \E i \in 1 .. Len(os) : os[i].tool = "search"

(* What is observed was called, and only a call can be repeated.           *)
SearchInv ==
  /\ pc \in Live /\ lastCall # NoCall => toolCalls > 0
  /\ pc = "tool" => toolCalls > 0
  /\ Searched(observations) => toolCalls > 0
  /\ SearchedBeforeGivingUp

LEMMA RememberSearched ==
  ASSUME NEW os \in Seq(Observation), NEW o \in Observation,
         Searched(Remember(os, o))
  PROVE  Searched(os) \/ o.tool = "search"
<1> DEFINE all == Append(os, o)
<1>1. all \in Seq(Observation) /\ Len(all) = Len(os) + 1
      /\ \A i \in 1 .. Len(all) : all[i] = IF i = Len(all) THEN o ELSE os[i]
  OBVIOUS
<1> HIDE DEF all
<1>2. Remember(os, o) = IF Len(all) <= KeepLimit THEN all
                        ELSE SubSeq(all, Len(all) - KeepLimit + 1, Len(all))
  BY DEF Remember, all
<1>3. \E i \in 1 .. Len(all) : all[i].tool = "search"
  <2>1. CASE Len(all) <= KeepLimit
    BY <1>2, <2>1 DEF Searched
  <2>2. CASE ~(Len(all) <= KeepLimit)
    <3> DEFINE m == Len(all) - KeepLimit + 1
               kept == SubSeq(all, m, Len(all))
    <3>1. m \in 1 .. Len(all)
      BY <1>1, <2>2, Limits
    <3>2. /\ Len(kept) = Len(all) - m + 1
          /\ \A i \in 1 .. Len(kept) : kept[i] = all[m + i - 1]
      BY <1>1, <3>1
    <3> HIDE DEF m, kept
    <3>3. PICK i \in 1 .. Len(kept) : kept[i].tool = "search"
      BY <1>2, <2>2 DEF Searched, m, kept
    <3>4. m + i - 1 \in 1 .. Len(all)
      BY <1>1, <3>1, <3>2
    <3>5. QED  BY <3>2, <3>3, <3>4
  <2>3. QED  BY <2>1, <2>2
<1>4. QED  BY <1>1, <1>3 DEF Searched

LEMMA SearchedUnchanged ==
  ASSUME NEW os \in Seq(Observation)
  PROVE  (\E i \in DOMAIN os : os[i].tool = "search") <=> Searched(os)
BY DEF Searched

(* Nothing is observed, and the run does not give up.                      *)
LEMMA QuietSearch ==
  ASSUME SearchInv, UNCHANGED <<observations, toolCalls, policy, internet>>,
         pc' \in Live => pc \in Live /\ lastCall' = lastCall,
         pc' = "tool" => pc = "tool",
         outcome' = "invalid" => outcome = "invalid"
  PROVE  SearchInv'
BY DEF SearchInv, SearchedBeforeGivingUp, NeedsInternet, Searched

LEMMA RetrySearch ==
  ASSUME DataOK, RowInv, SearchInv, pc \in {"model", "tool"},
         NEW o \in Observation, o.tool = "search" => toolCalls > 0,
         observations' = Remember(observations, o), outcome' = outcome,
         pc' = "round", lastCall' \in {lastCall, NoCall}, toolCalls' = toolCalls
  PROVE  SearchInv'
<1>1. Searched(observations') => toolCalls > 0
  BY RememberSearched DEF DataOK, SearchInv
<1>2. outcome' # "invalid"
  BY DEF RowInv, Live
<1>3. QED  BY <1>1, <1>2 DEF SearchInv, SearchedBeforeGivingUp, Live

LEMMA UseToolSearch ==
  ASSUME RestOK, DataOK, RowInv, SearchInv, pc = "model", NEW c \in Calls,
         UseTool(c), UNCHANGED <<policy, internet, cancelled>>
  PROVE  SearchInv'
<1> USE DEF progress, history, result
<1>0. outcome = "none"  BY DEF RowInv, Live
<1>1. CASE StopAtLimit
  BY <1>1, <1>0, QuietSearch DEF StopAtLimit, Finish, StreamClosed, Live
<1>2. CASE SkipIdentical(c)
  <2>1. toolCalls > 0
    BY <1>2, CallKinds DEF SkipIdentical, SearchInv, Live
  <2>2. PICK o \in {Note, EmptySearch} : Retry(o)
    BY <1>2 DEF SkipIdentical
  <2>3. QED
    BY <2>1, <2>2, RetrySearch, NotesAreObservations DEF Retry, NextRound
<1>3. CASE StartTool(c)
  <2>1. CASE cancelled
    BY <1>3, <2>1, <1>0, QuietSearch DEF StartTool, StreamClosed, Live
  <2>2. CASE ~cancelled
    <3>1. toolCalls' > 0 /\ outcome' = "none"
      BY <1>3, <2>2, <1>0 DEF StartTool, RestOK
    <3>2. QED  BY <3>1 DEF SearchInv, SearchedBeforeGivingUp
  <2>3. QED  BY <2>1, <2>2
<1>4. QED  BY <1>1, <1>2, <1>3 DEF UseTool

LEMMA GiveUpSearch ==
  ASSUME RestOK, DataOK, RowInv, SearchInv, pc = "model", ~FallsBack,
         Finish("invalid", 0), UNCHANGED <<policy, internet, progress, history>>
  PROVE  SearchInv'
<1>1. NeedsInternet => Searched(observations)
  BY SearchedUnchanged DEF FallsBack, DataOK
<1>2. pc' \notin Live /\ observations' = observations /\ toolCalls' = toolCalls
      /\ (NeedsInternet' <=> NeedsInternet)
  BY DEF Finish, StreamClosed, Live, progress, history, NeedsInternet
<1>3. Searched(observations') <=> \E i \in DOMAIN observations' : observations'[i].tool = "search"
  BY <1>2, SearchedUnchanged DEF DataOK
<1>4. pc' # "tool"  BY <1>2 DEF Live
<1>5. QED  BY <1>1, <1>2, <1>3, <1>4 DEF SearchInv, SearchedBeforeGivingUp

LEMMA ObserveSearch ==
  ASSUME RestOK, DataOK, RowInv, SearchInv, pc = "tool",
         NEW o \in Observation, NEW key, Observe(o, key)
  PROVE  SearchInv'
<1> DEFINE os == Remember(observations, o)
<1>1. os \in Seq(Observation) /\ toolCalls' = toolCalls /\ toolCalls > 0
  BY RememberType DEF DataOK, Observe, SearchInv
<1>2. outcome' # "invalid"
  BY DEF RowInv, Live, Observe, StreamClosed, NextRound, result
<1>3. QED  BY <1>1, <1>2 DEF SearchInv, SearchedBeforeGivingUp

LEMMA SearchStep ==
  ASSUME RestOK, DataOK, RowInv, SearchInv, [Next]_vars
  PROVE  SearchInv'
<1> USE DEF progress, history, result, input
<1>0. pc \in Live => outcome = "none"
  BY DEF RowInv
<1>1. CASE AnswerOffline \/ RoundsUsedUp
  BY <1>1, QuietSearch DEF AnswerOffline, RoundsUsedUp, Finish, StreamClosed, Live
<1>2. CASE AskModel
  BY <1>2, QuietSearch DEF AskModel, StreamClosed, Live
<1>3. CASE ModelFails
  BY <1>3, QuietSearch DEF ModelFails, Live
<1>4. CASE UnknownDecision
  <2>1. CASE UseTool(Recovered)
    BY <1>4, <2>1, UseToolSearch, CallKinds DEF UnknownDecision, Deciding, Calls
  <2>2. CASE Retry(Note)
    <3>1. Note.tool # "search"  BY DEF Note
    <3>2. QED
      BY <1>4, <2>2, <3>1, RetrySearch, NotesAreObservations
         DEF UnknownDecision, Deciding, Retry, NextRound
  <2>3. QED  BY <1>4, <2>1, <2>2 DEF UnknownDecision
<1>5. ASSUME NEW plain \in BOOLEAN, InvalidDecision(plain) PROVE SearchInv'
  <2>1. CASE UseTool(Recovered)
    BY <1>5, <2>1, UseToolSearch, CallKinds DEF InvalidDecision, Deciding, Calls
  <2>2. CASE Retry(Note)
    <3>1. Note.tool # "search"  BY DEF Note
    <3>2. QED
      BY <1>5, <2>2, <3>1, RetrySearch, NotesAreObservations
         DEF InvalidDecision, Deciding, Retry, NextRound
  <2>3. CASE Finish("plain", 0) /\ UNCHANGED <<round, progress, call, history>>
    BY <1>5, <2>3, <1>0, QuietSearch
       DEF InvalidDecision, Deciding, Finish, StreamClosed, Live
  <2>4. CASE ~FallsBack /\ Finish("invalid", 0)
             /\ UNCHANGED <<round, progress, call, history>>
    BY <1>5, <2>4, GiveUpSearch DEF InvalidDecision, Deciding
  <2>5. QED  BY <1>5, <2>1, <2>2, <2>3, <2>4 DEF InvalidDecision
<1>6. ASSUME NEW c \in Calls, DecideTool(c) PROVE SearchInv'
  BY <1>6, UseToolSearch DEF DecideTool, Deciding
<1>7. ASSUME NEW n, AcceptFinal(n) PROVE SearchInv'
  BY <1>7, QuietSearch DEF AcceptFinal, Deciding, Finish, StreamClosed, Live
<1>8. ASSUME NEW n, RefuseFinal(n) PROVE SearchInv'
  <2>1. CASE Retry(Note)
    <3>1. Note.tool # "search"  BY DEF Note
    <3>2. QED
      BY <1>8, <2>1, <3>1, RetrySearch, NotesAreObservations
         DEF RefuseFinal, Deciding, Retry, NextRound
  <2>2. CASE Finish("unverified", 0) /\ UNCHANGED <<round, progress, call, history>>
    BY <1>8, <2>2, QuietSearch DEF RefuseFinal, Deciding, Finish, StreamClosed, Live
  <2>3. QED  BY <1>8, <2>1, <2>2 DEF RefuseFinal
<1>9. ASSUME NEW list \in SourceLists, SearchFinds(list) PROVE SearchInv'
  <2>1. [tool |-> "search", sources |-> list] \in Observation  BY DEF Observation
  <2>2. QED  BY <1>9, <2>1, ObserveSearch DEF SearchFinds
<1>10. ASSUME NEW output \in Evidence, ToolReturns(output) PROVE SearchInv'
  BY <1>10, ObserveSearch, NotesAreObservations DEF ToolReturns
<1>11. CASE SearchFails \/ ToolFails \/ AbandonTool
  BY <1>11, ObserveSearch, NotesAreObservations DEF SearchFails, ToolFails, AbandonTool
<1>12. CASE SaveComplete \/ SendComplete \/ Return \/ Cancel
  BY <1>12, QuietSearch DEF SaveComplete, SendComplete, Return, Cancel, Live
<1>13. CASE UNCHANGED loop
  BY <1>13, QuietSearch DEF loop
<1>14. QED
  BY <1>1, <1>2, <1>3, <1>4, <1>5, <1>6, <1>7, <1>8, <1>9, <1>10, <1>11, <1>12,
     <1>13, DaemonSteps
     DEF Next, Handler, Loop, BeginRound, Decide, Result, vars

-----------------------------------------------------------------------------
(* The inductive invariant                                                 *)

(* A call is abandoned only at the end, and every change or process has    *)
(* been paid for by a call of its own.                                     *)
DaemonInv ==
  /\ left => pc \in {"return", "done"}
  /\ effects + background + (IF left \/ pc = "tool" THEN 1 ELSE 0) <= toolCalls

LEMMA DaemonInvStep ==
  ASSUME RestOK, DaemonOK, DaemonInv, [Next]_vars
  PROVE  DaemonInv'
<1> USE DEF DaemonInv, DaemonOK, RestOK
<1>1. CASE Loop /\ UNCHANGED <<consent, daemon>>
  <2>1. /\ toolCalls' = toolCalls \/ toolCalls' = toolCalls + 1
        /\ pc' = "tool" => pc = "model" /\ toolCalls' = toolCalls + 1
        /\ pc \in {"return", "done"} => pc' \in {"return", "done"}
        /\ pc # "tool"
    BY <1>1 DEF Loop, BeginRound, AnswerOffline, AskModel, RoundsUsedUp, Decide,
                ModelFails, UnknownDecision, InvalidDecision, DecideTool, UseTool,
                StopAtLimit, SkipIdentical, StartTool, AcceptFinal, RefuseFinal,
                Deciding, Finish, StreamClosed, Retry, NextRound, SaveComplete,
                SendComplete, Return, history, result
  <2>2. QED  BY <1>1, <2>1 DEF daemon
<1>2. ASSUME NEW o, NEW key, pc = "tool", Observe(o, key) PROVE
        /\ toolCalls' = toolCalls /\ pc' # "tool" /\ ~left
        /\ cancelled => pc' = "return"
  BY <1>2 DEF Observe, StreamClosed, NextRound
<1>3. CASE (\E list \in SourceLists : SearchFinds(list)) \/ SearchFails
  <2>1. toolCalls' = toolCalls /\ pc' # "tool" /\ ~left
    BY <1>2, <1>3 DEF SearchFinds, SearchFails
  <2>2. UNCHANGED daemon
    BY <1>3 DEF SearchFinds, SearchFails
  <2>3. QED  BY <2>1, <2>2 DEF daemon
<1>4. CASE (\E output \in Evidence : ToolReturns(output)) \/ ToolFails
  <2>1. pc = "tool" /\ toolCalls' = toolCalls /\ pc' # "tool" /\ ~left
    BY <1>2, <1>4 DEF ToolReturns, ToolFails
  <2>2. left' = left /\ (Work \/ UNCHANGED <<background, effects>>)
    BY <1>4 DEF ToolReturns, ToolFails
  <2>3. QED  BY <2>1, <2>2 DEF Work
<1>5. CASE AbandonTool
  BY <1>2, <1>5 DEF AbandonTool
<1>6. CASE AskApproval \/ UserApproves \/ FinishAbandoned \/ ProcessWorks
  BY <1>6 DEF AskApproval, UserApproves, FinishAbandoned, ProcessWorks, Work,
              loop, history, daemon
<1>7. CASE Cancel /\ UNCHANGED <<consent, daemon>>
  BY <1>7 DEF Cancel, history, daemon
<1>8. CASE UNCHANGED vars
  BY <1>8 DEF vars, loop, history, daemon
<1>9. QED
  BY <1>1, <1>3, <1>4, <1>5, <1>6, <1>7, <1>8 DEF Next, Handler, Result

IInv ==
  /\ FlagsOK /\ RestOK /\ DataOK /\ DaemonOK
  /\ LoopInv /\ RowInv /\ SearchInv /\ DaemonInv

LEMMA IInvInit == ASSUME Init PROVE IInv
<1>1. FlagsOK /\ RestOK /\ DataOK /\ DaemonOK
  BY TypeInit, TypeParts
<1>2. LoopInv
  BY Limits DEF Init, LoopInv
<1>3. RowInv
  BY DEF Init, RowInv, Live, RowTellsOutcome
<1>4. SearchInv
  BY DEF Init, SearchInv, Searched, SearchedBeforeGivingUp
<1>5. DaemonInv
  BY DEF Init, DaemonInv
<1>6. QED  BY <1>1, <1>2, <1>3, <1>4, <1>5 DEF IInv

LEMMA Invariance == Spec => []IInv
<1>1. IInv /\ [Next]_vars => IInv'
  BY FlagsStep, DataStep, DaemonOKStep, ControlStep, SearchStep, DaemonInvStep DEF IInv
<1>2. QED  BY <1>1, IInvInit, PTL DEF Spec

(* Every variable keeps its type; the observations never exceed their      *)
(* window. (appendBoundedObservations)                                     *)
THEOREM TypeCorrect == Spec => []TypeOK
<1>1. IInv => TypeOK  BY TypeParts DEF IInv
<1>2. QED  BY <1>1, Invariance, PTL

(* The session row of a returned run tells how it ended.                   *)
(* (saveAgentSession, and the deferred cancelled of RunAgent)              *)
THEOREM RowSettled == Spec => []RowTellsOutcome
<1>1. IInv => RowTellsOutcome  BY DEF IInv, RowInv
<1>2. QED  BY <1>1, Invariance, PTL

(* A run that wants the internet gives up on an invalid response only      *)
(* after it has searched. (requiredInternetFallback)                       *)
THEOREM GivesUpAfterSearch == Spec => []SearchedBeforeGivingUp
<1>1. IInv => SearchedBeforeGivingUp  BY DEF IInv, SearchInv
<1>2. QED  BY <1>1, Invariance, PTL

(* With a window of 2 * MaxRounds - 4 observations, the search of a run is *)
(* never dropped before its last decision. (appendBoundedObservations      *)
(* against the rounds of conversationProfile)                              *)
THEOREM EvidenceNeverForgotten == WindowFits => (Spec => []EvidenceKept)
<1> SUFFICES ASSUME WindowFits PROVE Spec => []EvidenceKept
  OBVIOUS
<1>1. Init => EvidenceInv
  BY DEF Init, EvidenceInv, EvidenceKept
<1>2. IInv /\ EvidenceInv /\ [Next]_vars => EvidenceInv'
  BY EvidenceStep DEF IInv
<1>3. EvidenceInv => EvidenceKept
  BY DEF EvidenceInv
<1>4. QED  BY <1>1, <1>2, <1>3, Invariance, PTL DEF Spec

-----------------------------------------------------------------------------
(* A conversation run implements AgentRun                                  *)

Over == pc \in {"return", "done"}

StepsRun == [Run!Next]_(Run!vars)

(* The loop goes on without a call, and a run that is over stays so.       *)
Settles ==
  /\ toolCalls' = toolCalls /\ UNCHANGED daemon
  /\ pc # "tool" /\ pc' # "tool"
  /\ Over => Over'

LEMMA SettlesRun == ASSUME Settles PROVE StepsRun
BY DEF Settles, Over, StepsRun, CallState, daemon, Run!Next, Run!End, Run!vars,
       Run!workspace

LEMMA UseToolRun ==
  ASSUME RestOK, LoopInv, DaemonInv, pc = "model", NEW c \in Calls, UseTool(c),
         UNCHANGED daemon
  PROVE  StepsRun
<1> USE DEF progress, history, result
<1>1. CASE StopAtLimit
  <2>1. Settles  BY <1>1 DEF StopAtLimit, Finish, StreamClosed, Settles, Over
  <2>2. QED  BY <2>1, SettlesRun
<1>2. CASE SkipIdentical(c)
  <2>1. Settles  BY <1>2 DEF SkipIdentical, Retry, NextRound, Settles, Over
  <2>2. QED  BY <2>1, SettlesRun
<1>3. CASE StartTool(c) /\ cancelled
  <2>1. Settles  BY <1>3 DEF StartTool, StreamClosed, Settles, Over
  <2>2. QED  BY <2>1, SettlesRun
<1>4. CASE StartTool(c) /\ ~cancelled
  <2>1. pc' = "tool" /\ toolCalls' = toolCalls + 1
    BY <1>4 DEF StartTool
  <2>2. toolCalls < MaxRounds - 1
    BY <1>4, Limits DEF StartTool, LastRound, LoopInv, RestOK
  <2>3. CallState = "none" /\ CallState' \in {"held", "running"}
    BY <2>1 DEF CallState, DaemonInv
  <2>4. QED
    BY <2>1, <2>2, <2>3 DEF StepsRun, daemon, Run!Next, Run!Start, Run!workspace
<1>5. QED  BY <1>1, <1>2, <1>3, <1>4 DEF UseTool

(* The call ends, with what it did to the workspace.                       *)
LEMMA CallEnds ==
  ASSUME DaemonInv, pc = "tool", NEW o, NEW key, Observe(o, key), left' = FALSE,
         IF Permitted THEN Work ELSE UNCHANGED <<background, effects>>
  PROVE  StepsRun
<1>1. toolCalls' = toolCalls /\ pc' # "tool"
  BY DEF Observe, StreamClosed, NextRound
<1>2. CallState' = "none"
  BY <1>1 DEF CallState
<1>3. CASE Permitted
  BY <1>1, <1>2, <1>3
     DEF CallState, Work, StepsRun, Run!Next, Run!Settle, Run!workspace
<1>4. CASE ~Permitted
  <2>1. CallState = "held"  BY <1>4 DEF CallState, DaemonInv
  <2>2. QED
    BY <1>1, <1>2, <1>4, <2>1 DEF StepsRun, Run!Next, Run!Drop, Run!workspace
<1>5. QED  BY <1>3, <1>4

LEMMA ToolRun ==
  ASSUME FlagsOK, DaemonInv,
         \/ \E list \in SourceLists : SearchFinds(list)
         \/ \E output \in Evidence : ToolReturns(output)
         \/ SearchFails \/ ToolFails \/ AbandonTool
  PROVE  StepsRun
<1>0. pc = "tool" /\ left = FALSE
  BY DEF FlagsOK, DaemonInv, SearchFinds, SearchFails, ToolReturns, ToolFails,
         AbandonTool
<1>1. CASE (\E list \in SourceLists : SearchFinds(list)) \/ SearchFails
  <2>1. UNCHANGED <<left, background, effects>>
    BY <1>1 DEF SearchFinds, SearchFails, daemon
  <2>2. QED  BY <1>0, <1>1, <2>1, CallEnds DEF SearchFinds, SearchFails, Work
<1>2. CASE \E output \in Evidence : ToolReturns(output)
  BY <1>0, <1>2, CallEnds DEF ToolReturns
<1>3. CASE ToolFails
  BY <1>0, <1>3, CallEnds DEF ToolFails
<1>4. CASE AbandonTool
  <2>1. CASE left' = FALSE
    BY <1>0, <1>4, <2>1, CallEnds DEF AbandonTool, Work
  <2>2. CASE left' # FALSE
    <3>1. Permitted /\ left'
      BY <1>4, <2>2 DEF AbandonTool
    <3>2. toolCalls' = toolCalls /\ pc' = "return" /\ UNCHANGED <<background, effects>>
      BY <1>4 DEF AbandonTool, Observe, StreamClosed
    <3>3. CallState = "running" /\ CallState' = "running"
      BY <1>0, <3>1 DEF CallState
    <3>4. QED
      BY <1>0, <3>2, <3>3 DEF StepsRun, Run!Next, Run!End, Run!workspace
  <2>3. QED  BY <2>1, <2>2
<1>5. QED  BY <1>1, <1>2, <1>3, <1>4

LEMMA DaemonRun ==
  ASSUME FlagsOK, DaemonInv,
         AskApproval \/ UserApproves \/ FinishAbandoned \/ ProcessWorks
  PROVE  StepsRun
<1> USE DEF loop, history, daemon, StepsRun, Run!vars, Run!workspace
<1>1. CASE AskApproval
  <2>1. CallState = "held" /\ CallState' = "held"
    BY <1>1 DEF AskApproval, CallState, Permitted, DaemonInv
  <2>2. QED  BY <1>1, <2>1 DEF AskApproval
<1>2. CASE UserApproves
  <2>1. CallState \in {"held", "running"} /\ CallState' = "running" /\ pc = "tool"
    BY <1>2 DEF UserApproves, CallState, Permitted
  <2>2. CASE CallState = "held"
    BY <1>2, <2>1, <2>2 DEF UserApproves, Run!Next, Run!Approve
  <2>3. CASE CallState = "running"
    BY <1>2, <2>1, <2>3 DEF UserApproves
  <2>4. QED  BY <2>1, <2>2, <2>3
<1>3. CASE FinishAbandoned
  <2>1. CallState = "running" /\ CallState' = "none"
    BY <1>3 DEF FinishAbandoned, CallState, DaemonInv
  <2>2. QED
    BY <1>3, <2>1 DEF FinishAbandoned, Work, Run!Next, Run!Settle
<1>4. CASE ProcessWorks
  <2>1. CallState' = CallState
    BY <1>4 DEF ProcessWorks, CallState, Permitted
  <2>2. QED  BY <1>4, <2>1 DEF ProcessWorks, Run!Next, Run!ChangeLater
<1>5. QED  BY <1>1, <1>2, <1>3, <1>4

LEMMA LoopRun ==
  ASSUME RestOK, LoopInv, DaemonInv, Loop, UNCHANGED daemon
  PROVE  StepsRun
<1> USE DEF progress, history, result, input
<1>1. CASE AnswerOffline \/ AskModel \/ RoundsUsedUp \/ ModelFails
  <2>1. Settles
    BY <1>1 DEF AnswerOffline, AskModel, RoundsUsedUp, ModelFails, Deciding,
                Finish, StreamClosed, Settles, Over
  <2>2. QED  BY <2>1, SettlesRun
<1>2. CASE pc = "model" /\ \E c \in Calls : UseTool(c)
  BY <1>2, UseToolRun
<1>3. CASE pc = "model" /\ \E o : Retry(o)
  <2>1. Settles  BY <1>3 DEF Retry, NextRound, Settles, Over
  <2>2. QED  BY <2>1, SettlesRun
<1>4. CASE pc = "model" /\ UNCHANGED history /\ \E why, n : Finish(why, n)
  <2>1. Settles  BY <1>4 DEF Finish, StreamClosed, Settles, Over
  <2>2. QED  BY <2>1, SettlesRun
<1>6. CASE SaveComplete \/ SendComplete \/ Return
  <2>1. Settles
    BY <1>6 DEF SaveComplete, SendComplete, Return, Settles, Over
  <2>2. QED  BY <2>1, SettlesRun
<1>7. ASSUME Decide, ~ModelFails PROVE StepsRun
  <2>1. CASE UnknownDecision
    BY <2>1, <1>2, <1>3, CallKinds DEF UnknownDecision, Deciding, Calls
  <2>2. ASSUME NEW plain \in BOOLEAN, InvalidDecision(plain) PROVE StepsRun
    BY <2>2, <1>2, <1>3, <1>4, CallKinds DEF InvalidDecision, Deciding, Calls
  <2>3. ASSUME NEW c \in Calls, DecideTool(c) PROVE StepsRun
    BY <2>3, <1>2 DEF DecideTool, Deciding
  <2>4. ASSUME NEW n, AcceptFinal(n) \/ RefuseFinal(n) PROVE StepsRun
    BY <2>4, <1>3, <1>4 DEF AcceptFinal, RefuseFinal, Deciding
  <2>5. QED  BY <1>7, <2>1, <2>2, <2>3, <2>4 DEF Decide
<1>8. QED  BY <1>1, <1>6, <1>7 DEF Loop, BeginRound

LEMMA RunStep ==
  ASSUME FlagsOK, RestOK, LoopInv, DaemonInv, [Next]_vars
  PROVE  StepsRun
<1>1. CASE Cancel /\ UNCHANGED <<consent, daemon>>
  BY <1>1 DEF Cancel, history, daemon, CallState, Permitted, StepsRun, Run!vars
<1>2. CASE UNCHANGED vars
  BY <1>2 DEF vars, loop, history, daemon, CallState, Permitted, StepsRun, Run!vars
<1>3. QED
  BY <1>1, <1>2, LoopRun, ToolRun, DaemonRun DEF Next, Handler, Result

(* A run starts at most MaxRounds - 1 tool calls, one at a time, and none  *)
(* once it has ended. A workspace is changed only by a call that runs, or  *)
(* later by a process such a call started; a call held back for approval   *)
(* does nothing. (executeAgentTool under runConversationAgent)             *)
THEOREM ImplementsAgentRun == Spec => RunSpec
<1>1. Init => Run!Init
  BY DEF Init, Run!Init, CallState
<1>2. IInv /\ [Next]_vars => [Run!Next]_(Run!vars)
  BY RunStep DEF IInv, StepsRun
<1>3. QED  BY <1>1, <1>2, Invariance, PTL DEF Spec, RunSpec, Run!Spec

=============================================================================
