------------------------- MODULE ConversationAgent -------------------------
(***************************************************************************)
(* One run of the conversation agent (runConversationAgent, the profiles   *)
(* normal and research): at most MaxRounds decisions of the model, tools   *)
(* in every round but the last, and a final answer that is refused while   *)
(* the evidence policy wants an internet source the run does not have.     *)
(*                                                                         *)
(* An observation keeps the two things the guards look at: whether it came *)
(* from internet.search, and the sources the search returned (none for a   *)
(* failed or empty search, for a skipped call and for every other tool).   *)
(* Texts, prompts and token counts are left out.                           *)
(*                                                                         *)
(* executeAgentTool sends every call whose name starts with "code." to the *)
(* beemo-code daemon, in a conversation as in a code run: the prompt does  *)
(* not offer these tools, but nothing keeps the model from naming one.     *)
(* /research in code mode sends the session's workspace along, a normal    *)
(* run an empty one, which the daemon takes for its own directory if that  *)
(* lies in a configured root. Such a call asks for approval and reaches    *)
(* the workspace as in CodeAgent; the loop does not look at what it        *)
(* changed. The variables left, background and effects are history: what   *)
(* the daemon did or may still do, guarding no step of the loop.           *)
(*                                                                         *)
(* The store takes its writes here; CodeAgent has the store that fails,    *)
(* through the same functions.                                             *)
(***************************************************************************)
EXTENDS Integers, Sequences, FiniteSets, FiniteSetsExt

CONSTANTS
  Searches,    \* calls of internet.search
  Others,      \* every other call, the ones no tool answers included
  Writers,     \* of them: code.create, code.patch and code.exec
  Starts,      \* of them: code.process_start
  Gated,       \* of them: what the daemon runs only with the user's approval
  Recovered,   \* the search for the user's own words
  NoCall,      \* lastSignature = ""
  SourceLists, \* what a successful search may return: non-empty sequences
  Evidence,    \* the non-empty outputs of the other tools
  MaxRounds,   \* profile.maxRounds (4 normal, 8 research)
  KeepLimit    \* the observations a run keeps (12)

Calls == Searches \cup Others

ASSUME CallKinds ==
  /\ Searches \cap Others = {} /\ Recovered \in Searches /\ NoCall \notin Calls
ASSUME CodeCalls ==
  /\ Writers \cup Starts \cup Gated \subseteq Others
  /\ Writers \cap Starts = {}
ASSUME NonEmptyLists == \A l \in SourceLists : l # <<>>
ASSUME Limits == MaxRounds \in Nat \ {0} /\ KeepLimit \in Nat \ {0}

VARIABLES
  policy, internet,     \* policy.Level, and whether the session may search
  pc, cancelled, round,
  observations, lastCall, stalled, seen,
  call,                 \* the tool call being executed
  outcome, cite,        \* how the run ended, the source its answer cites (0: none)
  row,                  \* status column of the session row
  toolCalls, got,       \* history: calls made, source lists received
  consent,              \* executeAgentTool in waitForApproval, or past it
  left,                 \* the daemon may still be at work on an abandoned call
  background,           \* started processes that changed nothing so far
  effects               \* how many calls changed the workspace

input    == <<policy, internet>>
progress == <<observations, lastCall, stalled, seen>>
result   == <<outcome, cite, row>>
history  == <<toolCalls, got>>
loop     == <<input, pc, cancelled, round, progress, call, result, history>>
daemon   == <<left, background, effects>>
vars == <<loop, consent, daemon>>

Phases == {"round", "model", "tool", "save", "complete", "return", "done"}
Answers == {"answer", "plain", "offline", "invalid", "unverified", "limit"}
Outcomes == Answers \cup {"none", "model_failed", "stream"}

Observation == [tool: {"search", "other"}, sources: SourceLists \cup {<<>>}]
Note == [tool |-> "other", sources |-> <<>>]
EmptySearch == [tool |-> "search", sources |-> <<>>]

FlagsOK ==
  internet \in BOOLEAN /\ cancelled \in BOOLEAN /\ left \in BOOLEAN

TypeOK ==
  /\ FlagsOK
  /\ policy \in {"none", "preferred", "required"}
  /\ pc \in Phases
  /\ round \in 1 .. MaxRounds + 1
  /\ observations \in Seq(Observation) /\ Len(observations) <= KeepLimit
  /\ lastCall \in Calls \cup {NoCall} /\ call \in Calls \cup {NoCall}
  /\ stalled \in Nat /\ seen \subseteq SourceLists \cup Evidence
  /\ outcome \in Outcomes /\ cite \in Nat
  /\ row \in {"active", "complete", "error", "cancelled"}
  /\ toolCalls \in Nat /\ got \subseteq SourceLists
  /\ consent \in {"none", "asked", "given"}
  /\ background \in Nat /\ effects \in Nat

NeedsInternet == policy = "required" \/ (policy = "preferred" /\ internet)

Init ==
  /\ policy \in {"none", "preferred", "required"} /\ internet \in BOOLEAN
  /\ pc = "round" /\ cancelled = FALSE /\ round = 1
  /\ observations = <<>> /\ lastCall = NoCall /\ stalled = 0 /\ seen = {}
  /\ call = NoCall
  /\ outcome = "none" /\ cite = 0 /\ row = "active"
  /\ toolCalls = 0 /\ got = {}
  /\ consent = "none" /\ left = FALSE /\ background = 0 /\ effects = 0

-----------------------------------------------------------------------------
(* Observations                                                            *)

(* appendBoundedObservations: the newest KeepLimit are kept.               *)
Remember(os, o) ==
  LET all == Append(os, o) IN
  IF Len(all) <= KeepLimit THEN all
  ELSE SubSeq(all, Len(all) - KeepLimit + 1, Len(all))

(* successfulInternetEvidence: the sources of every search, counted twice  *)
(* where two searches returned the same one.                               *)
SourceCount ==
  MapThenSumSet(LAMBDA i : Len(observations[i].sources), DOMAIN observations)

Grounded == \E i \in DOMAIN observations : observations[i].sources # <<>>

(* requiredInternetFallback: the run searches by itself, once.             *)
FallsBack ==
  NeedsInternet /\ \A i \in DOMAIN observations : observations[i].tool # "search"

-----------------------------------------------------------------------------
(* Ways to go on                                                           *)

Stored(status) == IF cancelled THEN row ELSE status

StreamClosed ==
  pc' = "return" /\ outcome' = "stream" /\ UNCHANGED <<cite, row>>

(* finishConversationAgent, up to its assistant event.                     *)
Finish(why, number) ==
  IF cancelled THEN StreamClosed
  ELSE pc' = "save" /\ outcome' = why /\ cite' = number /\ UNCHANGED row

NextRound == pc' = "round" /\ round' = round + 1 /\ UNCHANGED result

(* continue, after an observation was added.                               *)
Retry(o) ==
  /\ NextRound
  /\ observations' = Remember(observations, o)
  /\ UNCHANGED <<lastCall, seen, call, history>>

LastRound == round = MaxRounds

Offline == policy = "required" /\ ~internet

-----------------------------------------------------------------------------
(* The head of a round                                                     *)

(* Internet evidence is required and switched off: no model is asked.      *)
AnswerOffline ==
  /\ pc = "round" /\ Offline
  /\ Finish("offline", 0)
  /\ UNCHANGED <<input, cancelled, round, progress, call, history>>

AskModel ==
  /\ pc = "round" /\ ~Offline /\ round <= MaxRounds
  /\ IF cancelled THEN StreamClosed ELSE pc' = "model" /\ UNCHANGED result
  /\ UNCHANGED <<input, cancelled, round, progress, call, history>>

RoundsUsedUp ==
  /\ pc = "round" /\ ~Offline /\ round > MaxRounds
  /\ Finish("limit", 0)
  /\ UNCHANGED <<input, cancelled, round, progress, call, history>>

Deciding == pc = "model"

ModelFails ==
  /\ Deciding
  /\ pc' = "return" /\ outcome' = "model_failed" /\ row' = Stored("error")
  /\ UNCHANGED <<input, cancelled, round, progress, call, cite, history>>

-----------------------------------------------------------------------------
(* A tool decision                                                         *)

StopAtLimit ==
  /\ LastRound
  /\ Finish("limit", 0)
  /\ UNCHANGED <<round, progress, call, history>>

SkipIdentical(c) ==
  /\ ~LastRound /\ c = lastCall
  /\ stalled' = stalled + 1
  /\ Retry(IF c \in Searches THEN EmptySearch ELSE Note)

StartTool(c) ==
  /\ ~LastRound /\ c # lastCall
  /\ lastCall' = c
  /\ IF cancelled
       THEN StreamClosed /\ UNCHANGED <<call, toolCalls>>
       ELSE /\ pc' = "tool" /\ call' = c /\ toolCalls' = toolCalls + 1
            /\ UNCHANGED result
  /\ UNCHANGED <<round, observations, stalled, seen, got>>

UseTool(c) == StopAtLimit \/ SkipIdentical(c) \/ StartTool(c)

DecideTool(c) ==
  /\ Deciding /\ UseTool(c)
  /\ UNCHANGED <<input, cancelled>>

(* MUTANT of InvalidDecision: the run does not search by itself.           *)
InvalidDecisionNoFallback(plain) ==
  /\ Deciding
  /\ IF plain /\ LastRound /\ NeedsInternet /\ Grounded
       THEN Finish("plain", 0) /\ UNCHANGED <<round, progress, call, history>>
     ELSE IF LastRound
       THEN Finish("invalid", 0) /\ UNCHANGED <<round, progress, call, history>>
     ELSE Retry(Note) /\ UNCHANGED stalled
  /\ UNCHANGED <<input, cancelled>>

(* What the model returned is no JSON object; plain says it is some text   *)
(* that does not start like one.                                           *)
InvalidDecision(plain) ==
  /\ Deciding
  /\ IF plain /\ LastRound /\ NeedsInternet /\ Grounded
       THEN Finish("plain", 0) /\ UNCHANGED <<round, progress, call, history>>
     ELSE IF FallsBack THEN UseTool(Recovered)
     ELSE IF LastRound
       THEN Finish("invalid", 0) /\ UNCHANGED <<round, progress, call, history>>
     ELSE Retry(Note) /\ UNCHANGED stalled
  /\ UNCHANGED <<input, cancelled>>

(* MUTANT of UnknownDecision: such a decision costs no round.              *)
UnknownDecisionFree ==
  /\ Deciding
  /\ pc' = "round"
  /\ UNCHANGED <<input, cancelled, round, progress, call, result, history>>

(* A decision that is neither final nor a tool with a name.                *)
UnknownDecision ==
  /\ Deciding
  /\ IF FallsBack THEN UseTool(Recovered) ELSE Retry(Note) /\ UNCHANGED stalled
  /\ UNCHANGED <<input, cancelled>>

-----------------------------------------------------------------------------
(* A final decision, whose best citation is number (0: none)               *)

GuardRefuses(number) ==
  NeedsInternet /\ (~Grounded \/ number \notin 1 .. SourceCount)

AcceptFinal(number) ==
  /\ Deciding /\ ~GuardRefuses(number)
  /\ Finish("answer", number)
  /\ UNCHANGED <<input, cancelled, round, progress, call, history>>

RefuseFinal(number) ==
  /\ Deciding /\ GuardRefuses(number)
  /\ IF LastRound
       THEN Finish("unverified", 0) /\ UNCHANGED <<round, progress, call, history>>
       ELSE Retry(Note) /\ UNCHANGED stalled
  /\ UNCHANGED <<input, cancelled>>

-----------------------------------------------------------------------------
(* The observation of a tool call                                          *)

(* MUTANT of Observe: the note about stalled tools is added in every round *)
(* that stalls.                                                            *)
ObserveNotesEarly(o, key) ==
  LET fresh == key # {} /\ ~(key \subseteq seen)
      idle  == IF fresh THEN 0 ELSE stalled + 1
      os    == Remember(observations, o)
  IN  /\ stalled' = idle
      /\ seen' = seen \cup key
      /\ got' = got \cup ({o.sources} \ {<<>>})
      /\ IF cancelled
           THEN StreamClosed /\ observations' = os /\ UNCHANGED <<round, lastCall>>
           ELSE /\ NextRound
                /\ lastCall' = IF idle >= 2 THEN NoCall ELSE lastCall
                /\ observations' = IF idle >= 1 THEN Remember(os, Note) ELSE os
      /\ UNCHANGED <<input, cancelled, call, toolCalls>>

(* The rest of the round: key is the output, if there is one and no error. *)
Observe(o, key) ==
  LET fresh == key # {} /\ ~(key \subseteq seen)
      idle  == IF fresh THEN 0 ELSE stalled + 1
      os    == Remember(observations, o)
  IN  /\ stalled' = idle
      /\ seen' = seen \cup key
      /\ got' = got \cup ({o.sources} \ {<<>>})
      /\ IF cancelled
           THEN StreamClosed /\ observations' = os /\ UNCHANGED <<round, lastCall>>
           ELSE /\ NextRound
                /\ lastCall' = IF idle >= 2 THEN NoCall ELSE lastCall
                /\ observations' = IF idle >= 2 THEN Remember(os, Note) ELSE os
      /\ UNCHANGED <<input, cancelled, call, toolCalls>>

SearchFinds(list) ==
  /\ pc = "tool" /\ call \in Searches /\ internet
  /\ Observe([tool |-> "search", sources |-> list], {list})
  /\ UNCHANGED <<consent, daemon>>

(* No result, an error, or internet access is disabled.                    *)
SearchFails ==
  /\ pc = "tool" /\ call \in Searches
  /\ Observe(EmptySearch, {})
  /\ UNCHANGED <<consent, daemon>>

Permitted == call \notin Gated \/ consent = "given"

(* What a call may do to the workspace, whether its reply says so or not.  *)
Work ==
  \/ UNCHANGED <<background, effects>>
  \/ call \in Writers /\ effects' = effects + 1 /\ UNCHANGED background
  \/ call \in Starts /\ background' = background + 1 /\ UNCHANGED effects

ToolReturns(output) ==
  /\ pc = "tool" /\ call \in Others /\ Permitted
  /\ Observe(Note, {output})
  /\ Work /\ consent' = "none" /\ UNCHANGED left

(* MUTANT of ToolFails: a call that failed is sent once more.              *)
ToolFailsRetries ==
  /\ pc = "tool" /\ call \in Others /\ Permitted
  /\ Work
  /\ UNCHANGED <<loop, consent, left>>

(* An error, no output, a question, an unknown tool; or the approval was   *)
(* denied or timed out.                                                    *)
ToolFails ==
  /\ pc = "tool" /\ call \in Others
  /\ Observe(Note, {})
  /\ IF Permitted THEN Work ELSE UNCHANGED <<background, effects>>
  /\ consent' = "none" /\ UNCHANGED left

(* The client left: Execute returns while the daemon may go on.            *)
AbandonTool ==
  /\ pc = "tool" /\ call \in Others /\ cancelled
  /\ Observe(Note, {})
  /\ left' = (Permitted /\ call \in Writers \cup Starts)
  /\ consent' = "none" /\ UNCHANGED <<background, effects>>

AskApproval ==
  /\ pc = "tool" /\ call \in Gated /\ consent = "none" /\ ~cancelled
  /\ consent' = "asked"
  /\ UNCHANGED <<loop, daemon>>

(* Approved: the call is sent again.                                       *)
UserApproves ==
  /\ pc = "tool" /\ consent = "asked" /\ ~cancelled
  /\ consent' = "given"
  /\ UNCHANGED <<loop, daemon>>

-----------------------------------------------------------------------------
(* The daemon, left to itself                                              *)

FinishAbandoned ==
  /\ left /\ left' = FALSE
  /\ Work
  /\ UNCHANGED <<loop, consent>>

(* A process changes the workspace for the first time.                     *)
ProcessWorks ==
  /\ background > 0
  /\ background' = background - 1 /\ effects' = effects + 1
  /\ UNCHANGED <<loop, consent, left>>

-----------------------------------------------------------------------------
(* The end of the run: the same writes as at the end of a code run         *)

SaveComplete ==
  /\ pc = "save" /\ pc' = "complete" /\ row' = Stored("complete")
  /\ UNCHANGED <<input, cancelled, round, progress, call, outcome, cite, history>>

SendComplete ==
  /\ pc = "complete" /\ pc' = "return" /\ row' = Stored("complete")
  /\ UNCHANGED <<input, cancelled, round, progress, call, outcome, cite, history>>

Return ==
  /\ pc = "return" /\ pc' = "done"
  /\ row' = IF cancelled THEN "cancelled" ELSE row
  /\ UNCHANGED <<input, cancelled, round, progress, call, outcome, cite, history>>

Cancel ==
  /\ pc # "done" /\ ~cancelled /\ cancelled' = TRUE
  /\ UNCHANGED <<input, pc, round, progress, call, result, history>>

-----------------------------------------------------------------------------
BeginRound == AnswerOffline \/ AskModel \/ RoundsUsedUp

(* A citation beyond the sources there are is as good as the next number.  *)
Decide ==
  \/ ModelFails \/ UnknownDecision
  \/ \E plain \in BOOLEAN : InvalidDecision(plain)
  \/ \E c \in Calls : DecideTool(c)
  \/ \E number \in 0 .. SourceCount + 1 : AcceptFinal(number) \/ RefuseFinal(number)

Result ==
  \/ \E list \in SourceLists : SearchFinds(list)
  \/ \E output \in Evidence : ToolReturns(output)
  \/ SearchFails \/ ToolFails \/ AbandonTool \/ AskApproval \/ UserApproves

Loop == BeginRound \/ Decide \/ SaveComplete \/ SendComplete \/ Return

Handler == (Loop /\ UNCHANGED <<consent, daemon>>) \/ Result

Next ==
  \/ Handler
  \/ Cancel /\ UNCHANGED <<consent, daemon>>
  \/ FinishAbandoned \/ ProcessWorks

Spec == Init /\ [][Next]_vars

(* The model and the tools have timeouts, so the handler always goes on.   *)
FairSpec == Spec /\ WF_vars(Handler)
-----------------------------------------------------------------------------
(* Evidence once found is never forgotten: whatever stalls, repeats and    *)
(* rejections follow, the search is still among the observations the guard *)
(* looks at, and the final answer can still be accepted. (The window of    *)
(* appendBoundedObservations against the rounds of a profile.)             *)
EvidenceKept == got # {} /\ round <= MaxRounds => Grounded

(* A run that wanted internet evidence gives up on an invalid response     *)
(* only after it has searched. (requiredInternetFallback)                  *)
SearchedBeforeGivingUp ==
  outcome = "invalid" /\ NeedsInternet =>
    toolCalls > 0 /\ \E i \in DOMAIN observations : observations[i].tool = "search"

(* A returned run leaves the row complete after an answer of any kind,     *)
(* error after a failed model, and cancelled exactly when the client left. *)
RowTellsOutcome ==
  pc = "done" =>
    row = IF cancelled THEN "cancelled"
          ELSE IF outcome \in Answers THEN "complete" ELSE "error"

(* Every run ends, whatever the model decides: each decision costs a       *)
(* round, unlike in a code run.                                            *)
Terminates == <>(pc = "done")

(* What a run promises its surroundings: AgentRun, with a budget of one    *)
(* call less than the rounds.                                              *)
CallState ==
  IF (pc = "tool" /\ Permitted) \/ left THEN "running"
  ELSE IF pc = "tool" THEN "held" ELSE "none"

Run == INSTANCE AgentRun WITH
  Budget  <- MaxRounds - 1,
  started <- toolCalls,
  call    <- CallState,
  ended   <- pc \in {"return", "done"}

RunSpec == Run!Spec
=============================================================================
