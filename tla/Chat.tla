-------------------------------- MODULE Chat --------------------------------
(***************************************************************************)
(* The Chat call of the orchestrator: it finds out which tools a message   *)
(* asks for, from a question that is still open, from the words or from    *)
(* the model, runs them one after the other, and words the answer.  Two    *)
(* maps keyed by session outlive a call, each behind a mutex of its own:   *)
(* the transcript, read first and written last, and the pending question,  *)
(* read in between and written by whatever the tools report.  Calls on one *)
(* session may overlap.                                                    *)
(*                                                                         *)
(* A message is named by the chat it belongs to.  The arguments of a tool  *)
(* call, the wording of questions and answers, and the routes themselves   *)
(* are left out; whether a text parses, names a tool or fills a question   *)
(* is a choice.  The variables log, last and crossed are history.          *)
(***************************************************************************)
EXTENDS Naturals, Sequences, FiniteSets

CONSTANTS
  Chats,         \* the calls of Chat, each made once
  Sessions,      \* session ids
  Tools,         \* the supported tools that do something
  Direct,        \* beemo.direct: answer without a tool
  Search,        \* internet.search
  Immediate,     \* tools a route calls without asking the model for arguments
  Askers,        \* tools that may need more input
  AlwaysFilled,  \* tools that take any reply for the input they miss
  Fillable,      \* tools whose missing input may be found in a reply
  MaxCalls,      \* the most calls in one decision
  Parallel,      \* bound: the calls in flight at a time
  Kept,          \* messages a transcript keeps (18)
  NoQuestion     \* no pending question

ASSUME ToolsDiffer ==
  /\ Direct \notin Tools /\ Search \in Tools \ Immediate
  /\ Immediate \subseteq Tools \cup {Direct}
  /\ Askers \subseteq Tools /\ AlwaysFilled \subseteq Fillable
  /\ Fillable \subseteq Askers

ASSUME CountsAreNaturals == MaxCalls \in Nat /\ Parallel \in Nat /\ Kept \in Nat \ {0}

Message  == [chat : Chats, role : {"given", "user", "assistant"}]
Question == [tool : Tools, origin : Chats, asker : Chats]

ASSUME NoQuestionDiffers == NoQuestion \notin Question

\* The supported calls of a decision, in order; <<>> when it names others only.
Plans == UNION {[1..n -> Tools \cup {Direct}] : n \in 0..MaxCalls}

VARIABLES
  at,          \* what each call is about to do
  chat,        \* what each call has read and decided
  pending,     \* pendingBySession
  transcript,  \* transcriptBySession
  crossed,     \* the sessions two calls have overlapped on
  log,         \* every message of the others, in the order it was answered
  last         \* how their last answer ended, and the last question

history == <<crossed, log, last>>
vars    == <<at, chat, pending, transcript, history>>

Places == {"idle", "opened", "resume", "decide", "extract", "retry", "refill",
           "run", "reply", "done"}
Outcomes == {"none", "ok", "fixed", "needs_input", "error"}

Call == [session : Sessions, online : BOOLEAN, incoming : Seq(Message),
         base : Seq(Message), held : Question \cup {NoQuestion}, origin : Chats,
         calls : Seq(Tools \cup {Direct}), filling : BOOLEAN,
         filled : BOOLEAN, routed : BOOLEAN, models : Nat,
         question : Question \cup {NoQuestion}, outcome : Outcomes]

\* What is remembered of an answered call.
Answered == [session : Sessions, question : Question \cup {NoQuestion},
             filled : BOOLEAN, held : Question \cup {NoQuestion}]

Live(c) == at[c] \notin {"idle", "done"}

TypeOK ==
  /\ at \in [Chats -> Places]
  /\ chat \in [Chats -> Call \cup Answered \cup {NoQuestion}]
  /\ \A c \in Chats : Live(c) => chat[c] \in Call
  /\ \A c \in Chats : at[c] = "done" => chat[c] \in Answered
  /\ pending \in [Sessions -> Question \cup {NoQuestion}]
  /\ transcript \in [Sessions -> Seq(Message)]

Trim(msgs) == IF Len(msgs) <= Kept THEN msgs
              ELSE SubSeq(msgs, Len(msgs) - Kept + 1, Len(msgs))

Said(c, role) == [chat |-> c, role |-> role]

\* No answer yet.
Nothing == [outcome |-> "none", question |-> NoQuestion]

Init ==
  /\ at = [c \in Chats |-> "idle"]
  /\ chat = [c \in Chats |-> NoQuestion]
  /\ pending = [s \in Sessions |-> NoQuestion]
  /\ transcript = [s \in Sessions |-> <<>>]
  /\ log = [s \in Sessions |-> <<>>]
  /\ last = [s \in Sessions |-> Nothing]
  /\ crossed = {}

Move(c, place, r) == /\ at' = [at EXCEPT ![c] = place]
                     /\ chat' = [chat EXCEPT ![c] = r]

\* The call is decided; what only its later steps would read is let go.
End(c, r, outcome) ==
  Move(c, "reply", [r EXCEPT !.outcome = outcome, !.online = FALSE,
                             !.routed = FALSE, !.filling = FALSE,
                             !.calls = <<>>, !.origin = c,
                             !.held = IF r.filled THEN @ ELSE NoQuestion])

Asking(r, n) == [r EXCEPT !.models = @ + n]

-----------------------------------------------------------------------------
(* The beginning of a call.                                                *)

\* A request brings its last message alone, or a transcript of its own.
Incoming(c) == {<<Said(c, "user")>>, <<Said(c, "given"), Said(c, "user")>>}

\* MUTANT of Resolved: the stored transcript comes last.
ResolvedBackwards(s, incoming) ==
  Trim(IF Len(incoming) > 1 THEN incoming ELSE incoming \o transcript[s])

\* resolveMessages: a transcript of the request's own replaces the stored one.
Resolved(s, incoming) ==
  Trim(IF Len(incoming) > 1 THEN incoming ELSE transcript[s] \o incoming)

Begin(c) ==
  /\ at[c] = "idle" /\ Cardinality({d \in Chats : Live(d)}) < Parallel
  /\ \E s \in Sessions, online \in BOOLEAN, incoming \in Incoming(c) :
       /\ Move(c, "opened",
            [session |-> s, online |-> online, incoming |-> incoming,
             base |-> Resolved(s, incoming), held |-> NoQuestion, origin |-> c,
             calls |-> <<>>, filling |-> FALSE, filled |-> FALSE,
             routed |-> FALSE, models |-> 0, question |-> NoQuestion,
             outcome |-> "none"])
       /\ IF \E d \in Chats : Live(d) /\ chat[d].session = s
          THEN /\ crossed' = crossed \cup {s}
               /\ log' = [log EXCEPT ![s] = <<>>]
               /\ last' = [last EXCEPT ![s] = Nothing]
          ELSE UNCHANGED history
  /\ UNCHANGED <<pending, transcript>>

\* runMemoryAsk: the model plans, answers after a second retrieval, and
\* rewrites an answer of citations only; it is not asked when nothing is found.
MemoryModels == 0..3

\* The options memory_ask and direct_response, which look at no question.
AnswerAside(c) ==
  /\ at[c] = "opened"
  /\ \E n \in MemoryModels, outcome \in {"ok", "error"} :
       End(c, Asking(chat[c], n), outcome)
  /\ UNCHANGED <<pending, transcript, history>>

LookUp(c) ==
  LET question == pending[chat[c].session]
  IN  /\ at[c] = "opened"
      /\ IF question = NoQuestion
         THEN Move(c, "decide", chat[c])
         ELSE Move(c, "resume", [chat[c] EXCEPT !.held = question,
                                                !.origin = question.origin])
      /\ UNCHANGED <<pending, transcript, history>>

AsksModel(c) == \/ at[c] = "resume" /\ chat[c].held.tool \notin AlwaysFilled
                \/ at[c] \in {"decide", "extract"}
                \/ at[c] = "run" /\ chat[c].calls = <<>>

\* Whatever calls the model, a tool or a parser may fail with an error, which
\* leaves the transcript and the pending question as they are.  So does a
\* request without words, and a server without a model.
Fail(c) ==
  /\ at[c] \in {"opened", "resume", "decide", "extract", "run"}
  /\ \E n \in 0..1 :
       /\ n = 1 => AsksModel(c)
       /\ End(c, Asking(chat[c], n), "error")
  /\ UNCHANGED <<pending, transcript, history>>

-----------------------------------------------------------------------------
(* The calls a message asks for.                                           *)

\* The checks between a decision and its tools.
Admit(c, r, plan) ==
  LET offline == Search \in {plan[i] : i \in DOMAIN plan} /\ ~r.online
  IN  \/ offline /\ End(c, r, "fixed")
      \/ ~offline /\ r.routed /\ plan = <<>> /\ End(c, r, "error")
      \/ /\ ~offline /\ (r.routed => plan # <<>>)
         /\ Move(c, "run", [r EXCEPT !.calls = plan])

Clear(c) == pending' = [pending EXCEPT ![chat[c].session] = NoQuestion]

\* MUTANT of Dropped: originQuery is not set back.
DroppedKeepsOrigin(c) == [chat[c] EXCEPT !.held = NoQuestion]

\* What a call is once it has dropped the question it found.
Dropped(c) == [chat[c] EXCEPT !.held = NoQuestion, !.origin = c]

CancelQuestion(c) ==
  /\ at[c] = "resume"
  /\ Clear(c)
  /\ End(c, Dropped(c), "fixed")
  /\ UNCHANGED <<transcript, history>>

\* The question stays in the map until its tool succeeds.
FillWith(c, r) == Admit(c, [r EXCEPT !.filling = TRUE], <<chat[c].held.tool>>)

FillFromReply(c) ==
  /\ at[c] = "resume" /\ chat[c].held.tool \in Fillable
  /\ FillWith(c, chat[c])
  /\ UNCHANGED <<pending, transcript, history>>

\* A reply that plainly asks for another tool.
Interrupt(c) ==
  /\ at[c] = "resume" /\ chat[c].held.tool \notin AlwaysFilled
  /\ Clear(c)
  /\ \E tool \in Tools \ {chat[c].held.tool} : Admit(c, Dropped(c), <<tool>>)
  /\ UNCHANGED <<transcript, history>>

FillByModel(c) ==
  /\ at[c] = "resume" /\ chat[c].held.tool \notin AlwaysFilled
  /\ FillWith(c, Asking(chat[c], 1))
  /\ UNCHANGED <<pending, transcript, history>>

\* The model does not fill the question either: it is dropped.
GiveUp(c) ==
  /\ at[c] = "resume" /\ chat[c].held.tool \notin AlwaysFilled
  /\ Clear(c)
  /\ Move(c, "decide", Asking(Dropped(c), 1))
  /\ UNCHANGED <<transcript, history>>

Infer(c) ==
  /\ at[c] = "decide"
  /\ \E tool \in Tools : Admit(c, chat[c], <<tool>>)
  /\ UNCHANGED <<pending, transcript, history>>

\* The model chooses one of the routes retrieved for the message.
ChooseRoute(c) ==
  LET r == [Asking(chat[c], 1) EXCEPT !.routed = TRUE]
  IN  /\ at[c] = "decide"
      /\ \/ ~chat[c].online /\ End(c, r, "fixed")
         \/ \E n \in MemoryModels, outcome \in {"ok", "error"} :
              End(c, Asking(r, n), outcome)
         \/ \E tool \in Immediate : Admit(c, r, <<tool>>)
         \/ Move(c, "extract", r)
      /\ UNCHANGED <<pending, transcript, history>>

NoRoutes(c) ==
  /\ at[c] = "decide"
  /\ Move(c, "extract", chat[c])
  /\ UNCHANGED <<pending, transcript, history>>

\* An empty list is asked for once more, as any other list is accepted.
Accept(c, r, empty) ==
  \/ Move(c, empty, r)
  \/ \E plan \in Plans : Admit(c, r, plan)

Extract(c) ==
  /\ at[c] = "extract"
  /\ \/ Move(c, "retry", Asking(chat[c], 1))
     \/ Accept(c, Asking(chat[c], 1), "refill")
  /\ UNCHANGED <<pending, transcript, history>>

\* The text did not parse: one more attempt.
RetryText(c) ==
  /\ at[c] = "retry"
  /\ \/ End(c, Asking(chat[c], 1), "error")
     \/ Accept(c, Asking(chat[c], 1), "refill")
  /\ UNCHANGED <<pending, transcript, history>>

\* MUTANT of RetryEmpty: the retry is retried.
RetryUntilListed(c) ==
  LET r == Asking(chat[c], 1)
  IN  /\ at[c] = "refill"
      /\ Accept(c, r, "refill")
      /\ UNCHANGED <<pending, transcript, history>>

\* The list was empty: one more attempt, which an unrouted message may fail.
RetryEmpty(c) ==
  LET r == Asking(chat[c], 1)
  IN  /\ at[c] = "refill"
      /\ \E plan \in Plans : Admit(c, r, plan)
      /\ UNCHANGED <<pending, transcript, history>>

-----------------------------------------------------------------------------
(* The tools, and the answer.                                              *)

Running(c, tools) ==
  at[c] = "run" /\ chat[c].calls # <<>> /\ Head(chat[c].calls) \in tools

SkipDirect(c) ==
  /\ Running(c, {Direct})
  /\ Move(c, "run", [chat[c] EXCEPT !.calls = Tail(@)])
  /\ UNCHANGED <<pending, transcript, history>>

\* MUTANT of ToolSucceeds: the question is not cleared.
ToolKeepsQuestion(c) ==
  /\ Running(c, Tools)
  /\ Move(c, "run", [chat[c] EXCEPT !.calls = Tail(@), !.filled = @ \/ chat[c].filling])
  /\ UNCHANGED <<pending, transcript, history>>

\* The tool succeeds: whatever question the session has is settled.
ToolSucceeds(c) ==
  /\ Running(c, Tools)
  /\ Clear(c)
  /\ Move(c, "run", [chat[c] EXCEPT !.calls = Tail(@), !.filled = @ \/ chat[c].filling])
  /\ UNCHANGED <<transcript, history>>

\* MUTANT of AskUser: a question that is already pending is not replaced.
AskUserOnce(c) ==
  LET question == [tool |-> Head(chat[c].calls), origin |-> chat[c].origin,
                   asker |-> c]
      s == chat[c].session
  IN  /\ Running(c, Askers)
      /\ pending' = [pending EXCEPT ![s] = IF @ = NoQuestion THEN question ELSE @]
      /\ End(c, [chat[c] EXCEPT !.question = question], "needs_input")
      /\ UNCHANGED <<transcript, history>>

\* The tool needs more input, and the calls after it are forgotten.
AskUser(c) ==
  LET question == [tool |-> Head(chat[c].calls), origin |-> chat[c].origin,
                   asker |-> c]
  IN  /\ Running(c, Askers)
      /\ pending' = [pending EXCEPT ![chat[c].session] = question]
      /\ End(c, [chat[c] EXCEPT !.question = question], "needs_input")
      /\ UNCHANGED <<transcript, history>>

\* A result that is an answer by itself, or the words of the model.
Respond(c) ==
  /\ at[c] = "run" /\ chat[c].calls = <<>>
  /\ \E n \in 0..1 : End(c, Asking(chat[c], n), "ok")
  /\ UNCHANGED <<pending, transcript, history>>

\* Chat: an error is answered and stored nowhere.  The model's words may be
\* blank; a question, a cancellation and a refusal never are.
Reply(c) ==
  LET r == chat[c]
      s == r.session
  IN  /\ at[c] = "reply"
      /\ Move(c, "done", [session |-> s, question |-> r.question,
                          filled |-> r.filled, held |-> r.held])
      /\ IF r.outcome = "error" THEN UNCHANGED <<transcript, log>>
         ELSE \E answer \in {<<>>, <<Said(c, "assistant")>>} :
                /\ answer = <<>> => r.outcome = "ok"
                /\ transcript' = [transcript EXCEPT ![s] = Trim(r.base \o answer)]
                /\ log' = [log EXCEPT ![s] =
                     IF s \in crossed THEN <<>>
                     ELSE (IF Len(r.incoming) > 1 THEN <<>> ELSE @)
                            \o r.incoming \o answer]
      /\ last' = [last EXCEPT ![s] =
           IF s \in crossed THEN Nothing
           ELSE [outcome |-> r.outcome,
                 question |-> IF r.outcome = "needs_input" THEN r.question
                              ELSE @.question]]
      /\ UNCHANGED <<pending, crossed>>

-----------------------------------------------------------------------------

Resume(c) == CancelQuestion(c) \/ FillFromReply(c) \/ Interrupt(c)
             \/ FillByModel(c) \/ GiveUp(c)

Decide(c) == Infer(c) \/ ChooseRoute(c) \/ NoRoutes(c) \/ Extract(c)
             \/ RetryText(c) \/ RetryEmpty(c)

Run(c) == SkipDirect(c) \/ ToolSucceeds(c) \/ AskUser(c) \/ Respond(c)

Next == \E c \in Chats :
  \/ Begin(c) \/ AnswerAside(c) \/ LookUp(c) \/ Fail(c)
  \/ Resume(c) \/ Decide(c) \/ Run(c) \/ Reply(c)

Spec == Init /\ [][Next]_vars

-----------------------------------------------------------------------------
(* Properties.                                                             *)

\* A pending question carries the message that began it: the call of that
\* message itself asked about the same tool.  A reply that turned to another
\* tool never becomes part of the old question, nor the other way round,
\* however the calls overlap (originQuery and cleared in runChat).
OriginAsked ==
  \A s \in Sessions : pending[s] # NoQuestion =>
    LET first == pending[s].origin
    IN  /\ at[first] \in {"reply", "done"}
        /\ chat[first].question # NoQuestion
        /\ chat[first].question.tool = pending[s].tool

\* Between the calls of a session that never overlapped, the pending question
\* is the last one its user was asked, and it is there if the last answer was
\* that question (setPending and clearPending across all paths of runChat).
QuestionStands ==
  \A s \in Sessions \ crossed :
    (\A c \in Chats : Live(c) => chat[c].session # s) =>
      /\ pending[s] # NoQuestion => pending[s] = last[s].question
      /\ last[s].outcome = "needs_input" => pending[s] # NoQuestion

\* One question leads to one successful run of its tool, unless calls of its
\* session overlap: a reply after the answer starts something new.
FilledOnce ==
  \A c, d \in {x \in Chats : at[x] # "idle" /\ chat[x].filled} :
    c # d /\ chat[c].held = chat[d].held => chat[c].session \in crossed

\* The transcript of a session whose calls never overlapped is the end of its
\* conversation since a request last brought its own: nothing answered is
\* missing, doubled or out of order, although it was cut after every turn.
TranscriptKept ==
  \A s \in Sessions \ crossed : transcript[s] = Trim(log[s])

\* A message costs six calls of the model at most, with every retry, and so
\* six times the model's timeout.
SixModelCalls == \A c \in Chats : Live(c) => chat[c].models <= 6

\* A call that runs the internet search was made while its session was online,
\* whichever way the search was chosen.
SearchesOnline ==
  \A c \in Chats : at[c] = "run" /\ ~chat[c].online =>
    Search \notin {chat[c].calls[i] : i \in DOMAIN chat[c].calls}
=============================================================================
