----------------------------- MODULE ChatProofs -----------------------------
(***************************************************************************)
(* Proofs about Chat, for any number of calls, sessions and tools: types,  *)
(* the message a pending question began with, the number of model calls,   *)
(* that a search runs online only, and what calls that do not overlap are  *)
(* promised of the pending question and the transcript.                    *)
(*                                                                         *)
(* Every step moves one call to a place with a new record.  Fits says what *)
(* holds of a record at a place, and MoveKeeps that a move to a record     *)
(* that fits preserves the invariant; the steps are then shown to fit.     *)
(* Inner sums up all steps of a call between the first and the last one    *)
(* for the invariants about calls that do not overlap.                     *)
(***************************************************************************)
EXTENDS Chat, SequenceTheorems, TLAPS

(* Some call asked about the tool of this question with the message the    *)
(* question began with, and is answered, or about to be.                   *)
AskedFirst(q) ==
  /\ at[q.origin] \in {"reply", "done"}
  /\ chat[q.origin].question # NoQuestion
  /\ chat[q.origin].question.tool = q.tool

(* The most calls of the model a message has cost when it gets to a place. *)
Budget(place) ==
  CASE place \in {"opened", "resume"} -> 0
    [] place = "decide"  -> 1
    [] place = "extract" -> 2
    [] place = "retry"   -> 3
    [] place = "refill"  -> 4
    [] place = "run"     -> 5
    [] OTHER             -> 6

Deciding == {"opened", "decide", "extract", "retry", "refill"}

Named(r, tool) == tool \in {r.calls[i] : i \in DOMAIN r.calls}

(* A record of a live call at a place.                                     *)
Fits(c, place, r) ==
  /\ place \in Places \ {"idle", "done"} /\ r \in Call
  /\ r.models <= Budget(place)
  /\ place = "run" /\ ~r.online => ~Named(r, Search)
  /\ place = "resume" => r.held # NoQuestion /\ r.origin = r.held.origin
  /\ place \in Deciding => r.origin = c /\ r.held = NoQuestion
  /\ place = "run" => \/ r.origin = c
                      \/ /\ r.held # NoQuestion /\ r.origin = r.held.origin
                         /\ r.calls \in {<<>>, <<r.held.tool>>}

HeldAsked ==
  \A c \in Chats : Live(c) /\ chat[c].held # NoQuestion => AskedFirst(chat[c].held)

PendingAsked ==
  \A s \in Sessions : pending[s] # NoQuestion => AskedFirst(pending[s])

IInv ==
  /\ TypeOK
  /\ \A c \in Chats : Live(c) => Fits(c, at[c], chat[c])
  /\ HeldAsked
  /\ PendingAsked


(* A step may clear a question; it stores no new one.                      *)
AsksNothing ==
  /\ \/ pending' = pending
     \/ \E s \in Sessions : pending' = [pending EXCEPT ![s] = NoQuestion]
  /\ transcript' = transcript

-----------------------------------------------------------------------------
(* Moves                                                                   *)

LEMMA TrimTyped ==
  ASSUME NEW msgs \in Seq(Message)
  PROVE  Trim(msgs) \in Seq(Message)
<1>1. CASE Len(msgs) <= Kept
  BY <1>1 DEF Trim
<1>2. CASE ~(Len(msgs) <= Kept)
  <2>1. /\ Len(msgs) \in Nat /\ Kept \in Nat
        /\ Len(msgs) - Kept + 1 \in Int /\ Len(msgs) \in Int
    BY CountsAreNaturals
  <2>2. \A i \in (Len(msgs) - Kept + 1) .. Len(msgs) : i \in 1 .. Len(msgs)
    BY <1>2, <2>1
  <2>3. \A i \in (Len(msgs) - Kept + 1) .. Len(msgs) : msgs[i] \in Message
    BY <2>2, ElementOfSeq
  <2>4. SubSeq(msgs, Len(msgs) - Kept + 1, Len(msgs)) \in Seq(Message)
    BY <2>1, <2>3, SubSeqProperties
  <2>5. QED  BY <1>2, <2>4 DEF Trim
<1>3. QED  BY <1>1, <1>2

(* A supported decision is a sequence of tools.                            *)
LEMMA PlansTyped ==
  ASSUME NEW plan \in Plans
  PROVE  plan \in Seq(Tools \cup {Direct})
<1>1. PICK n \in 0..MaxCalls : plan \in [1..n -> Tools \cup {Direct}]
  BY DEF Plans
<1>2. n \in Nat
  BY CountsAreNaturals
<1>3. QED  BY <1>1, <1>2, SeqDef

(* What an answered call asked stays what it asked.                        *)
LEMMA AskedStays ==
  ASSUME TypeOK, NEW c \in Chats, NEW place, NEW r, Move(c, place, r),
         \/ at[c] \notin {"reply", "done"}
         \/ place = "done" /\ r.question = chat[c].question,
         NEW q \in Question, AskedFirst(q)
  PROVE  AskedFirst(q)'
<1>1. q.origin \in Chats
  BY DEF Question
<1>2. /\ at' = [at EXCEPT ![c] = place] /\ at \in [Chats -> Places]
      /\ chat' = [chat EXCEPT ![c] = r]
      /\ chat \in [Chats -> Call \cup Answered \cup {NoQuestion}]
  BY DEF Move, TypeOK
<1>3. CASE q.origin = c
  <2>1. place = "done" /\ r.question = chat[c].question
    BY <1>3 DEF AskedFirst
  <2>2. at'[c] = "done" /\ chat'[c].question = chat[c].question
    BY <1>2, <2>1
  <2>3. QED  BY <1>3, <2>2 DEF AskedFirst
<1>4. CASE q.origin # c
  <2>1. at'[q.origin] = at[q.origin] /\ chat'[q.origin] = chat[q.origin]
    BY <1>1, <1>2, <1>4
  <2>2. QED  BY <2>1 DEF AskedFirst
<1>5. QED  BY <1>3, <1>4

(* A move to a record that fits keeps what is said of the calls.           *)
LEMMA MoveFits ==
  ASSUME IInv, NEW c \in Chats, NEW place, NEW r, Move(c, place, r),
         at[c] \notin {"reply", "done"}, Fits(c, place, r),
         r.held # NoQuestion => AskedFirst(r.held)
  PROVE  /\ at' \in [Chats -> Places]
         /\ chat' \in [Chats -> Call \cup Answered \cup {NoQuestion}]
         /\ (\A d \in Chats : Live(d) => Fits(d, at[d], chat[d]))'
         /\ (\A d \in Chats : at[d] = "done" => chat[d] \in Answered)'
         /\ HeldAsked'
<1>1. /\ at' = [at EXCEPT ![c] = place] /\ at \in [Chats -> Places]
      /\ chat' = [chat EXCEPT ![c] = r]
      /\ chat \in [Chats -> Call \cup Answered \cup {NoQuestion}]
  BY DEF Move, IInv, TypeOK
<1>2. place \in Places /\ place # "done" /\ r \in Call
  BY DEF Fits
<1>3. /\ at'[c] = place /\ chat'[c] = r
      /\ \A d \in Chats : d # c => at'[d] = at[d] /\ chat'[d] = chat[d]
  BY <1>1
<1>4. at' \in [Chats -> Places]
  BY <1>1, <1>2
<1>5. chat' \in [Chats -> Call \cup Answered \cup {NoQuestion}]
  BY <1>1, <1>2
<1>6. ASSUME NEW d \in Chats, Live(d)'
      PROVE  Fits(d, at'[d], chat'[d])
  <2>1. CASE d = c
    BY <1>3, <2>1
  <2>2. CASE d # c
    BY <1>3, <1>6, <2>2 DEF IInv, Live
  <2>3. QED  BY <2>1, <2>2
<1>7. ASSUME NEW d \in Chats, at'[d] = "done"
      PROVE  chat'[d] \in Answered
  BY <1>2, <1>3, <1>7 DEF IInv, TypeOK
<1>8. ASSUME NEW d \in Chats, Live(d)', chat'[d].held # NoQuestion
      PROVE  AskedFirst(chat[d].held)'
  <2>1. chat'[d].held \in Question
    BY <1>6, <1>8 DEF Fits, Call
  <2>2. AskedFirst(chat'[d].held)
    <3>1. CASE d = c
      BY <1>3, <1>8, <3>1
    <3>2. CASE d # c
      BY <1>3, <1>8, <3>2 DEF IInv, HeldAsked, Live
    <3>3. QED  BY <3>1, <3>2
  <2>3. PICK q \in Question : q = chat'[d].held
    BY <2>1
  <2>4. AskedFirst(q)'
    BY <2>2, <2>3, AskedStays DEF IInv
  <2>5. QED  BY <2>3, <2>4 DEF AskedFirst
<1>9. HeldAsked'
  BY <1>8 DEF HeldAsked, Live
<1>10. QED  BY <1>4, <1>5, <1>6, <1>7, <1>9

(* And so does the whole invariant when the step stores no question.       *)
LEMMA MoveKeeps ==
  ASSUME IInv, NEW c \in Chats, NEW place, NEW r, Move(c, place, r),
         at[c] \notin {"reply", "done"}, Fits(c, place, r),
         r.held # NoQuestion => AskedFirst(r.held),
         AsksNothing
  PROVE  IInv'
<1>1. /\ at' \in [Chats -> Places]
      /\ chat' \in [Chats -> Call \cup Answered \cup {NoQuestion}]
      /\ (\A d \in Chats : Live(d) => Fits(d, at[d], chat[d]))'
      /\ (\A d \in Chats : at[d] = "done" => chat[d] \in Answered)'
      /\ HeldAsked'
  BY MoveFits
<1>2. pending \in [Sessions -> Question \cup {NoQuestion}]
  BY DEF IInv, TypeOK
<1>3. pending' \in [Sessions -> Question \cup {NoQuestion}]
  BY <1>2 DEF AsksNothing
<1>4. transcript' \in [Sessions -> Seq(Message)]
  BY DEF AsksNothing, IInv, TypeOK
<1>5. TypeOK'
  BY <1>1, <1>3, <1>4 DEF TypeOK, Fits
<1>6. ASSUME NEW s \in Sessions, pending'[s] # NoQuestion
      PROVE  AskedFirst(pending[s])'
  <2>1. pending'[s] = pending[s] /\ pending[s] \in Question
    BY <1>2, <1>6 DEF AsksNothing
  <2>2. PICK q \in Question : q = pending[s]
    BY <2>1
  <2>3. AskedFirst(q)
    BY <1>6, <2>1, <2>2 DEF IInv, PendingAsked
  <2>4. AskedFirst(q)'
    BY <2>3, AskedStays DEF IInv
  <2>5. QED  BY <2>1, <2>2, <2>4 DEF AskedFirst
<1>7. PendingAsked'
  BY <1>6 DEF PendingAsked
<1>8. QED  BY <1>1, <1>5, <1>7 DEF IInv

-----------------------------------------------------------------------------
(* Ends, and decisions                                                     *)

(* The record a call ends with.                                            *)
LEMMA EndFits ==
  ASSUME NEW c \in Chats, NEW r \in Call, NEW outcome \in Outcomes,
         r.models <= 6
  PROVE  LET e == [r EXCEPT !.outcome = outcome, !.online = FALSE,
                            !.routed = FALSE, !.filling = FALSE,
                            !.calls = <<>>, !.origin = c,
                            !.held = IF r.filled THEN @ ELSE NoQuestion]
         IN  Fits(c, "reply", e) /\ e.held \in {r.held, NoQuestion}
<1> DEFINE h == IF r.filled THEN r.held ELSE NoQuestion
           e == [r EXCEPT !.outcome = outcome, !.online = FALSE,
                          !.routed = FALSE, !.filling = FALSE,
                          !.calls = <<>>, !.origin = c, !.held = h]
<1>1. h \in Question \cup {NoQuestion} /\ h \in {r.held, NoQuestion}
  BY DEF Call
<1>2. <<>> \in Seq(Tools \cup {Direct})
  BY EmptySeq
<1>3. e \in Call /\ e.models = r.models /\ e.held = h
  <2> HIDE DEF h
  <2>1. QED  BY <1>1, <1>2 DEF Call
<1>4. Fits(c, "reply", e)
  <2> HIDE DEF e
  <2>1. QED  BY <1>3 DEF Fits, Places, Budget, Deciding
<1>5. QED  BY <1>1, <1>3, <1>4

LEMMA EndKeeps ==
  ASSUME IInv, NEW c \in Chats, NEW r \in Call, NEW outcome \in Outcomes,
         End(c, r, outcome), at[c] \notin {"reply", "done"}, r.models <= 6,
         r.held # NoQuestion => AskedFirst(r.held),
         AsksNothing
  PROVE  IInv'
<1> DEFINE e == [r EXCEPT !.outcome = outcome, !.online = FALSE,
                          !.routed = FALSE, !.filling = FALSE,
                          !.calls = <<>>, !.origin = c,
                          !.held = IF r.filled THEN @ ELSE NoQuestion]
<1>1. Move(c, "reply", e)
  BY DEF End
<1>2. Fits(c, "reply", e) /\ e.held \in {r.held, NoQuestion}
  BY EndFits
<1> HIDE DEF e
<1>3. QED  BY <1>1, <1>2, MoveKeeps

(* A decision that passes the checks fits, one that does not ends the call. *)
LEMMA AdmitKeeps ==
  ASSUME IInv, NEW c \in Chats, NEW r \in Call,
         NEW plan \in Seq(Tools \cup {Direct}),
         Admit(c, r, plan), at[c] \notin {"reply", "done"}, r.models <= 5,
         \/ r.origin = c
         \/ /\ r.held # NoQuestion /\ r.origin = r.held.origin
            /\ plan = <<r.held.tool>>,
         r.held # NoQuestion => AskedFirst(r.held),
         AsksNothing
  PROVE  IInv'
<1> DEFINE offline == Search \in {plan[i] : i \in DOMAIN plan} /\ ~r.online
           e == [r EXCEPT !.calls = plan]
<1>1. r.models \in Nat /\ r.models <= 6
  BY DEF Call
<1>2. \/ \E outcome \in Outcomes : End(c, r, outcome)
      \/ ~offline /\ Move(c, "run", e)
  BY DEF Admit, Outcomes
<1>3. CASE \E outcome \in Outcomes : End(c, r, outcome)
  BY <1>1, <1>3, EndKeeps
<1>4. CASE ~offline /\ Move(c, "run", e)
  <2>1. /\ e \in Call /\ e.models = r.models /\ e.held = r.held
        /\ e.origin = r.origin /\ e.calls = plan /\ e.online = r.online
    BY DEF Call
  <2>2. ~e.online => ~Named(e, Search)
    BY <1>4, <2>1 DEF Named
  <2> HIDE DEF e
  <2>3. Fits(c, "run", e)
    BY <2>1, <2>2 DEF Fits, Places, Budget, Deciding
  <2>4. QED  BY <1>4, <2>1, <2>3, MoveKeeps
<1>5. QED  BY <1>2, <1>3, <1>4

-----------------------------------------------------------------------------
(* The steps                                                               *)

LEMMA InitInv == Init => IInv
<1> SUFFICES ASSUME Init PROVE IInv
  OBVIOUS
<1>1. TypeOK
  BY EmptySeq DEF Init, TypeOK, Places, Live
<1>2. \A c \in Chats : ~Live(c)
  BY DEF Init, Live
<1>3. PendingAsked
  BY DEF Init, PendingAsked
<1>4. QED  BY <1>1, <1>2, <1>3 DEF IInv, HeldAsked

(* What the invariant says of a live call, in one place.                   *)
LEMMA LiveFacts ==
  ASSUME IInv, NEW c \in Chats, Live(c)
  PROVE  /\ chat[c] \in Call /\ chat[c].session \in Sessions
         /\ chat[c].models \in Nat /\ chat[c].models <= Budget(at[c])
         /\ Fits(c, at[c], chat[c])
         /\ chat[c].held \in Question \cup {NoQuestion}
         /\ chat[c].held # NoQuestion => AskedFirst(chat[c].held)
<1>1. Fits(c, at[c], chat[c]) /\ chat[c] \in Call
  BY DEF IInv, Fits
<1>2. chat[c].held # NoQuestion => AskedFirst(chat[c].held)
  BY DEF IInv, HeldAsked
<1>3. QED  BY <1>1, <1>2 DEF Fits, Call

(* Calls of the model are counted, and nothing else.                       *)
LEMMA AskingTyped ==
  ASSUME NEW r \in Call, NEW n \in Nat
  PROVE  /\ Asking(r, n) \in Call
         /\ Asking(r, n).models = r.models + n
         /\ Asking(r, n).held = r.held /\ Asking(r, n).origin = r.origin
         /\ Asking(r, n).session = r.session
         /\ Asking(r, n).question = r.question
         /\ Asking(r, n).calls = r.calls /\ Asking(r, n).online = r.online
<1>1. r.models \in Nat /\ r.models + n \in Nat
  BY DEF Call
<1>2. [r EXCEPT !.models = r.models + n] \in Call
  BY <1>1 DEF Call
<1>3. QED  BY <1>1, <1>2 DEF Asking, Call

(* A question that is dropped leaves the call with its own message.        *)
LEMMA DroppedTyped ==
  ASSUME IInv, NEW c \in Chats, Live(c)
  PROVE  /\ Dropped(c) \in Call /\ Dropped(c).models = chat[c].models
         /\ Dropped(c).held = NoQuestion /\ Dropped(c).origin = c
BY LiveFacts DEF Dropped, Call

LEMMA BeginKeeps ==
  ASSUME IInv, NEW c \in Chats, Begin(c)
  PROVE  IInv'
<1>1. PICK s \in Sessions, online \in BOOLEAN, incoming \in Incoming(c) :
        Move(c, "opened",
            [session |-> s, online |-> online, incoming |-> incoming,
             base |-> Resolved(s, incoming), held |-> NoQuestion, origin |-> c,
             calls |-> <<>>, filling |-> FALSE, filled |-> FALSE,
             routed |-> FALSE, models |-> 0, question |-> NoQuestion,
             outcome |-> "none"])
  BY DEF Begin
<1> DEFINE base == Resolved(s, incoming)
           r == [session |-> s, online |-> online, incoming |-> incoming,
                 base |-> base, held |-> NoQuestion, origin |-> c,
                 calls |-> <<>>, filling |-> FALSE, filled |-> FALSE,
                 routed |-> FALSE, models |-> 0, question |-> NoQuestion,
                 outcome |-> "none"]
<1>2. Said(c, "user") \in Message /\ Said(c, "given") \in Message
  BY DEF Said, Message
<1>3. incoming \in Seq(Message)
  <2>1. \A x, y \in Message : <<x>> \in Seq(Message) /\ <<x, y>> \in Seq(Message)
    OBVIOUS
  <2>2. QED  BY <1>2, <2>1 DEF Incoming
<1>4. base \in Seq(Message)
  <2>1. transcript[s] \in Seq(Message)
    BY DEF IInv, TypeOK
  <2>2. transcript[s] \o incoming \in Seq(Message)
    BY <1>3, <2>1, ConcatProperties
  <2>3. QED  BY <1>3, <2>2, TrimTyped DEF Resolved
<1> HIDE DEF base
<1>5. r \in Call
  BY <1>3, <1>4, EmptySeq DEF Call, Outcomes
<1>6. Fits(c, "opened", r)
  BY <1>5 DEF Fits, Places, Budget, Deciding
<1>7. AsksNothing /\ at[c] \notin {"reply", "done"}
  BY DEF Begin, AsksNothing
<1>8. Move(c, "opened", r) /\ r.held = NoQuestion
  BY <1>1 DEF base
<1> HIDE DEF r
<1>9. QED  BY <1>6, <1>7, <1>8, MoveKeeps

LEMMA AnswerAsideKeeps ==
  ASSUME IInv, NEW c \in Chats, AnswerAside(c)
  PROVE  IInv'
<1>1. at[c] = "opened" /\ Live(c) /\ AsksNothing
  BY DEF AnswerAside, Live, AsksNothing
<1>2. PICK n \in MemoryModels, outcome \in {"ok", "error"} :
        End(c, Asking(chat[c], n), outcome)
  BY DEF AnswerAside
<1>3. /\ n \in Nat /\ n <= 3 /\ outcome \in Outcomes /\ chat[c].models <= 0
      /\ chat[c].models \in Nat /\ chat[c] \in Call
  BY <1>1, LiveFacts DEF MemoryModels, Outcomes, Budget
<1>4. Asking(chat[c], n).models <= 6
  <2>1. Asking(chat[c], n).models = chat[c].models + n
    BY <1>3, AskingTyped
  <2>2. QED  BY <1>3, <2>1
<1>5. QED  BY <1>1, <1>2, <1>3, <1>4, AskingTyped, LiveFacts, EndKeeps

LEMMA LookUpKeeps ==
  ASSUME IInv, NEW c \in Chats, LookUp(c)
  PROVE  IInv'
<1> DEFINE question == pending[chat[c].session]
           r == [chat[c] EXCEPT !.held = question, !.origin = question.origin]
<1>1. at[c] = "opened" /\ Live(c) /\ AsksNothing
  BY DEF LookUp, Live, AsksNothing
<1>2. /\ chat[c] \in Call /\ chat[c].session \in Sessions
      /\ chat[c].models \in Nat /\ chat[c].models <= 0
      /\ chat[c].held = NoQuestion /\ chat[c].origin = c
  BY <1>1, LiveFacts DEF Budget, Fits, Deciding
<1>3. CASE question = NoQuestion
  <2>1. Move(c, "decide", chat[c])
    BY <1>3 DEF LookUp
  <2>2. Fits(c, "decide", chat[c])
    BY <1>2 DEF Fits, Places, Budget, Deciding
  <2>3. QED  BY <1>1, <1>2, <2>1, <2>2, MoveKeeps
<1>4. CASE question # NoQuestion
  <2>1. Move(c, "resume", r)
    BY <1>4 DEF LookUp
  <2>2. question \in Question /\ AskedFirst(question)
    BY <1>2, <1>4 DEF IInv, TypeOK, PendingAsked
  <2> HIDE DEF question
  <2>3. question.origin \in Chats
    BY <2>2 DEF Question
  <2>4. /\ r \in Call /\ r.held = question /\ r.origin = question.origin
        /\ r.models = chat[c].models
    BY <1>2, <2>2, <2>3 DEF Call
  <2> HIDE DEF r
  <2>5. Fits(c, "resume", r)
    BY <1>2, <1>4, <2>4 DEF Fits, Places, Budget, Deciding
  <2>6. QED  BY <1>1, <2>1, <2>2, <2>4, <2>5, MoveKeeps
<1>5. QED  BY <1>3, <1>4

LEMMA FailKeeps ==
  ASSUME IInv, NEW c \in Chats, Fail(c)
  PROVE  IInv'
<1>1. Live(c) /\ AsksNothing /\ at[c] \notin {"reply", "done"}
  BY DEF Fail, Live, AsksNothing
<1>2. PICK n \in 0..1 : End(c, Asking(chat[c], n), "error")
  BY DEF Fail
<1>3. /\ n \in Nat /\ n <= 1 /\ "error" \in Outcomes /\ chat[c].models <= 5
      /\ chat[c].models \in Nat /\ chat[c] \in Call
  BY <1>1, LiveFacts DEF Fail, Outcomes, Budget
<1>4. Asking(chat[c], n).models <= 6
  <2>1. Asking(chat[c], n).models = chat[c].models + n
    BY <1>3, AskingTyped
  <2>2. QED  BY <1>3, <2>1
<1>5. QED  BY <1>1, <1>2, <1>3, <1>4, AskingTyped, LiveFacts, EndKeeps

-----------------------------------------------------------------------------
(* A pending question is answered, or dropped                              *)

LEMMA ClearAsksNothing ==
  ASSUME IInv, NEW c \in Chats, Live(c), Clear(c), UNCHANGED transcript
  PROVE  AsksNothing
BY LiveFacts DEF Clear, AsksNothing

LEMMA ResumeFacts ==
  ASSUME IInv, NEW c \in Chats, at[c] = "resume"
  PROVE  /\ Live(c) /\ chat[c] \in Call
         /\ chat[c].models \in Nat /\ chat[c].models <= 0
         /\ chat[c].held \in Question /\ chat[c].held # NoQuestion
         /\ chat[c].origin = chat[c].held.origin /\ chat[c].held.tool \in Tools
         /\ AskedFirst(chat[c].held)
<1>1. Live(c)
  BY DEF Live
<1>2. chat[c].held # NoQuestion /\ chat[c].origin = chat[c].held.origin
  BY <1>1, LiveFacts DEF Fits
<1>3. chat[c].models <= 0
  BY <1>1, LiveFacts DEF Budget
<1>4. chat[c].held \in Question /\ chat[c].held.tool \in Tools
  BY <1>1, <1>2, LiveFacts DEF Question
<1>5. QED  BY <1>1, <1>2, <1>3, <1>4, LiveFacts

LEMMA FillKeeps ==
  ASSUME IInv, NEW c \in Chats, at[c] = "resume", NEW n \in 0..1,
         FillWith(c, Asking(chat[c], n)), AsksNothing
  PROVE  IInv'
<1> DEFINE r == [Asking(chat[c], n) EXCEPT !.filling = TRUE]
           plan == <<chat[c].held.tool>>
<1>1. Admit(c, r, plan)
  BY DEF FillWith
<1>2. /\ Asking(chat[c], n) \in Call
      /\ Asking(chat[c], n).models = chat[c].models + n
      /\ Asking(chat[c], n).held = chat[c].held
      /\ Asking(chat[c], n).origin = chat[c].origin
  <2>1. n \in Nat /\ chat[c] \in Call
    BY ResumeFacts
  <2>2. QED  BY <2>1, AskingTyped
<1>3. /\ r \in Call /\ r.models = chat[c].models + n
      /\ r.held = chat[c].held /\ r.origin = chat[c].origin
  BY <1>2 DEF Call
<1>4. r.models <= 5
  BY <1>3, ResumeFacts
<1>5. plan \in Seq(Tools \cup {Direct}) /\ plan = <<r.held.tool>>
  BY <1>3, ResumeFacts
<1> HIDE DEF r, plan
<1>6. AskedFirst(r.held) /\ r.held # NoQuestion /\ r.origin = r.held.origin
  BY <1>3, ResumeFacts
<1>7. QED  BY <1>1, <1>3, <1>4, <1>5, <1>6, AdmitKeeps

LEMMA AskingNothing ==
  ASSUME NEW r \in Call
  PROVE  Asking(r, 0) = r
BY DEF Asking, Call

(* The actions of a call that found a question.                            *)
LEMMA ResumeKeeps ==
  ASSUME IInv, NEW c \in Chats, Resume(c)
  PROVE  IInv'
<1>1. at[c] = "resume" /\ UNCHANGED transcript
  BY DEF Resume, CancelQuestion, FillFromReply, Interrupt, FillByModel, GiveUp
<1>2. /\ Dropped(c) \in Call /\ Dropped(c).models <= 0 /\ Dropped(c).models \in Nat
      /\ Dropped(c).held = NoQuestion /\ Dropped(c).origin = c
  BY <1>1, ResumeFacts, DroppedTyped
<1>3. CASE CancelQuestion(c)
  <2>1. End(c, Dropped(c), "fixed") /\ Clear(c) /\ "fixed" \in Outcomes
    BY <1>3 DEF CancelQuestion, Outcomes
  <2>2. AsksNothing
    BY <1>1, <2>1, ResumeFacts, ClearAsksNothing
  <2>3. QED  BY <1>1, <1>2, <2>1, <2>2, EndKeeps
<1>4. CASE FillFromReply(c)
  <2>1. FillWith(c, Asking(chat[c], 0)) /\ AsksNothing
    BY <1>1, <1>4, ResumeFacts, AskingNothing DEF FillFromReply, AsksNothing
  <2>2. QED  BY <1>1, <2>1, FillKeeps
<1>5. CASE Interrupt(c)
  <2>1. PICK tool \in Tools : Admit(c, Dropped(c), <<tool>>)
    BY <1>5 DEF Interrupt
  <2>2. AsksNothing
    BY <1>1, <1>5, ResumeFacts, ClearAsksNothing DEF Interrupt
  <2>3. <<tool>> \in Seq(Tools \cup {Direct}) /\ Dropped(c).models <= 5
    BY <1>2
  <2>4. at[c] \notin {"reply", "done"}
    BY <1>1
  <2>5. QED  BY <1>2, <2>1, <2>2, <2>3, <2>4, AdmitKeeps
<1>6. CASE FillByModel(c)
  <2>1. FillWith(c, Asking(chat[c], 1)) /\ AsksNothing
    BY <1>6 DEF FillByModel, AsksNothing
  <2>2. QED  BY <1>1, <2>1, FillKeeps
<1>7. CASE GiveUp(c)
  <2> DEFINE r == Asking(Dropped(c), 1)
  <2>1. Move(c, "decide", r)
    BY <1>7 DEF GiveUp
  <2>2. AsksNothing
    BY <1>1, <1>7, ResumeFacts, ClearAsksNothing DEF GiveUp
  <2>3. /\ r \in Call /\ r.models = Dropped(c).models + 1
        /\ r.held = NoQuestion /\ r.origin = c
    BY <1>2, AskingTyped
  <2> HIDE DEF r
  <2>4. r.models <= 1
    BY <1>2, <2>3
  <2>5. Fits(c, "decide", r)
    BY <2>3, <2>4 DEF Fits, Places, Budget, Deciding
  <2>6. QED  BY <1>1, <2>1, <2>2, <2>3, <2>5, MoveKeeps
<1>8. QED  BY <1>3, <1>4, <1>5, <1>6, <1>7 DEF Resume

-----------------------------------------------------------------------------
(* A message is decided on                                                 *)

LEMMA DecidingFacts ==
  ASSUME IInv, NEW c \in Chats, at[c] \in Deciding, NEW n \in Nat
  PROVE  /\ Live(c) /\ chat[c] \in Call /\ at[c] \notin {"reply", "done"}
         /\ chat[c].held = NoQuestion /\ chat[c].origin = c
         /\ Asking(chat[c], n) \in Call
         /\ Asking(chat[c], n).held = NoQuestion /\ Asking(chat[c], n).origin = c
         /\ Asking(chat[c], n).models \in Nat
         /\ Asking(chat[c], n).models <= Budget(at[c]) + n
<1>1. Live(c)
  BY DEF Deciding, Live
<1>2. chat[c].held = NoQuestion /\ chat[c].origin = c
  BY <1>1, LiveFacts DEF Fits
<1>3. /\ chat[c] \in Call /\ chat[c].models \in Nat
      /\ chat[c].models <= Budget(at[c])
  BY <1>1, LiveFacts
<1>4. Budget(at[c]) \in Nat
  BY DEF Budget, Deciding
<1>5. Asking(chat[c], n).models = chat[c].models + n
  BY <1>3, AskingTyped
<1>6. /\ Asking(chat[c], n).models \in Nat
      /\ Asking(chat[c], n).models <= Budget(at[c]) + n
  BY <1>3, <1>4, <1>5
<1>7. QED  BY <1>1, <1>2, <1>3, <1>6, AskingTyped DEF Deciding

LEMMA AcceptKeeps ==
  ASSUME IInv, NEW c \in Chats, NEW r \in Call, Accept(c, r, "refill"),
         at[c] \notin {"reply", "done"}, r.models <= 4, r.models \in Nat,
         r.held = NoQuestion, r.origin = c, AsksNothing
  PROVE  IInv'
<1>1. CASE Move(c, "refill", r)
  <2>1. Fits(c, "refill", r)
    BY DEF Fits, Places, Budget, Deciding
  <2>2. QED  BY <1>1, <2>1, MoveKeeps
<1>2. CASE \E plan \in Plans : Admit(c, r, plan)
  <2>1. PICK plan \in Plans : Admit(c, r, plan)
    BY <1>2
  <2>2. plan \in Seq(Tools \cup {Direct})
    BY PlansTyped
  <2>3. QED  BY <2>1, <2>2, AdmitKeeps
<1>3. QED  BY <1>1, <1>2 DEF Accept

LEMMA DecideKeeps ==
  ASSUME IInv, NEW c \in Chats, Decide(c)
  PROVE  IInv'
<1>1. at[c] \in Deciding /\ AsksNothing
  BY DEF Decide, Infer, ChooseRoute, NoRoutes, Extract, RetryText, RetryEmpty,
         Deciding, AsksNothing
<1>2. /\ Live(c) /\ chat[c] \in Call /\ at[c] \notin {"reply", "done"}
      /\ chat[c].held = NoQuestion /\ chat[c].origin = c
      /\ chat[c].models \in Nat /\ chat[c].models <= Budget(at[c])
  BY <1>1, DecidingFacts, LiveFacts
<1>3. CASE Infer(c)
  <2>1. PICK tool \in Tools : Admit(c, chat[c], <<tool>>)
    BY <1>3 DEF Infer
  <2>2. chat[c].models <= 5
    BY <1>2, <1>3 DEF Infer, Budget
  <2>3. <<tool>> \in Seq(Tools \cup {Direct})
    OBVIOUS
  <2>4. QED  BY <1>1, <1>2, <2>1, <2>2, <2>3, AdmitKeeps
<1>4. CASE ChooseRoute(c)
  <2> DEFINE r == [Asking(chat[c], 1) EXCEPT !.routed = TRUE]
  <2>1. /\ Asking(chat[c], 1) \in Call /\ Asking(chat[c], 1).models \in Nat
        /\ Asking(chat[c], 1).held = NoQuestion
        /\ Asking(chat[c], 1).origin = c
        /\ Asking(chat[c], 1).models <= Budget(at[c]) + 1
    BY <1>1, DecidingFacts
  <2>2. /\ r \in Call /\ r.models = Asking(chat[c], 1).models
        /\ r.held = NoQuestion /\ r.origin = c
    BY <2>1 DEF Call
  <2>3. r.models \in Nat /\ r.models <= 2
    BY <1>4, <2>1, <2>2 DEF ChooseRoute, Budget
  <2>4. \/ End(c, r, "fixed")
        \/ \E n \in MemoryModels, outcome \in {"ok", "error"} :
             End(c, Asking(r, n), outcome)
        \/ \E tool \in Immediate : Admit(c, r, <<tool>>)
        \/ Move(c, "extract", r)
    BY <1>4 DEF ChooseRoute
  <2> HIDE DEF r
  <2>5. CASE End(c, r, "fixed")
    BY <1>1, <1>2, <2>2, <2>3, <2>5, EndKeeps DEF Outcomes
  <2>6. CASE \E n \in MemoryModels, outcome \in {"ok", "error"} :
               End(c, Asking(r, n), outcome)
    <3>1. PICK n \in MemoryModels, outcome \in {"ok", "error"} :
            End(c, Asking(r, n), outcome)
      BY <2>6
    <3>2. n \in Nat /\ n <= 3 /\ outcome \in Outcomes
      BY DEF MemoryModels, Outcomes
    <3>3. /\ Asking(r, n) \in Call /\ Asking(r, n).models = r.models + n
          /\ Asking(r, n).held = NoQuestion
      BY <2>2, <3>2, AskingTyped
    <3>4. Asking(r, n).models <= 6
      BY <2>3, <3>2, <3>3
    <3>5. QED  BY <1>1, <1>2, <3>1, <3>2, <3>3, <3>4, EndKeeps
  <2>7. CASE \E tool \in Immediate : Admit(c, r, <<tool>>)
    <3>1. PICK tool \in Immediate : Admit(c, r, <<tool>>)
      BY <2>7
    <3>2. tool \in Tools \cup {Direct} /\ r.models <= 5
      BY <2>3, ToolsDiffer
    <3>3. <<tool>> \in Seq(Tools \cup {Direct})
      BY <3>2
    <3>4. QED  BY <1>1, <1>2, <2>2, <3>1, <3>2, <3>3, AdmitKeeps
  <2>8. CASE Move(c, "extract", r)
    <3>1. Fits(c, "extract", r)
      BY <2>2, <2>3 DEF Fits, Places, Budget, Deciding
    <3>2. QED  BY <1>1, <1>2, <2>2, <2>8, <3>1, MoveKeeps
  <2>9. QED  BY <2>4, <2>5, <2>6, <2>7, <2>8
<1>5. CASE NoRoutes(c)
  <2>1. Move(c, "extract", chat[c])
    BY <1>5 DEF NoRoutes
  <2>2. chat[c].models <= 2
    BY <1>2, <1>5 DEF NoRoutes, Budget
  <2>3. Fits(c, "extract", chat[c])
    BY <1>2, <2>2 DEF Fits, Places, Budget, Deciding
  <2>4. QED  BY <1>1, <1>2, <2>1, <2>3, MoveKeeps
<1> DEFINE a == Asking(chat[c], 1)
<1>6. /\ a \in Call /\ a.held = NoQuestion /\ a.origin = c
      /\ a.models \in Nat /\ a.models <= Budget(at[c]) + 1
  <2>1. \A n \in Nat :
          /\ Asking(chat[c], n) \in Call /\ Asking(chat[c], n).held = NoQuestion
          /\ Asking(chat[c], n).origin = c /\ Asking(chat[c], n).models \in Nat
          /\ Asking(chat[c], n).models <= Budget(at[c]) + n
    BY <1>1, DecidingFacts
  <2>2. QED  BY <2>1
<1>7. CASE Extract(c)
  <2>1. Move(c, "retry", a) \/ Accept(c, a, "refill")
    BY <1>7 DEF Extract
  <2>2. a.models <= 3
    BY <1>6, <1>7 DEF Extract, Budget
  <2> HIDE DEF a
  <2>3. CASE Move(c, "retry", a)
    <3>1. Fits(c, "retry", a)
      BY <1>6, <2>2 DEF Fits, Places, Budget, Deciding
    <3>2. QED  BY <1>1, <1>2, <1>6, <2>3, <3>1, MoveKeeps
  <2>4. CASE Accept(c, a, "refill")
    <3>1. a.models <= 4
      BY <1>6, <2>2
    <3>2. QED  BY <1>1, <1>2, <1>6, <2>4, <3>1, AcceptKeeps
  <2>5. QED  BY <2>1, <2>3, <2>4
<1>8. CASE RetryText(c)
  <2>1. End(c, a, "error") \/ Accept(c, a, "refill")
    BY <1>8 DEF RetryText
  <2>2. a.models <= 4 /\ a.models <= 6
    BY <1>6, <1>8 DEF RetryText, Budget
  <2> HIDE DEF a
  <2>3. "error" \in Outcomes
    BY DEF Outcomes
  <2>4. CASE End(c, a, "error")
    BY <1>1, <1>2, <1>6, <2>2, <2>3, <2>4, EndKeeps
  <2>5. CASE Accept(c, a, "refill")
    BY <1>1, <1>2, <1>6, <2>2, <2>5, AcceptKeeps
  <2>6. QED  BY <2>1, <2>4, <2>5
<1>9. CASE RetryEmpty(c)
  <2>1. PICK plan \in Plans : Admit(c, a, plan)
    BY <1>9 DEF RetryEmpty
  <2>2. a.models <= 5
    BY <1>6, <1>9 DEF RetryEmpty, Budget
  <2> HIDE DEF a
  <2>3. plan \in Seq(Tools \cup {Direct})
    BY PlansTyped
  <2>4. QED  BY <1>1, <1>2, <1>6, <2>1, <2>2, <2>3, AdmitKeeps
<1>10. QED  BY <1>3, <1>4, <1>5, <1>7, <1>8, <1>9 DEF Decide

-----------------------------------------------------------------------------
(* The tools, and the answer                                               *)

LEMMA RunFacts ==
  ASSUME IInv, NEW c \in Chats, at[c] = "run"
  PROVE  /\ Live(c) /\ chat[c] \in Call /\ chat[c].session \in Sessions
         /\ chat[c].models \in Nat /\ chat[c].models <= 5
         /\ ~chat[c].online => ~Named(chat[c], Search)
         /\ \/ chat[c].origin = c
            \/ /\ chat[c].held # NoQuestion
               /\ chat[c].origin = chat[c].held.origin
               /\ chat[c].calls \in {<<>>, <<chat[c].held.tool>>}
         /\ chat[c].held \in Question \cup {NoQuestion}
         /\ chat[c].held # NoQuestion => AskedFirst(chat[c].held)
<1>1. Live(c)
  BY DEF Live
<1>2. chat[c].models <= 5
  BY <1>1, LiveFacts DEF Budget
<1>3. QED  BY <1>1, <1>2, LiveFacts DEF Fits

(* The next call of a decision.                                            *)
LEMMA TailKeeps ==
  ASSUME IInv, NEW c \in Chats, at[c] = "run", chat[c].calls # <<>>,
         NEW filled \in BOOLEAN,
         Move(c, "run", [chat[c] EXCEPT !.calls = Tail(@), !.filled = filled]),
         AsksNothing
  PROVE  IInv'
<1> DEFINE calls == chat[c].calls
           tail == Tail(calls)
           r == [chat[c] EXCEPT !.calls = tail, !.filled = filled]
<1>1. chat[c] \in Call /\ calls \in Seq(Tools \cup {Direct}) /\ calls # <<>>
  BY RunFacts DEF Call
<1>2. tail \in Seq(Tools \cup {Direct})
  BY <1>1, HeadTailProperties
<1>3. \A i \in DOMAIN tail : \E j \in DOMAIN calls : tail[i] = calls[j]
  <2> HIDE DEF calls
  <2>1. \A i \in 1 .. Len(tail) : tail[i] = calls[i + 1] /\ i + 1 \in 1 .. Len(calls)
    BY <1>1, HeadTailProperties
  <2>2. DOMAIN tail = 1 .. Len(tail) /\ DOMAIN calls = 1 .. Len(calls)
    BY <1>1, <1>2
  <2>3. QED  BY <2>1, <2>2
<1>4. \A tool : calls = <<tool>> => tail = <<>>
  OBVIOUS
<1>5. /\ r \in Call /\ r.calls = tail /\ r.models = chat[c].models
      /\ r.held = chat[c].held /\ r.origin = chat[c].origin
      /\ r.online = chat[c].online
  <2> HIDE DEF tail
  <2>1. QED  BY <1>1, <1>2 DEF Call
<1>6. Move(c, "run", r)
  OBVIOUS
<1>7. ~r.online => ~Named(r, Search)
  <2> HIDE DEF r, tail
  <2>1. QED  BY <1>3, <1>5, RunFacts DEF Named
<1>8. \/ r.origin = c
      \/ r.held # NoQuestion /\ r.origin = r.held.origin /\ r.calls = <<>>
  <2> HIDE DEF r, tail
  <2>1. QED  BY <1>1, <1>4, <1>5, RunFacts
<1> HIDE DEF r, tail, calls
<1>9. Fits(c, "run", r)
  BY <1>5, <1>7, <1>8, RunFacts DEF Fits, Places, Budget, Deciding
<1>10. QED  BY <1>5, <1>6, <1>9, RunFacts, MoveKeeps

LEMMA AskUserKeeps ==
  ASSUME IInv, NEW c \in Chats, AskUser(c)
  PROVE  IInv'
<1> DEFINE s == chat[c].session
           question == [tool |-> Head(chat[c].calls), origin |-> chat[c].origin,
                        asker |-> c]
           r == [chat[c] EXCEPT !.question = question]
           e == [r EXCEPT !.outcome = "needs_input", !.online = FALSE,
                          !.routed = FALSE, !.filling = FALSE,
                          !.calls = <<>>, !.origin = c,
                          !.held = IF r.filled THEN @ ELSE NoQuestion]
<1>1. /\ at[c] = "run" /\ chat[c].calls # <<>> /\ Head(chat[c].calls) \in Tools
      /\ pending' = [pending EXCEPT ![s] = question]
      /\ Move(c, "reply", e) /\ transcript' = transcript
  BY ToolsDiffer DEF AskUser, Running, End
<1>2. question \in Question
  BY <1>1, RunFacts DEF Question, Call
<1>3. /\ r \in Call /\ r.models = chat[c].models /\ r.question = question
      /\ r.held = chat[c].held
  <2> HIDE DEF question
  <2>1. QED  BY <1>1, <1>2, RunFacts DEF Call
<1>4. Fits(c, "reply", e) /\ e.held \in {r.held, NoQuestion}
  <2> HIDE DEF r
  <2>1. r.models <= 6 /\ "needs_input" \in Outcomes
    BY <1>1, <1>3, RunFacts DEF Outcomes
  <2>2. QED  BY <1>3, <2>1, EndFits
<1>5. e.question = question
  <2> HIDE DEF r, question
  <2>1. QED  BY <1>3 DEF Call
<1> HIDE DEF e, r
<1>6. /\ at' \in [Chats -> Places]
      /\ chat' \in [Chats -> Call \cup Answered \cup {NoQuestion}]
      /\ (\A d \in Chats : Live(d) => Fits(d, at[d], chat[d]))'
      /\ (\A d \in Chats : at[d] = "done" => chat[d] \in Answered)'
      /\ HeldAsked'
  BY <1>1, <1>3, <1>4, RunFacts, MoveFits
<1>7. /\ pending \in [Sessions -> Question \cup {NoQuestion}]
      /\ pending' \in [Sessions -> Question \cup {NoQuestion}]
      /\ transcript' \in [Sessions -> Seq(Message)]
  <2> HIDE DEF question
  <2>1. QED  BY <1>1, <1>2 DEF IInv, TypeOK
<1>8. TypeOK'
  BY <1>6, <1>7 DEF TypeOK, Fits
<1>9. /\ at'[question.origin] \in {"reply", "done"}
      /\ chat'[question.origin].question # NoQuestion
      /\ chat'[question.origin].question.tool = question.tool
  <2>1. CASE chat[c].origin = c
    <3>1. at'[c] = "reply" /\ chat'[c] = e
      BY <1>1 DEF Move, IInv, TypeOK
    <3>2. QED  BY <1>2, <1>5, <2>1, <3>1, NoQuestionDiffers
  <2>2. CASE chat[c].origin # c
    <3>1. /\ chat[c].held \in Question /\ chat[c].calls = <<chat[c].held.tool>>
          /\ chat[c].origin = chat[c].held.origin /\ AskedFirst(chat[c].held)
      BY <1>1, <2>2, RunFacts
    <3>2. PICK q \in Question : q = chat[c].held
      BY <3>1
    <3>3. AskedFirst(q)'
      BY <1>1, <3>1, <3>2, AskedStays DEF IInv
    <3>4. question.origin = q.origin /\ question.tool = q.tool
      BY <3>1, <3>2
    <3>5. QED  BY <3>3, <3>4 DEF AskedFirst
  <2>3. QED  BY <2>1, <2>2
<1>10. ASSUME NEW t \in Sessions, pending'[t] # NoQuestion
       PROVE  AskedFirst(pending[t])'
  <2>1. CASE t = s
    <3>1. pending'[t] = question
      BY <1>1, <1>7, <2>1
    <3> HIDE DEF question
    <3>2. QED  BY <1>9, <3>1 DEF AskedFirst
  <2>2. CASE t # s
    <3>1. pending'[t] = pending[t] /\ pending[t] \in Question
      BY <1>1, <1>7, <1>10, <2>2
    <3>2. PICK q \in Question : q = pending[t]
      BY <3>1
    <3>3. AskedFirst(q)
      BY <1>10, <3>1, <3>2 DEF IInv, PendingAsked
    <3>4. AskedFirst(q)'
      BY <1>1, <3>3, AskedStays DEF IInv
    <3>5. QED  BY <3>1, <3>2, <3>4 DEF AskedFirst
  <2>3. QED  BY <2>1, <2>2
<1>11. PendingAsked'
  BY <1>10 DEF PendingAsked
<1>12. QED  BY <1>6, <1>8, <1>11 DEF IInv

LEMMA RunKeeps ==
  ASSUME IInv, NEW c \in Chats, Run(c)
  PROVE  IInv'
<1>1. at[c] = "run"
  BY DEF Run, SkipDirect, ToolSucceeds, AskUser, Respond, Running
<1>2. CASE SkipDirect(c)
  <2>1. /\ Move(c, "run", [chat[c] EXCEPT !.calls = Tail(@)]) /\ AsksNothing
        /\ chat[c].calls # <<>>
    BY <1>2 DEF SkipDirect, Running, AsksNothing
  <2>2. /\ chat[c].filled \in BOOLEAN
        /\ [chat[c] EXCEPT !.calls = Tail(@)] =
             [chat[c] EXCEPT !.calls = Tail(@), !.filled = chat[c].filled]
    BY <1>1, RunFacts DEF Call
  <2>3. QED  BY <1>1, <2>1, <2>2, TailKeeps
<1>3. CASE ToolSucceeds(c)
  <2> DEFINE filled == chat[c].filled \/ chat[c].filling
  <2>1. Move(c, "run", [chat[c] EXCEPT !.calls = Tail(@), !.filled = filled])
    BY <1>3 DEF ToolSucceeds
  <2>2. AsksNothing /\ chat[c].calls # <<>>
    BY <1>1, <1>3, RunFacts, ClearAsksNothing DEF ToolSucceeds, Running
  <2>3. filled \in BOOLEAN
    OBVIOUS
  <2> HIDE DEF filled
  <2>4. QED  BY <1>1, <2>1, <2>2, <2>3, TailKeeps
<1>4. CASE AskUser(c)
  BY <1>4, AskUserKeeps
<1>5. CASE Respond(c)
  <2>1. PICK n \in 0..1 : End(c, Asking(chat[c], n), "ok")
    BY <1>5 DEF Respond
  <2>2. n \in Nat /\ n <= 1 /\ "ok" \in Outcomes /\ AsksNothing
    BY <1>5 DEF Outcomes, Respond, AsksNothing
  <2>3. /\ Asking(chat[c], n) \in Call
        /\ Asking(chat[c], n).models = chat[c].models + n
        /\ Asking(chat[c], n).held = chat[c].held
    BY <1>1, <2>2, RunFacts, AskingTyped
  <2>4. Asking(chat[c], n).models <= 6
    BY <1>1, <2>2, <2>3, RunFacts
  <2>5. QED  BY <1>1, <2>1, <2>2, <2>3, <2>4, RunFacts, EndKeeps
<1>6. QED  BY <1>2, <1>3, <1>4, <1>5 DEF Run

LEMMA ReplyKeeps ==
  ASSUME IInv, NEW c \in Chats, Reply(c)
  PROVE  IInv'
<1> DEFINE r == chat[c]
           s == r.session
           e == [session |-> s, question |-> r.question,
                 filled |-> r.filled, held |-> r.held]
<1>1. /\ at[c] = "reply" /\ Live(c) /\ Move(c, "done", e)
      /\ pending' = pending
  BY DEF Reply, Live
<1>2. /\ at' = [at EXCEPT ![c] = "done"] /\ at \in [Chats -> Places]
      /\ chat' = [chat EXCEPT ![c] = e]
      /\ chat \in [Chats -> Call \cup Answered \cup {NoQuestion}]
  BY <1>1 DEF Move, IInv, TypeOK
<1>3. r \in Call /\ s \in Sessions /\ r.base \in Seq(Message)
  BY <1>1, LiveFacts DEF Call
<1>4. e \in Answered /\ e.question = chat[c].question
  BY <1>3 DEF Call, Answered
<1>5. /\ at'[c] = "done" /\ chat'[c] = e
      /\ \A d \in Chats : d # c => at'[d] = at[d] /\ chat'[d] = chat[d]
  BY <1>2
<1>6. /\ at' \in [Chats -> Places]
      /\ chat' \in [Chats -> Call \cup Answered \cup {NoQuestion}]
  <2> HIDE DEF e
  <2>1. QED  BY <1>2, <1>4 DEF Places
<1> HIDE DEF e
<1>7. \A d \in Chats : Live(d)' => d # c /\ Live(d)
  BY <1>5 DEF Live
<1>8. \A d \in Chats : Live(d)' => Fits(d, at'[d], chat'[d])
  BY <1>5, <1>7 DEF IInv
<1>9. \A d \in Chats : at'[d] = "done" => chat'[d] \in Answered
  BY <1>4, <1>5 DEF IInv, TypeOK
<1>10. transcript' \in [Sessions -> Seq(Message)]
  <2>1. transcript \in [Sessions -> Seq(Message)]
    BY DEF IInv, TypeOK
  <2>2. CASE r.outcome = "error"
    BY <2>1, <2>2 DEF Reply
  <2>3. CASE r.outcome # "error"
    <3>1. PICK answer \in {<<>>, <<Said(c, "assistant")>>} :
            transcript' = [transcript EXCEPT ![s] = Trim(r.base \o answer)]
      BY <2>3 DEF Reply
    <3>2. Said(c, "assistant") \in Message
      BY DEF Said, Message
    <3>3. <<>> \in Seq(Message) /\ <<Said(c, "assistant")>> \in Seq(Message)
      BY <3>2, EmptySeq
    <3>4. answer \in Seq(Message)
      BY <3>3
    <3>5. Trim(r.base \o answer) \in Seq(Message)
      BY <1>3, <3>4, ConcatProperties, TrimTyped
    <3>6. QED  BY <2>1, <3>1, <3>5
  <2>4. QED  BY <2>2, <2>3
<1>11. pending' \in [Sessions -> Question \cup {NoQuestion}]
  BY <1>1 DEF IInv, TypeOK
<1>12. TypeOK'
  BY <1>6, <1>8, <1>9, <1>10, <1>11 DEF TypeOK, Fits
<1>13. \A q \in Question : AskedFirst(q) => AskedFirst(q)'
  <2>1. SUFFICES ASSUME NEW q \in Question, AskedFirst(q)
                 PROVE  AskedFirst(q)'
    OBVIOUS
  <2>2. QED  BY <1>1, <1>4, <2>1, AskedStays DEF IInv
<1>14. ASSUME NEW d \in Chats, Live(d)', chat'[d].held # NoQuestion
       PROVE  AskedFirst(chat[d].held)'
  <2>1. /\ chat'[d] = chat[d] /\ chat[d].held \in Question
        /\ AskedFirst(chat[d].held)
    BY <1>5, <1>7, <1>14, LiveFacts
  <2>2. PICK q \in Question : q = chat[d].held
    BY <2>1
  <2>3. QED  BY <1>13, <2>1, <2>2 DEF AskedFirst
<1>15. ASSUME NEW t \in Sessions, pending'[t] # NoQuestion
       PROVE  AskedFirst(pending[t])'
  <2>1. /\ pending'[t] = pending[t] /\ pending[t] \in Question
        /\ AskedFirst(pending[t])
    BY <1>1, <1>15 DEF IInv, TypeOK, PendingAsked
  <2>2. PICK q \in Question : q = pending[t]
    BY <2>1
  <2>3. QED  BY <1>13, <2>1, <2>2 DEF AskedFirst
<1>16. HeldAsked' /\ PendingAsked'
  BY <1>14, <1>15 DEF HeldAsked, PendingAsked, Live
<1>17. QED  BY <1>8, <1>12, <1>16 DEF IInv

LEMMA StepKeeps == IInv /\ [Next]_vars => IInv'
<1> SUFFICES ASSUME IInv, [Next]_vars PROVE IInv'
  OBVIOUS
<1>1. CASE UNCHANGED vars
  BY <1>1 DEF vars, history, IInv, TypeOK, Live, Fits, HeldAsked, PendingAsked,
              AskedFirst
<1>2. CASE Next
  <2>1. PICK c \in Chats : \/ Begin(c) \/ AnswerAside(c) \/ LookUp(c) \/ Fail(c)
                           \/ Resume(c) \/ Decide(c) \/ Run(c) \/ Reply(c)
    BY <1>2 DEF Next
  <2>2. QED  BY <2>1, BeginKeeps, AnswerAsideKeeps, LookUpKeeps, FailKeeps,
                ResumeKeeps, DecideKeeps, RunKeeps, ReplyKeeps
<1>3. QED  BY <1>1, <1>2

LEMMA Inductive == Spec => []IInv
BY InitInv, StepKeeps, PTL DEF Spec

-----------------------------------------------------------------------------
(* Theorems                                                                *)

(* The calls, the pending questions and the transcripts have their types.  *)
THEOREM TypeCorrect == Spec => []TypeOK
<1>1. IInv => TypeOK
  BY DEF IInv
<1>2. QED  BY <1>1, Inductive, PTL

(* A pending question carries the message whose own call asked about its   *)
(* tool, however many calls of a session overlap (runChat, setPending).    *)
THEOREM OriginOfQuestions == Spec => []OriginAsked
<1>1. IInv => OriginAsked
  BY DEF IInv, PendingAsked, AskedFirst, OriginAsked
<1>2. QED  BY <1>1, Inductive, PTL

(* Every path of runChat asks the model six times at most.                 *)
THEOREM SixCalls == Spec => []SixModelCalls
<1>1. IInv => SixModelCalls
  <2> SUFFICES ASSUME IInv, NEW c \in Chats, Live(c)
               PROVE  chat[c].models <= 6
    BY DEF SixModelCalls
  <2>1. chat[c].models \in Nat /\ chat[c].models <= Budget(at[c])
    BY LiveFacts
  <2>2. Budget(at[c]) \in Nat /\ Budget(at[c]) <= 6
    BY DEF Budget
  <2>3. QED  BY <2>1, <2>2
<1>2. QED  BY <1>1, Inductive, PTL

(* No path of runChat brings an internet search to the tools while the     *)
(* session is offline.                                                     *)
THEOREM OnlineSearch == Spec => []SearchesOnline
<1>1. IInv => SearchesOnline
  <2> SUFFICES ASSUME IInv, NEW c \in Chats, at[c] = "run", ~chat[c].online
               PROVE  ~Named(chat[c], Search)
    BY DEF SearchesOnline, Named
  <2>1. QED  BY RunFacts
<1>2. QED  BY <1>1, Inductive, PTL

-----------------------------------------------------------------------------
(* Transcripts that are cut                                                *)

Shorter(n) == IF n <= Kept THEN n ELSE Kept

(* The last messages, and nothing else is the last messages.               *)
LEMMA TrimElements ==
  ASSUME NEW m \in Seq(Message)
  PROVE  /\ Trim(m) \in Seq(Message) /\ Len(Trim(m)) = Shorter(Len(m))
         /\ \A i \in 1 .. Len(Trim(m)) : Trim(m)[i] = m[Len(m) - Len(Trim(m)) + i]
<1>0. Trim(m) \in Seq(Message)
  BY TrimTyped
<1>1. CASE Len(m) <= Kept
  <2>1. Trim(m) = m /\ Len(m) \in Nat
    BY <1>1 DEF Trim
  <2>2. \A i \in 1 .. Len(m) : Len(m) - Len(m) + i = i
    BY <2>1
  <2>3. QED  BY <1>0, <1>1, <2>1, <2>2 DEF Shorter
<1>2. CASE ~(Len(m) <= Kept)
  <2> DEFINE a == Len(m) - Kept + 1
  <2>1. /\ Len(m) \in Nat /\ Kept \in Nat \ {0} /\ a \in 1 .. Len(m) /\ Len(m) \in 1 .. Len(m)
        /\ Len(m) - a + 1 = Kept
    BY <1>2, CountsAreNaturals
  <2>2. Trim(m) = SubSeq(m, a, Len(m))
    BY <1>2 DEF Trim
  <2>3. /\ Len(SubSeq(m, a, Len(m))) = Kept
        /\ \A i \in 1 .. Kept : SubSeq(m, a, Len(m))[i] = m[a + i - 1]
    <3> HIDE DEF a
    <3>0. \A i \in a .. Len(m) : m[i] \in Message
      BY <2>1, ElementOfSeq
    <3>1. QED  BY <2>1, <3>0, SubSeqProperties
  <2>4. \A i \in 1 .. Kept : a + i - 1 = Len(m) - Kept + i
    BY <2>1
  <2>5. QED  BY <1>0, <1>2, <2>2, <2>3, <2>4 DEF Shorter
<1>3. QED  BY <1>1, <1>2

LEMMA TrimIs ==
  ASSUME NEW m \in Seq(Message), NEW t \in Seq(Message), Len(t) = Shorter(Len(m)),
         \A i \in 1 .. Len(t) : t[i] = m[Len(m) - Len(t) + i]
  PROVE  t = Trim(m)
<1>1. /\ Trim(m) \in Seq(Message) /\ Len(Trim(m)) = Len(t)
      /\ \A i \in 1 .. Len(Trim(m)) : Trim(m)[i] = m[Len(m) - Len(Trim(m)) + i]
  BY TrimElements
<1>2. \A i \in 1 .. Len(t) : t[i] = Trim(m)[i]
  BY <1>1
<1>3. QED  BY <1>1, <1>2, SeqEqual

(* Cutting the front of a conversation again is cutting it once.           *)
LEMMA TrimConcat ==
  ASSUME NEW a \in Seq(Message), NEW b \in Seq(Message)
  PROVE  Trim(Trim(a) \o b) = Trim(a \o b)
<1> DEFINE p == Trim(a)
           q == p \o b
           t == Trim(q)
<1>1. /\ p \in Seq(Message) /\ Len(p) = Shorter(Len(a))
      /\ \A i \in 1 .. Len(p) : p[i] = a[Len(a) - Len(p) + i]
  BY TrimElements
<1> HIDE DEF p
<1>2. /\ q \in Seq(Message) /\ Len(q) = Len(p) + Len(b)
      /\ \A i \in 1 .. Len(p) : q[i] = p[i]
      /\ \A i \in 1 .. Len(b) : q[Len(p) + i] = b[i]
  <2>1. p \in Seq(Message)
    BY <1>1
  <2>2. QED  BY ONLY <2>1, b \in Seq(Message)
<1> HIDE DEF q
<1>3. /\ t \in Seq(Message) /\ Len(t) = Shorter(Len(q))
      /\ \A i \in 1 .. Len(t) : t[i] = q[Len(q) - Len(t) + i]
  BY <1>2, TrimElements
<1> HIDE DEF t
<1> DEFINE m == a \o b
<1>4. /\ m \in Seq(Message) /\ Len(m) = Len(a) + Len(b)
      /\ \A i \in 1 .. Len(a) : m[i] = a[i]
      /\ \A i \in 1 .. Len(b) : m[Len(a) + i] = b[i]
  OBVIOUS
<1> HIDE DEF m
<1>5. Len(a) \in Nat /\ Len(b) \in Nat /\ Kept \in Nat \ {0} /\ Len(t) \in Nat
  BY <1>3, CountsAreNaturals
<1>6. /\ Len(p) \in Nat /\ Len(p) <= Len(a) /\ Len(t) = Shorter(Len(m))
      /\ Len(t) <= Len(q)
  BY <1>1, <1>2, <1>3, <1>4, <1>5 DEF Shorter
<1>7. ASSUME NEW i \in 1 .. Len(t) PROVE t[i] = m[Len(m) - Len(t) + i]
  <2> DEFINE j == Len(q) - Len(t) + i
  <2>1. j \in 1 .. Len(q) /\ t[i] = q[j]
    BY <1>2, <1>3, <1>5, <1>6
  <2>2. Len(m) - Len(t) + i = j + (Len(a) - Len(p))
    BY <1>2, <1>4, <1>5, <1>6
  <2> HIDE DEF j
  <2>3. CASE j <= Len(p)
    <3>1. j \in 1 .. Len(p) /\ j + (Len(a) - Len(p)) \in 1 .. Len(a)
          /\ Len(a) - Len(p) + j = j + (Len(a) - Len(p))
      BY <1>5, <1>6, <2>1, <2>3
    <3>2. QED  BY <1>1, <1>2, <1>4, <2>1, <2>2, <3>1
  <2>4. CASE j > Len(p)
    <3> DEFINE k == j - Len(p)
    <3>1. k \in 1 .. Len(b) /\ Len(p) + k = j /\ j + (Len(a) - Len(p)) = Len(a) + k
      BY <1>2, <1>5, <1>6, <2>1, <2>4
    <3> HIDE DEF k
    <3>2. QED  BY <1>2, <1>4, <2>1, <2>2, <3>1
  <2>5. QED  BY <1>6, <2>1, <2>3, <2>4
<1>8. t = Trim(m)
  BY <1>3, <1>4, <1>6, <1>7, TrimIs
<1>9. QED  BY <1>8 DEF t, q, p, m

-----------------------------------------------------------------------------
(* Calls that do not overlap                                               *)

(* Calls on one session overlap on crossed sessions only.                  *)
Alone ==
  \A c, d \in Chats :
    Live(c) /\ Live(d) /\ c # d /\ chat[c].session = chat[d].session =>
      chat[c].session \in crossed

(* The call that asked q is answered, or about to be, on session s.        *)
AskedBy(q, s) ==
  /\ at[q.asker] \in {"reply", "done"}
  /\ chat[q.asker].session = s /\ chat[q.asker].question = q

Filled(c) == at[c] # "idle" /\ chat[c].filled

(* A question that is held or pending was asked on its session; what fills *)
(* a question holds it.                                                    *)
AskedInv ==
  /\ \A c \in Chats : at[c] # "idle" /\ chat[c].held # NoQuestion =>
       AskedBy(chat[c].held, chat[c].session)
  /\ \A s \in Sessions : pending[s] # NoQuestion => AskedBy(pending[s], s)
  /\ \A c \in Chats : Live(c) /\ chat[c].filling => chat[c].held # NoQuestion
  /\ \A c \in Chats : Filled(c) => chat[c].held # NoQuestion
  /\ \A c \in Chats : at[c] = "resume" => ~chat[c].filled /\ ~chat[c].filling

(* A question that is pending, or held and not filled yet, has been filled *)
(* by nobody else.                                                         *)
FilledInv ==
  /\ \A s \in Sessions \ crossed : pending[s] # NoQuestion =>
       \A d \in Chats : Filled(d) => chat[d].held # pending[s]
  /\ \A c \in Chats : Live(c) /\ ~chat[c].filled /\ chat[c].held # NoQuestion
                      /\ chat[c].session \notin crossed =>
       \A d \in Chats : Filled(d) => chat[d].held # chat[c].held
  /\ FilledOnce

(* While a call is under way the pending question is the one it has just   *)
(* asked, or still the last one.                                           *)
AsksNow(c) == at[c] = "reply" /\ chat[c].outcome = "needs_input"

QuestionInv ==
  /\ QuestionStands
  /\ last \in [Sessions -> [outcome : Outcomes, question : Question \cup {NoQuestion}]]
  /\ \A c \in Chats : Live(c) /\ chat[c].session \notin crossed =>
       LET s == chat[c].session IN
       /\ AsksNow(c) => pending[s] = chat[c].question /\ pending[s] # NoQuestion
       /\ ~AsksNow(c) /\ pending[s] # NoQuestion => pending[s] = last[s].question

(* A call under way has read what is still the transcript.                 *)
TranscriptInv ==
  /\ TranscriptKept
  /\ log \in [Sessions -> Seq(Message)]
  /\ \A c \in Chats : Live(c) =>
       /\ chat[c].incoming \in Incoming(c)
       /\ chat[c].session \notin crossed =>
            chat[c].base = Resolved(chat[c].session, chat[c].incoming)

CallsInv == Alone /\ AskedInv /\ FilledInv /\ QuestionInv /\ TranscriptInv

(* What a call goes on with: its own conversation, the question it holds,  *)
(* if it still does, and no question of its own.                           *)
SameTalk(c, r) ==
  /\ r \in Call /\ r.session = chat[c].session
  /\ r.incoming = chat[c].incoming /\ r.base = chat[c].base

Draft(c, r) ==
  /\ SameTalk(c, r)
  /\ r.held \in {chat[c].held, NoQuestion} /\ r.filled = chat[c].filled
  /\ r.filled \/ r.filling => r.held # NoQuestion

Leaves(c) == /\ pending' = pending \/ Clear(c)
             /\ UNCHANGED <<transcript, history>>

(* A step between the first and the last of a call.                        *)
Inner(c) ==
  /\ Live(c) /\ at[c] # "reply"
  /\ \E place \in Places \ {"idle", "done"} : \E r :
       /\ Move(c, place, r) /\ SameTalk(c, r)
       /\ r.filled \/ r.filling => r.held # NoQuestion
       /\ place = "resume" => ~r.filled /\ ~r.filling
       /\ \/ r.held \in {chat[c].held, NoQuestion} /\ r.filled = chat[c].filled
          \/ ~r.filled /\ r.held = pending[chat[c].session] /\ UNCHANGED pending
          \/ r.held = chat[c].held /\ Clear(c) /\ (chat[c].filled => r.filled)
       /\ \/ /\ ~(place = "reply" /\ r.outcome = "needs_input")
             /\ pending' = pending \/ Clear(c)
          \/ /\ place = "reply" /\ r.outcome = "needs_input"
             /\ r.question \in Question /\ r.question.asker = c
             /\ pending' = [pending EXCEPT ![chat[c].session] = r.question]
  /\ UNCHANGED <<transcript, history>>

LEMMA MoveDraft ==
  ASSUME NEW c \in Chats, Live(c), at[c] # "reply", NEW r, Draft(c, r),
         NEW place \in Places \ {"idle", "done", "reply", "resume"},
         Move(c, place, r), Leaves(c)
  PROVE  Inner(c)
BY DEF Draft, Leaves, Inner

LEMMA EndDraft ==
  ASSUME NEW c \in Chats, Live(c), at[c] # "reply", NEW r, Draft(c, r),
         NEW outcome \in Outcomes \ {"needs_input"}, End(c, r, outcome), Leaves(c)
  PROVE  Inner(c)
<1> DEFINE h == IF r.filled THEN r.held ELSE NoQuestion
           e == [r EXCEPT !.outcome = outcome, !.online = FALSE,
                          !.routed = FALSE, !.filling = FALSE,
                          !.calls = <<>>, !.origin = c, !.held = h]
<1>1. /\ r \in Call /\ r.held \in Question \cup {NoQuestion}
      /\ h \in {r.held, NoQuestion} /\ h \in Question \cup {NoQuestion}
      /\ r.filled => h = r.held
  BY DEF Draft, SameTalk, Call
<1>2. <<>> \in Seq(Tools \cup {Direct})
  BY EmptySeq
<1>3. Move(c, "reply", e)
  BY DEF End
<1> HIDE DEF h
<1>4. /\ e \in Call /\ e.session = r.session /\ e.incoming = r.incoming /\ e.base = r.base
      /\ e.held = h /\ e.filled = r.filled /\ ~e.filling /\ e.outcome = outcome
  BY <1>1, <1>2 DEF Call
<1> HIDE DEF e
<1>5. SameTalk(c, e)
  BY <1>4 DEF Draft, SameTalk
<1>6. QED  BY <1>1, <1>3, <1>4, <1>5 DEF Draft, Leaves, Inner, Places

LEMMA AdmitDraft ==
  ASSUME NEW c \in Chats, Live(c), at[c] # "reply", NEW r, Draft(c, r),
         NEW plan \in Seq(Tools \cup {Direct}), Admit(c, r, plan), Leaves(c)
  PROVE  Inner(c)
<1> DEFINE e == [r EXCEPT !.calls = plan]
<1>1. \/ \E outcome \in Outcomes \ {"needs_input"} : End(c, r, outcome)
      \/ Move(c, "run", e)
  BY DEF Admit, Outcomes
<1>2. CASE Move(c, "run", e)
  <2>1. /\ e \in Call /\ e.session = r.session /\ e.incoming = r.incoming /\ e.base = r.base
        /\ e.held = r.held /\ e.filled = r.filled /\ e.filling = r.filling
    BY DEF Draft, SameTalk, Call
  <2> HIDE DEF e
  <2>2. Draft(c, e)
    BY <2>1 DEF Draft, SameTalk
  <2>3. QED  BY <1>2, <2>2, MoveDraft DEF Places
<1>3. QED  BY <1>1, <1>2, EndDraft

LEMMA AskingDraft ==
  ASSUME NEW c \in Chats, NEW r, Draft(c, r), NEW n \in Nat
  PROVE  Draft(c, Asking(r, n))
<1>1. r \in Call /\ r.models + n \in Nat
  BY DEF Draft, SameTalk, Call
<1>2. /\ Asking(r, n) \in Call /\ Asking(r, n).session = r.session
      /\ Asking(r, n).incoming = r.incoming /\ Asking(r, n).base = r.base
      /\ Asking(r, n).held = r.held /\ Asking(r, n).filled = r.filled
      /\ Asking(r, n).filling = r.filling
  BY <1>1 DEF Asking, Call
<1>3. QED  BY <1>2 DEF Draft, SameTalk

LEMMA OwnDraft ==
  ASSUME IInv, AskedInv, NEW c \in Chats, Live(c)
  PROVE  Draft(c, chat[c]) /\ chat[c] \in Call /\ chat[c].session \in Sessions
BY LiveFacts DEF AskedInv, Filled, Live, Draft, SameTalk

LEMMA DroppedDraft ==
  ASSUME IInv, AskedInv, NEW c \in Chats, at[c] = "resume"
  PROVE  Draft(c, Dropped(c))
<1>1. Live(c) /\ chat[c] \in Call /\ ~chat[c].filled /\ ~chat[c].filling
  BY ResumeFacts DEF AskedInv
<1>2. /\ Dropped(c) \in Call /\ Dropped(c).session = chat[c].session
      /\ Dropped(c).incoming = chat[c].incoming /\ Dropped(c).base = chat[c].base
      /\ Dropped(c).held = NoQuestion /\ Dropped(c).filled = chat[c].filled
      /\ Dropped(c).filling = chat[c].filling
  BY <1>1 DEF Dropped, Call
<1>3. QED  BY <1>1, <1>2 DEF Draft, SameTalk

LEMMA OpenedInner ==
  ASSUME IInv, AskedInv, NEW c \in Chats, AnswerAside(c) \/ LookUp(c) \/ Fail(c)
  PROVE  Inner(c)
<1>1. /\ Live(c) /\ at[c] # "reply" /\ Draft(c, chat[c]) /\ Leaves(c)
      /\ \A n \in Nat : Draft(c, Asking(chat[c], n))
  <2>1. Live(c) /\ at[c] # "reply" /\ UNCHANGED <<pending, transcript, history>>
    BY DEF AnswerAside, LookUp, Fail, Live
  <2>2. Draft(c, chat[c])
    BY <2>1, OwnDraft
  <2>3. QED  BY <2>1, <2>2, AskingDraft DEF Leaves
<1>2. CASE AnswerAside(c)
  <2>1. PICK n \in MemoryModels, outcome \in {"ok", "error"} :
          End(c, Asking(chat[c], n), outcome)
    BY <1>2 DEF AnswerAside
  <2>2. n \in Nat /\ outcome \in Outcomes \ {"needs_input"}
    BY DEF MemoryModels, Outcomes
  <2>3. QED  BY <1>1, <2>1, <2>2, EndDraft
<1>3. CASE Fail(c)
  <2>1. PICK n \in 0..1 : End(c, Asking(chat[c], n), "error")
    BY <1>3 DEF Fail
  <2>2. n \in Nat /\ "error" \in Outcomes \ {"needs_input"}
    BY DEF Outcomes
  <2>3. QED  BY <1>1, <2>1, <2>2, EndDraft
<1>4. CASE LookUp(c)
  <2> DEFINE question == pending[chat[c].session]
             r == [chat[c] EXCEPT !.held = question, !.origin = question.origin]
  <2>1. at[c] = "opened" /\ UNCHANGED <<pending, transcript, history>>
    BY <1>4 DEF LookUp
  <2>2. CASE question = NoQuestion
    <3>1. Move(c, "decide", chat[c])
      BY <1>4, <2>2 DEF LookUp
    <3>2. QED  BY <1>1, <3>1, MoveDraft DEF Places
  <2>3. CASE question # NoQuestion
    <3>1. Move(c, "resume", r)
      BY <1>4, <2>3 DEF LookUp
    <3>2. /\ chat[c] \in Call /\ chat[c].session \in Sessions
          /\ chat[c].held = NoQuestion /\ ~chat[c].filled /\ ~chat[c].filling
      BY <1>1, <2>1, OwnDraft, LiveFacts DEF Fits, Deciding, Draft
    <3>3. question \in Question /\ question.origin \in Chats
      BY <2>3, <3>2 DEF IInv, TypeOK, Question
    <3> HIDE DEF question
    <3>4. /\ SameTalk(c, r) /\ r.held = question /\ ~r.filled /\ ~r.filling
      BY <3>2, <3>3 DEF Call, SameTalk
    <3> HIDE DEF r
    <3>5. QED  BY <1>1, <2>1, <3>1, <3>4 DEF Inner, Places, question
  <2>4. QED  BY <2>2, <2>3
<1>5. QED  BY <1>2, <1>3, <1>4

LEMMA ResumeInner ==
  ASSUME IInv, AskedInv, NEW c \in Chats, Resume(c)
  PROVE  Inner(c)
<1>1. /\ at[c] = "resume" /\ Leaves(c)
  BY DEF Resume, CancelQuestion, FillFromReply, Interrupt, FillByModel, GiveUp, Leaves
<1>2. /\ Live(c) /\ at[c] # "reply" /\ Draft(c, chat[c]) /\ Draft(c, Dropped(c))
      /\ chat[c].held \in Question /\ chat[c].held # NoQuestion /\ chat[c].held.tool \in Tools
  BY <1>1, ResumeFacts, OwnDraft, DroppedDraft
<1>3. CASE CancelQuestion(c)
  <2>1. End(c, Dropped(c), "fixed") /\ "fixed" \in Outcomes \ {"needs_input"}
    BY <1>3 DEF CancelQuestion, Outcomes
  <2>2. QED  BY <1>1, <1>2, <2>1, EndDraft
<1>4. CASE FillFromReply(c) \/ FillByModel(c)
  <2>1. PICK r : FillWith(c, r) /\ Draft(c, r) /\ r.held = chat[c].held
    <3>1. CASE FillFromReply(c)
      BY <1>2, <3>1 DEF FillFromReply
    <3>2. CASE FillByModel(c)
      <4>1. FillWith(c, Asking(chat[c], 1))
        BY <3>2 DEF FillByModel
      <4>2. Draft(c, Asking(chat[c], 1)) /\ Asking(chat[c], 1).held = chat[c].held
        BY <1>2, AskingDraft, AskingTyped, OwnDraft
      <4>3. QED  BY <4>1, <4>2
    <3>3. QED  BY <1>4, <3>1, <3>2
  <2> DEFINE f == [r EXCEPT !.filling = TRUE]
             plan == <<chat[c].held.tool>>
  <2>2. Admit(c, f, plan)
    BY <2>1 DEF FillWith
  <2>3. /\ f \in Call /\ f.session = r.session /\ f.incoming = r.incoming /\ f.base = r.base
        /\ f.held = r.held /\ f.filled = r.filled
    BY <2>1 DEF Draft, SameTalk, Call
  <2>4. plan \in Seq(Tools \cup {Direct})
    BY <1>2
  <2> HIDE DEF f, plan
  <2>5. Draft(c, f)
    BY <1>2, <2>1, <2>3 DEF Draft, SameTalk
  <2>6. QED  BY <1>1, <1>2, <2>2, <2>4, <2>5, AdmitDraft
<1>5. CASE Interrupt(c)
  <2>1. PICK tool \in Tools : Admit(c, Dropped(c), <<tool>>)
    BY <1>5 DEF Interrupt
  <2>2. <<tool>> \in Seq(Tools \cup {Direct})
    OBVIOUS
  <2>3. QED  BY <1>1, <1>2, <2>1, <2>2, AdmitDraft
<1>6. CASE GiveUp(c)
  <2>1. Move(c, "decide", Asking(Dropped(c), 1))
    BY <1>6 DEF GiveUp
  <2>2. Draft(c, Asking(Dropped(c), 1))
    BY <1>2, AskingDraft
  <2>3. QED  BY <1>1, <1>2, <2>1, <2>2, MoveDraft DEF Places
<1>7. QED  BY <1>3, <1>4, <1>5, <1>6 DEF Resume

LEMMA AcceptInner ==
  ASSUME NEW c \in Chats, Live(c), at[c] # "reply", NEW r, Draft(c, r),
         Accept(c, r, "refill"), Leaves(c)
  PROVE  Inner(c)
<1>1. CASE Move(c, "refill", r)
  BY <1>1, MoveDraft DEF Places
<1>2. CASE \E plan \in Plans : Admit(c, r, plan)
  BY <1>2, PlansTyped, AdmitDraft
<1>3. QED  BY <1>1, <1>2 DEF Accept

LEMMA DecideInner ==
  ASSUME IInv, AskedInv, NEW c \in Chats, Decide(c)
  PROVE  Inner(c)
<1>1. at[c] \in Deciding /\ Leaves(c)
  BY DEF Decide, Infer, ChooseRoute, NoRoutes, Extract, RetryText, RetryEmpty,
         Deciding, Leaves
<1>2. /\ Live(c) /\ at[c] # "reply" /\ Draft(c, chat[c])
  BY <1>1, OwnDraft DEF Deciding, Live
<1> DEFINE a == Asking(chat[c], 1)
<1>3. Draft(c, a)
  BY <1>2, AskingDraft
<1> HIDE DEF a
<1>4. CASE Infer(c)
  <2>1. PICK tool \in Tools : Admit(c, chat[c], <<tool>>)
    BY <1>4 DEF Infer
  <2>2. <<tool>> \in Seq(Tools \cup {Direct})
    OBVIOUS
  <2>3. QED  BY <1>1, <1>2, <2>1, <2>2, AdmitDraft
<1>5. CASE ChooseRoute(c)
  <2> DEFINE r == [a EXCEPT !.routed = TRUE]
  <2>1. /\ r \in Call /\ r.session = a.session /\ r.incoming = a.incoming /\ r.base = a.base
        /\ r.held = a.held /\ r.filled = a.filled /\ r.filling = a.filling
    BY <1>3 DEF Draft, SameTalk, Call
  <2>2. \/ End(c, r, "fixed")
        \/ \E n \in MemoryModels, outcome \in {"ok", "error"} :
             End(c, Asking(r, n), outcome)
        \/ \E tool \in Immediate : Admit(c, r, <<tool>>)
        \/ Move(c, "extract", r)
    BY <1>5 DEF ChooseRoute, a
  <2> HIDE DEF r
  <2>3. Draft(c, r)
    BY <1>3, <2>1 DEF Draft, SameTalk
  <2>4. CASE End(c, r, "fixed")
    BY <1>1, <1>2, <2>3, <2>4, EndDraft DEF Outcomes
  <2>5. CASE \E n \in MemoryModels, outcome \in {"ok", "error"} :
               End(c, Asking(r, n), outcome)
    <3>1. PICK n \in MemoryModels, outcome \in {"ok", "error"} :
            End(c, Asking(r, n), outcome)
      BY <2>5
    <3>2. n \in Nat /\ outcome \in Outcomes \ {"needs_input"}
      BY DEF MemoryModels, Outcomes
    <3>3. Draft(c, Asking(r, n))
      BY <2>3, <3>2, AskingDraft
    <3>4. QED  BY <1>1, <1>2, <3>1, <3>2, <3>3, EndDraft
  <2>6. CASE \E tool \in Immediate : Admit(c, r, <<tool>>)
    <3>1. PICK tool \in Immediate : Admit(c, r, <<tool>>)
      BY <2>6
    <3>2. tool \in Tools \cup {Direct}
      BY ToolsDiffer
    <3>3. <<tool>> \in Seq(Tools \cup {Direct})
      BY <3>2
    <3>4. QED  BY <1>1, <1>2, <2>3, <3>1, <3>3, AdmitDraft
  <2>7. CASE Move(c, "extract", r)
    BY <1>1, <1>2, <2>3, <2>7, MoveDraft DEF Places
  <2>8. QED  BY <2>2, <2>4, <2>5, <2>6, <2>7
<1>6. CASE NoRoutes(c)
  <2>1. Move(c, "extract", chat[c])
    BY <1>6 DEF NoRoutes
  <2>2. QED  BY <1>1, <1>2, <2>1, MoveDraft DEF Places
<1>7. CASE Extract(c)
  <2>1. Move(c, "retry", a) \/ Accept(c, a, "refill")
    BY <1>7 DEF Extract, a
  <2>2. QED  BY <1>1, <1>2, <1>3, <2>1, MoveDraft, AcceptInner DEF Places
<1>8. CASE RetryText(c)
  <2>1. End(c, a, "error") \/ Accept(c, a, "refill")
    BY <1>8 DEF RetryText, a
  <2>2. "error" \in Outcomes \ {"needs_input"}
    BY DEF Outcomes
  <2>3. QED  BY <1>1, <1>2, <1>3, <2>1, <2>2, EndDraft, AcceptInner
<1>9. CASE RetryEmpty(c)
  <2>1. PICK plan \in Plans : Admit(c, a, plan)
    BY <1>9 DEF RetryEmpty, a
  <2>2. QED  BY <1>1, <1>2, <1>3, <2>1, PlansTyped, AdmitDraft
<1>10. QED  BY <1>4, <1>5, <1>6, <1>7, <1>8, <1>9 DEF Decide

LEMMA RunInner ==
  ASSUME IInv, AskedInv, NEW c \in Chats, Run(c)
  PROVE  Inner(c)
<1>1. /\ at[c] = "run" /\ Live(c) /\ at[c] # "reply"
  BY DEF Run, SkipDirect, ToolSucceeds, AskUser, Respond, Running, Live
<1>2. /\ chat[c] \in Call /\ chat[c].session \in Sessions /\ Draft(c, chat[c])
  BY <1>1, OwnDraft
<1>3. CASE SkipDirect(c)
  <2> DEFINE tail == Tail(chat[c].calls)
             r == [chat[c] EXCEPT !.calls = tail]
  <2>1. Move(c, "run", r) /\ Leaves(c) /\ chat[c].calls # <<>>
    BY <1>3 DEF SkipDirect, Leaves, Running
  <2>2. tail \in Seq(Tools \cup {Direct})
    BY <1>2, <2>1, HeadTailProperties DEF Call
  <2> HIDE DEF tail
  <2>3. Draft(c, r)
    BY <1>2, <2>2 DEF Draft, SameTalk, Call
  <2>4. QED  BY <1>1, <2>1, <2>3, MoveDraft DEF Places
<1>4. CASE ToolSucceeds(c)
  <2> DEFINE tail == Tail(chat[c].calls)
             filled == chat[c].filled \/ chat[c].filling
             r == [chat[c] EXCEPT !.calls = tail, !.filled = filled]
  <2>1. /\ Move(c, "run", r) /\ Clear(c) /\ UNCHANGED <<transcript, history>>
        /\ chat[c].calls # <<>>
    BY <1>4 DEF ToolSucceeds, Running
  <2>2. tail \in Seq(Tools \cup {Direct}) /\ filled \in BOOLEAN
    BY <1>2, <2>1, HeadTailProperties DEF Call
  <2>0. (filled => chat[c].held # NoQuestion) /\ (chat[c].filled => filled)
    BY <1>2 DEF Draft
  <2> HIDE DEF tail, filled
  <2>3. /\ SameTalk(c, r) /\ r.held = chat[c].held /\ r.filled = filled
        /\ r.filling = chat[c].filling
    BY <1>2, <2>2 DEF SameTalk, Call
  <2> HIDE DEF r
  <2>4. QED  BY <1>1, <1>2, <2>0, <2>1, <2>3 DEF Inner, Places, Draft
<1>5. CASE AskUser(c)
  <2> DEFINE s == chat[c].session
             question == [tool |-> Head(chat[c].calls), origin |-> chat[c].origin,
                          asker |-> c]
             h == IF chat[c].filled THEN chat[c].held ELSE NoQuestion
             r == [chat[c] EXCEPT !.question = question]
             e == [r EXCEPT !.outcome = "needs_input", !.online = FALSE,
                            !.routed = FALSE, !.filling = FALSE,
                            !.calls = <<>>, !.origin = c,
                            !.held = IF r.filled THEN @ ELSE NoQuestion]
  <2>1. /\ Head(chat[c].calls) \in Tools /\ UNCHANGED <<transcript, history>>
        /\ pending' = [pending EXCEPT ![s] = question]
        /\ Move(c, "reply", e)
    BY <1>5, ToolsDiffer DEF AskUser, Running, End
  <2>2. question \in Question /\ question.asker = c
    BY <1>2, <2>1 DEF Question, Call
  <2>3. h \in Question \cup {NoQuestion} /\ <<>> \in Seq(Tools \cup {Direct})
    BY <1>2, EmptySeq DEF Call
  <2>4. /\ r.filled = chat[c].filled /\ r.held = chat[c].held
    BY <1>2 DEF Call
  <2>5. e = [chat[c] EXCEPT !.question = question,
                            !.outcome = "needs_input", !.online = FALSE,
                            !.routed = FALSE, !.filling = FALSE,
                            !.calls = <<>>, !.origin = c, !.held = h]
    <3> HIDE DEF question
    <3>1. QED  BY <1>2, <2>4 DEF Call
  <2>6. h \in {chat[c].held, NoQuestion} /\ (chat[c].filled => h # NoQuestion)
    BY <1>2 DEF Draft
  <2> HIDE DEF question, h, r, e
  <2>7. /\ SameTalk(c, e) /\ e.held = h /\ e.filled = chat[c].filled /\ ~e.filling
        /\ e.outcome = "needs_input" /\ e.question = question
    BY <1>2, <2>2, <2>3, <2>5 DEF SameTalk, Call, Outcomes
  <2>8. QED  BY <1>1, <2>1, <2>2, <2>6, <2>7 DEF Inner, Places
<1>6. CASE Respond(c)
  <2>1. PICK n \in 0..1 : End(c, Asking(chat[c], n), "ok")
    BY <1>6 DEF Respond
  <2>2. n \in Nat /\ "ok" \in Outcomes \ {"needs_input"} /\ Leaves(c)
    BY <1>6 DEF Outcomes, Respond, Leaves
  <2>3. Draft(c, Asking(chat[c], n))
    BY <1>2, <2>2, AskingDraft
  <2>4. QED  BY <1>1, <2>1, <2>2, <2>3, EndDraft
<1>7. QED  BY <1>3, <1>4, <1>5, <1>6 DEF Run

(* What a move changes.                                                    *)
LEMMA Moved ==
  ASSUME IInv, NEW c \in Chats, NEW place, NEW r, Move(c, place, r)
  PROVE  /\ at'[c] = place /\ chat'[c] = r
         /\ \A d \in Chats : d # c => at'[d] = at[d] /\ chat'[d] = chat[d]
BY DEF Move, IInv, TypeOK

(* What was asked stays so.                                                *)
LEMMA AskedByStays ==
  ASSUME IInv, NEW c \in Chats, NEW place, NEW r, Move(c, place, r),
         \/ at[c] \notin {"reply", "done"}
         \/ place = "done" /\ r.question = chat[c].question /\ r.session = chat[c].session,
         NEW q \in Question, NEW s, AskedBy(q, s)
  PROVE  AskedBy(q, s)'
<1>1. q.asker \in Chats
  BY DEF Question
<1>2. /\ at'[c] = place /\ chat'[c] = r
      /\ \A d \in Chats : d # c => at'[d] = at[d] /\ chat'[d] = chat[d]
  BY Moved
<1>3. CASE q.asker = c
  BY <1>2, <1>3 DEF AskedBy
<1>4. CASE q.asker # c
  BY <1>1, <1>2, <1>4 DEF AskedBy
<1>5. QED  BY <1>3, <1>4

(* The questions that are held are questions.                              *)
LEMMA HeldTyped ==
  ASSUME TypeOK, NEW c \in Chats, at[c] # "idle"
  PROVE  chat[c].held \in Question \cup {NoQuestion} /\ chat[c].session \in Sessions
BY DEF TypeOK, Live, Call, Answered

LEMMA HeldTypedNext ==
  ASSUME TypeOK', NEW c \in Chats, at'[c] # "idle"
  PROVE  chat'[c].held \in Question \cup {NoQuestion} /\ chat'[c].session \in Sessions
BY DEF TypeOK, Live, Call, Answered

LEMMA InnerKeeps ==
  ASSUME IInv, IInv', CallsInv, NEW c \in Chats, Inner(c)
  PROVE  CallsInv'
<1>0. Alone /\ AskedInv /\ FilledInv /\ QuestionInv /\ TranscriptInv /\ TypeOK /\ TypeOK'
  BY DEF CallsInv, IInv
<1>p. PICK place \in Places \ {"idle", "done"} : \E r :
       /\ Move(c, place, r) /\ SameTalk(c, r)
       /\ r.filled \/ r.filling => r.held # NoQuestion
       /\ place = "resume" => ~r.filled /\ ~r.filling
       /\ \/ r.held \in {chat[c].held, NoQuestion} /\ r.filled = chat[c].filled
          \/ ~r.filled /\ r.held = pending[chat[c].session] /\ UNCHANGED pending
          \/ r.held = chat[c].held /\ Clear(c) /\ (chat[c].filled => r.filled)
       /\ \/ /\ ~(place = "reply" /\ r.outcome = "needs_input")
             /\ pending' = pending \/ Clear(c)
          \/ /\ place = "reply" /\ r.outcome = "needs_input"
             /\ r.question \in Question /\ r.question.asker = c
             /\ pending' = [pending EXCEPT ![chat[c].session] = r.question]
  BY DEF Inner
<1>1. PICK r :
       /\ Move(c, place, r) /\ SameTalk(c, r)
       /\ r.filled \/ r.filling => r.held # NoQuestion
       /\ place = "resume" => ~r.filled /\ ~r.filling
       /\ \/ r.held \in {chat[c].held, NoQuestion} /\ r.filled = chat[c].filled
          \/ ~r.filled /\ r.held = pending[chat[c].session] /\ UNCHANGED pending
          \/ r.held = chat[c].held /\ Clear(c) /\ (chat[c].filled => r.filled)
       /\ \/ /\ ~(place = "reply" /\ r.outcome = "needs_input")
             /\ pending' = pending \/ Clear(c)
          \/ /\ place = "reply" /\ r.outcome = "needs_input"
             /\ r.question \in Question /\ r.question.asker = c
             /\ pending' = [pending EXCEPT ![chat[c].session] = r.question]
  BY <1>p
<1>2. /\ Live(c) /\ at[c] \notin {"reply", "done", "idle"} /\ place \notin {"idle", "done"}
      /\ UNCHANGED <<transcript, crossed, log, last>>
  BY DEF Inner, Live, history
<1> DEFINE s == chat[c].session
<1>3. s \in Sessions /\ r.session = s
  BY <1>1, <1>2, LiveFacts DEF SameTalk
<1>4. /\ at'[c] = place /\ chat'[c] = r
      /\ \A d \in Chats : d # c => at'[d] = at[d] /\ chat'[d] = chat[d]
  BY <1>1, Moved
<1>5. /\ \A d \in Chats : Live(d)' <=> Live(d)
      /\ \A d \in Chats : chat'[d].session = chat[d].session \/ at[d] = "idle"
      /\ \A d \in Chats : at'[d] = "idle" <=> at[d] = "idle"
  BY <1>2, <1>3, <1>4 DEF Live
<1>6. \A t \in Sessions : t # s => pending'[t] = pending[t]
  BY <1>0, <1>1 DEF Clear, TypeOK
<1>7. \/ pending'[s] = pending[s]
      \/ pending'[s] = NoQuestion
      \/ pending'[s] = r.question /\ r.question \in Question /\ r.question.asker = c
  BY <1>0, <1>1, <1>3 DEF Clear, TypeOK
<1>8. \A q \in Question : \A t : AskedBy(q, t) => AskedBy(q, t)'
  BY <1>1, <1>2, AskedByStays
<1>9. \A q \in Question : \A t : AskedBy(q, t) => q.asker # c
  BY <1>2 DEF AskedBy
<1>10. \/ r.held \in {chat[c].held, NoQuestion}
       \/ ~r.filled /\ r.held = pending[s] /\ UNCHANGED pending
  BY <1>1
<1>a. Alone'
  <2>1. SUFFICES ASSUME NEW x \in Chats, NEW y \in Chats, Live(x)', Live(y)', x # y,
                        chat'[x].session = chat'[y].session
                 PROVE  chat'[x].session \in crossed'
    BY DEF Alone
  <2>2. Live(x) /\ Live(y) /\ chat[x].session = chat'[x].session
        /\ chat[y].session = chat'[y].session
    BY <1>5, <2>1 DEF Live
  <2>3. QED  BY <1>0, <1>2, <2>1, <2>2 DEF Alone
<1>b. AskedInv'
  <2>1. ASSUME NEW d \in Chats, at'[d] # "idle", chat'[d].held # NoQuestion
        PROVE  AskedBy(chat[d].held, chat[d].session)'
    <3>1. chat'[d].held \in Question
      BY <1>0, <2>1, HeldTypedNext
    <3>2. PICK q \in Question : q = chat'[d].held
      BY <3>1
    <3>3. PICK t : t = chat'[d].session
      OBVIOUS
    <3>4. AskedBy(q, t)
      <4>1. CASE d # c
        BY <1>0, <1>4, <2>1, <3>2, <3>3, <4>1 DEF AskedInv
      <4>2. CASE d = c
        BY <1>0, <1>2, <1>3, <1>4, <1>10, <2>1, <3>2, <3>3, <4>2 DEF AskedInv
      <4>3. QED  BY <4>1, <4>2
    <3>5. AskedBy(q, t)'
      BY <1>8, <3>4
    <3>6. QED  BY <3>2, <3>3, <3>5 DEF AskedBy
  <2>2. ASSUME NEW t \in Sessions, pending'[t] # NoQuestion
        PROVE  AskedBy(pending[t], t)'
    <3>1. CASE pending'[t] = pending[t]
      <4>1. pending[t] \in Question /\ AskedBy(pending[t], t)
        BY <1>0, <2>2, <3>1 DEF AskedInv, TypeOK
      <4>2. PICK q \in Question : q = pending[t]
        BY <4>1
      <4>3. AskedBy(q, t)'
        BY <1>8, <4>1, <4>2
      <4>4. QED  BY <3>1, <4>2, <4>3 DEF AskedBy
    <3>2. CASE pending'[t] # pending[t]
      <4>1. t = s /\ pending'[t] = r.question /\ r.question.asker = c /\ place = "reply"
        BY <1>0, <1>1, <1>3, <1>6, <2>2, <3>2 DEF Clear, TypeOK
      <4>2. QED  BY <1>3, <1>4, <4>1 DEF AskedBy
    <3>3. QED  BY <3>1, <3>2
  <2>3. ASSUME NEW d \in Chats
        PROVE  /\ Live(d)' /\ chat'[d].filling => chat'[d].held # NoQuestion
               /\ at'[d] # "idle" /\ chat'[d].filled => chat'[d].held # NoQuestion
               /\ at'[d] = "resume" => ~chat'[d].filled /\ ~chat'[d].filling
    <3>1. CASE d # c
      BY <1>0, <1>4, <1>5, <3>1 DEF AskedInv, Filled
    <3>2. CASE d = c
      BY <1>1, <1>4, <3>2
    <3>3. QED  BY <3>1, <3>2
  <2>4. QED  BY <2>1, <2>2, <2>3 DEF AskedInv, Filled, Live
(* Who has filled what: c may have filled the question it holds.           *)
<1>11. ASSUME NEW d \in Chats, Filled(d)'
       PROVE  /\ chat'[d].held \in Question /\ chat'[d].held = chat[d].held
              /\ \/ Filled(d)
                 \/ d = c /\ ~chat[c].filled /\ pending'[s] = NoQuestion
  <2>1. chat'[d].held \in Question
    BY <1>0, <1>b, <1>11, HeldTypedNext DEF AskedInv, Filled
  <2>2. CASE d # c
    BY <1>4, <1>11, <2>1, <2>2 DEF Filled
  <2>3. CASE d = c
    <3>1. r.filled /\ r.held # NoQuestion
      BY <1>1, <1>4, <1>11, <2>3 DEF Filled
    <3>2. \/ r.held = chat[c].held /\ chat[c].filled
          \/ r.held = chat[c].held /\ ~chat[c].filled /\ Clear(c)
      BY <1>1, <3>1
    <3>3. Clear(c) => pending'[s] = NoQuestion
      BY <1>0, <1>3 DEF Clear, TypeOK
    <3>4. QED  BY <1>2, <1>4, <2>1, <2>3, <3>2, <3>3 DEF Filled
  <2>4. QED  BY <2>2, <2>3
<1>c. FilledInv'
  <2>1. ASSUME NEW t \in Sessions \ crossed, pending'[t] # NoQuestion,
               NEW d \in Chats, Filled(d)'
        PROVE  chat'[d].held # pending'[t]
    <3>1. CASE pending'[t] = pending[t]
      <4>1. CASE Filled(d)
        BY <1>0, <1>11, <2>1, <3>1, <4>1 DEF FilledInv
      <4>2. CASE ~Filled(d)
        <5>1. d = c /\ ~chat[c].filled /\ pending'[s] = NoQuestion /\ t # s
          BY <1>11, <2>1, <4>2
        <5>2. /\ chat'[c].held \in Question /\ chat'[c].held = chat[c].held
              /\ pending[t] \in Question
          BY <1>0, <1>11, <2>1, <3>1, <5>1 DEF TypeOK
        <5>3. AskedBy(chat[c].held, s) /\ AskedBy(pending[t], t)
          BY <1>0, <1>2, <2>1, <3>1, <5>2, NoQuestionDiffers DEF AskedInv
        <5>4. QED  BY <2>1, <3>1, <5>1, <5>2, <5>3 DEF AskedBy
      <4>3. QED  BY <4>1, <4>2
    <3>2. CASE pending'[t] # pending[t]
      <4>1. t = s /\ pending'[t] = r.question /\ r.question.asker = c
        BY <1>6, <1>7, <2>1, <3>2
      <4>2. CASE Filled(d)
        <5>1. AskedBy(chat[d].held, chat[d].session) /\ chat[d].held \in Question
          BY <1>0, <1>11, <2>1, <4>2, NoQuestionDiffers DEF AskedInv, Filled
        <5>2. QED  BY <1>9, <1>11, <2>1, <4>1, <5>1
      <4>3. CASE ~Filled(d)
        BY <1>11, <2>1, <4>1, <4>3
      <4>4. QED  BY <4>2, <4>3
    <3>3. QED  BY <3>1, <3>2
  <2>2. ASSUME NEW x \in Chats, Live(x)', ~chat'[x].filled, chat'[x].held # NoQuestion,
               chat'[x].session \notin crossed, NEW d \in Chats, Filled(d)'
        PROVE  chat'[d].held # chat'[x].held
    <3>0. Live(x) /\ chat'[x].session = chat[x].session /\ at[x] # "idle" /\ x # d
      BY <1>5, <2>2 DEF Live, Filled
    <3>1. CASE x = c
      <4>1. Filled(d) /\ chat'[d].held = chat[d].held
        BY <1>11, <2>2, <3>0, <3>1
      <4>2. CASE r.held = chat[c].held /\ ~chat[c].filled
        BY <1>0, <1>4, <2>2, <3>0, <3>1, <4>1, <4>2 DEF FilledInv
      <4>3. CASE r.held = pending[s] /\ UNCHANGED pending
        BY <1>0, <1>3, <1>4, <2>2, <3>0, <3>1, <4>1, <4>3 DEF FilledInv
      <4>4. QED  BY <1>1, <1>4, <2>2, <3>1, <4>2, <4>3
    <3>2. CASE x # c
      <4>1. chat'[x] = chat[x]
        BY <1>4, <3>2
      <4>2. CASE Filled(d)
        BY <1>0, <1>11, <2>2, <3>0, <4>1, <4>2 DEF FilledInv
      <4>3. CASE ~Filled(d)
        <5>1. d = c /\ chat'[c].held = chat[c].held /\ chat[c].held \in Question
          BY <1>11, <2>2, <4>3
        <5>2. AskedBy(chat[c].held, s)
          BY <1>0, <1>2, <5>1, NoQuestionDiffers DEF AskedInv
        <5>3. AskedBy(chat[x].held, chat[x].session)
          BY <1>0, <2>2, <3>0, <4>1 DEF AskedInv
        <5>4. chat[x].session # s
          BY <1>0, <1>2, <2>2, <3>0, <3>2 DEF Alone
        <5>5. QED  BY <4>1, <5>1, <5>2, <5>3, <5>4 DEF AskedBy
      <4>4. QED  BY <4>2, <4>3
    <3>3. QED  BY <3>1, <3>2
  <2>3. ASSUME NEW x \in Chats, NEW y \in Chats, Filled(x)', Filled(y)', x # y,
               chat'[x].held = chat'[y].held
        PROVE  chat'[x].session \in crossed
    <3>0. /\ chat'[x].session = chat[x].session /\ at[x] # "idle"
          /\ chat'[y].session = chat[y].session /\ at[y] # "idle"
          /\ chat[x].held = chat[y].held /\ chat[x].held \in Question
      BY <1>5, <1>11, <2>3 DEF Filled
    <3>1. chat[x].session = chat[y].session
      <4>1. AskedBy(chat[x].held, chat[x].session) /\ AskedBy(chat[y].held, chat[y].session)
        BY <1>0, <3>0, NoQuestionDiffers DEF AskedInv
      <4>2. QED  BY <3>0, <4>1 DEF AskedBy
    <3>2. CASE Filled(x) /\ Filled(y)
      BY <1>0, <2>3, <3>0, <3>2 DEF FilledInv, FilledOnce, Filled
    <3>3. CASE ~Filled(x)
      <4>1. x = c /\ ~chat[c].filled /\ Filled(y)
        BY <1>11, <2>3, <3>3
      <4>2. QED  BY <1>0, <1>2, <3>0, <4>1, NoQuestionDiffers DEF FilledInv
    <3>4. CASE ~Filled(y)
      <4>1. y = c /\ ~chat[c].filled /\ Filled(x)
        BY <1>11, <2>3, <3>4
      <4>2. QED  BY <1>0, <1>2, <3>0, <3>1, <4>1, NoQuestionDiffers DEF FilledInv
    <3>5. QED  BY <3>2, <3>3, <3>4
  <2>4. FilledOnce'
    BY <1>2, <2>3 DEF FilledOnce, Filled
  <2>5. QED  BY <1>2, <2>1, <2>2, <2>4 DEF FilledInv
<1>d. QuestionInv'
  <2>1. QuestionStands'
    <3>1. ASSUME NEW t \in Sessions \ crossed,
                 \A d \in Chats : Live(d)' => chat'[d].session # t
          PROVE  /\ pending'[t] # NoQuestion => pending'[t] = last[t].question
                 /\ last[t].outcome = "needs_input" => pending'[t] # NoQuestion
      <4>1. t # s /\ \A d \in Chats : Live(d) => chat[d].session # t
        BY <1>2, <1>3, <1>4, <1>5, <3>1 DEF Live
      <4>2. QED  BY <1>0, <1>6, <3>1, <4>1 DEF QuestionInv, QuestionStands
    <3>2. QED  BY <1>2, <3>1 DEF QuestionStands, Live
  <2>2. ASSUME NEW d \in Chats, Live(d)', chat'[d].session \notin crossed
        PROVE  LET t == chat'[d].session IN
               /\ AsksNow(d)' => pending'[t] = chat'[d].question /\ pending'[t] # NoQuestion
               /\ ~AsksNow(d)' /\ pending'[t] # NoQuestion => pending'[t] = last[t].question
    <3>1. CASE d # c
      <4>1. /\ Live(d) /\ chat'[d] = chat[d] /\ at'[d] = at[d] /\ chat[d].session \in Sessions
        BY <1>4, <1>5, <2>2, <3>1, LiveFacts
      <4>2. chat[d].session # s
        BY <1>0, <1>2, <2>2, <3>1, <4>1 DEF Alone
      <4>3. pending'[chat[d].session] = pending[chat[d].session]
        BY <1>6, <4>1, <4>2
      <4>4. QED  BY <1>0, <2>2, <4>1, <4>3 DEF QuestionInv, AsksNow
    <3>2. CASE d = c
      <4>1. chat'[d].session = s /\ s \notin crossed
        BY <1>3, <1>4, <2>2, <3>2
      <4>2. CASE AsksNow(d)'
        <5>1. place = "reply" /\ r.outcome = "needs_input"
          BY <1>4, <3>2, <4>2 DEF AsksNow
        <5>2. pending'[s] = r.question /\ r.question \in Question
          BY <1>0, <1>1, <1>3, <5>1 DEF TypeOK
        <5>3. QED  BY <1>4, <3>2, <4>1, <4>2, <5>2, NoQuestionDiffers
      <4>3. CASE ~AsksNow(d)'
        <5>1. pending'[s] \in {pending[s], NoQuestion}
          BY <1>0, <1>1, <1>3, <1>4, <3>2, <4>3 DEF Clear, TypeOK, AsksNow
        <5>2. pending[s] # NoQuestion => pending[s] = last[s].question
          BY <1>0, <1>2, <4>1 DEF QuestionInv, AsksNow
        <5>3. QED  BY <4>1, <4>3, <5>1, <5>2
      <4>4. QED  BY <4>2, <4>3
    <3>3. QED  BY <3>1, <3>2
  <2>3. QED  BY <1>0, <1>2, <2>1, <2>2 DEF QuestionInv, Live, AsksNow
<1>e. TranscriptInv'
  <2>1. ASSUME NEW d \in Chats, Live(d)'
        PROVE  /\ chat'[d].incoming \in Incoming(d)
               /\ chat'[d].session \notin crossed =>
                    chat'[d].base = Resolved(chat'[d].session, chat'[d].incoming)
    <3>1. /\ Live(d) /\ chat'[d].incoming = chat[d].incoming /\ chat'[d].base = chat[d].base
          /\ chat'[d].session = chat[d].session
      BY <1>1, <1>3, <1>4, <1>5, <2>1 DEF SameTalk
    <3>2. QED  BY <1>0, <3>1 DEF TranscriptInv
  <2>2. QED  BY <1>0, <1>2, <2>1 DEF TranscriptInv, TranscriptKept, Resolved, Live
<1>12. QED  BY <1>a, <1>b, <1>c, <1>d, <1>e DEF CallsInv

LEMMA BeginCalls ==
  ASSUME IInv, IInv', CallsInv, NEW c \in Chats, Begin(c)
  PROVE  CallsInv'
<1>0. Alone /\ AskedInv /\ FilledInv /\ QuestionInv /\ TranscriptInv /\ TypeOK /\ TypeOK'
  BY DEF CallsInv, IInv
<1>1. PICK s \in Sessions, online \in BOOLEAN, incoming \in Incoming(c) :
        /\ Move(c, "opened",
            [session |-> s, online |-> online, incoming |-> incoming,
             base |-> Resolved(s, incoming), held |-> NoQuestion, origin |-> c,
             calls |-> <<>>, filling |-> FALSE, filled |-> FALSE,
             routed |-> FALSE, models |-> 0, question |-> NoQuestion,
             outcome |-> "none"])
        /\ IF \E d \in Chats : Live(d) /\ chat[d].session = s
           THEN /\ crossed' = crossed \cup {s}
                /\ log' = [log EXCEPT ![s] = <<>>]
                /\ last' = [last EXCEPT ![s] = Nothing]
           ELSE UNCHANGED history
  BY DEF Begin
<1>2. PICK r :
        /\ Move(c, "opened", r)
        /\ r.session = s /\ r.incoming = incoming /\ r.base = Resolved(s, incoming)
        /\ r.held = NoQuestion /\ ~r.filling /\ ~r.filled
  BY <1>1
<1>3. at[c] = "idle" /\ UNCHANGED <<pending, transcript>>
  BY DEF Begin
<1>4. /\ at'[c] = "opened" /\ chat'[c] = r
      /\ \A d \in Chats : d # c => at'[d] = at[d] /\ chat'[d] = chat[d]
  BY <1>2, Moved
<1>5. /\ \A d \in Chats : d # c => (Live(d)' <=> Live(d)) /\ (Filled(d)' <=> Filled(d))
      /\ ~Filled(c)' /\ ~AsksNow(c)'
      /\ \A d \in Chats : at[d] # "idle" => d # c
  BY <1>2, <1>3, <1>4 DEF Live, Filled, AsksNow
<1>6. \A q \in Question : \A t : AskedBy(q, t) => AskedBy(q, t)'
  BY <1>2, <1>3, AskedByStays
(* On every session that is not crossed now the history is as it was, and  *)
(* if it is the session of c, c is alone there.                            *)
<1>7. \A t \in Sessions \ crossed' :
        /\ t \notin crossed /\ last'[t] = last[t] /\ log'[t] = log[t]
        /\ t = s => \A d \in Chats : Live(d) => chat[d].session # s
  <2>1. CASE \E d \in Chats : Live(d) /\ chat[d].session = s
    <3>1. /\ crossed' = crossed \cup {s} /\ log' = [log EXCEPT ![s] = <<>>]
          /\ last' = [last EXCEPT ![s] = Nothing]
      BY <1>1, <2>1
    <3>2. QED  BY <3>1
  <2>2. CASE ~\E d \in Chats : Live(d) /\ chat[d].session = s
    BY <1>1, <2>2 DEF history
  <2>3. QED  BY <2>1, <2>2
<1>8. /\ crossed \subseteq crossed'
      /\ (\E d \in Chats : Live(d) /\ chat[d].session = s) => s \in crossed'
  BY <1>1 DEF history
<1>a. Alone'
  <2>1. SUFFICES ASSUME NEW x \in Chats, NEW y \in Chats, Live(x)', Live(y)', x # y,
                        chat'[x].session = chat'[y].session
                 PROVE  chat'[x].session \in crossed'
    BY DEF Alone
  <2>2. CASE x # c /\ y # c
    BY <1>0, <1>4, <1>5, <1>8, <2>1, <2>2 DEF Alone
  <2>3. CASE x = c
    BY <1>2, <1>4, <1>5, <1>8, <2>1, <2>3
  <2>4. CASE y = c
    BY <1>2, <1>4, <1>5, <1>8, <2>1, <2>4
  <2>5. QED  BY <2>2, <2>3, <2>4
<1>b. AskedInv'
  <2>1. ASSUME NEW d \in Chats, at'[d] # "idle", chat'[d].held # NoQuestion
        PROVE  AskedBy(chat[d].held, chat[d].session)'
    <3>1. d # c /\ chat'[d].held \in Question
      BY <1>0, <1>2, <1>4, <2>1, HeldTypedNext
    <3>2. PICK q \in Question : q = chat'[d].held
      BY <3>1
    <3>3. PICK t : t = chat'[d].session
      OBVIOUS
    <3>4. AskedBy(q, t)
      BY <1>0, <1>4, <2>1, <3>1, <3>2, <3>3 DEF AskedInv
    <3>5. AskedBy(q, t)'
      BY <1>6, <3>4
    <3>6. QED  BY <3>2, <3>3, <3>5 DEF AskedBy
  <2>2. ASSUME NEW t \in Sessions, pending'[t] # NoQuestion
        PROVE  AskedBy(pending[t], t)'
    <3>1. pending'[t] = pending[t] /\ pending[t] \in Question /\ AskedBy(pending[t], t)
      BY <1>0, <1>3, <2>2 DEF AskedInv, TypeOK
    <3>2. PICK q \in Question : q = pending[t]
      BY <3>1
    <3>3. AskedBy(q, t)'
      BY <1>6, <3>1, <3>2
    <3>4. QED  BY <3>1, <3>2, <3>3 DEF AskedBy
  <2>3. ASSUME NEW d \in Chats
        PROVE  /\ Live(d)' /\ chat'[d].filling => chat'[d].held # NoQuestion
               /\ at'[d] # "idle" /\ chat'[d].filled => chat'[d].held # NoQuestion
               /\ at'[d] = "resume" => ~chat'[d].filled /\ ~chat'[d].filling
    BY <1>0, <1>2, <1>4, <1>5 DEF AskedInv, Filled
  <2>4. QED  BY <2>1, <2>2, <2>3 DEF AskedInv, Filled, Live
<1>c. FilledInv'
  <2>1. ASSUME NEW t \in Sessions \ crossed', pending'[t] # NoQuestion,
               NEW d \in Chats, Filled(d)'
        PROVE  chat'[d].held # pending'[t]
    <3>1. d # c
      BY <1>5, <2>1
    <3>2. Filled(d) /\ chat'[d] = chat[d] /\ pending'[t] = pending[t]
      BY <1>3, <1>4, <1>5, <2>1, <3>1
    <3>3. QED  BY <1>0, <1>7, <2>1, <3>2 DEF FilledInv
  <2>2. ASSUME NEW x \in Chats, Live(x)', ~chat'[x].filled, chat'[x].held # NoQuestion,
               chat'[x].session \notin crossed', NEW d \in Chats, Filled(d)'
        PROVE  chat'[d].held # chat'[x].held
    <3>1. x # c /\ d # c
      BY <1>2, <1>4, <1>5, <2>2
    <3>2. QED  BY <1>0, <1>4, <1>5, <1>8, <2>2, <3>1 DEF FilledInv
  <2>3. ASSUME NEW x \in Chats, NEW y \in Chats, Filled(x)', Filled(y)', x # y,
               chat'[x].held = chat'[y].held
        PROVE  chat'[x].session \in crossed'
    <3>1. x # c /\ y # c
      BY <1>5, <2>3
    <3>2. Filled(x) /\ Filled(y) /\ chat'[x] = chat[x] /\ chat'[y] = chat[y]
      BY <1>4, <1>5, <2>3, <3>1
    <3>3. QED  BY <1>0, <1>8, <2>3, <3>2 DEF FilledInv, FilledOnce, Filled
  <2>4. FilledOnce'
    BY <2>3 DEF FilledOnce, Filled
  <2>5. QED  BY <2>1, <2>2, <2>4 DEF FilledInv, Live, Filled
<1>d. QuestionInv'
  <2>1. ASSUME NEW t \in Sessions \ crossed',
               \A d \in Chats : Live(d)' => chat'[d].session # t
        PROVE  /\ pending'[t] # NoQuestion => pending'[t] = last'[t].question
               /\ last'[t].outcome = "needs_input" => pending'[t] # NoQuestion
    <3>1. \A d \in Chats : Live(d) => chat[d].session # t
      BY <1>3, <1>4, <1>5, <2>1 DEF Live
    <3>2. QED  BY <1>0, <1>3, <1>7, <2>1, <3>1 DEF QuestionInv, QuestionStands
  <2>2. QuestionStands'
    BY <2>1 DEF QuestionStands, Live
  <2>3. ASSUME NEW d \in Chats, Live(d)', chat'[d].session \notin crossed'
        PROVE  LET t == chat'[d].session IN
               /\ AsksNow(d)' => pending'[t] = chat'[d].question /\ pending'[t] # NoQuestion
               /\ ~AsksNow(d)' /\ pending'[t] # NoQuestion => pending'[t] = last'[t].question
    <3>1. CASE d # c
      <4>1. /\ Live(d) /\ chat'[d] = chat[d] /\ at'[d] = at[d] /\ chat[d].session \in Sessions
        BY <1>4, <1>5, <2>3, <3>1, LiveFacts
      <4>2. chat[d].session \in Sessions \ crossed'
        BY <2>3, <4>1
      <4>3. QED  BY <1>0, <1>3, <1>7, <4>1, <4>2 DEF QuestionInv, AsksNow
    <3>2. CASE d = c
      <4>1. /\ chat'[d].session = s /\ s \in Sessions \ crossed' /\ ~AsksNow(d)'
        BY <1>2, <1>4, <1>5, <2>3, <3>2
      <4>2. \A e \in Chats : Live(e) => chat[e].session # s
        BY <1>7, <4>1
      <4>3. pending[s] # NoQuestion => pending[s] = last[s].question
        BY <1>0, <1>7, <4>1, <4>2 DEF QuestionInv, QuestionStands
      <4>4. QED  BY <1>3, <1>7, <4>1, <4>3
    <3>3. QED  BY <3>1, <3>2
  <2>4. last' \in [Sessions -> [outcome : Outcomes, question : Question \cup {NoQuestion}]]
    <3>1. last' = [last EXCEPT ![s] = Nothing] \/ last' = last
      BY <1>1 DEF history
    <3>2. Nothing \in [outcome : Outcomes, question : Question \cup {NoQuestion}]
      BY DEF Nothing, Outcomes
    <3>3. QED  BY <1>0, <3>1, <3>2 DEF QuestionInv
  <2>5. QED  BY <2>2, <2>3, <2>4 DEF QuestionInv, Live, AsksNow
<1>e. TranscriptInv'
  <2>1. TranscriptKept'
    BY <1>0, <1>3, <1>7 DEF TranscriptInv, TranscriptKept
  <2>2. log' \in [Sessions -> Seq(Message)]
    <3>1. log' = [log EXCEPT ![s] = <<>>] \/ log' = log
      BY <1>1 DEF history
    <3>2. <<>> \in Seq(Message)
      BY EmptySeq
    <3>3. QED  BY <1>0, <3>1, <3>2 DEF TranscriptInv
  <2>3. ASSUME NEW d \in Chats, Live(d)'
        PROVE  /\ chat'[d].incoming \in Incoming(d)
               /\ chat'[d].session \notin crossed' =>
                    chat'[d].base = Resolved(chat'[d].session, chat'[d].incoming)
    <3>1. CASE d # c
      <4>1. Live(d) /\ chat'[d] = chat[d]
        BY <1>4, <1>5, <2>3, <3>1
      <4>2. QED  BY <1>0, <1>8, <4>1 DEF TranscriptInv
    <3>2. CASE d = c
      BY <1>2, <1>4, <3>2
    <3>3. QED  BY <3>1, <3>2
  <2>4. QED  BY <1>3, <2>1, <2>2, <2>3 DEF TranscriptInv, Resolved, Live
<1>9. QED  BY <1>a, <1>b, <1>c, <1>d, <1>e DEF CallsInv

(* The transcript a call stores is the end of the conversation so far.     *)
LEMMA StoredTranscript ==
  ASSUME NEW c \in Chats, NEW incoming \in Incoming(c), NEW old \in Seq(Message),
         NEW answer \in Seq(Message), NEW s \in Sessions, transcript[s] = Trim(old)
  PROVE  Trim(Resolved(s, incoming) \o answer) =
           Trim((IF Len(incoming) > 1 THEN <<>> ELSE old) \o incoming \o answer)
<1>1. incoming \in Seq(Message)
  <2>1. Said(c, "user") \in Message /\ Said(c, "given") \in Message
    BY DEF Said, Message
  <2>2. \A x, y \in Message : <<x>> \in Seq(Message) /\ <<x, y>> \in Seq(Message)
    OBVIOUS
  <2>3. QED  BY <2>1, <2>2 DEF Incoming
<1>2. CASE Len(incoming) > 1
  <2>1. Resolved(s, incoming) = Trim(incoming)
    BY <1>2 DEF Resolved
  <2>2. <<>> \o incoming = incoming
    BY <1>1, ConcatEmptySeq
  <2>3. QED  BY <1>1, <1>2, <2>1, <2>2, TrimConcat
<1>3. CASE ~(Len(incoming) > 1)
  <2>1. Resolved(s, incoming) = Trim(Trim(old) \o incoming)
    BY <1>3 DEF Resolved
  <2>2. old \o incoming \in Seq(Message)
    BY <1>1, ConcatProperties
  <2>3. Trim(Trim(old) \o incoming) = Trim(old \o incoming)
    BY <1>1, TrimConcat
  <2>4. Trim(Trim(old \o incoming) \o answer) = Trim((old \o incoming) \o answer)
    BY <2>2, TrimConcat
  <2>5. QED  BY <1>3, <2>1, <2>3, <2>4
<1>4. QED  BY <1>2, <1>3

LEMMA ReplyCalls ==
  ASSUME IInv, IInv', CallsInv, NEW c \in Chats, Reply(c)
  PROVE  CallsInv'
<1>0. Alone /\ AskedInv /\ FilledInv /\ QuestionInv /\ TranscriptInv /\ TypeOK /\ TypeOK'
  BY DEF CallsInv, IInv
<1> DEFINE r == chat[c]
           s == chat[c].session
<1>1. /\ at[c] = "reply" /\ Live(c) /\ UNCHANGED <<pending, crossed>>
      /\ Move(c, "done", [session |-> s, question |-> r.question,
                          filled |-> r.filled, held |-> r.held])
  BY DEF Reply, Live
<1>2. /\ r \in Call /\ s \in Sessions /\ r.outcome \in Outcomes
      /\ r.question \in Question \cup {NoQuestion}
  BY <1>1, LiveFacts DEF Call
<1>3. PICK e : /\ Move(c, "done", e)
               /\ e.session = s /\ e.question = r.question
               /\ e.filled = r.filled /\ e.held = r.held
  BY <1>1
<1>4. /\ at'[c] = "done" /\ chat'[c] = e
      /\ \A d \in Chats : d # c => at'[d] = at[d] /\ chat'[d] = chat[d]
  BY <1>3, Moved
<1>5. /\ \A d \in Chats : Live(d)' => d # c /\ Live(d)
      /\ \A d \in Chats : d # c => (Live(d)' <=> Live(d))
      /\ \A d \in Chats : at'[d] # "idle" => at[d] # "idle"
      /\ \A d \in Chats : (at[d] # "idle") =>
           /\ chat'[d].session = chat[d].session /\ chat'[d].held = chat[d].held
           /\ chat'[d].filled = chat[d].filled
  BY <1>1, <1>3, <1>4 DEF Live
<1>6. \A q \in Question : \A t : AskedBy(q, t) => AskedBy(q, t)'
  BY <1>3, AskedByStays
<1>7. \A d \in Chats : Filled(d)' => Filled(d) /\ chat'[d].held = chat[d].held
  BY <1>5 DEF Filled
<1>8. last' = [last EXCEPT ![s] =
           IF s \in crossed THEN Nothing
           ELSE [outcome |-> r.outcome,
                 question |-> IF r.outcome = "needs_input" THEN r.question
                              ELSE last[s].question]]
  BY DEF Reply
<1>9. /\ \A t \in Sessions : t # s => last'[t] = last[t]
      /\ s \notin crossed =>
           /\ last'[s].outcome = r.outcome
           /\ last'[s].question = IF r.outcome = "needs_input" THEN r.question
                                  ELSE last[s].question
  BY <1>0, <1>2, <1>8 DEF QuestionInv
<1>a. Alone'
  BY <1>0, <1>1, <1>5 DEF Alone, Live
<1>b. AskedInv'
  <2>1. ASSUME NEW d \in Chats, at'[d] # "idle", chat'[d].held # NoQuestion
        PROVE  AskedBy(chat[d].held, chat[d].session)'
    <3>1. chat'[d].held \in Question
      BY <1>0, <2>1, HeldTypedNext
    <3>2. PICK q \in Question : q = chat'[d].held
      BY <3>1
    <3>3. PICK t : t = chat'[d].session
      OBVIOUS
    <3>4. AskedBy(q, t)
      BY <1>0, <1>5, <2>1, <3>2, <3>3 DEF AskedInv
    <3>5. AskedBy(q, t)'
      BY <1>6, <3>4
    <3>6. QED  BY <3>2, <3>3, <3>5 DEF AskedBy
  <2>2. ASSUME NEW t \in Sessions, pending'[t] # NoQuestion
        PROVE  AskedBy(pending[t], t)'
    <3>1. pending'[t] = pending[t] /\ pending[t] \in Question /\ AskedBy(pending[t], t)
      BY <1>0, <1>1, <2>2 DEF AskedInv, TypeOK
    <3>2. PICK q \in Question : q = pending[t]
      BY <3>1
    <3>3. AskedBy(q, t)'
      BY <1>6, <3>1, <3>2
    <3>4. QED  BY <3>1, <3>2, <3>3 DEF AskedBy
  <2>3. ASSUME NEW d \in Chats
        PROVE  /\ Live(d)' /\ chat'[d].filling => chat'[d].held # NoQuestion
               /\ at'[d] # "idle" /\ chat'[d].filled => chat'[d].held # NoQuestion
               /\ at'[d] = "resume" => ~chat'[d].filled /\ ~chat'[d].filling
    <3>1. CASE d # c
      BY <1>0, <1>4, <1>5, <3>1 DEF AskedInv, Filled
    <3>2. CASE d = c
      BY <1>0, <1>1, <1>4, <1>5, <3>2 DEF AskedInv, Filled
    <3>3. QED  BY <3>1, <3>2
  <2>4. QED  BY <2>1, <2>2, <2>3 DEF AskedInv, Filled, Live
<1>c. FilledInv'
  <2>1. ASSUME NEW t \in Sessions \ crossed, pending'[t] # NoQuestion,
               NEW d \in Chats, Filled(d)'
        PROVE  chat'[d].held # pending'[t]
    BY <1>0, <1>1, <1>7, <2>1 DEF FilledInv
  <2>2. ASSUME NEW x \in Chats, Live(x)', ~chat'[x].filled, chat'[x].held # NoQuestion,
               chat'[x].session \notin crossed, NEW d \in Chats, Filled(d)'
        PROVE  chat'[d].held # chat'[x].held
    BY <1>0, <1>4, <1>5, <1>7, <2>2 DEF FilledInv
  <2>3. FilledOnce'
    BY <1>0, <1>1, <1>5, <1>7 DEF FilledInv, FilledOnce, Filled
  <2>4. QED  BY <1>1, <2>1, <2>2, <2>3 DEF FilledInv, Live, Filled
<1>d. QuestionInv'
  <2>1. ASSUME NEW t \in Sessions \ crossed,
               \A d \in Chats : Live(d)' => chat'[d].session # t
        PROVE  /\ pending'[t] # NoQuestion => pending'[t] = last'[t].question
               /\ last'[t].outcome = "needs_input" => pending'[t] # NoQuestion
    <3>1. CASE t # s
      <4>1. \A d \in Chats : Live(d) => chat[d].session # t
        BY <1>4, <1>5, <2>1, <3>1
      <4>2. QED  BY <1>0, <1>1, <1>9, <2>1, <3>1, <4>1 DEF QuestionInv, QuestionStands
    <3>2. CASE t = s
      <4>1. /\ AsksNow(c) => pending[s] = r.question /\ pending[s] # NoQuestion
            /\ ~AsksNow(c) /\ pending[s] # NoQuestion => pending[s] = last[s].question
        BY <1>0, <1>1, <2>1, <3>2 DEF QuestionInv
      <4>2. QED  BY <1>1, <1>9, <2>1, <3>2, <4>1 DEF AsksNow
    <3>3. QED  BY <3>1, <3>2
  <2>2. QuestionStands'
    BY <1>1, <2>1 DEF QuestionStands, Live
  <2>3. ASSUME NEW d \in Chats, Live(d)', chat'[d].session \notin crossed
        PROVE  LET t == chat'[d].session IN
               /\ AsksNow(d)' => pending'[t] = chat'[d].question /\ pending'[t] # NoQuestion
               /\ ~AsksNow(d)' /\ pending'[t] # NoQuestion => pending'[t] = last'[t].question
    <3>1. /\ d # c /\ Live(d) /\ chat'[d] = chat[d] /\ at'[d] = at[d]
          /\ chat[d].session \in Sessions
      BY <1>4, <1>5, <2>3, LiveFacts
    <3>2. chat[d].session # s
      BY <1>0, <1>1, <2>3, <3>1 DEF Alone
    <3>3. QED  BY <1>0, <1>1, <1>9, <2>3, <3>1, <3>2 DEF QuestionInv, AsksNow
  <2>4. last' \in [Sessions -> [outcome : Outcomes, question : Question \cup {NoQuestion}]]
    <3> DEFINE q == IF r.outcome = "needs_input" THEN r.question ELSE last[s].question
               n == IF s \in crossed THEN Nothing ELSE [outcome |-> r.outcome, question |-> q]
    <3>1. Nothing \in [outcome : Outcomes, question : Question \cup {NoQuestion}]
      BY DEF Nothing, Outcomes
    <3>2. q \in Question \cup {NoQuestion}
      BY <1>0, <1>2 DEF QuestionInv
    <3>3. n \in [outcome : Outcomes, question : Question \cup {NoQuestion}]
      <4> HIDE DEF q
      <4>1. QED  BY <1>2, <3>1, <3>2
    <3>4. last' = [last EXCEPT ![s] = n]
      BY <1>8
    <3> HIDE DEF n
    <3>5. QED  BY <1>0, <3>3, <3>4 DEF QuestionInv
  <2>5. QED  BY <1>1, <2>2, <2>3, <2>4 DEF QuestionInv, Live, AsksNow
<1>e. TranscriptInv'
  <2>0. /\ r.incoming \in Incoming(c) /\ r.base \in Seq(Message) /\ r.incoming \in Seq(Message)
        /\ log \in [Sessions -> Seq(Message)] /\ transcript \in [Sessions -> Seq(Message)]
    BY <1>0, <1>1, <1>2 DEF TranscriptInv, TypeOK, Call
  <2>1. CASE r.outcome = "error"
    <3>1. UNCHANGED <<transcript, log>>
      BY <2>1 DEF Reply
    <3>2. \A d \in Chats : Live(d)' => Live(d) /\ chat'[d] = chat[d]
      BY <1>4, <1>5
    <3>3. QED  BY <1>0, <1>1, <3>1, <3>2 DEF TranscriptInv, TranscriptKept, Resolved, Live
  <2>2. CASE r.outcome # "error"
    <3>1. PICK answer \in {<<>>, <<Said(c, "assistant")>>} :
            /\ transcript' = [transcript EXCEPT ![s] = Trim(r.base \o answer)]
            /\ log' = [log EXCEPT ![s] =
                 IF s \in crossed THEN <<>>
                 ELSE (IF Len(r.incoming) > 1 THEN <<>> ELSE log[s]) \o r.incoming \o answer]
      BY <2>2 DEF Reply
    <3>2. answer \in Seq(Message) /\ <<>> \in Seq(Message)
      <4>1. Said(c, "assistant") \in Message
        BY DEF Said, Message
      <4>2. <<>> \in Seq(Message) /\ <<Said(c, "assistant")>> \in Seq(Message)
        BY <4>1, EmptySeq
      <4>3. QED  BY <4>2
    <3> DEFINE front == IF Len(r.incoming) > 1 THEN <<>> ELSE log[s]
               whole == front \o r.incoming \o answer
               n == IF s \in crossed THEN <<>> ELSE whole
    <3>3. front \in Seq(Message)
      BY <1>2, <2>0, <3>2
    <3>4. whole \in Seq(Message)
      <4> HIDE DEF front
      <4>1. front \o r.incoming \in Seq(Message)
        BY <2>0, <3>3, ConcatProperties
      <4>2. QED  BY <3>2, <4>1, ConcatProperties
    <3>5. s \notin crossed => Trim(r.base \o answer) = Trim(whole)
      <4>1. SUFFICES ASSUME s \notin crossed PROVE Trim(r.base \o answer) = Trim(whole)
        OBVIOUS
      <4>2. r.base = Resolved(s, r.incoming) /\ transcript[s] = Trim(log[s])
        BY <1>0, <1>1, <1>2, <4>1 DEF TranscriptInv, TranscriptKept
      <4>3. log[s] \in Seq(Message)
        BY <1>2, <2>0
      <4>4. QED  BY <1>2, <2>0, <3>2, <4>2, <4>3, StoredTranscript
    <3>6. log' = [log EXCEPT ![s] = n] /\ n \in Seq(Message)
      BY <3>1, <3>2, <3>4
    <3>7. s \notin crossed => n = whole
      OBVIOUS
    <3> HIDE DEF n, whole, front
    <3>8. log' \in [Sessions -> Seq(Message)]
      BY <2>0, <3>6
    <3>9. /\ \A t \in Sessions : t # s => transcript'[t] = transcript[t] /\ log'[t] = log[t]
          /\ transcript'[s] = Trim(r.base \o answer) /\ log'[s] = n
      BY <1>2, <2>0, <3>1, <3>6
    <3>10. \A t \in Sessions \ crossed : transcript'[t] = Trim(log'[t])
      BY <1>0, <3>5, <3>7, <3>9 DEF TranscriptInv, TranscriptKept
    <3>11. ASSUME NEW d \in Chats, Live(d)'
           PROVE  /\ chat'[d].incoming \in Incoming(d)
                  /\ chat'[d].session \notin crossed =>
                       /\ chat'[d].base = Resolved(chat'[d].session, chat'[d].incoming)
                       /\ transcript'[chat'[d].session] = transcript[chat'[d].session]
      <4>1. d # c /\ Live(d) /\ chat'[d] = chat[d] /\ chat[d].session \in Sessions
        BY <1>4, <1>5, <3>11, LiveFacts
      <4>2. chat[d].session \notin crossed => chat[d].session # s
        BY <1>0, <1>1, <4>1 DEF Alone
      <4>3. QED  BY <1>0, <3>9, <4>1, <4>2 DEF TranscriptInv
    <3>12. TranscriptKept'
      BY <1>1, <3>10 DEF TranscriptKept, Trim
    <3>13. QED  BY <1>1, <3>8, <3>11, <3>12 DEF TranscriptInv, Resolved, Live
  <2>3. QED  BY <2>1, <2>2
<1>10. QED  BY <1>a, <1>b, <1>c, <1>d, <1>e DEF CallsInv

LEMMA InitCalls == Init => CallsInv
<1> SUFFICES ASSUME Init PROVE CallsInv
  OBVIOUS
<1>1. /\ \A c \in Chats : at[c] = "idle" /\ ~Live(c) /\ ~Filled(c)
      /\ \A s \in Sessions : /\ pending[s] = NoQuestion /\ transcript[s] = <<>>
                             /\ log[s] = <<>> /\ last[s] = Nothing
  BY DEF Init, Live, Filled
<1>2. Nothing.outcome # "needs_input" /\ Nothing.question = NoQuestion
  BY DEF Nothing
<1>3. last \in [Sessions -> [outcome : Outcomes, question : Question \cup {NoQuestion}]]
  BY DEF Init, Nothing, Outcomes
<1>4. log \in [Sessions -> Seq(Message)]
  BY EmptySeq DEF Init
<1>5. Trim(<<>>) = <<>>
  <2>1. Len(<<>>) = 0 /\ 0 <= Kept
    BY CountsAreNaturals
  <2>2. QED  BY <2>1 DEF Trim
<1>6. Alone /\ AskedInv /\ FilledInv
  BY <1>1 DEF Alone, AskedInv, FilledInv, FilledOnce, Filled
<1>7. QuestionInv
  BY <1>1, <1>2, <1>3 DEF QuestionInv, QuestionStands
<1>8. TranscriptInv
  BY <1>1, <1>4, <1>5 DEF TranscriptInv, TranscriptKept
<1>9. QED  BY <1>6, <1>7, <1>8 DEF CallsInv

LEMMA NextCalls == IInv /\ CallsInv /\ [Next]_vars => CallsInv'
<1> SUFFICES ASSUME IInv, CallsInv, [Next]_vars PROVE CallsInv'
  OBVIOUS
<1>0. IInv'
  BY StepKeeps
<1>1. CASE UNCHANGED vars
  BY <1>1 DEF vars, history, CallsInv, Alone, AskedInv, FilledInv, FilledOnce, QuestionInv,
       QuestionStands, TranscriptInv, TranscriptKept, AskedBy, AsksNow, Filled, Live, Resolved
<1>2. CASE Next
  <2>1. PICK c \in Chats : \/ Begin(c) \/ AnswerAside(c) \/ LookUp(c) \/ Fail(c)
                           \/ Resume(c) \/ Decide(c) \/ Run(c) \/ Reply(c)
    BY <1>2 DEF Next
  <2>2. AskedInv
    BY DEF CallsInv
  <2>3. Begin(c) \/ Reply(c) \/ Inner(c)
    BY <2>1, <2>2, OpenedInner, ResumeInner, DecideInner, RunInner
  <2>4. QED  BY <1>0, <2>3, BeginCalls, ReplyCalls, InnerKeeps
<1>3. QED  BY <1>1, <1>2

LEMMA CallsInvariance == Spec => [](IInv /\ CallsInv)
<1>1. Init => IInv /\ CallsInv
  BY InitInv, InitCalls
<1>2. IInv /\ CallsInv /\ [Next]_vars => (IInv /\ CallsInv)'
  BY StepKeeps, NextCalls
<1>3. QED  BY <1>1, <1>2, PTL DEF Spec

(* On a session whose calls never overlapped, the pending question is the  *)
(* last one its user was asked, and is there if that was the last answer.  *)
THEOREM QuestionIsLastAsked == Spec => []QuestionStands
<1>1. IInv /\ CallsInv => QuestionStands
  BY DEF CallsInv, QuestionInv
<1>2. QED  BY <1>1, CallsInvariance, PTL

(* Two calls that each ran the tool of the same question overlapped on its *)
(* session at some time.                                                   *)
THEOREM FilledByOne == Spec => []FilledOnce
<1>1. IInv /\ CallsInv => FilledOnce
  BY DEF CallsInv, FilledInv
<1>2. QED  BY <1>1, CallsInvariance, PTL

(* The transcript of a session whose calls never overlapped is the end of  *)
(* its conversation, cut after every turn or once.                         *)
THEOREM TranscriptIsEnd == Spec => []TranscriptKept
<1>1. IInv /\ CallsInv => TranscriptKept
  BY DEF CallsInv, TranscriptInv
<1>2. QED  BY <1>1, CallsInvariance, PTL

=============================================================================
