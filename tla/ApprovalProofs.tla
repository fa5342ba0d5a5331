--------------------------- MODULE ApprovalProofs --------------------------
(* Proofs about Approval, for every set of approvals, sessions and         *)
(* requests, and for a store that may fail.                                *)
EXTENDS Approval, TLAPS

(* Some answer to approval a, in its session, decided d.                   *)
Backed(a, d) == \E r \in Requests : Answered(r, a) /\ rpc[r].decision = d

(* A request whose entry was found names the approval's own session.       *)
FoundInv ==
  \A r \in Requests :
    rpc[r].at \in {"found", "sent", "accepted", "already_decided"} =>
      rpc[r].session = SessionOf[rpc[r].approval]

(* A request was made after its approval's row was written.                *)
AskedInv ==
  \A r \in Requests : rpc[r].at # "idle" => Answerable(rpc[r].approval)

(* Whatever carries a decision got it from an answer that made it.         *)
MailInv == \A a \in Approvals : \A d \in Decisions : mailbox[a] = d => Backed(a, d)
RowInv  == \A a \in Approvals : \A d \in Decisions : row[a] = d => Backed(a, d)
GrantInv ==
  \A a \in Approvals : waiter[a] \in {"granted", "ran"} => Backed(a, "approved")

IInv ==
  /\ TypeOK
  /\ FoundInv /\ AskedInv
  /\ MailInv /\ RowInv /\ GrantInv
  /\ AcceptedRowDecided

-----------------------------------------------------------------------------
(* The cases of a step.                                                    *)
LEMMA NextCases ==
  ASSUME [Next]_vars
  PROVE  \/ \E a \in Approvals :
              \/ Register(a) \/ Record(a) \/ Ask(a) \/ Receive(a) \/ TimeOut(a)
              \/ Abandon(a) \/ Unregister(a) \/ RunTool(a) \/ Cancel(a)
         \/ \E r \in Requests : Call(r) \/ LookUp(r) \/ Deliver(r) \/ Decide(r)
         \/ \E s \in Sessions : DeleteSession(s)
         \/ Restart
         \/ UNCHANGED vars
BY DEF Next, Wait, Approve

LEMMA TypeInit == ASSUME Init PROVE TypeOK
BY DEF Init, TypeOK, Phases, Rpcs

LEMMA TypeStep ==
  ASSUME TypeOK, [Next]_vars
  PROVE  TypeOK'
<1> USE SessionsOfApprovals DEF TypeOK, Phases, Decisions, Go, At, waiting, store
<1>1. ASSUME NEW a \in Approvals,
             Register(a) \/ Record(a) \/ Ask(a)
      PROVE  TypeOK'
  BY <1>1 DEF Register, Record, Ask, Written
<1>2. ASSUME NEW a \in Approvals,
             \/ Receive(a) \/ TimeOut(a) \/ Abandon(a)
             \/ Unregister(a) \/ RunTool(a) \/ Cancel(a)
      PROVE  TypeOK'
  BY <1>2 DEF Receive, TimeOut, Abandon, Unregister, RunTool, Cancel
<1>3. ASSUME NEW r \in Requests, Call(r) \/ LookUp(r)
      PROVE  TypeOK'
  BY <1>3 DEF Call, LookUp, Rpcs, Replies
<1>4. ASSUME NEW r \in Requests, Deliver(r)
      PROVE  TypeOK'
  BY <1>4 DEF Deliver, Rpcs, Replies
<1>5. ASSUME NEW r \in Requests, Decide(r)
      PROVE  TypeOK'
  BY <1>5 DEF Decide, Written, Rpcs, Replies
<1>6. ASSUME NEW s \in Sessions, DeleteSession(s)
      PROVE  TypeOK'
  BY <1>6 DEF DeleteSession
<1>7. ASSUME Restart PROVE TypeOK'
  BY <1>7 DEF Restart, Rpcs, Replies
<1>8. ASSUME UNCHANGED vars PROVE TypeOK'
  BY <1>8 DEF vars
<1>9. QED  BY <1>1, <1>2, <1>3, <1>4, <1>5, <1>6, <1>7, <1>8, NextCases

(* The arguments of a request do not change, and it is made once.          *)
SameRequest(r) ==
  /\ rpc'[r].approval = rpc[r].approval
  /\ rpc'[r].session = rpc[r].session
  /\ rpc'[r].decision = rpc[r].decision
  /\ rpc[r].at # "idle" => rpc'[r].at # "idle"

LEMMA ArgsKept ==
  ASSUME TypeOK, [Next]_vars, NEW r \in Requests
  PROVE  SameRequest(r)
<1> USE DEF TypeOK, Rpcs, Replies, SameRequest
<1>1. ASSUME rpc' = rpc PROVE SameRequest(r) BY <1>1
<1>2. ASSUME NEW q \in Requests, Call(q) \/ LookUp(q) \/ Deliver(q) \/ Decide(q)
      PROVE  SameRequest(r)
  BY <1>2 DEF Call, LookUp, Deliver, Decide
<1>3. ASSUME Restart PROVE SameRequest(r)
  BY <1>3 DEF Restart
<1>4. QED
  BY <1>1, <1>2, <1>3, NextCases
     DEF Register, Record, Ask, Receive, TimeOut, Abandon, Unregister, RunTool,
         Cancel, DeleteSession, vars

LEMMA BackedKept ==
  ASSUME TypeOK, [Next]_vars, NEW a, NEW d, Backed(a, d)
  PROVE  Backed(a, d)'
BY ArgsKept DEF Backed, Answered, SameRequest

-----------------------------------------------------------------------------
(* The inductive invariant                                                 *)

LEMMA FoundStep ==
  ASSUME TypeOK, FoundInv, [Next]_vars
  PROVE  FoundInv'
<1> SUFFICES ASSUME NEW r \in Requests,
                    rpc'[r].at \in {"found", "sent", "accepted", "already_decided"}
             PROVE  rpc'[r].session = SessionOf[rpc'[r].approval]
  BY DEF FoundInv
<1> USE DEF TypeOK, Rpcs, Replies, FoundInv
<1>1. ASSUME rpc' = rpc
      PROVE  rpc'[r].session = SessionOf[rpc'[r].approval]
  BY <1>1
<1>2. ASSUME NEW q \in Requests, Call(q) \/ LookUp(q)
      PROVE  rpc'[r].session = SessionOf[rpc'[r].approval]
  BY <1>2 DEF Call, LookUp
<1>3. ASSUME NEW q \in Requests, Deliver(q) \/ Decide(q)
      PROVE  rpc'[r].session = SessionOf[rpc'[r].approval]
  BY <1>3 DEF Deliver, Decide
<1>4. ASSUME Restart
      PROVE  rpc'[r].session = SessionOf[rpc'[r].approval]
  BY <1>4 DEF Restart
<1>5. QED
  BY <1>1, <1>2, <1>3, <1>4, NextCases
     DEF Register, Record, Ask, Receive, TimeOut, Abandon, Unregister, RunTool,
         Cancel, DeleteSession, vars

LEMMA AnswerableKept ==
  ASSUME TypeOK, [Next]_vars, NEW a \in Approvals, Answerable(a)
  PROVE  Answerable(a)'
BY NextCases
   DEF Answerable, TypeOK, Register, Record, Ask, Receive, TimeOut, Abandon,
       Unregister, RunTool, Cancel, Call, LookUp, Deliver, Decide,
       DeleteSession, Restart, vars, waiting, Go, At

LEMMA AskedStep ==
  ASSUME TypeOK, AskedInv, [Next]_vars
  PROVE  AskedInv'
<1> SUFFICES ASSUME NEW r \in Requests, rpc'[r].at # "idle"
             PROVE  Answerable(rpc[r].approval)'
  BY DEF AskedInv
<1>1. rpc[r].approval \in Approvals /\ rpc'[r].approval = rpc[r].approval
  BY ArgsKept DEF TypeOK, Rpcs, SameRequest
<1>2. Answerable(rpc[r].approval)
  <2>1. CASE rpc[r].at # "idle"
    BY <2>1 DEF AskedInv
  <2>2. ASSUME rpc[r].at = "idle", NEW q \in Requests, Call(q)
        PROVE  Answerable(rpc[r].approval)
    BY <2>2 DEF Call, TypeOK, Rpcs
  <2>3. ASSUME rpc[r].at = "idle", NEW q \in Requests,
               LookUp(q) \/ Deliver(q) \/ Decide(q)
        PROVE  FALSE
    BY <2>3 DEF LookUp, Deliver, Decide, TypeOK, Rpcs
  <2>4. ASSUME rpc[r].at = "idle", Restart PROVE FALSE
    BY <2>4 DEF Restart, TypeOK, Rpcs
  <2>5. ASSUME rpc[r].at = "idle", rpc' = rpc PROVE FALSE
    BY <2>5
  <2>6. QED
    BY <2>1, <2>2, <2>3, <2>4, <2>5, NextCases
       DEF Register, Record, Ask, Receive, TimeOut, Abandon, Unregister,
           RunTool, Cancel, DeleteSession, vars
<1>3. waiter'[rpc[r].approval] \notin {"idle", "registered", "recorded"}
  BY <1>1, <1>2, AnswerableKept DEF Answerable
<1>4. QED  BY <1>1, <1>3 DEF Answerable

(* What a decision in the channel says was said by a request.              *)
LEMMA MailStep ==
  ASSUME TypeOK, FoundInv, MailInv, [Next]_vars
  PROVE  MailInv'
<1> SUFFICES ASSUME NEW a \in Approvals, NEW d \in Decisions, mailbox'[a] = d
             PROVE  Backed(a, d)'
  BY DEF MailInv
<1>1. ASSUME mailbox[a] = d PROVE Backed(a, d)'
  BY <1>1, BackedKept DEF MailInv
<1>2. ASSUME mailbox[a] # d PROVE Backed(a, d)
  <2> USE <1>2 DEF TypeOK, Decisions
  <2>1. ASSUME mailbox' = mailbox PROVE FALSE
    BY <2>1
  <2>2. ASSUME Restart PROVE FALSE
    BY <2>2 DEF Restart
  <2>3. ASSUME NEW b \in Approvals, Receive(b) PROVE FALSE
    BY <2>3 DEF Receive
  <2>4. ASSUME NEW r \in Requests, Deliver(r) PROVE Backed(a, d)
    BY <2>4 DEF Deliver, Backed, Answered, FoundInv, Rpcs
  <2>5. QED
    BY <2>1, <2>2, <2>3, <2>4, NextCases
       DEF Register, Record, Ask, TimeOut, Abandon, Unregister, RunTool,
           Cancel, Call, LookUp, Decide, DeleteSession, vars, waiting
<1>3. QED  BY <1>1, <1>2, BackedKept

LEMMA RowStep ==
  ASSUME TypeOK, FoundInv, RowInv, [Next]_vars
  PROVE  RowInv'
<1> SUFFICES ASSUME NEW a \in Approvals, NEW d \in Decisions, row'[a] = d
             PROVE  Backed(a, d)'
  BY DEF RowInv
<1>1. ASSUME row[a] = d PROVE Backed(a, d)'
  BY <1>1, BackedKept DEF RowInv
<1>2. ASSUME row[a] # d PROVE Backed(a, d)
  <2> USE <1>2 DEF TypeOK, Decisions
  <2>1. ASSUME row' = row PROVE FALSE
    BY <2>1
  <2>2. ASSUME NEW b \in Approvals, Record(b) PROVE FALSE
    BY <2>2 DEF Record, Written
  <2>3. ASSUME NEW s \in Sessions, DeleteSession(s) PROVE FALSE
    BY <2>3 DEF DeleteSession
  <2>4. ASSUME NEW r \in Requests, Decide(r) PROVE Backed(a, d)
    BY <2>4 DEF Decide, Written, Backed, Answered, FoundInv, Rpcs
  <2>5. QED
    BY <2>1, <2>2, <2>3, <2>4, NextCases
       DEF Register, Ask, Receive, TimeOut, Abandon, Unregister, RunTool,
           Cancel, Call, LookUp, Deliver, Restart, vars, store
<1>3. QED  BY <1>1, <1>2, BackedKept

LEMMA GrantStep ==
  ASSUME TypeOK, MailInv, GrantInv, [Next]_vars
  PROVE  GrantInv'
<1> SUFFICES ASSUME NEW a \in Approvals, waiter'[a] \in {"granted", "ran"}
             PROVE  Backed(a, "approved")'
  BY DEF GrantInv
<1>1. ASSUME waiter[a] \in {"granted", "ran"} PROVE Backed(a, "approved")
  BY <1>1 DEF GrantInv
<1>2. ASSUME waiter[a] \notin {"granted", "ran"} PROVE Backed(a, "approved")
  <2> USE <1>2 DEF TypeOK, Go, At
  <2>1. ASSUME waiter' = waiter PROVE FALSE
    BY <2>1
  <2>2. ASSUME NEW b \in Approvals, Receive(b) PROVE Backed(a, "approved")
    BY <2>2 DEF Receive, MailInv, Decisions
  <2>3. ASSUME NEW b \in Approvals,
               Register(b) \/ Record(b) \/ Ask(b) \/ TimeOut(b) \/ Abandon(b)
        PROVE  FALSE
    BY <2>3 DEF Register, Record, Ask, TimeOut, Abandon
  <2>4. ASSUME NEW b \in Approvals, RunTool(b) PROVE FALSE
    BY <2>4 DEF RunTool
  <2>5. ASSUME Restart PROVE FALSE
    BY <2>5 DEF Restart
  <2>6. QED
    BY <2>1, <2>2, <2>3, <2>4, <2>5, NextCases
       DEF Unregister, Cancel, Call, LookUp, Deliver, Decide, DeleteSession,
           vars, waiting
<1>3. QED  BY <1>1, <1>2, BackedKept

(* A row that is no longer pending does not become pending again: only     *)
(* Record writes that status, before anyone was asked.                     *)
LEMMA AcceptedStep ==
  ASSUME TypeOK, AskedInv, AcceptedRowDecided, [Next]_vars
  PROVE  AcceptedRowDecided'
<1> SUFFICES ASSUME StoreReliable, NEW r \in Requests, rpc'[r].at = "accepted",
                    row'[rpc'[r].approval] = "pending"
             PROVE  FALSE
  BY DEF AcceptedRowDecided
<1> DEFINE a == rpc[r].approval
<1>1. a \in Approvals /\ rpc'[r].approval = a
  BY ArgsKept DEF TypeOK, Rpcs, SameRequest
<1> HIDE DEF a
<1>2. ASSUME NEW q \in Requests, Decide(q) PROVE FALSE
  BY <1>1, <1>2 DEF Decide, Written, TypeOK, Rpcs, Decisions,
                    AcceptedRowDecided, a
<1>3. ASSUME \A q \in Requests : ~Decide(q) PROVE rpc[r].at = "accepted"
  BY <1>3, NextCases
     DEF Register, Record, Ask, Receive, TimeOut, Abandon, Unregister, RunTool,
         Cancel, DeleteSession, Call, LookUp, Deliver, Restart, vars, TypeOK,
         Rpcs, Replies
<1>4. ASSUME rpc[r].at = "accepted" PROVE row[a] # "pending" /\ Answerable(a)
  BY <1>4 DEF AcceptedRowDecided, AskedInv, a
<1>5. ASSUME NEW b \in Approvals, Record(b), rpc[r].at = "accepted" PROVE FALSE
  BY <1>1, <1>4, <1>5 DEF Record, Answerable, At, TypeOK
<1>6. ASSUME NEW s \in Sessions, DeleteSession(s), rpc[r].at = "accepted"
      PROVE  FALSE
  BY <1>1, <1>4, <1>6 DEF DeleteSession
<1>7. QED
  BY <1>1, <1>2, <1>3, <1>4, <1>5, <1>6, NextCases
     DEF Register, Ask, Receive, TimeOut, Abandon, Unregister, RunTool, Cancel,
         Call, LookUp, Deliver, Restart, vars, store

LEMMA Inductive == Init => IInv
<1> SUFFICES ASSUME Init PROVE IInv
  OBVIOUS
<1>1. TypeOK
  BY TypeInit
<1>2. FoundInv /\ AskedInv /\ AcceptedRowDecided
  BY DEF Init, FoundInv, AskedInv, AcceptedRowDecided
<1>3. MailInv /\ RowInv /\ GrantInv
  BY DEF Init, MailInv, RowInv, GrantInv, Decisions
<1>4. QED  BY <1>1, <1>2, <1>3 DEF IInv

LEMMA InductiveStep == IInv /\ [Next]_vars => IInv'
BY TypeStep, FoundStep, AskedStep, MailStep, RowStep, GrantStep, AcceptedStep
   DEF IInv

THEOREM Invariance == Spec => []IInv
BY Inductive, InductiveStep, PTL DEF Spec

-----------------------------------------------------------------------------
(* Every variable keeps its type.                                          *)
THEOREM TypeCorrect == Spec => []TypeOK
<1>1. IInv => TypeOK  BY DEF IInv
<1>2. QED  BY <1>1, Invariance, PTL

(* A gated call runs only after its own session's user allowed it.         *)
THEOREM Consented == Spec => []RunsOnlyAllowed
<1>1. IInv => RunsOnlyAllowed
  BY DEF IInv, GrantInv, Backed, RunsOnlyAllowed
<1>2. QED  BY <1>1, Invariance, PTL

(* The table contradicts what ran only if the answers did.                 *)
THEOREM RowAgrees == Spec => []DeniedRowDidNotRun
<1>1. IInv => DeniedRowDidNotRun
  BY DEF IInv, GrantInv, RowInv, Backed, Decisions, DeniedRowDidNotRun
<1>2. QED  BY <1>1, Invariance, PTL

(* No answered approval stays pending in a store that takes its writes.    *)
THEOREM AnsweredSettled == Spec => []AcceptedRowDecided
<1>1. IInv => AcceptedRowDecided  BY DEF IInv
<1>2. QED  BY <1>1, Invariance, PTL

-----------------------------------------------------------------------------
(* The refinement                                                          *)

LEMMA AllowedIsBacked == Allowed = {a \in Approvals : Backed(a, "approved")}
BY DEF Allowed, Backed

LEMMA VerdictValues ==
  ASSUME TypeOK, NEW a \in Approvals
  PROVE  /\ Verdict[a] = "open" <=>
              waiter[a] \in {"idle", "registered", "recorded", "waiting"}
         /\ Verdict[a] = "granted" <=> waiter[a] = "granted"
         /\ Verdict[a] = "ran" <=> waiter[a] = "ran"
         /\ Verdict[a] = "refused" <=> waiter[a] \in {"refused", "dead"}
BY DEF Verdict, VerdictOf, TypeOK, Phases

(* Only a call adds to the answers.                                        *)
LEMMA AllowedSame ==
  ASSUME TypeOK, [Next]_vars, \A r \in Requests : ~Call(r)
  PROVE  Allowed' = Allowed
<1>1. \A r \in Requests : rpc'[r].at # "idle" => rpc[r].at # "idle"
  BY NextCases
     DEF Register, Record, Ask, Receive, TimeOut, Abandon, Unregister, RunTool,
         Cancel, DeleteSession, LookUp, Deliver, Decide, Restart, vars, TypeOK,
         Rpcs
<1>2. \A r \in Requests : SameRequest(r)
  BY ArgsKept
<1>3. QED  BY <1>1, <1>2 DEF Allowed, Answered, SameRequest

LEMMA VerdictSame == ASSUME waiter' = waiter PROVE Verdict' = Verdict
BY DEF Verdict, VerdictOf

(* A step of one waiter changes at most its own verdict.                   *)
LEMMA VerdictGoes ==
  ASSUME TypeOK, NEW a \in Approvals, NEW phase, Go(a, phase)
  PROVE  Verdict' = [Verdict EXCEPT ![a] = VerdictOf(phase)]
BY DEF Verdict, Go, TypeOK

LEMMA WithdrawOne ==
  ASSUME TypeOK, NEW a \in Approvals, waiter[a] # "ran", Allowed' = Allowed,
         Verdict' = [Verdict EXCEPT ![a] = "refused"]
  PROVE  Gate!Withdraw({a})
<1>1. \A b \in {a} : Verdict[b] # "ran"
  BY VerdictValues
<1>2. Verdict = [b \in Approvals |-> Verdict[b]]
  BY DEF Verdict
<1>3. Verdict' = [b \in Approvals |-> IF b \in {a} THEN "refused" ELSE Verdict[b]]
  BY <1>2
<1>4. QED  BY <1>1, <1>3 DEF Gate!Withdraw

LEMMA StepRefines ==
  ASSUME IInv, [Next]_vars
  PROVE  [Gate!Next]_(Gate!vars)
<1> DEFINE Goal == [Gate!Next]_(Gate!vars)
<1>a. TypeOK  BY DEF IInv
<1>s. ASSUME Allowed' = Allowed, Verdict' = Verdict PROVE Goal
  BY <1>s DEF Gate!vars
<1>w. ASSUME NEW A \in SUBSET Approvals, Gate!Withdraw(A) PROVE Goal
  BY <1>w DEF Gate!Next
<1>o. ASSUME NEW a \in Approvals, waiter[a] # "ran", Allowed' = Allowed,
             Verdict' = [Verdict EXCEPT ![a] = "refused"]
      PROVE  Goal
  <2>1. Gate!Withdraw({a})  BY <1>a, <1>o, WithdrawOne
  <2>2. QED  BY <2>1, <1>w
<1>e. ASSUME NEW a \in Approvals, Allowed' = Allowed, Verdict[a] = "open",
             Verdict' = [Verdict EXCEPT ![a] = "open"]
      PROVE  Goal
  <2>1. Verdict' = Verdict  BY <1>e DEF Verdict
  <2>2. QED  BY <2>1, <1>e, <1>s
<1> HIDE DEF Goal
<1>1. ASSUME NEW r \in Requests, Call(r) PROVE Goal
  <2> DEFINE a == rpc[r].approval
  <2>1. a \in Approvals  BY <1>a DEF TypeOK, Rpcs
  <2>2. Verdict' = Verdict  BY <1>1, VerdictSame DEF Call, waiting
  <2>3. \A q \in Requests :
          /\ SameRequest(q)
          /\ q # r => (rpc'[q].at # "idle" <=> rpc[q].at # "idle")
    BY <1>1, <1>a, ArgsKept DEF Call, TypeOK, Rpcs
  <2>4. \A b \in Approvals : b # a => (b \in Allowed' <=> b \in Allowed)
    BY <2>3 DEF Allowed, Answered, SameRequest
  <2>5. \A b \in Approvals : b \in Allowed => b \in Allowed'
    BY <2>3 DEF Allowed, Answered, SameRequest
  <2>6. Allowed \subseteq Approvals /\ Allowed' \subseteq Approvals
    BY DEF Allowed
  <2> HIDE DEF a
  <2>7. Allowed' = Allowed \/ Allowed' = Allowed \cup {a}
    BY <2>1, <2>4, <2>5, <2>6
  <2>8. CASE Allowed' = Allowed  BY <2>8, <2>2, <1>s
  <2>9. CASE Allowed' = Allowed \cup {a}
    <3>1. Gate!Allow(a)  BY <2>9, <2>2 DEF Gate!Allow
    <3>2. QED  BY <3>1, <2>1 DEF Gate!Next, Goal
  <2>10. QED  BY <2>7, <2>8, <2>9
<1>2. ASSUME \A r \in Requests : ~Call(r) PROVE Goal
  <2>0. Allowed' = Allowed  BY <1>2, <1>a, AllowedSame
  <2>1. ASSUME waiter' = waiter PROVE Goal
    BY <2>0, <2>1, VerdictSame, <1>s
  <2>2. ASSUME NEW a \in Approvals, Register(a) \/ Record(a) PROVE Goal
    <3>1. \E phase \in {"registered", "recorded"} : Go(a, phase)
      BY <2>2 DEF Register, Record
    <3>2. Verdict' = [Verdict EXCEPT ![a] = "open"]
      BY <3>1, <1>a, VerdictGoes DEF VerdictOf
    <3>3. Verdict[a] = "open"
      BY <2>2, <1>a, VerdictValues DEF Register, Record, At
    <3>4. QED  BY <2>0, <3>2, <3>3, <1>e
  <2>3. ASSUME NEW a \in Approvals, Ask(a) PROVE Goal
    <3>1. Verdict[a] = "open" /\ waiter[a] # "ran"
      BY <2>3, <1>a, VerdictValues DEF Ask, At
    <3>2. Go(a, "waiting") \/ Go(a, "refused")
      BY <2>3 DEF Ask
    <3>3. \/ Verdict' = [Verdict EXCEPT ![a] = "open"]
          \/ Verdict' = [Verdict EXCEPT ![a] = "refused"]
      BY <3>2, <1>a, VerdictGoes DEF VerdictOf
    <3>4. QED  BY <2>0, <3>1, <3>3, <1>e, <1>o
  <2>4. ASSUME NEW a \in Approvals, Receive(a) PROVE Goal
    <3>1. CASE mailbox[a] = "approved"
      <4>1. Go(a, "granted")  BY <2>4, <3>1 DEF Receive
      <4>2. Verdict' = [Verdict EXCEPT ![a] = "granted"]
        BY <4>1, <1>a, VerdictGoes DEF VerdictOf
      <4>3. Verdict[a] = "open"
        BY <2>4, <1>a, VerdictValues DEF Receive, At
      <4>4. a \in Allowed
        BY <3>1, AllowedIsBacked DEF IInv, MailInv, Decisions
      <4>5. Gate!Grant(a)  BY <2>0, <4>2, <4>3, <4>4 DEF Gate!Grant
      <4>6. QED  BY <4>5 DEF Gate!Next, Goal
    <3>2. CASE mailbox[a] # "approved"
      <4>1. Go(a, "refused") /\ waiter[a] # "ran"
        BY <2>4, <3>2 DEF Receive, At
      <4>2. Verdict' = [Verdict EXCEPT ![a] = "refused"]
        BY <4>1, <1>a, VerdictGoes DEF VerdictOf
      <4>3. QED  BY <2>0, <4>1, <4>2, <1>o
    <3>3. QED  BY <3>1, <3>2
  <2>5. ASSUME NEW a \in Approvals, TimeOut(a) \/ Abandon(a) PROVE Goal
    <3>1. Go(a, "refused") /\ waiter[a] # "ran"
      BY <2>5 DEF TimeOut, Abandon, At
    <3>2. Verdict' = [Verdict EXCEPT ![a] = "refused"]
      BY <3>1, <1>a, VerdictGoes DEF VerdictOf
    <3>3. QED  BY <2>0, <3>1, <3>2, <1>o
  <2>6. ASSUME NEW a \in Approvals, RunTool(a) PROVE Goal
    <3>1. Verdict[a] = "granted" /\ waiter[a] # "ran"
      BY <2>6, <1>a, VerdictValues DEF RunTool, At
    <3>2. Go(a, "ran") \/ Go(a, "refused")
      BY <2>6 DEF RunTool
    <3>3. CASE Verdict' = [Verdict EXCEPT ![a] = "ran"]
      <4>1. Gate!Run(a)  BY <2>0, <3>1, <3>3 DEF Gate!Run
      <4>2. QED  BY <4>1 DEF Gate!Next, Goal
    <3>4. CASE Verdict' = [Verdict EXCEPT ![a] = "refused"]
      BY <2>0, <3>1, <3>4, <1>o
    <3>5. QED  BY <3>2, <3>3, <3>4, <1>a, VerdictGoes DEF VerdictOf
  <2>7. ASSUME Restart PROVE Goal
    <3> DEFINE A == {a \in Approvals : waiter[a] \notin {"idle", "ran"}}
    <3>1. \A a \in A : Verdict[a] # "ran"
      BY <1>a, VerdictValues
    <3>2. Verdict' = [a \in Approvals |->
                       IF a \in A THEN "refused" ELSE Verdict[a]]
      BY <2>7 DEF Restart, Verdict, VerdictOf
    <3>3. Gate!Withdraw(A)  BY <2>0, <3>1, <3>2 DEF Gate!Withdraw
    <3>4. QED  BY <3>3, <1>w
  <2>8. QED
    BY <1>2, <2>1, <2>2, <2>3, <2>4, <2>5, <2>6, <2>7, NextCases
       DEF Unregister, Cancel, LookUp, Deliver, Decide, DeleteSession, vars,
           waiting
<1>3. QED  BY <1>1, <1>2 DEF Goal

LEMMA InitRefines == ASSUME Init PROVE Gate!Init
<1>1. Allowed = {}
  BY DEF Init, Allowed, Answered
<1>2. Verdict = [a \in Approvals |-> "open"]
  BY DEF Init, Verdict, VerdictOf
<1>3. QED  BY <1>1, <1>2 DEF Gate!Init

(* The detailed gate implements Consent.                                   *)
THEOREM ImplementsConsent == Spec => ConsentSpec
BY InitRefines, StepRefines, Invariance, PTL DEF Spec, ConsentSpec, Gate!Spec
=============================================================================
