------------------------------ MODULE Approval -----------------------------
(***************************************************************************)
(* The approval of gated tool calls: waitForApproval, one goroutine per    *)
(* approval, and Approve, one goroutine per RPC, which meet in the map     *)
(* pendingApprovals, in the channel of capacity one that its entry holds,  *)
(* and in the approvals table.                                             *)
(*                                                                         *)
(* An approval stands for its id, which the daemon draws at random, so     *)
(* each is waited for once.  A request is one Approve RPC.  A restart of   *)
(* the orchestrator loses every goroutine, the map and the channels, and   *)
(* keeps the tables.                                                       *)
(***************************************************************************)
EXTENDS FiniteSets, Naturals

CONSTANTS
  Approvals, Sessions, Requests,
  SessionOf,      \* the session of each approval's run
  StoreReliable   \* FALSE: a write of the approvals table may fail (ignored)

ASSUME SessionsOfApprovals == SessionOf \in [Approvals -> Sessions]
ASSUME StoreSwitch == StoreReliable \in BOOLEAN

VARIABLES
  waiter,     \* where waitForApproval, and executeAgentTool after it, are
  cancelled,  \* the approvals whose client has closed its stream
  pending,    \* the keys of pendingApprovals
  mailbox,    \* the decision channel: "empty", or the decision in it
  rpc,        \* the Approve calls
  sessionRow, \* the sessions that have a row
  row         \* the approval's row: "none", or its status

waiting == <<waiter, cancelled, pending>>
store   == <<sessionRow, row>>
vars    == <<waiting, mailbox, rpc, store>>

Decisions == {"approved", "denied"}

Phases == {"idle", "registered", "recorded", "waiting", "granted", "refused",
           "ran", "dead"}

Replies == {"accepted", "already_decided", "not_pending"}

Rpcs == [at: {"idle", "called", "found", "sent", "lost"} \cup Replies,
         approval: Approvals, session: Sessions, decision: Decisions]

TypeOK ==
  /\ waiter \in [Approvals -> Phases]
  /\ cancelled \subseteq Approvals
  /\ pending \subseteq Approvals
  /\ mailbox \in [Approvals -> {"empty"} \cup Decisions]
  /\ rpc \in [Requests -> Rpcs]
  /\ sessionRow \subseteq Sessions
  /\ row \in [Approvals -> {"none", "pending"} \cup Decisions]

(* Which answers will be given is open: every request has any arguments.   *)
Init ==
  /\ waiter = [a \in Approvals |-> "idle"]
  /\ cancelled = {} /\ pending = {}
  /\ mailbox = [a \in Approvals |-> "empty"]
  /\ rpc \in [Requests -> {c \in Rpcs : c.at = "idle"}]
  /\ sessionRow = Sessions
  /\ row = [a \in Approvals |-> "none"]

(* A write of an approval's row, whose error nobody looks at.              *)
Written(a, status) == IF StoreReliable THEN {status} ELSE {row[a], status}

At(a, phase) == waiter[a] = phase
Go(a, phase) == waiter' = [waiter EXCEPT ![a] = phase]

-----------------------------------------------------------------------------
(* waitForApproval                                                         *)

Register(a) ==
  /\ At(a, "idle") /\ Go(a, "registered")
  /\ pending' = pending \cup {a}
  /\ UNCHANGED <<cancelled, mailbox, rpc, store>>

(* CreateApproval: a cancelled context and a deleted session refuse it.    *)
Record(a) ==
  /\ At(a, "registered") /\ Go(a, "recorded")
  /\ \E status \in IF a \in cancelled \/ SessionOf[a] \notin sessionRow
                     THEN {row[a]} ELSE Written(a, "pending") :
       row' = [row EXCEPT ![a] = status]
  /\ UNCHANGED <<cancelled, pending, mailbox, rpc, sessionRow>>

(* The approval event; a client that has gone does not get it.             *)
Ask(a) ==
  /\ At(a, "recorded")
  /\ Go(a, IF a \in cancelled THEN "refused" ELSE "waiting")
  /\ UNCHANGED <<cancelled, pending, mailbox, rpc, store>>

(* MUTANT of Receive: any decision received lets the call run.             *)
ReceiveIgnoresDecision(a) ==
  /\ At(a, "waiting") /\ mailbox[a] # "empty"
  /\ Go(a, "granted")
  /\ mailbox' = [mailbox EXCEPT ![a] = "empty"]
  /\ UNCHANGED <<cancelled, pending, rpc, store>>

(* The three branches of select; if several are ready, any may be taken.   *)
Receive(a) ==
  /\ At(a, "waiting") /\ mailbox[a] # "empty"
  /\ Go(a, IF mailbox[a] = "approved" THEN "granted" ELSE "refused")
  /\ mailbox' = [mailbox EXCEPT ![a] = "empty"]
  /\ UNCHANGED <<cancelled, pending, rpc, store>>

TimeOut(a) ==
  /\ At(a, "waiting") /\ Go(a, "refused")
  /\ UNCHANGED <<cancelled, pending, mailbox, rpc, store>>

Abandon(a) ==
  /\ At(a, "waiting") /\ a \in cancelled /\ Go(a, "refused")
  /\ UNCHANGED <<cancelled, pending, mailbox, rpc, store>>

(* The deferred delete.                                                    *)
Unregister(a) ==
  /\ waiter[a] \in {"granted", "refused"} /\ a \in pending
  /\ pending' = pending \ {a}
  /\ UNCHANGED <<waiter, cancelled, mailbox, rpc, store>>

(* executeAgentTool sends the call again with Approved: true; a cancelled  *)
(* context refuses it.                                                     *)
RunTool(a) ==
  /\ At(a, "granted") /\ a \notin pending
  /\ Go(a, IF a \in cancelled THEN "refused" ELSE "ran")
  /\ UNCHANGED <<cancelled, pending, mailbox, rpc, store>>

Cancel(a) ==
  /\ waiter[a] \notin {"idle", "ran", "dead"}
  /\ cancelled' = cancelled \cup {a}
  /\ UNCHANGED <<waiter, pending, mailbox, rpc, store>>

-----------------------------------------------------------------------------
(* Approve                                                                 *)

(* The event reaches the run's own client and every state subscriber, so   *)
(* any of them may answer once it was sent, at any time; the session named *)
(* may be another one, as the UI follows a rotated session id.             *)
Answerable(a) == waiter[a] \notin {"idle", "registered", "recorded"}

Call(r) ==
  /\ rpc[r].at = "idle" /\ Answerable(rpc[r].approval)
  /\ rpc' = [rpc EXCEPT ![r].at = "called"]
  /\ UNCHANGED <<waiting, mailbox, store>>

(* The entry is copied under the lock and used after it.                   *)
LookUp(r) ==
  LET a == rpc[r].approval IN
  /\ rpc[r].at = "called"
  /\ rpc' = [rpc EXCEPT ![r].at =
               IF a \in pending /\ rpc[r].session = SessionOf[a]
                 THEN "found" ELSE "not_pending"]
  /\ UNCHANGED <<waiting, mailbox, store>>

(* MUTANT of Deliver: the send blocks while the channel is full.           *)
DeliverBlocks(r) ==
  /\ rpc[r].at = "found" /\ mailbox[rpc[r].approval] = "empty"
  /\ mailbox' = [mailbox EXCEPT ![rpc[r].approval] = rpc[r].decision]
  /\ rpc' = [rpc EXCEPT ![r].at = "sent"]
  /\ UNCHANGED <<waiting, store>>

(* The send that does not block.                                           *)
Deliver(r) ==
  LET a == rpc[r].approval IN
  /\ rpc[r].at = "found"
  /\ IF mailbox[a] = "empty"
       THEN /\ mailbox' = [mailbox EXCEPT ![a] = rpc[r].decision]
            /\ rpc' = [rpc EXCEPT ![r].at = "sent"]
       ELSE /\ rpc' = [rpc EXCEPT ![r].at = "already_decided"]
            /\ UNCHANGED mailbox
  /\ UNCHANGED <<waiting, store>>

(* MUTANT of Decide: a denial is not written.                              *)
DecideDropsDenial(r) ==
  /\ rpc[r].at = "sent"
  /\ row' = [row EXCEPT ![rpc[r].approval] =
                IF @ = "pending" /\ rpc[r].decision = "approved"
                  THEN "approved" ELSE @]
  /\ rpc' = [rpc EXCEPT ![r].at = "accepted"]
  /\ UNCHANGED <<waiting, mailbox, sessionRow>>

(* DecideApproval writes a row that is still pending; then the reply.      *)
Decide(r) ==
  LET a == rpc[r].approval IN
  /\ rpc[r].at = "sent"
  /\ \E status \in IF row[a] = "pending" THEN Written(a, rpc[r].decision)
                                         ELSE {row[a]} :
       row' = [row EXCEPT ![a] = status]
  /\ rpc' = [rpc EXCEPT ![r].at = "accepted"]
  /\ UNCHANGED <<waiting, mailbox, sessionRow>>

-----------------------------------------------------------------------------
(* The rest of the system                                                  *)

(* DeleteSessions; the approvals of the session go with it.                *)
DeleteSession(s) ==
  /\ s \in sessionRow
  /\ sessionRow' = sessionRow \ {s}
  /\ row' = [a \in Approvals |-> IF SessionOf[a] = s THEN "none" ELSE row[a]]
  /\ UNCHANGED <<waiting, mailbox, rpc>>

Restart ==
  /\ waiter' = [a \in Approvals |->
       IF waiter[a] \in {"idle", "ran"} THEN waiter[a] ELSE "dead"]
  /\ pending' = {}
  /\ mailbox' = [a \in Approvals |-> "empty"]
  /\ rpc' = [r \in Requests |->
       IF rpc[r].at \in {"called", "found", "sent"}
         THEN [rpc[r] EXCEPT !.at = "lost"] ELSE rpc[r]]
  /\ UNCHANGED <<cancelled, store>>

-----------------------------------------------------------------------------
Wait(a) ==
  \/ Register(a) \/ Record(a) \/ Ask(a)
  \/ Receive(a) \/ TimeOut(a) \/ Abandon(a) \/ Unregister(a) \/ RunTool(a)

Approve(r) == LookUp(r) \/ Deliver(r) \/ Decide(r)

Next ==
  \/ \E a \in Approvals : Wait(a) \/ Cancel(a)
  \/ \E r \in Requests : Call(r) \/ Approve(r)
  \/ \E s \in Sessions : DeleteSession(s)
  \/ Restart

Spec == Init /\ [][Next]_vars

(* Goroutines are scheduled, and the timer of a wait goes off.             *)
Fairness ==
  /\ \A a \in Approvals : WF_vars(Record(a) \/ Ask(a) \/ TimeOut(a)
                                  \/ Unregister(a) \/ RunTool(a))
  /\ \A r \in Requests : WF_vars(Approve(r))

FairSpec == Spec /\ Fairness

-----------------------------------------------------------------------------
Answered(r, a) ==
  /\ rpc[r].at # "idle"
  /\ rpc[r].approval = a /\ rpc[r].session = SessionOf[a]

(* A gated call runs only after an answer that named its approval and its  *)
(* session and allowed it, whatever the timeouts, late answers, restarts   *)
(* and answers to other approvals. (waitForApproval, Approve.)             *)
RunsOnlyAllowed ==
  \A a \in Approvals : waiter[a] = "ran" =>
    \E r \in Requests : Answered(r, a) /\ rpc[r].decision = "approved"

(* The approvals table contradicts what ran only if the user was asked     *)
(* twice and answered both ways: with one approver per approval it never   *)
(* does. (Approve decides the channel and then, unlocked, the row.)        *)
DeniedRowDidNotRun ==
  \A a \in Approvals : waiter[a] \in {"granted", "ran"} /\ row[a] = "denied" =>
    \E q, r \in Requests :
      /\ Answered(q, a) /\ rpc[q].decision = "denied"
      /\ Answered(r, a) /\ rpc[r].decision = "approved"

(* An accepted answer leaves no row pending, when the store takes writes:  *)
(* the table offers no approval that was answered.                         *)
AcceptedRowDecided ==
  StoreReliable => \A r \in Requests :
    rpc[r].at = "accepted" => row[rpc[r].approval] # "pending"

(* Every Approve call returns, or its server is restarted.                 *)
CallsReturn ==
  \A r \in Requests :
    rpc[r].at = "called" ~> rpc[r].at \in Replies \cup {"lost"}

-----------------------------------------------------------------------------
(* The gate keeps the promise of Consent.                                  *)
Allowed ==
  {a \in Approvals :
    \E r \in Requests : Answered(r, a) /\ rpc[r].decision = "approved"}

VerdictOf(phase) ==
  CASE phase \in {"idle", "registered", "recorded", "waiting"} -> "open"
    [] phase = "granted" -> "granted"
    [] phase = "ran" -> "ran"
    [] OTHER -> "refused"

Verdict == [a \in Approvals |-> VerdictOf(waiter[a])]

Gate == INSTANCE Consent WITH allowed <- Allowed, verdict <- Verdict

ConsentSpec == Gate!Spec
=============================================================================
