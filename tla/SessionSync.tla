----------------------------- MODULE SessionSync -----------------------------
(***************************************************************************)
(* How a terminal console follows its session: the state stream of the     *)
(* orchestrator (a bounded queue for each subscriber, which drops what     *)
(* does not fit), the runs that publish to it, and the console, with its   *)
(* prompt loop and the goroutine watchSession beside it.                   *)
(*                                                                         *)
(* A run brings the message of its user, an answer and its end.  For each  *)
(* it writes a row and then publishes an update; the row has the time of   *)
(* the database, the update a time the run took before it wrote the row    *)
(* or, with a payload, after.  Time is a clock of a few milliseconds, so   *)
(* that several things happen in the same one.                             *)
(***************************************************************************)
EXTENDS Naturals, Sequences, SequencesExt, FiniteSets

CONSTANTS
  Own,        \* runs the console starts
  Others,     \* runs other clients start on the session
  Capacity,   \* updates a subscriber may be behind; 64 in the code
  MaxClock    \* bound of the model: milliseconds

ASSUME RunsDiffer == Own \cap Others = {}
ASSUME Counts == Capacity \in Nat \ {0} /\ MaxClock \in Nat

VARIABLES
  clock,
  rows,       \* the events of the session: messages, ended runs, latest time
  run,        \* each run: its phase, the time of its last row, whether cut off
  queue,      \* updates for the subscriber: [of, kind, ts]
  stream,     \* the subscription: "none", "open", "closed"
  con,        \* the prompt loop of the console
  watch,      \* watchSession: its seen and the update it works on
  newest,     \* history: newest time it was told of, apart from ignoreThrough
  busyAt,     \* history: the last time a request was active
  closed      \* history: own runs whose end was looked up, if the last look succeeded

server == <<rows, run, queue, stream>>
history == <<newest, busyAt, closed>>
vars == <<clock, server, con, watch, history>>

Runs == Own \cup Others
Later(a, b) == IF a >= b THEN a ELSE b
NoUpdate == [of |-> {}]

Init ==
  /\ clock = 1 /\ queue = <<>> /\ stream = "none"
  /\ rows = [ended |-> {}, time |-> 0]
  /\ run = [r \in Runs |-> [phase |-> "new", at |-> 0, cut |-> FALSE]]
  /\ con = [at |-> "start", of |-> {}, active |-> FALSE, ignoreThrough |-> 0]
  /\ watch = [seen |-> 0, held |-> NoUpdate, busy |-> FALSE]
  /\ newest = 0 /\ busyAt = 0 /\ closed = {}

Tick ==
  /\ clock < MaxClock
  /\ clock' = clock + 1
  /\ busyAt' = IF con.active THEN clock + 1 ELSE busyAt
  /\ UNCHANGED <<server, con, watch, newest, closed>>

-----------------------------------------------------------------------------
(* The orchestrator                                                        *)

(* The time of a step is kept while an update may have it.                 *)
Moves(r, from, to) ==
  /\ run[r].phase = from
  /\ run' = [run EXCEPT ![r].phase = to,
                        ![r].at = IF to \in {"userStored", "answerStored"} THEN clock ELSE 0]

(* AppendEvent.  A run whose client left has a cancelled context and       *)
(* writes nothing, but goes on.                                            *)
AppendEvent(r, ending) ==
  rows' = IF run[r].cut THEN rows
          ELSE [ended |-> rows.ended \cup ending, time |-> clock]

Offer(u) == IF Len(queue) < Capacity THEN Append(queue, u) ELSE queue

(* publishStateUpdate.                                                     *)
Publish(r, kind, time) ==
  queue' = IF stream = "open" THEN Offer([of |-> r, kind |-> kind, ts |-> time]) ELSE queue

(* A run whose client left ends with the first event it cannot send.       *)
NextPhase(r, phase) == IF run[r].cut THEN "done" ELSE phase

(* The update has a time taken before the row was written, perhaps a       *)
(* millisecond before; with a payload, the time of its publication.        *)
TakenBefore(r) == {run[r].at - 1, run[r].at} \ {0}

StoreUser(r) ==
  /\ Moves(r, IF r \in Own THEN "begun" ELSE "new", "userStored")
  /\ AppendEvent(r, {})
  /\ UNCHANGED <<clock, queue, stream, con, watch, history>>

PublishUser(r) ==
  /\ Moves(r, "userStored", NextPhase(r, "working"))
  /\ \E time \in TakenBefore(r) : Publish(r, "user", time)
  /\ UNCHANGED <<clock, rows, stream, con, watch, history>>

StoreAnswer(r) ==
  /\ Moves(r, "working", "answerStored")
  /\ AppendEvent(r, {})
  /\ UNCHANGED <<clock, queue, stream, con, watch, history>>

PublishAnswer(r) ==
  /\ Moves(r, "answerStored", NextPhase(r, "ending"))
  /\ \E time \in TakenBefore(r) \cup {clock} : Publish(r, "assistant", time)
  /\ UNCHANGED <<clock, rows, stream, con, watch, history>>

(* The row and the update of the end; nobody looks between the two.        *)
End(r) ==
  /\ Moves(r, "ending", "done")
  /\ AppendEvent(r, {r})
  /\ Publish(r, "complete", clock)
  /\ UNCHANGED <<clock, stream, con, watch, history>>

-----------------------------------------------------------------------------
(* The prompt loop                                                         *)

At(place) == con.at = place

(* The session is resumed before anything is subscribed to.                *)
Resume ==
  /\ At("start")
  /\ \/ /\ con' = [con EXCEPT !.at = "prompt", !.ignoreThrough = rows.time]
        /\ watch' = [watch EXCEPT !.seen = rows.time]
        /\ newest' = rows.time
     \/ con' = [con EXCEPT !.at = "prompt"] /\ UNCHANGED <<watch, newest>>
  /\ UNCHANGED <<clock, server, busyAt, closed>>

Ask(r) ==
  /\ At("prompt")
  /\ Moves(r, "new", "begun")
  /\ con' = [con EXCEPT !.at = "asked", !.of = r, !.active = TRUE]
  /\ busyAt' = clock
  /\ UNCHANGED <<clock, rows, queue, stream, watch, newest, closed>>

(* MUTANT of Reply: the request is over before its end is looked up.       *)
ReplyReleases ==
  /\ At("asked")
  /\ IF run[con.of].phase = "done" THEN UNCHANGED run
     ELSE run' = [run EXCEPT ![con.of].cut = TRUE]
  /\ con' = [con EXCEPT !.at = "replied", !.active = FALSE]
  /\ UNCHANGED <<clock, rows, queue, stream, watch, history>>

(* The reply stream ends when the run has sent its end, or breaks or       *)
(* times out before.                                                       *)
Reply ==
  /\ At("asked")
  /\ IF run[con.of].phase = "done" THEN UNCHANGED run
     ELSE run' = [run EXCEPT ![con.of].cut = TRUE]
  /\ con' = [con EXCEPT !.at = "replied"]
  /\ UNCHANGED <<clock, rows, queue, stream, watch, history>>

(* latestSessionTimestamp: 0 if the session cannot be read.                *)
LookUp ==
  /\ At("replied")
  /\ \/ /\ con' = [con EXCEPT !.at = "looked", !.ignoreThrough = rows.time]
        /\ closed' = closed \cup ({con.of} \cap rows.ended)
     \/ con' = [con EXCEPT !.at = "looked", !.ignoreThrough = 0] /\ closed' = {}
  /\ UNCHANGED <<clock, server, watch, newest, busyAt>>

Release ==
  /\ At("looked")
  /\ con' = [con EXCEPT !.at = "prompt", !.active = FALSE]
  /\ UNCHANGED <<clock, server, watch, history>>

-----------------------------------------------------------------------------
(* watchSession                                                            *)

Subscribe ==
  /\ ~At("start") /\ stream = "none"
  /\ stream' = "open"
  /\ UNCHANGED <<clock, rows, run, queue, con, watch, history>>

(* The stream breaks; the console goes on without it.                      *)
Unsubscribe ==
  /\ stream = "open"
  /\ stream' = "closed" /\ queue' = <<>>
  /\ watch' = [watch EXCEPT !.held = NoUpdate, !.busy = FALSE]
  /\ UNCHANGED <<clock, rows, run, con, history>>

Idle == watch.held = NoUpdate

Skip(seen) == watch' = [watch EXCEPT !.seen = seen]
Hold(u) == watch' = [seen |-> u.ts, held |-> u, busy |-> con.active]

(* MUTANT of Take: ignoreThrough is not looked at.                         *)
TakeAll ==
  /\ Idle /\ queue # <<>>
  /\ LET u == Head(queue) IN
       /\ IF u.ts <= watch.seen THEN Skip(watch.seen) ELSE Hold(u)
       /\ newest' = Later(newest, u.ts)
  /\ queue' = Tail(queue)
  /\ UNCHANGED <<clock, rows, run, stream, con, busyAt, closed>>

(* An update as old as what was seen, or as the end of the last request,   *)
(* is skipped.                                                             *)
Take ==
  /\ Idle /\ queue # <<>>
  /\ LET u == Head(queue)
         seen == Later(watch.seen, con.ignoreThrough)
     IN /\ IF u.ts <= seen THEN Skip(seen) ELSE Hold(u)
        /\ newest' = Later(newest, u.ts)
  /\ queue' = Tail(queue)
  /\ UNCHANGED <<clock, rows, run, stream, con, busyAt, closed>>

(* The request may have begun or ended since the update was taken.         *)
Show ==
  /\ ~Idle
  /\ watch' = [watch EXCEPT !.held = NoUpdate, !.busy = FALSE]
  /\ UNCHANGED <<clock, server, con, history>>

Printed == ~con.active /\ watch.held.kind # "complete"

-----------------------------------------------------------------------------
Work(r) == StoreUser(r) \/ PublishUser(r) \/ StoreAnswer(r) \/ PublishAnswer(r) \/ End(r)

Next ==
  \/ Tick
  \/ \E r \in Runs : Work(r)
  \/ \E r \in Own : Ask(r)
  \/ Resume \/ Reply \/ LookUp \/ Release
  \/ Subscribe \/ Unsubscribe \/ Take \/ Show

Spec == Init /\ [][Next]_vars

-----------------------------------------------------------------------------
(* The console prints its own messages only when the end of the request,   *)
(* or of a later one, could not be looked up, or when watchSession had     *)
(* taken the update before the request ended and looks at requestActive    *)
(* after.                                                                  *)
NoEcho ==
  [][Show /\ Printed /\ watch.held.of \in Own =>
       watch.held.of \notin closed \/ watch.busy]_vars

(* It skips a message of another client only if an update as new came      *)
(* before it, or if it was busy with a request then, whose end replaces    *)
(* the transcript.                                                         *)
SkipsOnlyOld ==
  [][Take /\ watch'.held = NoUpdate =>
       Head(queue).ts <= newest \/ Head(queue).ts <= busyAt]_vars
=============================================================================
