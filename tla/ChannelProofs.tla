--------------------------- MODULE ChannelProofs ---------------------------
(***************************************************************************)
(* Proofs about the two components whose goroutines share a buffered       *)
(* channel: ProcessTable, with a channel of one for the exit status of a   *)
(* process, for any number of processes and calls; and SessionSync, with   *)
(* the channel of a subscriber, for any runs, any capacity and any number  *)
(* of milliseconds.                                                        *)
(***************************************************************************)
EXTENDS ProcessTable, SessionSync, TLAPS

-----------------------------------------------------------------------------
(* Background processes                                                    *)

(* The status of a process that was waited for is in its channel, with a   *)
(* poll that will put it back, or was taken by a stop.                     *)
StatusSomewhere ==
  \A p \in Processes :
    proc[p] = "waited" => p \in done \/ p \in spent \/ \E c \in Callers : at[c] = "holding" /\ on[c] = p

(* Only an entry of a process that was started is in the table.            *)
ListedStarted == \A p \in table : proc[p] # "new"

TableInv == TypeOK /\ ListedStarted /\ StatusSomewhere

LEMMA InitTable == TableInit => TableInv
BY DEF TableInit, TableInv, TypeOK, ListedStarted, StatusSomewhere, Working, Returned

(* A step that moves no call from or to holding a status, and no process    *)
(* to its end, leaves every status where it is.                             *)
LEMMA StatusStays ==
  ASSUME TableInv, TypeOK',
         \A p \in Processes : proc'[p] = "waited" => proc[p] = "waited",
         done \subseteq done', spent \subseteq spent',
         \A c \in Callers : at[c] = "holding" => at'[c] = "holding" /\ on'[c] = on[c]
  PROVE  StatusSomewhere'
BY DEF TableInv, StatusSomewhere

LEMMA NextTable == TableInv /\ [TableNext]_tableVars => TableInv'
<1> SUFFICES ASSUME TableInv, [TableNext]_tableVars PROVE TableInv'
  OBVIOUS
<1> USE DEF system, past
<1>0. TypeOK /\ ListedStarted /\ StatusSomewhere
  BY DEF TableInv
<1>1. ASSUME NEW p \in Processes, Start(p) \/ Exit(p) PROVE TableInv'
  <2>1. TypeOK'
    BY <1>0, <1>1 DEF TypeOK, Start, Exit
  <2>2. ListedStarted'
    BY <1>0, <1>1 DEF TypeOK, ListedStarted, Start, Exit
  <2>3. StatusSomewhere'
    BY <1>0, <1>1, <2>1, StatusStays DEF TypeOK, Start, Exit
  <2> QED  BY <2>1, <2>2, <2>3 DEF TableInv
<1>2. ASSUME NEW p \in Processes, Wait(p) PROVE TableInv'
  <2>1. TypeOK'
    BY <1>0, <1>2 DEF TypeOK, Wait
  <2>2. ListedStarted'
    BY <1>0, <1>2 DEF TypeOK, ListedStarted, Wait
  <2>3. StatusSomewhere'
    BY <1>0, <1>2 DEF TypeOK, StatusSomewhere, Wait
  <2> QED  BY <2>1, <2>2, <2>3 DEF TableInv
<1>3. ASSUME NEW c \in Callers, NEW p \in Processes, NEW operation \in {"poll", "stop"},
             Find(c, p, operation)
      PROVE  TableInv'
  <2>1. TypeOK'
    BY <1>0, <1>3 DEF TypeOK, ListedStarted, Find, Go, Working, Returned
  <2>2. ListedStarted'
    BY <1>0, <1>3 DEF ListedStarted, Find
  <2>3. StatusSomewhere'
    BY <1>0, <1>3, <2>1, StatusStays DEF TypeOK, Find, Go, Working, Returned
  <2> QED  BY <2>1, <2>2, <2>3 DEF TableInv
<1>4. ASSUME NEW c \in Callers, Poll(c) PROVE TableInv'
  <2>1. TypeOK'
    BY <1>0, <1>4 DEF TypeOK, Poll, PollRunning, PollTake, PollPut, Go, Working, Returned
  <2>2. ListedStarted'
    BY <1>0, <1>4 DEF ListedStarted, Poll, PollRunning, PollTake, PollPut
  <2>3. StatusSomewhere'
    <3>1. CASE PollRunning(c)
      BY <1>0, <2>1, <3>1, StatusStays DEF TableInv, TypeOK, PollRunning, Go
    <3>2. CASE PollTake(c)
      <4>1. at'[c] = "holding" /\ on' = on /\ \A d \in Callers : at[d] = "holding" => at'[d] = "holding"
        BY <1>0, <3>2 DEF TypeOK, PollTake, Go
      <4> QED  BY <1>0, <3>2, <4>1 DEF StatusSomewhere, PollTake
    <3>3. CASE PollPut(c)
      <4>1. on' = on /\ \A d \in Callers : at[d] = "holding" /\ d # c => at'[d] = "holding"
        BY <1>0, <3>3 DEF TypeOK, PollPut, Go
      <4> QED  BY <1>0, <3>3, <4>1 DEF StatusSomewhere, PollPut
    <3> QED  BY <1>4, <3>1, <3>2, <3>3 DEF Poll
  <2> QED  BY <2>1, <2>2, <2>3 DEF TableInv
<1>5. ASSUME NEW c \in Callers, Stop(c) PROVE TableInv'
  <2>1. TypeOK'
    BY <1>0, <1>5 DEF TypeOK, Stop, Signal, StopTakes, StopTimesOut, Unlist, Go, Working, Returned
  <2>2. ListedStarted'
    BY <1>0, <1>5 DEF ListedStarted, Stop, Signal, StopTakes, StopTimesOut, Unlist
  <2>3. StatusSomewhere'
    <3>1. CASE StopTakes(c)
      <4>1. on' = on /\ \A d \in Callers : at[d] = "holding" => at'[d] = "holding"
        BY <1>0, <3>1 DEF TypeOK, StopTakes, Go
      <4> QED  BY <1>0, <3>1, <4>1 DEF StatusSomewhere, StopTakes
    <3>2. CASE Signal(c) \/ StopTimesOut(c) \/ Unlist(c)
      BY <1>0, <2>1, <3>2, StatusStays DEF TypeOK, Signal, StopTimesOut, Unlist, Go
    <3> QED  BY <1>5, <3>1, <3>2 DEF Stop
  <2> QED  BY <2>1, <2>2, <2>3 DEF TableInv
<1>6. CASE UNCHANGED tableVars
  BY <1>0, <1>6 DEF tableVars, TableInv, TypeOK, ListedStarted, StatusSomewhere
<1> QED  BY <1>1, <1>2, <1>3, <1>4, <1>5, <1>6 DEF TableNext, Call

LEMMA AlwaysTable == TableSpec => []TableInv
BY InitTable, NextTable, PTL DEF TableSpec

---------------------------------------------------------------------------
(* The variables keep their types, and a call works only on a process that  *)
(* was started.                                                             *)
THEOREM TypeCorrect == TableSpec => []TypeOK
<1>1. TableInv => TypeOK
  BY DEF TableInv
<1> QED  BY <1>1, AlwaysTable, PTL

(* A poll that calls an ended process running crossed another poll, which   *)
(* has the status in its hands, or came after a stop.                       *)
THEOREM PollsSeeExits == TableSpec => ExitSeen
<1>1. ASSUME TableInv, NEW c \in Callers, PollRunning(c), proc[on[c]] = "waited"
      PROVE  Holders(on[c]) # {} \/ on[c] \in spent
  <2>1. on[c] \in Processes /\ on[c] \notin done
    BY <1>1 DEF TableInv, TypeOK, PollRunning
  <2> QED  BY <1>1, <2>1 DEF TableInv, StatusSomewhere, Holders
<1>2. TableInv /\ [TableNext]_tableVars =>
        [\A c \in Callers : PollRunning(c) /\ proc[on[c]] = "waited" =>
           Holders(on[c]) # {} \/ on[c] \in spent]_tableVars
  BY <1>1
<1> QED  BY <1>2, AlwaysTable, PTL DEF TableSpec, ExitSeen

-----------------------------------------------------------------------------
(* The state stream                                                        *)

Stored == {"userStored", "answerStored"}
Phases == {"new", "begun", "working", "ending", "done"} \cup Stored
Updates == [of : Runs, kind : {"user", "assistant", "complete"}, ts : Nat]

(* The request of the console, from Ask to Release.                        *)
Places == {"start", "prompt"}
Asking == {"asked", "replied", "looked"}

(* The variables and their types; no time lies after the clock.            *)
ServerOK ==
  /\ clock \in Nat \ {0}
  /\ rows \in [ended : SUBSET Runs, time : 0 .. clock]
  /\ run \in [Runs -> [phase : Phases, at : 0 .. clock, cut : BOOLEAN]]
  /\ \A r \in Runs : run[r].phase \in Stored => run[r].at # 0
  /\ queue \in Seq(Updates)
  /\ \A i \in DOMAIN queue : queue[i].ts <= clock

ConsoleOK ==
  /\ con \in [at : Places \cup Asking, of : Own \cup {{}}, active : BOOLEAN, ignoreThrough : Nat]
  /\ watch \in [seen : Nat, held : Updates \cup {NoUpdate}, busy : BOOLEAN]
  /\ newest \in Nat /\ busyAt \in 0 .. clock
  /\ closed \subseteq Own

TypeInv == ServerOK /\ ConsoleOK

(* While a request is active, it is one of the console's runs, and the     *)
(* clock is the last time one was.                                         *)
BusyInv ==
  /\ con.active <=> con.at \in Asking
  /\ con.active => con.of \in Own /\ busyAt = clock

(* What the console lets pass is not newer than what it was told of or     *)
(* than its last request.                                                  *)
SkipInv ==
  /\ watch.seen <= Later(newest, busyAt)
  /\ con.ignoreThrough <= Later(newest, busyAt)

(* A run that has not stored the message of its user has no update, and a  *)
(* run that has stored its end has none with a later time.                 *)
RunsInv ==
  /\ \A r \in Runs : run[r].phase \in {"new", "begun"} =>
       /\ \A i \in DOMAIN queue : queue[i].of # r
       /\ ~Idle => watch.held.of # r
  /\ \A r \in rows.ended : run[r].phase = "done"
  /\ \A i \in DOMAIN queue : queue[i].of \in rows.ended => queue[i].ts <= rows.time

(* An update of a run whose end was looked up, and which waits in the      *)
(* queue, is old enough to be skipped; one taken while the run was asked   *)
(* for, or held when its end was looked up, was taken during the request.  *)
EchoInv ==
  /\ \A i \in DOMAIN queue : queue[i].of \in closed => queue[i].ts <= con.ignoreThrough
  /\ closed \subseteq rows.ended
  /\ con.ignoreThrough <= rows.time
  /\ ~Idle /\ con.active /\ watch.held.of = con.of => watch.busy
  /\ ~Idle /\ watch.held.of \in closed => watch.busy

SyncInv == TypeInv /\ BusyInv /\ SkipInv /\ RunsInv /\ EchoInv

-----------------------------------------------------------------------------
(* The queue                                                               *)

(* Nothing is not an update.                                               *)
LEMMA NothingIsNoUpdate == NoUpdate \notin Updates
<1>1. "kind" \notin DOMAIN NoUpdate
  BY DEF NoUpdate
<1>2. \A u \in Updates : "kind" \in DOMAIN u
  BY DEF Updates
<1> QED  BY <1>1, <1>2

(* What a run publishes has a time that does not lie after the clock.      *)
LEMMA TimesOK ==
  ASSUME TypeInv, NEW r \in Runs, run[r].phase \in Stored
  PROVE  TakenBefore(r) \subseteq 0 .. clock
BY DEF TypeInv, ServerOK, TakenBefore

(* An update is queued behind the others, or not at all.                   *)
LEMMA PublishQueues ==
  ASSUME queue \in Seq(Updates), NEW r \in Runs, NEW kind \in {"user", "assistant", "complete"},
         NEW time \in Nat, Publish(r, kind, time)
  PROVE  /\ queue' \in Seq(Updates)
         /\ \A i \in DOMAIN queue' :
              \/ i \in DOMAIN queue /\ queue'[i] = queue[i]
              \/ queue'[i].of = r /\ queue'[i].ts = time
<1> DEFINE u == [of |-> r, kind |-> kind, ts |-> time]
<1>1. u \in Updates /\ u.of = r /\ u.ts = time
  BY DEF Updates
<1>2. queue' = queue \/ queue' = Append(queue, u)
  BY DEF Publish, Offer
<1> HIDE DEF u
<1>3. CASE queue' = queue
  BY <1>3
<1>4. CASE queue' = Append(queue, u)
  BY <1>1, <1>4
<1> QED  BY <1>2, <1>3, <1>4

(* The oldest update leaves the queue.                                     *)
LEMMA TakeQueue ==
  ASSUME queue \in Seq(Updates), queue # <<>>, queue' = Tail(queue)
  PROVE  /\ Head(queue) \in Updates /\ Head(queue) = queue[1] /\ 1 \in DOMAIN queue
         /\ queue' \in Seq(Updates)
         /\ \A i \in DOMAIN queue' : i + 1 \in DOMAIN queue /\ queue'[i] = queue[i + 1]
OBVIOUS

-----------------------------------------------------------------------------
(* Types                                                                   *)

LEMMA InitSync == Init => SyncInv
<1> SUFFICES ASSUME Init PROVE SyncInv
  OBVIOUS
<1>1. Len(queue) = 0 /\ queue = <<>>
  BY DEF Init
<1>2. TypeInv
  BY RunsDiffer, Counts DEF Init, TypeInv, ServerOK, ConsoleOK, Phases, Stored, Places
<1>3. BusyInv /\ SkipInv
  BY DEF Init, BusyInv, SkipInv, Asking, Later
<1>4. RunsInv /\ EchoInv
  BY DEF Init, RunsInv, EchoInv, Idle, NoUpdate, Runs
<1> QED  BY <1>2, <1>3, <1>4 DEF SyncInv


-----------------------------------------------------------------------------
(* The steps of a run                                                      *)

(* A run goes from one phase to another, at a time that does not lie after *)
(* the clock.                                                              *)
LEMMA MovesRun ==
  ASSUME TypeInv, NEW r \in Runs, NEW from, NEW to \in Phases, Moves(r, from, to)
  PROVE  /\ run' \in [Runs -> [phase : Phases, at : 0 .. clock, cut : BOOLEAN]]
         /\ \A s \in Runs : run'[s].phase \in Stored => run'[s].at # 0
         /\ run[r].phase = from /\ run'[r].phase = to
         /\ \A s \in Runs \ {r} : run'[s] = run[s]
<1> DEFINE Run == [phase : Phases, at : 0 .. clock, cut : BOOLEAN]
           time == IF to \in {"userStored", "answerStored"} THEN clock ELSE 0
           new == [run[r] EXCEPT !.phase = to, !.at = time]
<1>1. run \in [Runs -> Run] /\ clock \in Nat \ {0} /\ run[r] \in Run
  BY DEF TypeInv, ServerOK
<1>2. time \in 0 .. clock /\ (to \in Stored => time # 0)
  BY <1>1 DEF Stored
<1>3. new \in Run /\ new.phase = to /\ new.at = time
  BY <1>1, <1>2
<1>4. run' = [run EXCEPT ![r] = new]
  BY DEF Moves
<1>5. run' \in [Runs -> Run] /\ run'[r] = new /\ \A s \in Runs \ {r} : run'[s] = run[s]
  BY <1>1, <1>3, <1>4
<1>6. \A s \in Runs : run[s].phase \in Stored => run[s].at # 0
  BY DEF TypeInv, ServerOK
<1> QED  BY <1>2, <1>3, <1>5, <1>6 DEF Moves

(* The time of the rows never goes back, and is at least that of a run     *)
(* that ends with a row of its own.                                        *)
LEMMA AppendRows ==
  ASSUME TypeInv, NEW r \in Runs, NEW ending \in SUBSET Runs, AppendEvent(r, ending)
  PROVE  /\ rows' \in [ended : SUBSET Runs, time : 0 .. clock]
         /\ rows.time <= rows'.time /\ rows.ended \subseteq rows'.ended
         /\ rows'.ended \subseteq rows.ended \cup ending
         /\ rows' = rows \/ rows'.time = clock
<1>1. rows \in [ended : SUBSET Runs, time : 0 .. clock] /\ clock \in Nat
  BY DEF TypeInv, ServerOK
<1>2. CASE rows' = rows
  BY <1>1, <1>2
<1>3. CASE rows' = [ended |-> rows.ended \cup ending, time |-> clock]
  BY <1>1, <1>3
<1> QED  BY <1>2, <1>3 DEF AppendEvent

(* What a step of a run leaves behind: the console, the clock and the      *)
(* queue's old updates stay, the run leaves a phase in which it is not     *)
(* over, and a new update is its own.                                      *)
RunStep(r) ==
  /\ UNCHANGED <<clock, stream, con, watch, history>>
  /\ run' \in [Runs -> [phase : Phases, at : 0 .. clock, cut : BOOLEAN]]
  /\ \A s \in Runs : run'[s].phase \in Stored => run'[s].at # 0
  /\ \A s \in Runs \ {r} : run'[s] = run[s]
  /\ run[r].phase # "done" /\ run'[r].phase \notin {"new", "begun"}
  /\ rows' \in [ended : SUBSET Runs, time : 0 .. clock]
  /\ rows.time <= rows'.time /\ rows.ended \subseteq rows'.ended
  /\ rows' = rows \/ rows'.time = clock
  /\ r \in rows'.ended \ rows.ended => run'[r].phase = "done" /\ rows'.time = clock
  /\ rows'.ended \subseteq rows.ended \cup {r}
  /\ queue' \in Seq(Updates)
  /\ \A i \in DOMAIN queue' :
       \/ i \in DOMAIN queue /\ queue'[i] = queue[i]
       \/ queue'[i].of = r /\ queue'[i].ts <= clock

LEMMA WorkSteps ==
  ASSUME TypeInv, NEW r \in Runs, Work(r)
  PROVE  RunStep(r)
<1>0. rows \in [ended : SUBSET Runs, time : 0 .. clock] /\ queue \in Seq(Updates) /\ clock \in Nat
  BY DEF TypeInv, ServerOK
<1>p. {"working", "ending", "done"} \cup Stored \subseteq Phases
  BY DEF Phases
<1>1. ASSUME NEW from \in {"new", "begun", "working"}, NEW to \in Stored,
             Moves(r, from, to), AppendEvent(r, {}),
             UNCHANGED <<clock, queue, stream, con, watch, history>>
      PROVE  RunStep(r)
  <2>1. rows' \in [ended : SUBSET Runs, time : 0 .. clock]
        /\ rows.time <= rows'.time /\ rows'.ended = rows.ended
        /\ (rows' = rows \/ rows'.time = clock)
    BY <1>1, AppendRows
  <2> QED
    BY <1>0, <1>1, <1>p, <2>1, MovesRun DEF RunStep, Stored
<1>2. ASSUME NEW from \in Stored, NEW to \in {"working", "ending", "done"},
             Moves(r, from, to), NEW kind \in {"user", "assistant"},
             NEW time \in 0 .. clock, Publish(r, kind, time),
             UNCHANGED <<clock, rows, stream, con, watch, history>>
      PROVE  RunStep(r)
  <2>1. /\ queue' \in Seq(Updates)
        /\ \A i \in DOMAIN queue' :
             \/ i \in DOMAIN queue /\ queue'[i] = queue[i]
             \/ queue'[i].of = r /\ queue'[i].ts = time
    BY <1>0, <1>2, PublishQueues
  <2>2. /\ run' \in [Runs -> [phase : Phases, at : 0 .. clock, cut : BOOLEAN]]
        /\ \A s \in Runs : run'[s].phase \in Stored => run'[s].at # 0
        /\ run[r].phase = from /\ run'[r].phase = to
        /\ \A s \in Runs \ {r} : run'[s] = run[s]
    BY <1>2, <1>p, MovesRun
  <2> QED
    BY <1>0, <1>2, <2>1, <2>2 DEF RunStep, Stored
<1>3. CASE StoreUser(r)
  BY <1>1, <1>3 DEF StoreUser, Stored
<1>4. CASE PublishUser(r)
  <2>1. PICK time \in TakenBefore(r) : Publish(r, "user", time)
    BY <1>4 DEF PublishUser
  <2>2. run[r].phase \in Stored /\ NextPhase(r, "working") \in {"working", "done"}
    BY <1>4 DEF PublishUser, Moves, Stored, NextPhase
  <2>3. time \in 0 .. clock
    BY <2>1, <2>2, TimesOK
  <2> QED  BY <1>2, <1>4, <2>1, <2>2, <2>3 DEF PublishUser, Stored
<1>5. CASE StoreAnswer(r)
  BY <1>1, <1>5 DEF StoreAnswer, Stored
<1>6. CASE PublishAnswer(r)
  <2>1. PICK time \in TakenBefore(r) \cup {clock} : Publish(r, "assistant", time)
    BY <1>6 DEF PublishAnswer
  <2>2. run[r].phase \in Stored /\ NextPhase(r, "ending") \in {"ending", "done"}
    BY <1>6 DEF PublishAnswer, Moves, Stored, NextPhase
  <2>3. time \in 0 .. clock
    BY <1>0, <2>1, <2>2, TimesOK
  <2> QED  BY <1>2, <1>6, <2>1, <2>2, <2>3 DEF PublishAnswer, Stored
<1>7. CASE End(r)
  <2>1. /\ queue' \in Seq(Updates)
        /\ \A i \in DOMAIN queue' :
             \/ i \in DOMAIN queue /\ queue'[i] = queue[i]
             \/ queue'[i].of = r /\ queue'[i].ts = clock
    BY <1>0, <1>7, PublishQueues DEF End
  <2>2. /\ run' \in [Runs -> [phase : Phases, at : 0 .. clock, cut : BOOLEAN]]
        /\ \A s \in Runs : run'[s].phase \in Stored => run'[s].at # 0
        /\ run[r].phase = "ending" /\ run'[r].phase = "done"
        /\ \A s \in Runs \ {r} : run'[s] = run[s]
    BY <1>7, <1>p, MovesRun DEF End
  <2>3. /\ rows' \in [ended : SUBSET Runs, time : 0 .. clock]
        /\ rows.time <= rows'.time /\ rows.ended \subseteq rows'.ended
        /\ rows'.ended \subseteq rows.ended \cup {r}
        /\ rows' = rows \/ rows'.time = clock
    BY <1>7, AppendRows DEF End
  <2> QED
    BY <1>0, <1>7, <2>1, <2>2, <2>3 DEF RunStep, End
<1> QED  BY <1>3, <1>4, <1>5, <1>6, <1>7 DEF Work

LEMMA RunKeeps ==
  ASSUME SyncInv, NEW r \in Runs, RunStep(r)
  PROVE  SyncInv'
<1>0. TypeInv /\ BusyInv /\ SkipInv /\ RunsInv /\ EchoInv
  BY DEF SyncInv
<1>1. TypeInv'
  BY <1>0 DEF TypeInv, ServerOK, ConsoleOK, RunStep, history
<1>2. BusyInv' /\ SkipInv'
  BY <1>0 DEF BusyInv, SkipInv, RunStep, history
<1>3. \A i \in DOMAIN queue' : queue'[i].ts \in Nat /\ queue'[i].ts <= clock
  <2>1. queue' \in Seq(Updates) /\ \A i \in DOMAIN queue' : queue'[i].ts <= clock
    BY <1>1 DEF TypeInv, ServerOK, RunStep
  <2>2. \A i \in DOMAIN queue' : queue'[i] \in Updates
    BY <2>1
  <2> QED  BY <2>1, <2>2 DEF Updates
<1>4. RunsInv'
  <2>1. \A s \in Runs : run'[s].phase \in {"new", "begun"} =>
          s # r /\ run[s].phase \in {"new", "begun"}
    BY DEF RunStep
  <2>2. \A s \in Runs : run'[s].phase \in {"new", "begun"} =>
          /\ \A i \in DOMAIN queue' : queue'[i].of # s
          /\ ~Idle' => watch'.held.of # s
    BY <1>0, <2>1 DEF RunStep, RunsInv, Idle
  <2>3. \A s \in rows'.ended : run'[s].phase = "done"
    BY <1>0 DEF RunStep, RunsInv
  <2>4. ASSUME NEW i \in DOMAIN queue', queue'[i].of \in rows'.ended
        PROVE  queue'[i].ts <= rows'.time
    <3>1. CASE rows'.time = clock
      BY <1>3, <3>1
    <3>2. CASE rows' = rows
      <4>1. queue'[i].of # r
        BY <1>0, <2>4, <3>2 DEF RunStep, RunsInv
      <4> QED  BY <1>0, <2>4, <3>2, <4>1 DEF RunStep, RunsInv
    <3> QED  BY <3>1, <3>2 DEF RunStep
  <2> QED  BY <2>2, <2>3, <2>4 DEF RunsInv
<1>5. EchoInv'
  <2>1. closed \subseteq rows.ended /\ r \notin closed
    BY <1>0 DEF EchoInv, RunsInv, RunStep
  <2>2. con.ignoreThrough <= rows'.time
    BY <1>0, <1>1 DEF EchoInv, RunStep, TypeInv, ServerOK, ConsoleOK
  <2> QED
    BY <1>0, <2>1, <2>2 DEF EchoInv, RunStep, history, Idle
<1> QED  BY <1>1, <1>2, <1>4, <1>5 DEF SyncInv


-----------------------------------------------------------------------------
(* The steps of time and of the prompt loop                                *)

LEMMA TickKeeps ==
  ASSUME SyncInv, Tick
  PROVE  SyncInv'
<1>0. TypeInv /\ BusyInv /\ SkipInv /\ RunsInv /\ EchoInv
  BY DEF SyncInv
<1>1. TypeInv'
  <2>1. clock \in Nat /\ clock' = clock + 1 /\ 0 .. clock \subseteq 0 .. clock'
    BY <1>0 DEF Tick, TypeInv, ServerOK
  <2>2. run' \in [Runs -> [phase : Phases, at : 0 .. clock', cut : BOOLEAN]]
    <3>1. \A r \in Runs : run[r] \in [phase : Phases, at : 0 .. clock', cut : BOOLEAN]
      BY <1>0, <2>1 DEF TypeInv, ServerOK
    <3> QED  BY <1>0, <3>1 DEF TypeInv, ServerOK, Tick, server
  <2>3. queue \in Seq(Updates) /\ \A i \in DOMAIN queue : queue[i] \in Updates
    BY <1>0 DEF TypeInv, ServerOK
  <2>4. ServerOK'
    BY <1>0, <2>1, <2>2, <2>3 DEF TypeInv, ServerOK, Tick, server, Updates
  <2>5. ConsoleOK'
    BY <1>0, <2>1 DEF TypeInv, ServerOK, ConsoleOK, Tick
  <2> QED  BY <2>4, <2>5 DEF TypeInv
<1>2. BusyInv' /\ SkipInv'
  BY <1>0 DEF BusyInv, SkipInv, Tick, Later, TypeInv, ServerOK, ConsoleOK
<1>3. RunsInv' /\ EchoInv'
  BY <1>0 DEF RunsInv, EchoInv, Tick, server, Idle
<1> QED  BY <1>1, <1>2, <1>3 DEF SyncInv

LEMMA ResumeKeeps ==
  ASSUME SyncInv, Resume
  PROVE  SyncInv'
<1>0. TypeInv /\ BusyInv /\ SkipInv /\ RunsInv /\ EchoInv
  BY DEF SyncInv
<1>1. /\ UNCHANGED <<clock, rows, run, queue, stream, busyAt, closed>>
      /\ con' \in [at : Places \cup Asking, of : Own \cup {{}}, active : BOOLEAN, ignoreThrough : Nat]
      /\ con.at = "start" /\ con'.at = "prompt" /\ con'.of = con.of /\ con'.active = con.active
      /\ watch' \in [seen : Nat, held : Updates \cup {NoUpdate}, busy : BOOLEAN]
      /\ watch'.held = watch.held /\ watch'.busy = watch.busy /\ newest' \in Nat
      /\ \/ con'.ignoreThrough = rows.time /\ watch'.seen = rows.time /\ newest' = rows.time
         \/ con'.ignoreThrough = con.ignoreThrough /\ watch' = watch /\ newest' = newest
  <2>1. /\ con \in [at : Places \cup Asking, of : Own \cup {{}}, active : BOOLEAN, ignoreThrough : Nat]
        /\ watch \in [seen : Nat, held : Updates \cup {NoUpdate}, busy : BOOLEAN]
        /\ newest \in Nat /\ rows.time \in Nat /\ "prompt" \in Places
    BY <1>0 DEF TypeInv, ServerOK, ConsoleOK, Places
  <2>2. con.at = "start" /\ UNCHANGED <<clock, rows, run, queue, stream, busyAt, closed>>
    BY DEF Resume, At, server
  <2>3. CASE /\ con' = [con EXCEPT !.at = "prompt", !.ignoreThrough = rows.time]
             /\ watch' = [watch EXCEPT !.seen = rows.time] /\ newest' = rows.time
    BY <2>1, <2>2, <2>3
  <2>4. CASE con' = [con EXCEPT !.at = "prompt"] /\ UNCHANGED <<watch, newest>>
    BY <2>1, <2>2, <2>4
  <2> QED  BY <2>3, <2>4 DEF Resume
<1>2. TypeInv'
  BY <1>0, <1>1 DEF TypeInv, ServerOK, ConsoleOK
<1>3. BusyInv' /\ SkipInv'
  BY <1>0, <1>1 DEF BusyInv, SkipInv, Later, Asking, TypeInv, ServerOK, ConsoleOK
<1>4. rows.time \in Nat /\ con.ignoreThrough \in Nat /\ \A i \in DOMAIN queue : queue[i].ts \in Nat
  <2>1. queue \in Seq(Updates)
    BY <1>0 DEF TypeInv, ServerOK
  <2>2. \A i \in DOMAIN queue : queue[i] \in Updates
    BY <2>1
  <2> QED  BY <1>0, <2>2 DEF TypeInv, ServerOK, ConsoleOK, Updates
<1>5. RunsInv' /\ EchoInv'
  BY <1>0, <1>1, <1>4 DEF RunsInv, EchoInv, Idle
<1> QED  BY <1>2, <1>3, <1>5 DEF SyncInv

LEMMA AskKeeps ==
  ASSUME SyncInv, NEW r \in Own, Ask(r)
  PROVE  SyncInv'
<1>0. TypeInv /\ BusyInv /\ SkipInv /\ RunsInv /\ EchoInv /\ r \in Runs
  BY DEF SyncInv, Runs
<1>1. /\ UNCHANGED <<clock, rows, queue, stream, watch, newest, closed>>
      /\ con' \in [at : Places \cup Asking, of : Own \cup {{}}, active : BOOLEAN, ignoreThrough : Nat]
      /\ con'.at = "asked" /\ con'.of = r /\ con'.active /\ con'.ignoreThrough = con.ignoreThrough
      /\ busyAt' = clock
  BY <1>0 DEF Ask, TypeInv, ConsoleOK, Asking
<1>2. /\ run' \in [Runs -> [phase : Phases, at : 0 .. clock, cut : BOOLEAN]]
      /\ \A s \in Runs : run'[s].phase \in Stored => run'[s].at # 0
      /\ run[r].phase = "new" /\ run'[r].phase = "begun"
      /\ \A s \in Runs \ {r} : run'[s] = run[s]
  BY <1>0, MovesRun DEF Ask, Phases
<1>3. TypeInv'
  BY <1>0, <1>1, <1>2 DEF TypeInv, ServerOK, ConsoleOK
<1>4. BusyInv' /\ SkipInv'
  BY <1>0, <1>1 DEF BusyInv, SkipInv, Later, Asking, TypeInv, ServerOK, ConsoleOK
<1>5. RunsInv'
  <2>1. \A s \in Runs : run'[s].phase \in {"new", "begun"} => run[s].phase \in {"new", "begun"}
    BY <1>2
  <2>2. rows.ended \subseteq Runs /\ r \notin rows.ended
    BY <1>0, <1>2 DEF RunsInv, TypeInv, ServerOK
  <2> QED  BY <1>0, <1>1, <1>2, <2>1, <2>2 DEF RunsInv, Idle
<1>6. EchoInv'
  BY <1>0, <1>1, <1>2 DEF EchoInv, RunsInv, Idle
<1> QED  BY <1>3, <1>4, <1>5, <1>6 DEF SyncInv

LEMMA ReplyKeeps ==
  ASSUME SyncInv, Reply
  PROVE  SyncInv'
<1>0. TypeInv /\ BusyInv /\ SkipInv /\ RunsInv /\ EchoInv
  BY DEF SyncInv
<1>1. /\ UNCHANGED <<clock, rows, queue, stream, watch, history>>
      /\ con' \in [at : Places \cup Asking, of : Own \cup {{}}, active : BOOLEAN, ignoreThrough : Nat]
      /\ con.at = "asked" /\ con'.at = "replied" /\ con'.of = con.of /\ con'.active = con.active
      /\ con'.ignoreThrough = con.ignoreThrough
  BY <1>0 DEF Reply, At, TypeInv, ConsoleOK, Asking
<1>2. /\ run' \in [Runs -> [phase : Phases, at : 0 .. clock, cut : BOOLEAN]]
      /\ \A s \in Runs : run'[s].phase = run[s].phase /\ run'[s].at = run[s].at
  <2>1. run \in [Runs -> [phase : Phases, at : 0 .. clock, cut : BOOLEAN]]
    BY <1>0 DEF TypeInv, ServerOK
  <2>2. run' = run \/ run' = [run EXCEPT ![con.of].cut = TRUE]
    BY DEF Reply
  <2>3. CASE run' = [run EXCEPT ![con.of].cut = TRUE]
    <3>1. \A s \in Runs : /\ [run[s] EXCEPT !.cut = TRUE] \in [phase : Phases, at : 0 .. clock, cut : BOOLEAN]
                          /\ [run[s] EXCEPT !.cut = TRUE].phase = run[s].phase
                          /\ [run[s] EXCEPT !.cut = TRUE].at = run[s].at
      BY <2>1
    <3>2. \A s \in Runs : run'[s] \in {run[s], [run[s] EXCEPT !.cut = TRUE]}
      BY <2>1, <2>3
    <3>3. run' \in [Runs -> [phase : Phases, at : 0 .. clock, cut : BOOLEAN]]
      BY <2>1, <2>3, <3>1
    <3> QED  BY <3>1, <3>2, <3>3
  <2> QED  BY <2>1, <2>2, <2>3
<1>3. TypeInv'
  BY <1>0, <1>1, <1>2 DEF TypeInv, ServerOK, ConsoleOK, history
<1>4. BusyInv' /\ SkipInv'
  BY <1>0, <1>1 DEF BusyInv, SkipInv, Asking, history
<1>5. RunsInv' /\ EchoInv'
  <2>1. rows.ended \subseteq Runs
    BY <1>0 DEF TypeInv, ServerOK
  <2> QED  BY <1>0, <1>1, <1>2, <2>1 DEF RunsInv, EchoInv, Idle, history
<1> QED  BY <1>3, <1>4, <1>5 DEF SyncInv

LEMMA LookUpKeeps ==
  ASSUME SyncInv, LookUp
  PROVE  SyncInv'
<1>0. TypeInv /\ BusyInv /\ SkipInv /\ RunsInv /\ EchoInv
  BY DEF SyncInv
<1>1. /\ UNCHANGED <<clock, rows, run, queue, stream, watch, newest, busyAt>>
      /\ con' \in [at : Places \cup Asking, of : Own \cup {{}}, active : BOOLEAN, ignoreThrough : Nat]
      /\ con.at = "replied" /\ con'.at = "looked" /\ con'.of = con.of /\ con'.active = con.active
      /\ \/ con'.ignoreThrough = rows.time /\ closed' = closed \cup ({con.of} \cap rows.ended)
         \/ con'.ignoreThrough = 0 /\ closed' = {}
  <2>1. /\ con \in [at : Places \cup Asking, of : Own \cup {{}}, active : BOOLEAN, ignoreThrough : Nat]
        /\ rows.time \in Nat /\ "looked" \in Asking
    BY <1>0 DEF TypeInv, ServerOK, ConsoleOK, Asking
  <2>2. con.at = "replied" /\ UNCHANGED <<clock, rows, run, queue, stream, watch, newest, busyAt>>
    BY DEF LookUp, At, server
  <2>3. CASE /\ con' = [con EXCEPT !.at = "looked", !.ignoreThrough = rows.time]
             /\ closed' = closed \cup ({con.of} \cap rows.ended)
    BY <2>1, <2>2, <2>3
  <2>4. CASE con' = [con EXCEPT !.at = "looked", !.ignoreThrough = 0] /\ closed' = {}
    BY <2>1, <2>2, <2>4
  <2> QED  BY <2>3, <2>4 DEF LookUp
<1>2. con.active /\ con.of \in Own /\ busyAt = clock
  BY <1>0, <1>1 DEF BusyInv, Asking
<1>3. TypeInv'
  BY <1>0, <1>1, <1>2 DEF TypeInv, ServerOK, ConsoleOK
<1>4. BusyInv' /\ SkipInv'
  BY <1>0, <1>1, <1>2 DEF BusyInv, SkipInv, Later, Asking, TypeInv, ServerOK, ConsoleOK
<1>5. rows.time \in Nat /\ con.ignoreThrough \in Nat /\ \A i \in DOMAIN queue : queue[i].ts \in Nat
  <2>1. queue \in Seq(Updates)
    BY <1>0 DEF TypeInv, ServerOK
  <2>2. \A i \in DOMAIN queue : queue[i] \in Updates
    BY <2>1
  <2> QED  BY <1>0, <2>2 DEF TypeInv, ServerOK, ConsoleOK, Updates
<1>6. RunsInv' /\ EchoInv'
  BY <1>0, <1>1, <1>2, <1>5 DEF RunsInv, EchoInv, Idle
<1> QED  BY <1>3, <1>4, <1>6 DEF SyncInv

LEMMA ReleaseKeeps ==
  ASSUME SyncInv, Release
  PROVE  SyncInv'
<1>0. TypeInv /\ BusyInv /\ SkipInv /\ RunsInv /\ EchoInv
  BY DEF SyncInv
<1>1. /\ UNCHANGED <<clock, server, watch, history>>
      /\ con' \in [at : Places \cup Asking, of : Own \cup {{}}, active : BOOLEAN, ignoreThrough : Nat]
      /\ con'.at = "prompt" /\ ~con'.active /\ con'.ignoreThrough = con.ignoreThrough
  BY <1>0 DEF Release, TypeInv, ConsoleOK, Places
<1>2. TypeInv'
  BY <1>0, <1>1 DEF TypeInv, ServerOK, ConsoleOK, server, history
<1>3. BusyInv' /\ SkipInv' /\ RunsInv' /\ EchoInv'
  BY <1>0, <1>1 DEF BusyInv, SkipInv, RunsInv, EchoInv, server, history, Idle, Asking
<1> QED  BY <1>2, <1>3 DEF SyncInv


-----------------------------------------------------------------------------
(* The steps of watchSession                                               *)

LEMMA SubscriptionKeeps ==
  ASSUME SyncInv, Subscribe \/ Unsubscribe
  PROVE  SyncInv'
<1>0. TypeInv /\ BusyInv /\ SkipInv /\ RunsInv /\ EchoInv
  BY DEF SyncInv
<1>1. CASE Subscribe
  BY <1>0, <1>1 DEF Subscribe, history, SyncInv, TypeInv, ServerOK, ConsoleOK, BusyInv,
                    SkipInv, RunsInv, EchoInv, Idle
<1>2. CASE Unsubscribe
  <2>1. /\ UNCHANGED <<clock, rows, run, con, history>>
        /\ queue' = <<>> /\ watch'.seen = watch.seen /\ watch'.held = NoUpdate
        /\ watch' \in [seen : Nat, held : Updates \cup {NoUpdate}, busy : BOOLEAN]
    BY <1>0, <1>2 DEF Unsubscribe, TypeInv, ConsoleOK
  <2>2. queue' \in Seq(Updates) /\ DOMAIN queue' = {}
    BY <2>1
  <2>3. TypeInv'
    BY <1>0, <2>1, <2>2 DEF TypeInv, ServerOK, ConsoleOK, history
  <2>4. BusyInv' /\ SkipInv' /\ RunsInv' /\ EchoInv'
    BY <1>0, <2>1, <2>2 DEF BusyInv, SkipInv, RunsInv, EchoInv, Idle, history
  <2> QED  BY <2>3, <2>4 DEF SyncInv
<1> QED  BY <1>1, <1>2

(* What is skipped is not newer than what the console was told of, or than *)
(* its last request.                                                       *)
LEMMA SkippedIsOld ==
  ASSUME SyncInv, Take, watch'.held = NoUpdate
  PROVE  Head(queue).ts <= newest \/ Head(queue).ts <= busyAt
<1>0. TypeInv /\ SkipInv
  BY DEF SyncInv
<1> DEFINE u == Head(queue)
           seen == Later(watch.seen, con.ignoreThrough)
<1>1. u \in Updates
  BY <1>0, TakeQueue DEF Take, TypeInv, ServerOK
<1>2. u.ts <= seen
  <2>1. ~ (u.ts <= seen) => watch'.held = u
    BY DEF Take, Hold
  <2> QED  BY <1>1, <2>1, NothingIsNoUpdate
<1>3. watch.seen \in Nat /\ con.ignoreThrough \in Nat /\ newest \in Nat /\ busyAt \in Nat /\ u.ts \in Nat
  BY <1>0, <1>1 DEF TypeInv, ServerOK, ConsoleOK, Updates
<1> QED  BY <1>0, <1>2, <1>3 DEF SkipInv, Later

LEMMA TakeKeeps ==
  ASSUME SyncInv, Take
  PROVE  SyncInv'
<1>0. TypeInv /\ BusyInv /\ SkipInv /\ RunsInv /\ EchoInv
  BY DEF SyncInv
<1> DEFINE u == Head(queue)
           seen == Later(watch.seen, con.ignoreThrough)
<1>1. /\ u \in Updates /\ u = queue[1] /\ 1 \in DOMAIN queue /\ queue' \in Seq(Updates)
      /\ \A i \in DOMAIN queue' : i + 1 \in DOMAIN queue /\ queue'[i] = queue[i + 1]
  BY <1>0, TakeQueue DEF Take, TypeInv, ServerOK
<1>2. /\ UNCHANGED <<clock, rows, run, stream, con, busyAt, closed>>
      /\ newest' = Later(newest, u.ts) /\ Idle
  BY DEF Take
<1>3. /\ watch.seen \in Nat /\ con.ignoreThrough \in Nat /\ newest \in Nat /\ busyAt \in Nat
      /\ u.ts \in Nat /\ u.of \in Runs /\ watch.held = NoUpdate
      /\ watch \in [seen : Nat, held : Updates \cup {NoUpdate}, busy : BOOLEAN]
      /\ con.active \in BOOLEAN
  BY <1>0, <1>1, <1>2 DEF TypeInv, ServerOK, ConsoleOK, Updates, Idle
<1>4. \/ /\ u.ts <= seen /\ watch' = [watch EXCEPT !.seen = seen]
      \/ /\ ~ (u.ts <= seen) /\ watch' = [seen |-> u.ts, held |-> u, busy |-> con.active]
  BY DEF Take, Skip, Hold
<1>5. seen \in Nat /\ newest' \in Nat /\ newest <= newest' /\ u.ts <= newest'
  BY <1>2, <1>3 DEF Later
<1> HIDE DEF u
<1>6. \/ /\ u.ts <= seen /\ watch'.seen = seen /\ watch'.held = NoUpdate
      \/ /\ ~ (u.ts <= seen) /\ watch'.seen = u.ts /\ watch'.held = u /\ watch'.busy = con.active
  BY <1>3, <1>4
<1>7. watch' \in [seen : Nat, held : Updates \cup {NoUpdate}, busy : BOOLEAN]
  BY <1>1, <1>3, <1>4, <1>5
<1>8. TypeInv'
  BY <1>0, <1>1, <1>2, <1>5, <1>7 DEF TypeInv, ServerOK, ConsoleOK
<1>9. BusyInv' /\ SkipInv'
  <2>1. BusyInv'
    BY <1>0, <1>2 DEF BusyInv
  <2>2. con.ignoreThrough <= Later(newest', busyAt)
    BY <1>0, <1>3, <1>5 DEF SkipInv, Later
  <2>3. watch'.seen <= Later(newest', busyAt)
    BY <1>0, <1>3, <1>5, <1>6 DEF SkipInv, Later
  <2> QED  BY <1>2, <2>1, <2>2, <2>3 DEF SkipInv
<1>10. RunsInv'
  BY <1>0, <1>1, <1>2, <1>6 DEF RunsInv, Idle
<1>11. EchoInv'
  <2>1. u.of \in closed => u.ts <= seen
    BY <1>0, <1>1, <1>3 DEF EchoInv, Later
  <2>2. ~Idle' => watch'.held.of \notin closed /\ watch'.busy = con.active
    BY <1>6, <2>1 DEF Idle
  <2> QED  BY <1>0, <1>1, <1>2, <2>2 DEF EchoInv
<1> QED  BY <1>8, <1>9, <1>10, <1>11 DEF SyncInv

LEMMA ShowKeeps ==
  ASSUME SyncInv, Show
  PROVE  SyncInv'
<1>0. TypeInv /\ BusyInv /\ SkipInv /\ RunsInv /\ EchoInv
  BY DEF SyncInv
<1>1. /\ UNCHANGED <<clock, server, con, history>>
      /\ watch'.seen = watch.seen /\ watch'.held = NoUpdate
      /\ watch' \in [seen : Nat, held : Updates \cup {NoUpdate}, busy : BOOLEAN]
  BY <1>0 DEF Show, TypeInv, ConsoleOK
<1>2. TypeInv'
  BY <1>0, <1>1 DEF TypeInv, ServerOK, ConsoleOK, server, history
<1>3. BusyInv' /\ SkipInv' /\ RunsInv' /\ EchoInv'
  BY <1>0, <1>1 DEF BusyInv, SkipInv, RunsInv, EchoInv, Idle, server, history
<1> QED  BY <1>2, <1>3 DEF SyncInv

LEMMA NextSync == SyncInv /\ [Next]_vars => SyncInv'
<1> SUFFICES ASSUME SyncInv, [Next]_vars PROVE SyncInv'
  OBVIOUS
<1>1. CASE UNCHANGED vars
  BY <1>1 DEF vars, server, history, SyncInv, TypeInv, ServerOK, ConsoleOK, BusyInv,
              SkipInv, RunsInv, EchoInv, Idle
<1>2. ASSUME NEW r \in Runs, Work(r) PROVE SyncInv'
  BY <1>2, WorkSteps, RunKeeps DEF SyncInv
<1> QED
  BY <1>1, <1>2, TickKeeps, AskKeeps, ResumeKeeps, ReplyKeeps, LookUpKeeps, ReleaseKeeps,
     SubscriptionKeeps, TakeKeeps, ShowKeeps DEF Next

LEMMA AlwaysSync == Spec => []SyncInv
BY InitSync, NextSync, PTL DEF Spec

-----------------------------------------------------------------------------
(* A message of the console's own run is printed only if the end of that   *)
(* run, or of a later one, could not be looked up, or if watchSession had  *)
(* taken it during the request and looked at requestActive after.          *)
THEOREM OwnNotPrinted == Spec => NoEcho
<1>1. SyncInv /\ [Next]_vars =>
        [Show /\ Printed /\ watch.held.of \in Own =>
           watch.held.of \notin closed \/ watch.busy]_vars
  BY DEF SyncInv, EchoInv, Show
<1> QED  BY <1>1, AlwaysSync, PTL DEF Spec, NoEcho

(* An update the console does not act on has no later time than one that   *)
(* came before it, or than the last moment of the console's own request.   *)
THEOREM NothingNewSkipped == Spec => SkipsOnlyOld
<1>1. SyncInv /\ [Next]_vars =>
        [Take /\ watch'.held = NoUpdate =>
           Head(queue).ts <= newest \/ Head(queue).ts <= busyAt]_vars
  BY SkippedIsOld
<1> QED  BY <1>1, AlwaysSync, PTL DEF Spec, SkipsOnlyOld
=============================================================================
