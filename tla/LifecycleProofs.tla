--------------------------- MODULE LifecycleProofs ---------------------------
(***************************************************************************)
(* Proofs about Lifecycle, for any services and options: a new session     *)
(* before anything starts, what an up that returns has brought up, in      *)
(* which order, and what a down leaves.                                    *)
(***************************************************************************)
EXTENDS Lifecycle, TLAPS

IsPlan(plan) == plan \in Seq({plan[i] : i \in DOMAIN plan})

(* A plan that starts no container. *)
StartsNothing(plan) == \A i \in 1 .. Len(plan) : plan[i].do # "start"

(* What can follow a rotation, or be left of a command that has no more     *)
(* rotation to do.                                                          *)
RotatesFirst(plan) == plan # << >> /\ plan[1].do = "rotate"

LEMMA PlanOver ==
  ASSUME NEW S, NEW plan \in Seq(S)
  PROVE  IsPlan(plan)
BY DEF IsPlan

LEMMA PlanIsOver ==
  ASSUME NEW p, IsPlan(p)
  PROVE  \E S : p \in Seq(S)
BY DEF IsPlan

LEMMA Concatenated ==
  ASSUME NEW p, NEW q, IsPlan(p), IsPlan(q)
  PROVE  /\ IsPlan(p \o q)
         /\ Len(p \o q) = Len(p) + Len(q) /\ Len(p) \in Nat /\ Len(q) \in Nat
         /\ \A i \in 1 .. Len(p) : (p \o q)[i] = p[i]
         /\ \A i \in (Len(p) + 1) .. (Len(p) + Len(q)) : (p \o q)[i] = q[i - Len(p)]
<1>1. PICK S : p \in Seq(S)
  BY PlanIsOver
<1>2. PICK T : q \in Seq(T)
  BY PlanIsOver
<1> DEFINE U == S \cup T
<1>3. p \in Seq(U) /\ q \in Seq(U)
  BY <1>1, <1>2
<1>4. p \o q \in Seq(U)
  BY <1>3
<1> HIDE DEF U
<1>5. IsPlan(p \o q)
  BY <1>4, PlanOver
<1> QED  BY <1>3, <1>5

LEMMA ConcatStartsNothing ==
  ASSUME NEW p, NEW q, IsPlan(p), IsPlan(q), StartsNothing(p), StartsNothing(q)
  PROVE  StartsNothing(p \o q)
<1> SUFFICES ASSUME NEW i \in 1 .. Len(p \o q) PROVE (p \o q)[i].do # "start"
  BY DEF StartsNothing
<1>1. CASE i \in 1 .. Len(p)
  BY <1>1, Concatenated DEF StartsNothing
<1>2. CASE i \in (Len(p) + 1) .. (Len(p) + Len(q))
  <2>1. i - Len(p) \in 1 .. Len(q)
    BY <1>2, Concatenated
  <2> QED  BY <1>2, <2>1, Concatenated DEF StartsNothing
<1> QED  BY <1>1, <1>2, Concatenated

LEMMA ConcatRotates ==
  ASSUME NEW p, NEW q, IsPlan(p), IsPlan(q), RotatesFirst(p)
  PROVE  RotatesFirst(p \o q)
<1>1. Len(p) >= 1
  BY Concatenated DEF RotatesFirst, IsPlan
<1>2. 1 \in 1 .. Len(p)
  BY <1>1, Concatenated
<1>3. (p \o q)[1] = p[1] /\ Len(p \o q) >= 1
  BY <1>1, <1>2, Concatenated
<1> QED  BY <1>3 DEF RotatesFirst

LEMMA RestOfPlan ==
  ASSUME NEW p, IsPlan(p), p # << >>
  PROVE  /\ IsPlan(Tail(p)) /\ Head(p) = p[1] /\ Len(p) \in Nat \ {0}
         /\ StartsNothing(p) => StartsNothing(Tail(p))
<1>1. PICK S : p \in Seq(S)
  BY PlanIsOver
<1>2. Tail(p) \in Seq(S) /\ Len(p) \in Nat \ {0} /\ Head(p) = p[1]
  BY <1>1
<1>3. IsPlan(Tail(p))
  BY <1>2, PlanOver
<1>4. ASSUME StartsNothing(p), NEW i \in 1 .. Len(Tail(p)) PROVE Tail(p)[i].do # "start"
  <2>1. Tail(p)[i] = p[i + 1] /\ i + 1 \in 1 .. Len(p)
    BY <1>1, <1>2
  <2> QED  BY <1>4, <2>1 DEF StartsNothing
<1> QED  BY <1>2, <1>3, <1>4 DEF StartsNothing

-----------------------------------------------------------------------------
(* The plans of the commands.                                               *)
LEMMA OneStep ==
  ASSUME NEW step
  PROVE  /\ IsPlan(<<step>>)
         /\ step.do # "start" => StartsNothing(<<step>>)
<1>1. <<step>> \in Seq({step}) /\ Len(<<step>>) = 1 /\ <<step>>[1] = step
  OBVIOUS
<1>2. IsPlan(<<step>>)
  BY <1>1, PlanOver
<1>3. step.do # "start" => StartsNothing(<<step>>)
  BY <1>1 DEF StartsNothing
<1> QED  BY <1>2, <1>3

LEMMA NoStep == IsPlan(<< >>) /\ StartsNothing(<< >>)
<1>1. << >> \in Seq({}) /\ Len(<< >>) = 0
  OBVIOUS
<1>2. IsPlan(<< >>)
  BY <1>1, PlanOver
<1>3. StartsNothing(<< >>)
  BY <1>1 DEF StartsNothing
<1> QED  BY <1>2, <1>3

LEMMA Optional ==
  ASSUME NEW c, NEW p, IsPlan(p)
  PROVE  IsPlan(If(c, p)) /\ (StartsNothing(p) => StartsNothing(If(c, p)))
BY NoStep DEF If

LEMMA Awaiting == IsPlan(AwaitModels)
<1> DEFINE S == {Await(Models[i]) : i \in DOMAIN Models}
<1>1. AwaitModels \in Seq(S)
  BY ModelsInOrder DEF AwaitModels
<1> QED  BY <1>1, PlanOver

LEMMA UpRotates ==
  ASSUME NEW o
  PROVE  IsPlan(UpPlan(o)) /\ RotatesFirst(UpPlan(o))
<1> DEFINE p1 == <<Rotate>>
           p2 == If(o.profile \in LocalDB, <<Start({Db}, FALSE), Await(Db)>>)
           p3 == If(o.code, <<CodeCheck(o.build, FALSE)>>)
           p4 == <<Start(Range(Models), o.build)>>
           p5 == AwaitModels
           p6 == If(o.memory, <<Start({Memory}, o.build), Await(Memory)>>)
           p7 == <<Start({Orchestrator}, o.build), Await(Orchestrator)>>
           p8 == If(o.ui, <<Start({UI}, o.build), Await(UI)>>)
           p9 == If(o.voice, <<Start(Voice, o.build)>>)
<1>0. ASSUME NEW x, NEW y PROVE IsPlan(<<x, y>>)
  <2>1. <<x, y>> \in Seq({x, y})
    OBVIOUS
  <2> QED  BY <2>1, PlanOver
<1>1. IsPlan(p1) /\ RotatesFirst(p1)
  BY OneStep DEF Rotate, RotatesFirst
<1>2. IsPlan(p2) /\ IsPlan(p3) /\ IsPlan(p4) /\ IsPlan(p5)
  BY <1>0, OneStep, Optional, Awaiting
<1>3. IsPlan(p6) /\ IsPlan(p7) /\ IsPlan(p8) /\ IsPlan(p9)
  BY <1>0, OneStep, Optional
<1>4. UpPlan(o) = p1 \o p2 \o p3 \o p4 \o p5 \o p6 \o p7 \o p8 \o p9
  BY DEF UpPlan
<1> HIDE DEF p1, p2, p3, p4, p5, p6, p7, p8, p9
<1> DEFINE Good(p) == IsPlan(p) /\ RotatesFirst(p)
<1>5. ASSUME NEW p, NEW q, Good(p), IsPlan(q) PROVE Good(p \o q)
  BY <1>5, Concatenated, ConcatRotates
<1> HIDE DEF Good
<1>6. Good(p1)
  BY <1>1 DEF Good
<1>7. Good(p1 \o p2)
  BY <1>2, <1>5, <1>6
<1>8. Good(p1 \o p2 \o p3)
  BY <1>2, <1>5, <1>7
<1>9. Good(p1 \o p2 \o p3 \o p4)
  BY <1>2, <1>5, <1>8
<1>10. Good(p1 \o p2 \o p3 \o p4 \o p5)
  BY <1>2, <1>5, <1>9
<1>11. Good(p1 \o p2 \o p3 \o p4 \o p5 \o p6)
  BY <1>3, <1>5, <1>10
<1>12. Good(p1 \o p2 \o p3 \o p4 \o p5 \o p6 \o p7)
  BY <1>3, <1>5, <1>11
<1>13. Good(p1 \o p2 \o p3 \o p4 \o p5 \o p6 \o p7 \o p8)
  BY <1>3, <1>5, <1>12
<1>14. Good(p1 \o p2 \o p3 \o p4 \o p5 \o p6 \o p7 \o p8 \o p9)
  BY <1>3, <1>5, <1>13
<1> QED  BY <1>4, <1>14 DEF Good

LEMMA DownStartsNothing ==
  ASSUME NEW o
  PROVE  IsPlan(DownPlan(o)) /\ StartsNothing(DownPlan(o))
<1> DEFINE front == (IF o.voice THEN Voice ELSE {}) \cup (IF o.ui THEN {UI} ELSE {}) \cup {Orchestrator}
           p1 == <<Stop(front)>>
           p2 == If(o.memory, <<Stop({Memory})>>)
           p3 == <<Stop(Range(Models))>>
           p4 == If(o.profile \in LocalDB, <<Stop({Db})>>)
           p5 == <<CodeDown>>
           Good(p) == IsPlan(p) /\ StartsNothing(p)
<1>1. ASSUME NEW ss PROVE Good(<<Stop(ss)>>)
  <2>1. Stop(ss).do # "start"
    BY DEF Stop
  <2> QED  BY <2>1, OneStep
<1>2. Good(p5)
  BY OneStep DEF CodeDown
<1>3. Good(p1) /\ Good(p3)
  BY <1>1
<1>4. Good(p2) /\ Good(p4)
  BY <1>1, Optional
<1>5. DownPlan(o) = p1 \o p2 \o p3 \o p4 \o p5
  BY DEF DownPlan
<1>6. ASSUME NEW p, NEW q, Good(p), Good(q) PROVE Good(p \o q)
  BY <1>6, Concatenated, ConcatStartsNothing
<1> HIDE DEF p1, p2, p3, p4, p5, Good
<1>7. Good(p1 \o p2)
  BY <1>3, <1>4, <1>6
<1>8. Good(p1 \o p2 \o p3)
  BY <1>3, <1>6, <1>7
<1>9. Good(p1 \o p2 \o p3 \o p4)
  BY <1>4, <1>6, <1>8
<1>10. Good(p1 \o p2 \o p3 \o p4 \o p5)
  BY <1>2, <1>6, <1>9
<1> QED  BY <1>5, <1>10 DEF Good

LEMMA RestartRotates ==
  ASSUME NEW s
  PROVE  IsPlan(RestartPlan(s)) /\ RotatesFirst(RestartPlan(s))
<1> DEFINE step == IF s = Code THEN CodeCheck(FALSE, TRUE) ELSE Recreate(s)
<1>1. RestartPlan(s) = <<Rotate, step>>
  BY DEF RestartPlan
<1> HIDE DEF step
<1>2. <<Rotate, step>> \in Seq({Rotate, step}) /\ <<Rotate, step>> # << >> /\ <<Rotate, step>>[1] = Rotate
  OBVIOUS
<1>3. Rotate.do = "rotate"
  BY DEF Rotate
<1> QED  BY <1>1, <1>2, <1>3, PlanOver DEF RotatesFirst

-----------------------------------------------------------------------------
CmdShape == cmd = [op |-> cmd.op, opt |-> cmd.opt, plan |-> cmd.plan, status |-> cmd.status]

(* A command under way has a session of its own, is about to rotate, or     *)
(* starts nothing.                                                          *)
Rotated ==
  cmd.status = "running" =>
    /\ IsPlan(cmd.plan) /\ before < given
    /\ session = given \/ RotatesFirst(cmd.plan) \/ StartsNothing(cmd.plan)

IInv == TypeOK /\ CmdShape /\ Rotated

LEMMA InitIInv == Init => IInv
BY Bounds DEF Init, IInv, TypeOK, CmdShape, Rotated

LEMMA GiveIInv ==
  ASSUME IInv, NEW op \in {"up", "down", "restart"}, NEW o, NEW plan, Give(op, o, plan),
         IsPlan(plan), RotatesFirst(plan) \/ StartsNothing(plan)
  PROVE  IInv'
<1>1. given \in 0 .. MaxCommands /\ session \in 0 .. given /\ given < MaxCommands /\ given' = given + 1
  BY DEF IInv, TypeOK, Give
<1>2. given' \in 0 .. MaxCommands /\ session' \in 0 .. given' /\ before' \in 0 .. given' /\ before' < given'
  BY <1>1, Bounds DEF Give
<1>3. TypeOK'
  BY <1>2 DEF IInv, TypeOK, Give
<1>4. CmdShape' /\ cmd'.plan = plan
  BY DEF CmdShape, Give
<1>5. Rotated'
  BY <1>2, <1>4 DEF Rotated
<1> QED  BY <1>3, <1>4, <1>5 DEF IInv

(* A step other than a rotation, which goes on with code steps or ends the  *)
(* command.                                                                 *)
LEMMA StepIInv ==
  ASSUME IInv, TypeOK', NEW kind, Step(kind), kind # "rotate", UNCHANGED session,
         Failed \/ \E steps : Continue(steps) /\ IsPlan(steps) /\ StartsNothing(steps)
  PROVE  IInv'
<1>1. TypeOK /\ CmdShape /\ Rotated /\ cmd.status = "running" /\ cmd.plan # << >>
      /\ Head(cmd.plan).do # "rotate" /\ UNCHANGED <<before, given>>
  BY DEF IInv, Step, history
<1>2. CASE Failed
  <2>1. cmd' = [op |-> cmd.op, opt |-> cmd.opt, plan |-> cmd.plan, status |-> "failed"]
    BY <1>1, <1>2 DEF Failed, CmdShape
  <2>2. CmdShape'
    BY <2>1 DEF CmdShape
  <2>3. Rotated'
    BY <2>1 DEF Rotated
  <2> QED  BY <2>2, <2>3 DEF IInv
<1>3. CASE \E steps : Continue(steps) /\ IsPlan(steps) /\ StartsNothing(steps)
  <2>1. PICK steps : Continue(steps) /\ IsPlan(steps) /\ StartsNothing(steps)
    BY <1>3
  <2> DEFINE rest == steps \o Tail(cmd.plan)
  <2>2. cmd' = [op |-> cmd.op, opt |-> cmd.opt, plan |-> rest, status |-> cmd.status]
    BY <1>1, <2>1 DEF Continue, CmdShape
  <2>3. IsPlan(cmd.plan) /\ before < given /\ (session = given \/ StartsNothing(cmd.plan))
    BY <1>1, RestOfPlan DEF Rotated, RotatesFirst
  <2>4. IsPlan(Tail(cmd.plan)) /\ (StartsNothing(cmd.plan) => StartsNothing(Tail(cmd.plan)))
    BY <1>1, <2>3, RestOfPlan
  <2>5. IsPlan(rest) /\ (StartsNothing(cmd.plan) => StartsNothing(rest))
    BY <2>1, <2>4, Concatenated, ConcatStartsNothing
  <2> HIDE DEF rest
  <2>6. CmdShape' /\ cmd'.plan = rest
    BY <2>2 DEF CmdShape
  <2>7. Rotated'
    BY <1>1, <2>3, <2>5, <2>6 DEF Rotated
  <2> QED  BY <2>6, <2>7 DEF IInv
<1> QED  BY <1>2, <1>3

LEMMA GoesOn ==
  ASSUME Done
  PROVE  \E steps : Continue(steps) /\ IsPlan(steps) /\ StartsNothing(steps)
BY NoStep DEF Done

LEMMA CodeSteps ==
  /\ IsPlan(<<CodeRun, CodeWait>>) /\ StartsNothing(<<CodeRun, CodeWait>>)
  /\ IsPlan(<<CodeStop, CodeRun, CodeWait>>) /\ StartsNothing(<<CodeStop, CodeRun, CodeWait>>)
<1>1. CodeRun.do # "start" /\ CodeWait.do # "start" /\ CodeStop.do # "start"
  BY DEF CodeRun, CodeWait, CodeStop
<1>2. IsPlan(<<CodeRun, CodeWait>>)
  <2>1. <<CodeRun, CodeWait>> \in Seq({CodeRun, CodeWait})
    OBVIOUS
  <2> QED  BY <2>1, PlanOver
<1>3. IsPlan(<<CodeStop, CodeRun, CodeWait>>)
  <2>1. <<CodeStop, CodeRun, CodeWait>> \in Seq({CodeStop, CodeRun, CodeWait})
    OBVIOUS
  <2> QED  BY <2>1, PlanOver
<1>4. StartsNothing(<<CodeRun, CodeWait>>)
  BY <1>1 DEF StartsNothing
<1>5. StartsNothing(<<CodeStop, CodeRun, CodeWait>>)
  BY <1>1 DEF StartsNothing
<1> QED  BY <1>2, <1>3, <1>4, <1>5

LEMMA NextIInv == IInv /\ [Next]_vars => IInv'
<1> SUFFICES ASSUME IInv, [Next]_vars PROVE IInv'
  OBVIOUS
<1>0. TypeOK /\ CmdShape /\ Rotated
  BY DEF IInv
<1>a. TypeOK
  BY <1>0
<1>1. CASE GiveUp
  BY <1>1, GiveIInv, UpRotates DEF GiveUp
<1>2. CASE GiveDown
  BY <1>2, GiveIInv, DownStartsNothing DEF GiveDown
<1>3. CASE GiveRestart
  BY <1>3, GiveIInv, RestartRotates DEF GiveRestart
<1>4. CASE DoRotate
  <2>1. given \in 0 .. MaxCommands /\ session' \in 0 .. given /\ UNCHANGED <<given, before, svc, daemon, crashes, crashed>>
    BY <1>0, <1>4 DEF TypeOK, DoRotate, Step, history
  <2>2. CASE session' = given /\ Done
    <3>1. cmd' = [op |-> cmd.op, opt |-> cmd.opt, plan |-> << >> \o Tail(cmd.plan), status |-> cmd.status]
      BY <1>0, <2>2 DEF Done, Continue, CmdShape
    <3>2. IsPlan(cmd.plan) /\ cmd.plan # << >> /\ before < given
      BY <1>0, <1>4 DEF DoRotate, Step, Rotated
    <3>3. IsPlan(<< >> \o Tail(cmd.plan))
      BY <3>2, NoStep, RestOfPlan, Concatenated
    <3>4. TypeOK'
      BY <1>0, <2>1, <3>1 DEF TypeOK
    <3>5. CmdShape' /\ cmd'.plan = << >> \o Tail(cmd.plan)
      BY <3>1 DEF CmdShape
    <3>6. Rotated'
      BY <2>1, <2>2, <3>2, <3>3, <3>5 DEF Rotated
    <3> QED  BY <3>4, <3>5, <3>6 DEF IInv
  <2>3. CASE session' \in {session, 0} /\ Failed
    <3>1. cmd' = [op |-> cmd.op, opt |-> cmd.opt, plan |-> cmd.plan, status |-> "failed"]
      BY <1>0, <2>3 DEF Failed, CmdShape
    <3>2. TypeOK'
      BY <1>0, <2>1, <3>1 DEF TypeOK
    <3> QED  BY <3>1, <3>2 DEF IInv, CmdShape, Rotated
  <2> QED  BY <1>4, <2>2, <2>3 DEF DoRotate
<1>b. ASSUME Done \/ Failed \/ \E steps : Continue(steps)
      PROVE  cmd'.op = cmd.op /\ cmd'.status \in {cmd.status, "failed"}
  BY <1>0, <1>b DEF Done, Continue, Failed, CmdShape
<1>5. CASE DoStart
  <2>1. /\ Step("start") /\ UNCHANGED <<daemon, session, given, crashes, history>>
        /\ Done \/ Failed
    BY <1>5 DEF DoStart, Step
  <2>2. svc' \in [Services -> {"stopped", "starting", "ready"}]
    <3>1. \A ss, fresh : Started(svc, ss, fresh) \in [Services -> {"stopped", "starting", "ready"}]
      BY <1>0 DEF TypeOK, Started
    <3> QED  BY <1>5, <3>1 DEF DoStart
  <2>3. TypeOK'
    BY <1>0, <1>b, <2>1, <2>2 DEF TypeOK, history
  <2> QED  BY <2>1, <2>3, StepIInv, GoesOn
<1>6. CASE DoAwait
  <2>1. Step("await") /\ UNCHANGED <<svc, daemon, session, given, crashes, history>> /\ (Done \/ Failed)
    BY <1>6 DEF DoAwait, Step
  <2>2. TypeOK'
    BY <1>0, <1>b, <2>1 DEF TypeOK, history
  <2> QED  BY <2>1, <2>2, StepIInv, GoesOn
<1>7. CASE DoStop
  <2>1. Step("stop") /\ UNCHANGED <<daemon, session, given, crashes, history>> /\ (Done \/ Failed)
    BY <1>7 DEF DoStop, Step
  <2>2. svc' \in [Services -> {"stopped", "starting", "ready"}]
    <3>1. \A ss : Stopped(ss) \in [Services -> {"stopped", "starting", "ready"}]
      BY <1>0 DEF TypeOK, Stopped
    <3> QED  BY <1>7, <3>1 DEF DoStop
  <2>3. TypeOK'
    BY <1>0, <1>b, <2>1, <2>2 DEF TypeOK, history
  <2> QED  BY <2>1, <2>3, StepIInv, GoesOn
<1>8. CASE DoCodeCheck
  <2>1. /\ Step("codeCheck") /\ UNCHANGED <<svc, daemon, session, given, crashes, history>>
        /\ Done \/ Failed \/ Continue(<<CodeRun, CodeWait>>) \/ Continue(<<CodeStop, CodeRun, CodeWait>>)
    BY <1>8 DEF DoCodeCheck, Step
  <2>2. TypeOK'
    BY <1>0, <1>b, <2>1 DEF TypeOK, history
  <2> QED  BY <2>1, <2>2, StepIInv, GoesOn, CodeSteps
<1>9. CASE DoCodeStop \/ DoCodeRun \/ DoCodeWait \/ DoCodeDown
  <2>1. PICK kind \in {"codeStop", "codeRun", "codeWait", "codeDown"} :
          /\ Step(kind) /\ UNCHANGED <<svc, session, given, crashes, history>>
          /\ Done \/ Failed
    BY <1>9 DEF DoCodeStop, DoCodeRun, DoCodeWait, DoCodeDown, Step
  <2>2. daemon' \in [unit : {"inactive", "active", "restarting"}, socket : BOOLEAN, serving : BOOLEAN]
    <3>1. daemon' \in {daemon, DaemonGone, [daemon EXCEPT !.unit = "active"]}
      BY <1>9 DEF DoCodeStop, DoCodeRun, DoCodeWait, DoCodeDown
    <3>2. daemon \in [unit : {"inactive", "active", "restarting"}, socket : BOOLEAN, serving : BOOLEAN]
      BY <1>0 DEF TypeOK
    <3>3. DaemonGone \in [unit : {"inactive", "active", "restarting"}, socket : BOOLEAN, serving : BOOLEAN]
      BY DEF DaemonGone
    <3> QED  BY <3>1, <3>2, <3>3
  <2>3. TypeOK'
    BY <1>0, <1>b, <2>1, <2>2 DEF TypeOK, history
  <2> QED  BY <2>1, <2>3, StepIInv, GoesOn
<1>10. CASE Return
  <2>1. cmd' = [op |-> cmd.op, opt |-> cmd.opt, plan |-> cmd.plan, status |-> "ok"]
        /\ UNCHANGED <<svc, daemon, session, given, crashes, history>>
    BY <1>0, <1>10 DEF Return, CmdShape
  <2>2. TypeOK'
    BY <1>0, <2>1 DEF TypeOK, history
  <2> QED  BY <2>1, <2>2 DEF IInv, CmdShape, Rotated
<1>11. ASSUME NEW s \in Services, BecomeReady(s) PROVE IInv'
  BY <1>0, <1>11 DEF IInv, BecomeReady, TypeOK, CmdShape, Rotated, history
<1>12. ASSUME NEW s \in Services, Crash(s) PROVE IInv'
  <2>1. crashes' \in 0 .. MaxCrashes
    BY <1>0, <1>12, Bounds DEF TypeOK, Crash, CountCrash
  <2> QED  BY <1>0, <1>12, <2>1 DEF IInv, Crash, CountCrash, TypeOK, CmdShape, Rotated
<1>13. CASE DaemonListens \/ SystemdRestarts
  <2>1. daemon' \in [unit : {"inactive", "active", "restarting"}, socket : BOOLEAN, serving : BOOLEAN]
    BY <1>0, <1>13 DEF TypeOK, DaemonListens, SystemdRestarts
  <2> QED  BY <1>0, <1>13, <2>1 DEF IInv, DaemonListens, SystemdRestarts, TypeOK, CmdShape, Rotated, history
<1>14. CASE DaemonCrashes
  <2>1. crashes' \in 0 .. MaxCrashes
    BY <1>0, <1>14, Bounds DEF TypeOK, DaemonCrashes, CountCrash
  <2>2. daemon' \in [unit : {"inactive", "active", "restarting"}, socket : BOOLEAN, serving : BOOLEAN]
    BY <1>0, <1>14 DEF TypeOK, DaemonCrashes
  <2> QED  BY <1>0, <1>14, <2>1, <2>2 DEF IInv, DaemonCrashes, CountCrash, TypeOK, CmdShape, Rotated
<1>15. CASE UNCHANGED vars
  BY <1>0, <1>15 DEF vars, IInv, TypeOK, CmdShape, Rotated
<1> QED
  BY <1>1, <1>2, <1>3, <1>4, <1>5, <1>6, <1>7, <1>8, <1>9, <1>10, <1>11, <1>12, <1>13, <1>14, <1>15
     DEF Next

LEMMA Invariance == Spec => []IInv
BY InitIInv, NextIInv, PTL DEF Spec

-----------------------------------------------------------------------------
(* The variables keep their types. *)
THEOREM TypeCorrect == Spec => []TypeOK
<1>1. IInv => TypeOK
  BY DEF IInv
<1> QED  BY <1>1, Invariance, PTL

(* No container comes up under the session it had before the command, for   *)
(* any services and options, whatever fails or stops on the way.            *)
THEOREM NewSession == Spec => FreshSession
<1>1. ASSUME IInv, [Next]_vars, NEW s \in Services, svc[s] # "starting", svc'[s] = "starting"
      PROVE  session \notin {0, before}
  <2>1. DoStart
    BY <1>1 DEF IInv, TypeOK, vars, Next, GiveUp, GiveDown, GiveRestart, Give, DoRotate, DoAwait, DoStop,
         Stopped, DoCodeCheck, DoCodeStop, DoCodeRun, DoCodeWait, DoCodeDown, Return, BecomeReady, Crash,
         CountCrash, DaemonListens, DaemonCrashes, SystemdRestarts
  <2>2. cmd.status = "running" /\ cmd.plan # << >> /\ Head(cmd.plan).do = "start"
    BY <2>1 DEF DoStart, Step
  <2>3. IsPlan(cmd.plan) /\ Head(cmd.plan) = cmd.plan[1] /\ 1 \in 1 .. Len(cmd.plan)
    BY <1>1, <2>2, RestOfPlan DEF IInv, Rotated
  <2>4. session = given /\ before < given
    BY <1>1, <2>2, <2>3 DEF IInv, Rotated, RotatesFirst, StartsNothing
  <2> QED  BY <1>1, <2>4 DEF IInv, TypeOK
<1>2. IInv /\ [Next]_vars =>
        [\A s \in Services :
           svc[s] # "starting" /\ svc'[s] = "starting" => session \notin {0, before}]_vars
  BY <1>1
<1> QED  BY <1>2, Invariance, PTL DEF Spec, FreshSession

-----------------------------------------------------------------------------
(* What is left of a command, and what it has reached                      *)

Starts(step, s) == step.do = "start" /\ s \in step.of
Awaits(step, s) == step.do = "await" /\ s \in step.of
StartsOrchestrator(step) == step.do = "start" /\ Orchestrator \in Needed(step.of)
AwaitsEarly(step) == step.do = "await" /\ ~(step.of \subseteq {Orchestrator, UI})

(* No step of the plan may start s, or s is awaited after the last one.    *)
Untouched(plan, s) == \A i \in 1 .. Len(plan) : ~Starts(plan[i], s)
Waited(plan, s) ==
  \E j \in 1 .. Len(plan) :
    /\ Awaits(plan[j], s)
    /\ \A i \in 1 .. Len(plan) : i > j => ~Starts(plan[i], s)
Brings(plan, s) == \E i \in 1 .. Len(plan) : Starts(plan[i], s)
Stops(plan, s) == \E i \in 1 .. Len(plan) : plan[i].do = "stop" /\ s \in plan[i].of

(* The daemon is not stopped, or is started after it was.                  *)
CodeStays(plan) == \A i \in 1 .. Len(plan) : plan[i].do # "codeStop"
CodeComes(plan) ==
  \E j \in 1 .. Len(plan) :
    /\ plan[j].do \in {"codeCheck", "codeRun"}
    /\ \A i \in 1 .. Len(plan) : i > j => plan[i].do # "codeStop"
CodeGoes(plan) == \E i \in 1 .. Len(plan) : plan[i].do = "codeDown"

(* A model service, the database and the memory are awaited before the     *)
(* orchestrator is started.                                                *)
AwaitsNothingEarly(plan) == \A j \in 1 .. Len(plan) : ~AwaitsEarly(plan[j])
Ordered(plan) ==
  \A i, j \in 1 .. Len(plan) :
    StartsOrchestrator(plan[i]) /\ AwaitsEarly(plan[j]) => j < i

UpSteps(plan) ==
  \A i \in 1 .. Len(plan) :
    /\ plan[i].do \notin {"stop", "codeDown"}
    /\ plan[i].do = "start" => plan[i].fresh \subseteq SUBSET plan[i].of
DownSteps(plan) == \A i \in 1 .. Len(plan) : plan[i].do \in {"stop", "codeDown"}

(* What two parts of a plan make together.                                 *)
LEMMA Positions ==
  ASSUME NEW p, NEW q, IsPlan(p), IsPlan(q)
  PROVE  /\ \A i \in 1 .. Len(p \o q) :
              \/ i \in 1 .. Len(p) /\ (p \o q)[i] = p[i]
              \/ i > Len(p) /\ i - Len(p) \in 1 .. Len(q) /\ (p \o q)[i] = q[i - Len(p)]
         /\ \A i \in 1 .. Len(p) : i \in 1 .. Len(p \o q) /\ (p \o q)[i] = p[i]
         /\ \A i \in 1 .. Len(q) : /\ i + Len(p) \in 1 .. Len(p \o q)
                                   /\ (p \o q)[i + Len(p)] = q[i]
<1>1. /\ Len(p \o q) = Len(p) + Len(q) /\ Len(p) \in Nat /\ Len(q) \in Nat
      /\ \A i \in 1 .. Len(p) : (p \o q)[i] = p[i]
      /\ \A i \in (Len(p) + 1) .. (Len(p) + Len(q)) : (p \o q)[i] = q[i - Len(p)]
  BY Concatenated
<1>2. ASSUME NEW i \in 1 .. Len(q)
      PROVE  /\ i + Len(p) \in 1 .. Len(p \o q) /\ (p \o q)[i + Len(p)] = q[i]
  <2>1. i + Len(p) \in (Len(p) + 1) .. (Len(p) + Len(q)) /\ (i + Len(p)) - Len(p) = i
    BY <1>1
  <2>2. QED  BY <1>1, <2>1
<1>3. ASSUME NEW i \in 1 .. Len(p \o q), i \notin 1 .. Len(p)
      PROVE  i > Len(p) /\ i - Len(p) \in 1 .. Len(q) /\ (p \o q)[i] = q[i - Len(p)]
  BY <1>1, <1>3
<1>4. QED  BY <1>1, <1>2, <1>3

LEMMA ConcatUntouched ==
  ASSUME NEW p, NEW q, IsPlan(p), IsPlan(q), NEW s, Untouched(p, s), Untouched(q, s)
  PROVE  Untouched(p \o q, s)
BY Positions DEF Untouched

LEMMA ConcatWaited ==
  ASSUME NEW p, NEW q, IsPlan(p), IsPlan(q), NEW s,
         Waited(q, s) \/ (Waited(p, s) /\ Untouched(q, s))
  PROVE  Waited(p \o q, s)
<1>0. Len(p) \in Nat
  BY Concatenated
<1>1. CASE Waited(q, s)
  <2>1. PICK j \in 1 .. Len(q) :
          Awaits(q[j], s) /\ \A i \in 1 .. Len(q) : i > j => ~Starts(q[i], s)
    BY <1>1 DEF Waited
  <2>2. j + Len(p) \in 1 .. Len(p \o q) /\ (p \o q)[j + Len(p)] = q[j]
    BY Positions
  <2>3. ASSUME NEW i \in 1 .. Len(p \o q), i > j + Len(p)
        PROVE  ~Starts((p \o q)[i], s)
    <3>1. i - Len(p) \in 1 .. Len(q) /\ (p \o q)[i] = q[i - Len(p)]
      BY <1>0, <2>3, Positions
    <3>2. i - Len(p) > j
      BY <1>0, <2>3
    <3>3. QED  BY <2>1, <3>1, <3>2
  <2>4. QED  BY <2>1, <2>2, <2>3 DEF Waited
<1>2. CASE Waited(p, s) /\ Untouched(q, s)
  <2>1. PICK j \in 1 .. Len(p) :
          Awaits(p[j], s) /\ \A i \in 1 .. Len(p) : i > j => ~Starts(p[i], s)
    BY <1>2 DEF Waited
  <2>2. j \in 1 .. Len(p \o q) /\ (p \o q)[j] = p[j]
    BY Positions
  <2>3. ASSUME NEW i \in 1 .. Len(p \o q), i > j
        PROVE  ~Starts((p \o q)[i], s)
    BY <1>2, <2>1, <2>3, Positions DEF Untouched
  <2>4. QED  BY <2>1, <2>2, <2>3 DEF Waited
<1>3. QED  BY <1>1, <1>2

LEMMA ConcatBrings ==
  ASSUME NEW p, NEW q, IsPlan(p), IsPlan(q), NEW s, Brings(p, s) \/ Brings(q, s)
  PROVE  Brings(p \o q, s)
BY Positions DEF Brings

LEMMA ConcatStops ==
  ASSUME NEW p, NEW q, IsPlan(p), IsPlan(q), NEW s, Stops(p, s) \/ Stops(q, s)
  PROVE  Stops(p \o q, s)
BY Positions DEF Stops

LEMMA ConcatGoes ==
  ASSUME NEW p, NEW q, IsPlan(p), IsPlan(q), CodeGoes(p) \/ CodeGoes(q)
  PROVE  CodeGoes(p \o q)
<1>1. CASE CodeGoes(p)
  <2>1. PICK i \in 1 .. Len(p) : p[i].do = "codeDown"
    BY <1>1 DEF CodeGoes
  <2>2. i \in 1 .. Len(p \o q) /\ (p \o q)[i].do = "codeDown"
    BY <2>1, Positions
  <2>3. QED  BY <2>2 DEF CodeGoes
<1>2. CASE CodeGoes(q)
  <2>1. PICK i \in 1 .. Len(q) : q[i].do = "codeDown"
    BY <1>2 DEF CodeGoes
  <2>2. i + Len(p) \in 1 .. Len(p \o q) /\ (p \o q)[i + Len(p)].do = "codeDown"
    BY <2>1, Positions
  <2>3. QED  BY <2>2 DEF CodeGoes
<1>3. QED  BY <1>1, <1>2

LEMMA ConcatStays ==
  ASSUME NEW p, NEW q, IsPlan(p), IsPlan(q), CodeStays(p), CodeStays(q)
  PROVE  CodeStays(p \o q)
BY Positions DEF CodeStays

LEMMA ConcatComes ==
  ASSUME NEW p, NEW q, IsPlan(p), IsPlan(q),
         CodeComes(q) \/ (CodeComes(p) /\ CodeStays(q))
  PROVE  CodeComes(p \o q)
<1>0. Len(p) \in Nat
  BY Concatenated
<1>1. CASE CodeComes(q)
  <2>1. PICK j \in 1 .. Len(q) :
          /\ q[j].do \in {"codeCheck", "codeRun"}
          /\ \A i \in 1 .. Len(q) : i > j => q[i].do # "codeStop"
    BY <1>1 DEF CodeComes
  <2>2. j + Len(p) \in 1 .. Len(p \o q) /\ (p \o q)[j + Len(p)] = q[j]
    BY Positions
  <2>3. ASSUME NEW i \in 1 .. Len(p \o q), i > j + Len(p)
        PROVE  (p \o q)[i].do # "codeStop"
    <3>1. i - Len(p) \in 1 .. Len(q) /\ (p \o q)[i] = q[i - Len(p)]
      BY <1>0, <2>3, Positions
    <3>2. i - Len(p) > j
      BY <1>0, <2>3
    <3>3. QED  BY <2>1, <3>1, <3>2
  <2>4. QED  BY <2>1, <2>2, <2>3 DEF CodeComes
<1>2. CASE CodeComes(p) /\ CodeStays(q)
  <2>1. PICK j \in 1 .. Len(p) :
          /\ p[j].do \in {"codeCheck", "codeRun"}
          /\ \A i \in 1 .. Len(p) : i > j => p[i].do # "codeStop"
    BY <1>2 DEF CodeComes
  <2>2. j \in 1 .. Len(p \o q) /\ (p \o q)[j] = p[j]
    BY Positions
  <2>3. ASSUME NEW i \in 1 .. Len(p \o q), i > j
        PROVE  (p \o q)[i].do # "codeStop"
    BY <1>2, <2>1, <2>3, Positions DEF CodeStays
  <2>4. QED  BY <2>1, <2>2, <2>3 DEF CodeComes
<1>3. QED  BY <1>1, <1>2

LEMMA ConcatUp ==
  ASSUME NEW p, NEW q, IsPlan(p), IsPlan(q), UpSteps(p), UpSteps(q)
  PROVE  UpSteps(p \o q)
BY Positions DEF UpSteps

LEMMA ConcatDown ==
  ASSUME NEW p, NEW q, IsPlan(p), IsPlan(q), DownSteps(p), DownSteps(q)
  PROVE  DownSteps(p \o q)
BY Positions DEF DownSteps

LEMMA ConcatOrdered ==
  ASSUME NEW p, NEW q, IsPlan(p), IsPlan(q), Ordered(p), Ordered(q),
         \/ AwaitsNothingEarly(q)
         \/ \A i \in 1 .. Len(p) : ~StartsOrchestrator(p[i])
  PROVE  Ordered(p \o q)
<1> SUFFICES ASSUME NEW i \in 1 .. Len(p \o q), NEW j \in 1 .. Len(p \o q),
                    StartsOrchestrator((p \o q)[i]), AwaitsEarly((p \o q)[j])
             PROVE  j < i
  BY DEF Ordered
<1>0. Len(p) \in Nat
  BY Concatenated
<1>1. CASE i \in 1 .. Len(p) /\ j \in 1 .. Len(p)
  BY <1>1, Positions DEF Ordered
<1>2. CASE i \notin 1 .. Len(p) /\ j \in 1 .. Len(p)
  BY <1>0, <1>2
<1>3. CASE i \in 1 .. Len(p) /\ j \notin 1 .. Len(p)
  BY <1>3, Positions DEF AwaitsNothingEarly
<1>4. CASE i \notin 1 .. Len(p) /\ j \notin 1 .. Len(p)
  <2>1. /\ i - Len(p) \in 1 .. Len(q) /\ (p \o q)[i] = q[i - Len(p)]
        /\ j - Len(p) \in 1 .. Len(q) /\ (p \o q)[j] = q[j - Len(p)]
    BY <1>4, Positions
  <2>2. j - Len(p) < i - Len(p)
    BY <2>1 DEF Ordered
  <2>3. QED  BY <1>0, <2>2
<1>5. QED  BY <1>1, <1>2, <1>3, <1>4

(* What is left once the first step is done.                               *)
LEMMA Remaining ==
  ASSUME NEW p, IsPlan(p), p # << >>
  PROVE  /\ Len(Tail(p)) = Len(p) - 1 /\ Len(p) \in Nat \ {0}
         /\ \A i \in 1 .. Len(Tail(p)) : i + 1 \in 1 .. Len(p) /\ Tail(p)[i] = p[i + 1]
         /\ \A i \in 1 .. Len(p) :
              i # 1 => i - 1 \in 1 .. Len(Tail(p)) /\ Tail(p)[i - 1] = p[i]
<1>1. PICK S : p \in Seq(S)
  BY PlanIsOver
<1>2. Len(Tail(p)) = Len(p) - 1 /\ Len(p) \in Nat \ {0}
  BY <1>1
<1>3. \A i \in 1 .. Len(Tail(p)) : i + 1 \in 1 .. Len(p) /\ Tail(p)[i] = p[i + 1]
  BY <1>1, <1>2
<1>4. ASSUME NEW i \in 1 .. Len(p), i # 1
      PROVE  i - 1 \in 1 .. Len(Tail(p)) /\ Tail(p)[i - 1] = p[i]
  <2>1. i - 1 \in 1 .. Len(Tail(p)) /\ (i - 1) + 1 = i
    BY <1>2, <1>4
  <2>2. QED  BY <1>3, <2>1
<1>5. QED  BY <1>2, <1>3, <1>4

LEMMA RestUntouched ==
  ASSUME NEW p, IsPlan(p), p # << >>, NEW s, Untouched(p, s)
  PROVE  Untouched(Tail(p), s)
BY Remaining DEF Untouched

LEMMA RestWaited ==
  ASSUME NEW p, IsPlan(p), p # << >>, NEW s, Waited(p, s)
  PROVE  Waited(Tail(p), s) \/ (Awaits(p[1], s) /\ Untouched(Tail(p), s))
<1>1. PICK j \in 1 .. Len(p) :
        Awaits(p[j], s) /\ \A i \in 1 .. Len(p) : i > j => ~Starts(p[i], s)
  BY DEF Waited
<1>2. ASSUME NEW i \in 1 .. Len(Tail(p)), i + 1 > j PROVE ~Starts(Tail(p)[i], s)
  BY <1>1, <1>2, Remaining
<1>3. CASE j = 1
  <2>1. \A i \in 1 .. Len(Tail(p)) : i + 1 > j
    BY <1>3
  <2>2. QED  BY <1>1, <1>2, <1>3, <2>1 DEF Untouched
<1>4. CASE j # 1
  <2>1. j - 1 \in 1 .. Len(Tail(p)) /\ Tail(p)[j - 1] = p[j]
    BY <1>4, Remaining
  <2>2. \A i \in 1 .. Len(Tail(p)) : i > j - 1 => i + 1 > j
    OBVIOUS
  <2>3. QED  BY <1>1, <1>2, <2>1, <2>2 DEF Waited
<1>5. QED  BY <1>3, <1>4

LEMMA RestBrings ==
  ASSUME NEW p, IsPlan(p), p # << >>, NEW s, Brings(p, s), ~Starts(p[1], s)
  PROVE  Brings(Tail(p), s)
BY Remaining DEF Brings

LEMMA RestStops ==
  ASSUME NEW p, IsPlan(p), p # << >>, NEW s, Stops(p, s),
         ~(p[1].do = "stop" /\ s \in p[1].of)
  PROVE  Stops(Tail(p), s)
<1>1. PICK i \in 1 .. Len(p) : p[i].do = "stop" /\ s \in p[i].of
  BY DEF Stops
<1>2. i - 1 \in 1 .. Len(Tail(p)) /\ Tail(p)[i - 1] = p[i]
  BY <1>1, Remaining
<1>3. QED  BY <1>1, <1>2 DEF Stops

LEMMA RestGoes ==
  ASSUME NEW p, IsPlan(p), p # << >>, CodeGoes(p), p[1].do # "codeDown"
  PROVE  CodeGoes(Tail(p))
<1>1. PICK i \in 1 .. Len(p) : p[i].do = "codeDown"
  BY DEF CodeGoes
<1>2. i - 1 \in 1 .. Len(Tail(p)) /\ Tail(p)[i - 1] = p[i]
  BY <1>1, Remaining
<1>3. QED  BY <1>1, <1>2 DEF CodeGoes

LEMMA RestStays ==
  ASSUME NEW p, IsPlan(p), p # << >>, CodeStays(p)
  PROVE  CodeStays(Tail(p))
BY Remaining DEF CodeStays

LEMMA RestComes ==
  ASSUME NEW p, IsPlan(p), p # << >>, CodeComes(p)
  PROVE  \/ CodeComes(Tail(p))
         \/ p[1].do \in {"codeCheck", "codeRun"} /\ CodeStays(Tail(p))
<1>1. PICK j \in 1 .. Len(p) :
        /\ p[j].do \in {"codeCheck", "codeRun"}
        /\ \A i \in 1 .. Len(p) : i > j => p[i].do # "codeStop"
  BY DEF CodeComes
<1>2. ASSUME NEW i \in 1 .. Len(Tail(p)), i + 1 > j PROVE Tail(p)[i].do # "codeStop"
  BY <1>1, <1>2, Remaining
<1>3. CASE j = 1
  <2>1. \A i \in 1 .. Len(Tail(p)) : i + 1 > j
    BY <1>3
  <2>2. QED  BY <1>1, <1>2, <1>3, <2>1 DEF CodeStays
<1>4. CASE j # 1
  <2>1. j - 1 \in 1 .. Len(Tail(p)) /\ Tail(p)[j - 1] = p[j]
    BY <1>4, Remaining
  <2>2. \A i \in 1 .. Len(Tail(p)) : i > j - 1 => i + 1 > j
    OBVIOUS
  <2>3. QED  BY <1>1, <1>2, <2>1, <2>2 DEF CodeComes
<1>5. QED  BY <1>3, <1>4

LEMMA RestUp ==
  ASSUME NEW p, IsPlan(p), p # << >>, UpSteps(p), Ordered(p)
  PROVE  UpSteps(Tail(p)) /\ Ordered(Tail(p))
<1>1. UpSteps(Tail(p))
  BY Remaining DEF UpSteps
<1>2. ASSUME NEW i \in 1 .. Len(Tail(p)), NEW j \in 1 .. Len(Tail(p)),
             StartsOrchestrator(Tail(p)[i]), AwaitsEarly(Tail(p)[j])
      PROVE  j < i
  <2>1. /\ i + 1 \in 1 .. Len(p) /\ Tail(p)[i] = p[i + 1]
        /\ j + 1 \in 1 .. Len(p) /\ Tail(p)[j] = p[j + 1]
    BY Remaining
  <2>2. j + 1 < i + 1
    BY <1>2, <2>1 DEF Ordered
  <2>3. QED  BY <2>2
<1>3. QED  BY <1>1, <1>2 DEF Ordered

LEMMA RestDown ==
  ASSUME NEW p, IsPlan(p), p # << >>, DownSteps(p)
  PROVE  DownSteps(Tail(p))
BY Remaining DEF DownSteps

(* No step of the plan starts the orchestrator.                            *)
Before(plan) == \A i \in 1 .. Len(plan) : ~StartsOrchestrator(plan[i])

LEMMA Joined ==
  ASSUME NEW p, NEW q, IsPlan(p), IsPlan(q)
  PROVE  /\ IsPlan(p \o q)
         /\ \A s : /\ Waited(q, s) \/ (Waited(p, s) /\ Untouched(q, s)) => Waited(p \o q, s)
                   /\ Brings(p, s) \/ Brings(q, s) => Brings(p \o q, s)
         /\ CodeComes(q) \/ (CodeComes(p) /\ CodeStays(q)) => CodeComes(p \o q)
         /\ UpSteps(p) /\ UpSteps(q) => UpSteps(p \o q)
         /\ Before(p) /\ Before(q) => Before(p \o q)
         /\ Ordered(p) /\ AwaitsNothingEarly(q) => Ordered(p \o q)
<1>1. IsPlan(p \o q)
  BY Concatenated
<1>2. \A s : /\ Waited(q, s) \/ (Waited(p, s) /\ Untouched(q, s)) => Waited(p \o q, s)
             /\ Brings(p, s) \/ Brings(q, s) => Brings(p \o q, s)
  BY ConcatWaited, ConcatBrings
<1>3. CodeComes(q) \/ (CodeComes(p) /\ CodeStays(q)) => CodeComes(p \o q)
  BY ConcatComes
<1>4. UpSteps(p) /\ UpSteps(q) => UpSteps(p \o q)
  BY ConcatUp
<1>5. Before(p) /\ Before(q) => Before(p \o q)
  BY Positions DEF Before
<1>6. AwaitsNothingEarly(q) => Ordered(q)
  BY DEF AwaitsNothingEarly, Ordered
<1>7. Ordered(p) /\ AwaitsNothingEarly(q) => Ordered(p \o q)
  BY <1>6, ConcatOrdered
<1>8. QED  BY <1>1, <1>2, <1>3, <1>4, <1>5, <1>7

(* A part of up that starts ss and waits for ww, or does neither.          *)
StartsOnly(p, ss) == \A i \in 1 .. Len(p) : p[i].do = "start" => p[i].of \subseteq ss

LEMMA OnlyStarted ==
  ASSUME NEW p, NEW ss, StartsOnly(p, ss)
  PROVE  /\ \A s : s \notin ss => Untouched(p, s)
         /\ ss \cap (Voice \cup {Orchestrator}) = {} => Before(p)
BY DEF StartsOnly, Untouched, Starts, Before, StartsOrchestrator, Needed

LEMMA EmptyPart ==
  ASSUME NEW ss
  PROVE  /\ IsPlan(<< >>) /\ StartsOnly(<< >>, ss) /\ UpSteps(<< >>) /\ CodeStays(<< >>)
         /\ AwaitsNothingEarly(<< >>)
<1>1. Len(<< >>) = 0
  OBVIOUS
<1>2. QED  BY <1>1, NoStep DEF StartsOnly, UpSteps, CodeStays, AwaitsNothingEarly

LEMMA StartAlone ==
  ASSUME NEW ss, NEW build
  PROVE  LET p == <<Start(ss, build)>> IN
         /\ IsPlan(p) /\ StartsOnly(p, ss) /\ UpSteps(p) /\ CodeStays(p) /\ AwaitsNothingEarly(p)
         /\ \A s \in ss : Brings(p, s)
<1> DEFINE p == <<Start(ss, build)>>
<1>1. IsPlan(p)
  BY OneStep
<1>2. Len(p) = 1 /\ p[1].do = "start" /\ p[1].of = ss /\ p[1].fresh \subseteq SUBSET ss
  BY DEF Start
<1> HIDE DEF p
<1>3. /\ StartsOnly(p, ss) /\ UpSteps(p) /\ CodeStays(p) /\ AwaitsNothingEarly(p)
      /\ \A s \in ss : Brings(p, s)
  BY <1>2 DEF StartsOnly, UpSteps, CodeStays, AwaitsNothingEarly, AwaitsEarly, Brings, Starts
<1>4. QED  BY <1>1, <1>3 DEF p

LEMMA StartAwait ==
  ASSUME NEW s, NEW build
  PROVE  LET p == <<Start({s}, build), Await(s)>> IN
         /\ IsPlan(p) /\ StartsOnly(p, {s}) /\ UpSteps(p) /\ CodeStays(p)
         /\ s \in {Orchestrator, UI} => AwaitsNothingEarly(p)
         /\ Waited(p, s)
<1> DEFINE p == <<Start({s}, build), Await(s)>>
<1>1. IsPlan(p)
  <2>1. p \in Seq({Start({s}, build), Await(s)})
    OBVIOUS
  <2>2. QED  BY <2>1, PlanOver
<1>2. /\ Len(p) = 2 /\ p[1].do = "start" /\ p[1].of = {s} /\ p[1].fresh \subseteq SUBSET {s}
      /\ p[2].do = "await" /\ p[2].of = {s}
  BY DEF Start, Await
<1> HIDE DEF p
<1>3. /\ StartsOnly(p, {s}) /\ UpSteps(p) /\ CodeStays(p)
      /\ s \in {Orchestrator, UI} => AwaitsNothingEarly(p)
  BY <1>2 DEF StartsOnly, UpSteps, CodeStays, AwaitsNothingEarly, AwaitsEarly
<1>4. Waited(p, s)
  BY <1>2 DEF Waited, Awaits, Starts
<1>5. QED  BY <1>1, <1>3, <1>4 DEF p

LEMMA OtherParts ==
  /\ \A ss : StartsOnly(<<Rotate>>, ss)
  /\ UpSteps(<<Rotate>>) /\ CodeStays(<<Rotate>>)
  /\ \A build : LET p == <<CodeCheck(build, FALSE)>> IN
       /\ \A ss : StartsOnly(p, ss)
       /\ UpSteps(p) /\ CodeComes(p)
  /\ \A ss : StartsOnly(AwaitModels, ss)
  /\ UpSteps(AwaitModels) /\ CodeStays(AwaitModels)
  /\ \A s \in Range(Models) : Waited(AwaitModels, s)
<1>1. /\ \A ss : StartsOnly(<<Rotate>>, ss)
      /\ UpSteps(<<Rotate>>) /\ CodeStays(<<Rotate>>)
  BY DEF StartsOnly, UpSteps, CodeStays, Rotate
<1>2. ASSUME NEW build
      PROVE  LET p == <<CodeCheck(build, FALSE)>> IN
             /\ \A ss : StartsOnly(p, ss)
             /\ UpSteps(p) /\ CodeComes(p)
  <2> DEFINE p == <<CodeCheck(build, FALSE)>>
  <2>1. Len(p) = 1 /\ p[1].do = "codeCheck"
    BY DEF CodeCheck
  <2> HIDE DEF p
  <2>2. (\A ss : StartsOnly(p, ss)) /\ UpSteps(p) /\ CodeComes(p)
    BY <2>1 DEF StartsOnly, UpSteps, CodeComes
  <2>3. QED  BY <2>2 DEF p
<1>3. /\ Len(AwaitModels) = Len(Models) /\ DOMAIN Models = 1 .. Len(Models)
      /\ \A i \in 1 .. Len(AwaitModels) :
           AwaitModels[i].do = "await" /\ AwaitModels[i].of = {Models[i]}
  BY ModelsInOrder DEF AwaitModels, Await
<1>4. /\ \A ss : StartsOnly(AwaitModels, ss)
      /\ UpSteps(AwaitModels) /\ CodeStays(AwaitModels)
  BY <1>3 DEF StartsOnly, UpSteps, CodeStays
<1>5. ASSUME NEW s \in Range(Models) PROVE Waited(AwaitModels, s)
  <2>1. PICK j \in 1 .. Len(Models) : s = Models[j]
    BY <1>3 DEF Range
  <2>2. QED  BY <1>3, <2>1 DEF Waited, Awaits, Starts
<1>6. QED  BY <1>1, <1>2, <1>4, <1>5

(* Up waits for every service it was asked for after it started it, brings *)
(* the voice services and the daemon, and starts the orchestrator last.    *)
LEMMA UpPlanBrings ==
  ASSUME NEW o \in UpOptions
  PROVE  /\ UpSteps(UpPlan(o)) /\ Ordered(UpPlan(o))
         /\ \A s \in Asked(o) : Waited(UpPlan(o), s)
         /\ o.voice => \A s \in Voice : Brings(UpPlan(o), s)
         /\ o.code => CodeComes(UpPlan(o))
<1> DEFINE p1 == <<Rotate>>
           p2 == If(o.profile \in LocalDB, <<Start({Db}, FALSE), Await(Db)>>)
           p3 == If(o.code, <<CodeCheck(o.build, FALSE)>>)
           p4 == <<Start(Range(Models), o.build)>>
           p5 == AwaitModels
           p6 == If(o.memory, <<Start({Memory}, o.build), Await(Memory)>>)
           p7 == <<Start({Orchestrator}, o.build), Await(Orchestrator)>>
           p8 == If(o.ui, <<Start({UI}, o.build), Await(UI)>>)
           p9 == If(o.voice, <<Start(Voice, o.build)>>)
<1>1. /\ IsPlan(p1) /\ UpSteps(p1) /\ CodeStays(p1) /\ StartsOnly(p1, {})
  BY OneStep, OtherParts
<1>2. /\ IsPlan(p2) /\ UpSteps(p2) /\ CodeStays(p2) /\ StartsOnly(p2, {Db})
      /\ o.profile \in LocalDB => Waited(p2, Db)
  BY StartAwait, EmptyPart DEF If
<1>3. /\ IsPlan(p3) /\ UpSteps(p3) /\ StartsOnly(p3, {})
      /\ o.code => CodeComes(p3)
  BY OneStep, OtherParts, EmptyPart DEF If
<1>4. /\ IsPlan(p4) /\ UpSteps(p4) /\ CodeStays(p4) /\ StartsOnly(p4, Range(Models))
  BY StartAlone
<1>5. /\ IsPlan(p5) /\ UpSteps(p5) /\ CodeStays(p5) /\ StartsOnly(p5, {})
      /\ \A s \in Range(Models) : Waited(p5, s)
  BY Awaiting, OtherParts
<1>6. /\ IsPlan(p6) /\ UpSteps(p6) /\ CodeStays(p6) /\ StartsOnly(p6, {Memory})
      /\ o.memory => Waited(p6, Memory)
  BY StartAwait, EmptyPart DEF If
<1>7. /\ IsPlan(p7) /\ UpSteps(p7) /\ CodeStays(p7) /\ StartsOnly(p7, {Orchestrator})
      /\ Waited(p7, Orchestrator) /\ AwaitsNothingEarly(p7)
  BY StartAwait
<1>8. /\ IsPlan(p8) /\ UpSteps(p8) /\ CodeStays(p8) /\ StartsOnly(p8, {UI})
      /\ AwaitsNothingEarly(p8) /\ (o.ui => Waited(p8, UI))
  BY StartAwait, EmptyPart DEF If
<1>9. /\ IsPlan(p9) /\ UpSteps(p9) /\ CodeStays(p9) /\ StartsOnly(p9, Voice)
      /\ AwaitsNothingEarly(p9) /\ (o.voice => \A s \in Voice : Brings(p9, s))
  BY StartAlone, EmptyPart DEF If
<1>10. UpPlan(o) = p1 \o p2 \o p3 \o p4 \o p5 \o p6 \o p7 \o p8 \o p9
  BY DEF UpPlan
<1> HIDE DEF p1, p2, p3, p4, p5, p6, p7, p8, p9
<1>a. /\ Before(p1) /\ Before(p2) /\ Before(p3) /\ Before(p4) /\ Before(p5) /\ Before(p6)
  <2>1. /\ {Db} \cap (Voice \cup {Orchestrator}) = {}
        /\ {Memory} \cap (Voice \cup {Orchestrator}) = {}
        /\ Range(Models) \cap (Voice \cup {Orchestrator}) = {}
        /\ {} \cap (Voice \cup {Orchestrator}) = {}
    BY ServicesDiffer DEF Db, Memory, Orchestrator
  <2>2. QED  BY <1>1, <1>2, <1>3, <1>4, <1>5, <1>6, <2>1, OnlyStarted
<1>b. \A s \in Asked(o) :
        /\ Untouched(p1, s) /\ Untouched(p3, s) /\ Untouched(p5, s) /\ Untouched(p9, s)
        /\ s # Db => Untouched(p2, s)
        /\ s \notin Range(Models) => Untouched(p4, s)
        /\ s # Memory => Untouched(p6, s)
        /\ s # Orchestrator => Untouched(p7, s)
        /\ s # UI => Untouched(p8, s)
  <2>1. Asked(o) \cap Voice = {}
    BY ServicesDiffer DEF Asked
  <2>2. QED  BY <1>1, <1>2, <1>3, <1>4, <1>5, <1>6, <1>7, <1>8, <1>9, <2>1, OnlyStarted
<1> DEFINE u2 == p1 \o p2
           u3 == u2 \o p3
           u4 == u3 \o p4
           u5 == u4 \o p5
           u6 == u5 \o p6
           u7 == u6 \o p7
           u8 == u7 \o p8
           u9 == u8 \o p9
<1>c. UpPlan(o) = u9
  BY <1>10
<1>u2. /\ IsPlan(u2) /\ UpSteps(u2)
       /\ \A s : Waited(p2, s) \/ (Waited(p1, s) /\ Untouched(p2, s)) => Waited(u2, s)
       /\ Before(u2)
  BY <1>1, <1>2, <1>a, Joined DEF u2
<1> HIDE DEF u2
<1>u3. /\ IsPlan(u3) /\ UpSteps(u3)
       /\ \A s : Waited(p3, s) \/ (Waited(u2, s) /\ Untouched(p3, s)) => Waited(u3, s)
       /\ o.code => CodeComes(u3)
       /\ Before(u3)
  BY <1>u2, <1>3, <1>a, Joined DEF u3
<1> HIDE DEF u3
<1>u4. /\ IsPlan(u4) /\ UpSteps(u4)
       /\ \A s : Waited(p4, s) \/ (Waited(u3, s) /\ Untouched(p4, s)) => Waited(u4, s)
       /\ o.code => CodeComes(u4)
       /\ Before(u4)
  BY <1>u3, <1>4, <1>a, Joined DEF u4
<1> HIDE DEF u4
<1>u5. /\ IsPlan(u5) /\ UpSteps(u5)
       /\ \A s : Waited(p5, s) \/ (Waited(u4, s) /\ Untouched(p5, s)) => Waited(u5, s)
       /\ o.code => CodeComes(u5)
       /\ Before(u5)
  BY <1>u4, <1>5, <1>a, Joined DEF u5
<1> HIDE DEF u5
<1>u6. /\ IsPlan(u6) /\ UpSteps(u6)
       /\ \A s : Waited(p6, s) \/ (Waited(u5, s) /\ Untouched(p6, s)) => Waited(u6, s)
       /\ o.code => CodeComes(u6)
       /\ Before(u6)
  BY <1>u5, <1>6, <1>a, Joined DEF u6
<1> HIDE DEF u6
<1>o. Ordered(u6)
  BY <1>u6 DEF Before, Ordered
<1>u7. /\ IsPlan(u7) /\ UpSteps(u7)
       /\ \A s : Waited(p7, s) \/ (Waited(u6, s) /\ Untouched(p7, s)) => Waited(u7, s)
       /\ o.code => CodeComes(u7)
       /\ Ordered(u7)
  BY <1>u6, <1>7, <1>o, Joined DEF u7
<1> HIDE DEF u7
<1>u8. /\ IsPlan(u8) /\ UpSteps(u8)
       /\ \A s : Waited(p8, s) \/ (Waited(u7, s) /\ Untouched(p8, s)) => Waited(u8, s)
       /\ o.code => CodeComes(u8)
       /\ Ordered(u8)
  BY <1>u7, <1>8, Joined DEF u8
<1> HIDE DEF u8
<1>u9. /\ IsPlan(u9) /\ UpSteps(u9)
       /\ \A s : Waited(p9, s) \/ (Waited(u8, s) /\ Untouched(p9, s)) => Waited(u9, s)
       /\ o.code => CodeComes(u9)
       /\ Ordered(u9)
       /\ o.voice => \A s \in Voice : Brings(u9, s)
  BY <1>u8, <1>9, Joined DEF u9
<1> HIDE DEF u9
<1>d. ASSUME NEW s \in Asked(o) PROVE Waited(u9, s)
  <2>1. \/ s = Db /\ o.profile \in LocalDB
        \/ s \in Range(Models)
        \/ s = Memory /\ o.memory
        \/ s = Orchestrator
        \/ s = UI /\ o.ui
    BY DEF Asked
  <2>2. /\ Db \notin Range(Models) /\ Memory \notin Range(Models)
        /\ Orchestrator \notin Range(Models) /\ UI \notin Range(Models)
        /\ Db # Memory /\ Db # Orchestrator /\ Db # UI
        /\ Memory # Orchestrator /\ Memory # UI /\ Orchestrator # UI
    BY ServicesDiffer DEF Db, Memory, Orchestrator, UI
  <2>3. CASE s = Db /\ o.profile \in LocalDB
    BY <1>2, <1>b, <1>u2, <1>u3, <1>u4, <1>u5, <1>u6, <1>u7, <1>u8, <1>u9, <2>2, <2>3
  <2>4. CASE s \in Range(Models)
    BY <1>5, <1>b, <1>u5, <1>u6, <1>u7, <1>u8, <1>u9, <2>2, <2>4
  <2>5. CASE s = Memory /\ o.memory
    BY <1>6, <1>b, <1>u6, <1>u7, <1>u8, <1>u9, <2>2, <2>5
  <2>6. CASE s = Orchestrator
    BY <1>7, <1>b, <1>u7, <1>u8, <1>u9, <2>2, <2>6
  <2>7. CASE s = UI /\ o.ui
    BY <1>8, <1>b, <1>u8, <1>u9, <2>2, <2>7
  <2>8. QED  BY <2>1, <2>3, <2>4, <2>5, <2>6, <2>7
<1>e. QED  BY <1>c, <1>d, <1>u9

(* Down stops every service, the database if the profile runs its own.     *)
LEMMA DownPlanStops ==
  ASSUME NEW o \in DownOptions
  PROVE  /\ DownSteps(DownPlan(o)) /\ CodeGoes(DownPlan(o))
         /\ o.voice /\ o.ui /\ o.memory =>
              \A s \in Services : (s = Db /\ o.profile \notin LocalDB) \/ Stops(DownPlan(o), s)
<1> DEFINE front == (IF o.voice THEN Voice ELSE {}) \cup (IF o.ui THEN {UI} ELSE {}) \cup {Orchestrator}
           p1 == <<Stop(front)>>
           p2 == If(o.memory, <<Stop({Memory})>>)
           p3 == <<Stop(Range(Models))>>
           p4 == If(o.profile \in LocalDB, <<Stop({Db})>>)
           p5 == <<CodeDown>>
<1>0. ASSUME NEW ss
      PROVE  /\ IsPlan(<<Stop(ss)>>) /\ DownSteps(<<Stop(ss)>>)
             /\ \A s \in ss : Stops(<<Stop(ss)>>, s)
  <2> DEFINE p == <<Stop(ss)>>
  <2>1. IsPlan(p) /\ Len(p) = 1 /\ p[1].do = "stop" /\ p[1].of = ss
    BY OneStep DEF Stop
  <2> HIDE DEF p
  <2>2. DownSteps(p) /\ \A s \in ss : Stops(p, s)
    BY <2>1 DEF DownSteps, Stops
  <2>3. QED  BY <2>1, <2>2 DEF p
<1>a. IsPlan(<< >>) /\ DownSteps(<< >>)
  <2>1. Len(<< >>) = 0
    OBVIOUS
  <2>2. QED  BY <2>1, NoStep DEF DownSteps
<1>1. /\ IsPlan(p1) /\ DownSteps(p1)
      /\ \A s \in front : Stops(p1, s)
  BY <1>0
<1>2. /\ IsPlan(p2) /\ DownSteps(p2)
      /\ o.memory => Stops(p2, Memory)
  BY <1>0, <1>a DEF If
<1>3. /\ IsPlan(p3) /\ DownSteps(p3)
      /\ \A s \in Range(Models) : Stops(p3, s)
  BY <1>0
<1>4. /\ IsPlan(p4) /\ DownSteps(p4)
      /\ o.profile \in LocalDB => Stops(p4, Db)
  BY <1>0, <1>a DEF If
<1>5. IsPlan(p5) /\ DownSteps(p5) /\ CodeGoes(p5)
  BY OneStep DEF CodeDown, DownSteps, CodeGoes
<1>6. DownPlan(o) = p1 \o p2 \o p3 \o p4 \o p5
  BY DEF DownPlan
<1>7. o.voice /\ o.ui /\ o.memory =>
        \A s \in Services : \/ s \in front \/ s = Memory \/ s \in Range(Models) \/ s = Db
  BY DEF Services
<1> HIDE DEF front, p1, p2, p3, p4, p5
<1> DEFINE u2 == p1 \o p2
           u3 == u2 \o p3
           u4 == u3 \o p4
           u5 == u4 \o p5
<1>8. DownPlan(o) = u5
  BY <1>6
<1>u2. /\ IsPlan(u2) /\ DownSteps(u2) /\ \A s : Stops(p1, s) \/ Stops(p2, s) => Stops(u2, s)
  BY <1>1, <1>2, Concatenated, ConcatDown, ConcatStops
<1> HIDE DEF u2
<1>u3. /\ IsPlan(u3) /\ DownSteps(u3) /\ \A s : Stops(u2, s) \/ Stops(p3, s) => Stops(u3, s)
  BY <1>u2, <1>3, Concatenated, ConcatDown, ConcatStops
<1> HIDE DEF u3
<1>u4. /\ IsPlan(u4) /\ DownSteps(u4) /\ \A s : Stops(u3, s) \/ Stops(p4, s) => Stops(u4, s)
  BY <1>u3, <1>4, Concatenated, ConcatDown, ConcatStops
<1> HIDE DEF u4
<1>u5. /\ IsPlan(u5) /\ DownSteps(u5) /\ CodeGoes(u5) /\ \A s : Stops(u4, s) \/ Stops(p5, s) => Stops(u5, s)
  BY <1>u4, <1>5, Concatenated, ConcatDown, ConcatStops, ConcatGoes
<1> HIDE DEF u5
<1>9. QED  BY <1>1, <1>2, <1>3, <1>4, <1>7, <1>8, <1>u2, <1>u3, <1>u4, <1>u5

-----------------------------------------------------------------------------
(* What up has reached and what its plan still holds add up to what it was *)
(* asked for; the same for what down has to stop.                          *)
UpInv ==
  cmd.op = "up" /\ cmd.status # "failed" =>
    /\ UpSteps(cmd.plan) /\ Ordered(cmd.plan)
    /\ \A s \in Asked(cmd.opt) \ crashed :
         Waited(cmd.plan, s) \/ (svc[s] = "ready" /\ Untouched(cmd.plan, s))
    /\ cmd.opt.voice => \A s \in Voice \ crashed : Running(s) \/ Brings(cmd.plan, s)
    /\ cmd.opt.code /\ Code \notin crashed =>
         CodeComes(cmd.plan) \/ (daemon.unit = "active" /\ CodeStays(cmd.plan))

DownInv ==
  cmd.op = "down" /\ cmd.status # "failed" =>
    /\ DownSteps(cmd.plan)
    /\ cmd.opt.voice /\ cmd.opt.ui /\ cmd.opt.memory =>
         \A s \in Services : Running(s) =>
           (s = Db /\ cmd.opt.profile \notin LocalDB) \/ Stops(cmd.plan, s)
    /\ Code \notin crashed => daemon.unit = "inactive" \/ CodeGoes(cmd.plan)

Returned ==
  /\ daemon.unit = "restarting" => Code \in crashed
  /\ cmd.status = "ok" => cmd.plan = << >>

PlanInv == IInv /\ UpInv /\ DownInv /\ Returned

LEMMA InitPlanInv == Init => PlanInv
BY InitIInv DEF Init, PlanInv, UpInv, DownInv, Returned

LEMMA AskedAreServices == \A o : Asked(o) \subseteq Services
BY DEF Asked, Services

(* What runs beside a command, and a command that has not gone on.         *)
LEMMA WorldUp ==
  ASSUME UpInv, UNCHANGED cmd, crashed \subseteq crashed',
         \A s \in Services \ crashed' : /\ svc[s] = "ready" => svc'[s] = "ready"
                                        /\ svc[s] # "stopped" => svc'[s] # "stopped",
         Code \notin crashed' /\ daemon.unit = "active" => daemon'.unit = "active"
  PROVE  UpInv'
<1> SUFFICES ASSUME cmd.op = "up", cmd.status # "failed" PROVE UpInv'
  BY DEF UpInv
<1>1. \A s \in Asked(cmd.opt) \ crashed' :
        Waited(cmd.plan, s) \/ (svc'[s] = "ready" /\ Untouched(cmd.plan, s))
  BY AskedAreServices DEF UpInv
<1>2. cmd.opt.voice => \A s \in Voice \ crashed' : svc'[s] # "stopped" \/ Brings(cmd.plan, s)
  BY DEF UpInv, Running, Services
<1>3. cmd.opt.code /\ Code \notin crashed' =>
         CodeComes(cmd.plan) \/ (daemon'.unit = "active" /\ CodeStays(cmd.plan))
  BY DEF UpInv
<1>4. QED  BY <1>1, <1>2, <1>3 DEF UpInv, Running

LEMMA WorldDown ==
  ASSUME DownInv, UNCHANGED cmd, crashed \subseteq crashed',
         \A s \in Services : svc'[s] # "stopped" => svc[s] # "stopped",
         Code \notin crashed' /\ daemon.unit = "inactive" => daemon'.unit = "inactive"
  PROVE  DownInv'
BY DEF DownInv, Running

(* A step of up that is done.                                              *)
Plain(steps) == \A i \in 1 .. Len(steps) : steps[i].do \in {"codeStop", "codeRun", "codeWait"}

LEMMA UpStep ==
  ASSUME IInv, UpInv, cmd.op = "up", cmd.status = "running", cmd.plan # << >>,
         NEW steps, Continue(steps), IsPlan(steps), Plain(steps), UNCHANGED crashed,
         \A s \in Services :
           /\ Awaits(cmd.plan[1], s) \/ (svc[s] = "ready" /\ ~Starts(cmd.plan[1], s)) =>
                svc'[s] = "ready"
           /\ svc[s] # "stopped" \/ Starts(cmd.plan[1], s) => svc'[s] # "stopped",
         cmd.plan[1].do \in {"codeCheck", "codeRun"} =>
           CodeComes(steps) \/ (daemon'.unit = "active" /\ CodeStays(steps)),
         daemon.unit = "active" /\ cmd.plan[1].do # "codeStop" =>
           CodeComes(steps) \/ (daemon'.unit = "active" /\ CodeStays(steps))
  PROVE  UpInv'
<1> DEFINE p == cmd.plan
           h == cmd.plan[1]
           rest == Tail(cmd.plan)
<1>1. IsPlan(p) /\ IsPlan(rest)
  BY RestOfPlan DEF IInv, Rotated
<1>2. /\ cmd'.op = cmd.op /\ cmd'.opt = cmd.opt /\ cmd'.plan = steps \o rest
      /\ cmd'.status = cmd.status
  BY DEF Continue, IInv, CmdShape
<1>3. UpSteps(steps) /\ Before(steps) /\ Ordered(steps) /\ \A s : Untouched(steps, s)
  BY DEF Plain, UpSteps, Before, StartsOrchestrator, Ordered, Untouched, Starts
<1>4. UpSteps(p) /\ Ordered(p)
  BY DEF UpInv
<1>5. UpSteps(rest) /\ Ordered(rest)
  BY <1>1, <1>4, RestUp
<1>6. UpSteps(steps \o rest) /\ Ordered(steps \o rest)
  BY <1>1, <1>3, <1>5, ConcatUp, ConcatOrdered DEF Before
<1>7. ASSUME NEW s \in Asked(cmd.opt) \ crashed
      PROVE  Waited(steps \o rest, s) \/ (svc'[s] = "ready" /\ Untouched(steps \o rest, s))
  <2>1. Waited(p, s) \/ (svc[s] = "ready" /\ Untouched(p, s))
    BY DEF UpInv
  <2>2. s \in Services
    BY AskedAreServices
  <2>3. CASE Waited(p, s)
    <3>1. Waited(rest, s) \/ (Awaits(h, s) /\ Untouched(rest, s))
      BY <1>1, <2>3, RestWaited
    <3>2. QED  BY <1>1, <1>3, <2>2, <3>1, ConcatWaited, ConcatUntouched
  <2>4. CASE svc[s] = "ready" /\ Untouched(p, s)
    <3>1. Untouched(rest, s)
      BY <1>1, <2>4, RestUntouched
    <3>2. ~Starts(h, s)
      BY <1>1, <2>4, Remaining DEF Untouched
    <3>3. QED  BY <1>1, <1>3, <2>2, <2>4, <3>1, <3>2, ConcatUntouched
  <2>5. QED  BY <2>1, <2>3, <2>4
<1>8. ASSUME cmd.opt.voice, NEW s \in Voice \ crashed
      PROVE  svc'[s] # "stopped" \/ Brings(steps \o rest, s)
  <2>1. s \in Services /\ (svc[s] # "stopped" \/ Brings(p, s))
    BY <1>8 DEF UpInv, Services, Running
  <2>2. Brings(p, s) => Starts(h, s) \/ Brings(rest, s)
    BY <1>1, RestBrings
  <2>3. QED  BY <1>1, <2>1, <2>2, ConcatBrings
<1>9. ASSUME cmd.opt.code, Code \notin crashed
      PROVE  CodeComes(steps \o rest) \/ (daemon'.unit = "active" /\ CodeStays(steps \o rest))
  <2>1. CodeComes(p) \/ (daemon.unit = "active" /\ CodeStays(p))
    BY <1>9 DEF UpInv
  <2>2. CASE CodeComes(p)
    <3>1. \/ CodeComes(rest)
          \/ h.do \in {"codeCheck", "codeRun"} /\ CodeStays(rest)
      BY <1>1, <2>2, RestComes
    <3>2. QED  BY <1>1, <3>1, ConcatComes, ConcatStays
  <2>3. CASE daemon.unit = "active" /\ CodeStays(p)
    <3>1. CodeStays(rest) /\ h.do # "codeStop"
      BY <1>1, <2>3, RestStays, Remaining DEF CodeStays
    <3>2. QED  BY <1>1, <2>3, <3>1, ConcatComes, ConcatStays
  <2>4. QED  BY <2>1, <2>2, <2>3
<1>10. QED  BY <1>2, <1>6, <1>7, <1>8, <1>9 DEF UpInv, Running

(* A step of down that is done.                                            *)
LEMMA DownStep ==
  ASSUME IInv, DownInv, cmd.op = "down", cmd.status = "running", cmd.plan # << >>,
         Continue(<< >>), UNCHANGED crashed,
         \A s \in Services : svc'[s] # "stopped" =>
           svc[s] # "stopped" /\ ~(cmd.plan[1].do = "stop" /\ s \in cmd.plan[1].of),
         Code \notin crashed /\ (daemon.unit = "inactive" \/ cmd.plan[1].do = "codeDown") =>
           daemon'.unit = "inactive"
  PROVE  DownInv'
<1> DEFINE p == cmd.plan
           rest == Tail(cmd.plan)
<1>1. IsPlan(p) /\ IsPlan(rest)
  BY RestOfPlan DEF IInv, Rotated
<1>2. /\ cmd'.op = cmd.op /\ cmd'.opt = cmd.opt /\ cmd'.plan = rest /\ cmd'.status = cmd.status
  <2>1. << >> \o rest = rest
    BY <1>1, PlanIsOver
  <2>2. QED  BY <2>1 DEF Continue, IInv, CmdShape
<1>3. DownSteps(rest)
  BY <1>1, RestDown DEF DownInv
<1>4. ASSUME cmd.opt.voice, cmd.opt.ui, cmd.opt.memory, NEW s \in Services, svc'[s] # "stopped"
      PROVE  (s = Db /\ cmd.opt.profile \notin LocalDB) \/ Stops(rest, s)
  BY <1>1, <1>4, RestStops DEF DownInv, Running
<1>5. ASSUME Code \notin crashed
      PROVE  daemon'.unit = "inactive" \/ CodeGoes(rest)
  BY <1>1, <1>5, RestGoes DEF DownInv
<1>6. QED  BY <1>2, <1>3, <1>4, <1>5 DEF DownInv, Running

LEMMA NoSteps ==
  /\ IsPlan(<< >>) /\ Plain(<< >>) /\ CodeStays(<< >>)
<1>1. Len(<< >>) = 0
  OBVIOUS
<1>2. QED  BY <1>1, NoStep DEF Plain, CodeStays

LEMMA RestartSteps ==
  /\ Plain(<<CodeRun, CodeWait>>) /\ CodeComes(<<CodeRun, CodeWait>>)
  /\ Plain(<<CodeStop, CodeRun, CodeWait>>) /\ CodeComes(<<CodeStop, CodeRun, CodeWait>>)
<1>1. ASSUME NEW p, Len(p) = 2, p[1].do = "codeRun", p[2].do = "codeWait"
      PROVE  Plain(p) /\ CodeComes(p)
  BY <1>1 DEF Plain, CodeComes
<1>2. ASSUME NEW p, Len(p) = 3, p[1].do = "codeStop", p[2].do = "codeRun", p[3].do = "codeWait"
      PROVE  Plain(p) /\ CodeComes(p)
  <2>1. Plain(p)
    BY <1>2 DEF Plain
  <2>2. /\ 2 \in 1 .. Len(p) /\ p[2].do \in {"codeCheck", "codeRun"}
        /\ \A i \in 1 .. Len(p) : i > 2 => p[i].do # "codeStop"
    BY <1>2
  <2>3. QED  BY <2>1, <2>2 DEF CodeComes
<1> DEFINE q == <<CodeRun, CodeWait>>
           r == <<CodeStop, CodeRun, CodeWait>>
<1>3. Len(q) = 2 /\ q[1].do = "codeRun" /\ q[2].do = "codeWait"
  BY DEF CodeRun, CodeWait
<1>4. Len(r) = 3 /\ r[1].do = "codeStop" /\ r[2].do = "codeRun" /\ r[3].do = "codeWait"
  BY DEF CodeStop, CodeRun, CodeWait
<1> HIDE DEF q, r
<1>5. Plain(q) /\ CodeComes(q) /\ Plain(r) /\ CodeComes(r)
  BY <1>1, <1>2, <1>3, <1>4
<1>6. QED  BY <1>5 DEF q, r

(* A command other than up and down, or one that failed, has no duty.      *)
LEMMA NoDuty ==
  ASSUME cmd'.op = "restart" \/ cmd'.status = "failed"
  PROVE  UpInv' /\ DownInv'
BY DEF UpInv, DownInv

LEMMA Kept ==
  ASSUME IInv, Step("rotate") \/ Step("start") \/ Step("await") \/ Step("stop")
                 \/ Step("codeCheck") \/ Step("codeStop") \/ Step("codeRun")
                 \/ Step("codeWait") \/ Step("codeDown")
  PROVE  /\ cmd.status = "running" /\ cmd.plan # << >> /\ Head(cmd.plan) = cmd.plan[1]
         /\ 1 \in 1 .. Len(cmd.plan) /\ IsPlan(cmd.plan)
         /\ UNCHANGED crashed /\ cmd.op \in {"none", "up", "down", "restart"}
         /\ Failed => cmd'.status = "failed"
         /\ \A steps : Continue(steps) => /\ cmd'.op = cmd.op /\ cmd'.opt = cmd.opt
                                          /\ cmd'.status = cmd.status
BY RestOfPlan DEF IInv, Step, history, CmdShape, Failed, Continue, Rotated, TypeOK

LEMMA NextDuties ==
  ASSUME PlanInv, [Next]_vars
  PROVE  UpInv' /\ DownInv'
<1>0. IInv /\ TypeOK /\ CmdShape /\ UpInv /\ DownInv /\ Returned
  BY DEF PlanInv, IInv
<1> DEFINE h == cmd.plan[1]
<1>f. ASSUME Failed PROVE UpInv' /\ DownInv'
  <2>1. cmd'.status = "failed"
    BY <1>0, <1>f DEF Failed, CmdShape
  <2>2. QED  BY <2>1, NoDuty
<1>1. CASE GiveUp
  <2>1. PICK o \in UpChoices : Give("up", o, UpPlan(o))
    BY <1>1 DEF GiveUp
  <2>2. /\ cmd'.op = "up" /\ cmd'.opt = o /\ cmd'.plan = UpPlan(o)
    BY <2>1 DEF Give
  <2>3. /\ UpSteps(UpPlan(o)) /\ Ordered(UpPlan(o))
        /\ \A s \in Asked(o) : Waited(UpPlan(o), s)
        /\ o.voice => \A s \in Voice : Brings(UpPlan(o), s)
        /\ o.code => CodeComes(UpPlan(o))
    BY UpPlanBrings, UpChoicesAreOptions
  <2>4. QED  BY <2>2, <2>3 DEF UpInv, DownInv
<1>2. CASE GiveDown
  <2>1. PICK o \in DownChoices : Give("down", o, DownPlan(o))
    BY <1>2 DEF GiveDown
  <2>2. cmd'.op = "down" /\ cmd'.opt = o /\ cmd'.plan = DownPlan(o)
    BY <2>1 DEF Give
  <2>3. /\ DownSteps(DownPlan(o)) /\ CodeGoes(DownPlan(o))
        /\ o.voice /\ o.ui /\ o.memory =>
             \A s \in Services : (s = Db /\ o.profile \notin LocalDB) \/ Stops(DownPlan(o), s)
    BY DownPlanStops, DownChoicesAreOptions
  <2>4. QED  BY <2>2, <2>3 DEF UpInv, DownInv
<1>3. CASE GiveRestart
  <2>1. cmd'.op = "restart"
    BY <1>3 DEF GiveRestart, Give
  <2>2. QED  BY <2>1, NoDuty
<1>u. ASSUME Step("rotate") \/ Step("start") \/ Step("await")
               \/ Step("codeWait") \/ Step("codeRun"),
             Done,
             \A s \in Services :
               /\ Awaits(h, s) \/ (svc[s] = "ready" /\ ~Starts(h, s)) => svc'[s] = "ready"
               /\ svc[s] # "stopped" \/ Starts(h, s) => svc'[s] # "stopped",
             h.do = "codeRun" \/ daemon.unit = "active" => daemon'.unit = "active"
      PROVE  UpInv' /\ DownInv'
  <2>1. /\ cmd.status = "running" /\ cmd.plan # << >> /\ UNCHANGED crashed
        /\ cmd.op \in {"none", "up", "down", "restart"}
        /\ cmd'.op = cmd.op /\ Head(cmd.plan) = h /\ 1 \in 1 .. Len(cmd.plan)
    BY <1>0, <1>u, Kept DEF Done
  <2>2. h.do \in {"rotate", "start", "await", "codeWait", "codeRun"}
    BY <1>u, <2>1 DEF Step
  <2>3. cmd.op # "down"
    BY <1>0, <2>1, <2>2 DEF DownInv, DownSteps
  <2>4. cmd.op = "up" => UpInv'
    BY <1>0, <1>u, <2>1, <2>2, NoSteps, UpStep DEF Done
  <2>5. QED  BY <2>1, <2>3, <2>4 DEF UpInv, DownInv
<1>4. CASE DoRotate
  <2>1. /\ Step("rotate") /\ UNCHANGED <<svc, daemon>> /\ (Done \/ Failed)
    BY <1>4 DEF DoRotate
  <2>2. h.do = "rotate"
    BY <1>0, <2>1, Kept DEF Step
  <2>3. QED  BY <1>f, <1>u, <2>1, <2>2 DEF Awaits, Starts
<1>5. CASE DoStart
  <2>1. /\ Step("start") /\ UNCHANGED daemon
        /\ \/ Failed
           \/ Done /\ \E fresh \in h.fresh : svc' = Started(svc, Needed(h.of), fresh)
    BY <1>0, <1>5, Kept DEF DoStart
  <2>2. h.do = "start" /\ 1 \in 1 .. Len(cmd.plan) /\ Head(cmd.plan) = h
    BY <1>0, <2>1, Kept DEF Step
  <2>3. CASE Failed
    BY <1>f, <2>3
  <2>4. CASE Done /\ \E fresh \in h.fresh : svc' = Started(svc, Needed(h.of), fresh)
    <3>1. PICK fresh \in h.fresh : svc' = Started(svc, Needed(h.of), fresh)
      BY <2>4
    <3>2. cmd.op = "up" => fresh \subseteq h.of
      BY <1>0, <2>1, <2>2, Kept DEF UpInv, UpSteps
    <3>3. h.of \subseteq Needed(h.of)
      BY DEF Needed
    <3>4. svc \in [Services -> {"stopped", "starting", "ready"}]
      BY <1>0 DEF TypeOK
    <3>5. \A s \in Services : svc'[s] =
            IF s \in Needed(h.of) /\ (svc[s] = "stopped" \/ s \in fresh) THEN "starting" ELSE svc[s]
      BY <3>1 DEF Started
    <3>6. CASE cmd.op = "up"
      <4>1. \A s \in Services :
              /\ Awaits(h, s) \/ (svc[s] = "ready" /\ ~Starts(h, s)) => svc'[s] = "ready"
              /\ svc[s] # "stopped" \/ Starts(h, s) => svc'[s] # "stopped"
        BY <2>2, <3>2, <3>3, <3>5, <3>6 DEF Awaits, Starts
      <4>2. QED  BY <1>u, <2>1, <2>2, <2>4, <4>1
    <3>7. CASE cmd.op # "up"
      <4>1. cmd.op # "down"
        BY <1>0, <2>1, <2>2, Kept DEF DownInv, DownSteps
      <4>2. cmd'.op = cmd.op
        BY <1>0, <2>1, <2>4, Kept DEF Done
      <4>3. QED  BY <3>7, <4>1, <4>2 DEF UpInv, DownInv
    <3>8. QED  BY <3>6, <3>7
  <2>5. QED  BY <2>1, <2>3, <2>4
<1>6. CASE DoAwait
  <2>1. /\ Step("await") /\ UNCHANGED <<svc, daemon>>
        /\ Failed \/ ((\A s \in h.of : svc[s] = "ready") /\ Done)
    BY <1>0, <1>6, Kept DEF DoAwait
  <2>2. h.do = "await"
    BY <1>0, <2>1, Kept DEF Step
  <2>3. QED  BY <1>f, <1>u, <2>1, <2>2 DEF Awaits, Starts
<1>7. CASE DoStop
  <2>1. /\ Step("stop") /\ UNCHANGED daemon
        /\ Failed \/ (svc' = Stopped(h.of) /\ Done)
    BY <1>0, <1>7, Kept DEF DoStop
  <2>2. h.do = "stop" /\ 1 \in 1 .. Len(cmd.plan)
    BY <1>0, <2>1, Kept DEF Step
  <2>3. CASE Failed
    BY <1>f, <2>3
  <2>4. CASE svc' = Stopped(h.of) /\ Done
    <3>1. cmd.op # "up"
      BY <1>0, <2>1, <2>2, Kept DEF UpInv, UpSteps
    <3>2. cmd'.op = cmd.op
      BY <1>0, <2>1, <2>4, Kept DEF Done
    <3>3. \A s \in Services : svc'[s] = IF s \in h.of THEN "stopped" ELSE svc[s]
      BY <2>4 DEF Stopped
    <3>4. cmd.op = "down" => DownInv'
      BY <1>0, <2>1, <2>2, <2>4, <3>3, Kept, DownStep DEF Done
    <3>5. QED  BY <3>1, <3>2, <3>4 DEF UpInv, DownInv
  <2>5. QED  BY <2>1, <2>3, <2>4
<1>8. CASE DoCodeCheck
  <2>1. /\ Step("codeCheck") /\ UNCHANGED <<svc, daemon>>
    BY <1>8 DEF DoCodeCheck
  <2>2. h.do = "codeCheck" /\ 1 \in 1 .. Len(cmd.plan)
    BY <1>0, <2>1, Kept DEF Step
  <2>3. \/ Failed
        \/ daemon.unit = "active" /\ Continue(<< >>)
        \/ Continue(<<CodeRun, CodeWait>>)
        \/ Continue(<<CodeStop, CodeRun, CodeWait>>)
    BY <1>8 DEF DoCodeCheck, Done
  <2>4. ASSUME NEW steps, Continue(steps), IsPlan(steps), Plain(steps),
               CodeComes(steps) \/ (daemon'.unit = "active" /\ CodeStays(steps))
        PROVE  UpInv' /\ DownInv'
    <3>1. cmd.op # "down"
      BY <1>0, <2>1, <2>2, Kept DEF DownInv, DownSteps
    <3>2. cmd'.op = cmd.op
      BY <1>0, <2>1, <2>4, Kept
    <3>3. cmd.op = "up" => UpInv'
      BY <1>0, <2>1, <2>2, <2>4, Kept, UpStep DEF Awaits, Starts
    <3>4. QED  BY <3>1, <3>2, <3>3 DEF UpInv, DownInv
  <2>5. QED  BY <1>f, <2>1, <2>3, <2>4, NoSteps, CodeSteps, RestartSteps
<1>9. CASE DoCodeStop
  <2>1. Step("codeStop") /\ (Done \/ Failed)
    BY <1>9 DEF DoCodeStop
  <2>2. h.do = "codeStop" /\ 1 \in 1 .. Len(cmd.plan) /\ UNCHANGED svc
    BY <1>0, <1>9, <2>1, Kept DEF Step, DoCodeStop
  <2>3. CASE Failed
    BY <1>f, <2>3
  <2>4. CASE Done
    <3>1. cmd.op # "down"
      BY <1>0, <2>1, <2>2, Kept DEF DownInv, DownSteps
    <3>2. cmd'.op = cmd.op
      BY <1>0, <2>1, <2>4, Kept DEF Done
    <3>3. cmd.op = "up" => UpInv'
      BY <1>0, <2>1, <2>2, <2>4, Kept, NoSteps, UpStep DEF Awaits, Starts, Done
    <3>4. QED  BY <3>1, <3>2, <3>3 DEF UpInv, DownInv
  <2>5. QED  BY <2>1, <2>3, <2>4
<1>10. CASE DoCodeRun
  <2>1. /\ Step("codeRun") /\ UNCHANGED svc
        /\ \/ Failed
           \/ Done /\ daemon' = [daemon EXCEPT !.unit = "active"]
    BY <1>10 DEF DoCodeRun
  <2>2. h.do = "codeRun"
    BY <1>0, <2>1, Kept DEF Step
  <2>3. Done => daemon'.unit = "active" \/ Failed
    BY <1>0, <2>1 DEF TypeOK
  <2>4. QED  BY <1>f, <1>u, <2>1, <2>2, <2>3 DEF Awaits, Starts
<1>11. CASE DoCodeWait
  <2>1. /\ Step("codeWait") /\ UNCHANGED <<svc, daemon>> /\ (Done \/ Failed)
    BY <1>11 DEF DoCodeWait
  <2>2. h.do = "codeWait"
    BY <1>0, <2>1, Kept DEF Step
  <2>3. QED  BY <1>f, <1>u, <2>1, <2>2 DEF Awaits, Starts
<1>12. CASE DoCodeDown
  <2>1. /\ Step("codeDown") /\ UNCHANGED svc
        /\ \/ Failed
           \/ Done /\ daemon' = (IF daemon.unit = "active" THEN DaemonGone ELSE daemon)
    BY <1>12 DEF DoCodeDown
  <2>2. h.do = "codeDown" /\ 1 \in 1 .. Len(cmd.plan)
    BY <1>0, <2>1, Kept DEF Step
  <2>3. CASE Failed
    BY <1>f, <2>3
  <2>4. CASE Done /\ daemon' = (IF daemon.unit = "active" THEN DaemonGone ELSE daemon)
    <3>1. cmd.op # "up"
      BY <1>0, <2>1, <2>2, Kept DEF UpInv, UpSteps
    <3>2. cmd'.op = cmd.op
      BY <1>0, <2>1, <2>4, Kept DEF Done
    <3>3. Code \notin crashed => daemon'.unit = "inactive"
      BY <1>0, <2>4 DEF Returned, TypeOK, DaemonGone
    <3>4. cmd.op = "down" => DownInv'
      BY <1>0, <2>1, <2>2, <2>4, <3>3, Kept, DownStep DEF Done
    <3>5. QED  BY <3>1, <3>2, <3>4 DEF UpInv, DownInv
  <2>5. QED  BY <2>1, <2>3, <2>4
<1>13. CASE Return
  <2>1. /\ cmd.status = "running"
        /\ cmd'.op = cmd.op /\ cmd'.opt = cmd.opt /\ cmd'.plan = cmd.plan
        /\ UNCHANGED <<svc, daemon, crashed>>
    BY <1>0, <1>13 DEF Return, CmdShape, history
  <2>2. UpInv'
    BY <1>0, <2>1 DEF UpInv, Running
  <2>3. DownInv'
    BY <1>0, <2>1 DEF DownInv, Running
  <2>4. QED  BY <2>2, <2>3
<1>14. ASSUME NEW x \in Services, BecomeReady(x) PROVE UpInv' /\ DownInv'
  <2>1. /\ UNCHANGED <<cmd, crashed, daemon>>
        /\ \A s \in Services : svc'[s] = IF s = x THEN "ready" ELSE svc[s]
        /\ svc[x] = "starting"
    BY <1>0, <1>14 DEF BecomeReady, history, TypeOK
  <2>2. QED  BY <1>0, <2>1, WorldUp, WorldDown
<1>15. ASSUME NEW x \in Services, Crash(x) PROVE UpInv' /\ DownInv'
  <2>1. /\ UNCHANGED <<cmd, daemon>> /\ crashed' = crashed \cup {x}
        /\ \A s \in Services : svc'[s] = IF s = x THEN "stopped" ELSE svc[s]
    BY <1>0, <1>15 DEF Crash, CountCrash, TypeOK
  <2>2. QED  BY <1>0, <2>1, WorldUp, WorldDown
<1>16. CASE DaemonListens \/ SystemdRestarts
  <2>1. /\ UNCHANGED <<cmd, crashed, svc>>
        /\ Code \notin crashed => daemon'.unit = daemon.unit
    BY <1>0, <1>16 DEF DaemonListens, SystemdRestarts, history, TypeOK, Returned
  <2>2. QED  BY <1>0, <2>1, WorldUp, WorldDown
<1>17. CASE DaemonCrashes
  <2>1. /\ UNCHANGED <<cmd, svc>> /\ crashed' = crashed \cup {Code}
    BY <1>17 DEF DaemonCrashes, CountCrash
  <2>2. QED  BY <1>0, <2>1, WorldUp, WorldDown
<1>18. CASE UNCHANGED vars
  BY <1>0, <1>18, WorldUp, WorldDown DEF vars
<1>19. QED
  BY <1>1, <1>2, <1>3, <1>4, <1>5, <1>6, <1>7, <1>8, <1>9, <1>10, <1>11, <1>12, <1>13, <1>14,
     <1>15, <1>16, <1>17, <1>18 DEF Next

LEMMA NextPlanInv == PlanInv /\ [Next]_vars => PlanInv'
<1> SUFFICES ASSUME PlanInv, [Next]_vars PROVE PlanInv'
  OBVIOUS
<1>0. IInv /\ TypeOK /\ CmdShape /\ Returned
  BY DEF PlanInv, IInv
<1>1. IInv'
  BY <1>0, NextIInv
<1>2. daemon'.unit = "restarting" => Code \in crashed'
  <2>1. CASE GiveUp \/ GiveDown \/ GiveRestart
    BY <2>1 DEF GiveUp, GiveDown, GiveRestart, Give
  <2>2. CASE DoRotate \/ DoStart \/ DoAwait \/ DoStop \/ DoCodeCheck \/ DoCodeWait \/ Return
    BY <1>0, <2>2 DEF DoRotate, DoStart, DoAwait, DoStop, DoCodeCheck, DoCodeWait, Return, Step,
         history, Returned
  <2>3. CASE DoCodeStop \/ DoCodeRun \/ DoCodeDown
    <3>1. daemon' \in {daemon, DaemonGone, [daemon EXCEPT !.unit = "active"]} /\ UNCHANGED crashed
      BY <2>3 DEF DoCodeStop, DoCodeRun, DoCodeDown, Step, history
    <3>2. daemon'.unit \in {daemon.unit, "inactive", "active"}
      BY <1>0, <3>1 DEF TypeOK, DaemonGone
    <3>3. QED  BY <1>0, <3>1, <3>2 DEF Returned
  <2>4. CASE \E s \in Services : BecomeReady(s) \/ Crash(s)
    BY <1>0, <2>4 DEF BecomeReady, Crash, CountCrash, history, Returned
  <2>5. CASE DaemonListens \/ DaemonCrashes \/ SystemdRestarts
    BY <1>0, <2>5 DEF DaemonListens, DaemonCrashes, CountCrash, SystemdRestarts, history, Returned, TypeOK
  <2>6. CASE UNCHANGED vars
    BY <1>0, <2>6 DEF vars, Returned
  <2>7. QED  BY <2>1, <2>2, <2>3, <2>4, <2>5, <2>6 DEF Next
<1>3. cmd'.status = "ok" => cmd'.plan = << >>
  <2>1. CASE GiveUp \/ GiveDown \/ GiveRestart
    BY <2>1 DEF GiveUp, GiveDown, GiveRestart, Give
  <2>2. CASE \/ DoRotate \/ DoStart \/ DoAwait \/ DoStop \/ DoCodeCheck \/ DoCodeStop \/ DoCodeRun
             \/ DoCodeWait \/ DoCodeDown
    <3>1. cmd.status = "running" /\ (Failed \/ \E steps : Continue(steps))
      BY <2>2 DEF DoRotate, DoStart, DoAwait, DoStop, DoCodeCheck, DoCodeStop, DoCodeRun,
           DoCodeWait, DoCodeDown, Step, Done
    <3>2. cmd'.status \in {"running", "failed"}
      BY <1>0, <3>1 DEF Failed, Continue, CmdShape
    <3>3. QED  BY <3>2
  <2>3. CASE Return
    BY <1>0, <2>3 DEF Return, CmdShape
  <2>4. CASE \/ \E s \in Services : BecomeReady(s) \/ Crash(s)
             \/ DaemonListens \/ DaemonCrashes \/ SystemdRestarts \/ UNCHANGED vars
    BY <1>0, <2>4 DEF BecomeReady, Crash, CountCrash, DaemonListens, DaemonCrashes, SystemdRestarts,
         vars, Returned
  <2>5. QED  BY <2>1, <2>2, <2>3, <2>4 DEF Next
<1>4. Returned'
  BY <1>2, <1>3 DEF Returned
<1>5. QED  BY <1>1, <1>4, NextDuties DEF PlanInv

LEMMA PlanInvariance == Spec => []PlanInv
BY InitPlanInv, NextPlanInv, PTL DEF Spec

-----------------------------------------------------------------------------
LEMMA NothingLeft ==
  /\ \A s : ~Waited(<< >>, s) /\ ~Brings(<< >>, s) /\ ~Stops(<< >>, s)
  /\ ~CodeComes(<< >>) /\ ~CodeGoes(<< >>)
<1>1. Len(<< >>) = 0
  OBVIOUS
<1>2. QED  BY <1>1 DEF Waited, Brings, Stops, CodeComes, CodeGoes

(* When up returns, what it was asked for is ready, the voice services run *)
(* and the daemon's unit is active, but for what stopped by itself.        *)
THEOREM ReadyIsReady == Spec => []ReadyMeansUp
<1>1. PlanInv => ReadyMeansUp
  BY NothingLeft DEF PlanInv, Returned, UpInv, ReadyMeansUp
<1>2. QED  BY <1>1, PlanInvariance, PTL

(* When a full down returns, nothing runs but what it could not know of.   *)
THEOREM DownStopsAll == Spec => []DownLeavesNothing
<1>1. PlanInv => DownLeavesNothing
  BY NothingLeft DEF PlanInv, Returned, DownInv, DownLeavesNothing
<1>2. QED  BY <1>1, PlanInvariance, PTL

(* Up starts the orchestrator when all that it calls has been seen ready   *)
(* and has not stopped by itself since.                                    *)
THEOREM OrchestratorLast == Spec => DependenciesFirst
<1>1. ASSUME PlanInv, [Next]_vars, cmd.op = "up", ~Running(Orchestrator), Running(Orchestrator)',
             NEW s \in Asked(cmd.opt) \ (crashed \cup {Orchestrator, UI})
      PROVE  svc[s] = "ready"
  <2>0. TypeOK /\ IInv /\ UpInv
    BY <1>1 DEF PlanInv, IInv
  <2>1. Orchestrator \in Services /\ svc[Orchestrator] = "stopped" /\ svc'[Orchestrator] # "stopped"
    BY <1>1 DEF Running, Services
  <2>2. DoStart
    BY <1>1, <2>0, <2>1 DEF TypeOK, vars, Next, GiveUp, GiveDown, GiveRestart, Give, DoRotate, DoAwait,
         DoStop, Stopped, DoCodeCheck, DoCodeStop, DoCodeRun, DoCodeWait, DoCodeDown, Return,
         BecomeReady, Crash, CountCrash, DaemonListens, DaemonCrashes, SystemdRestarts
  <2>3. /\ cmd.status = "running" /\ cmd.plan # << >> /\ Head(cmd.plan) = cmd.plan[1]
        /\ 1 \in 1 .. Len(cmd.plan) /\ cmd.plan[1].do = "start"
    BY <2>0, <2>2, Kept DEF DoStart, Step
  <2>4. Orchestrator \in Needed(cmd.plan[1].of)
    BY <2>1, <2>2, <2>3 DEF DoStart, Started
  <2>5. StartsOrchestrator(cmd.plan[1])
    BY <2>3, <2>4 DEF StartsOrchestrator
  <2>6. ~Waited(cmd.plan, s)
    <3>1. SUFFICES ASSUME NEW j \in 1 .. Len(cmd.plan), Awaits(cmd.plan[j], s) PROVE FALSE
      BY DEF Waited
    <3>2. AwaitsEarly(cmd.plan[j])
      BY <3>1 DEF Awaits, AwaitsEarly
    <3>3. j < 1
      BY <1>1, <2>0, <2>3, <2>5, <3>2 DEF UpInv, Ordered
    <3>4. QED  BY <3>3
  <2>7. QED  BY <1>1, <2>0, <2>3, <2>6 DEF UpInv
<1>2. PlanInv /\ [Next]_vars =>
        [cmd.op = "up" /\ ~Running(Orchestrator) /\ Running(Orchestrator)' =>
           \A s \in Asked(cmd.opt) \ (crashed \cup {Orchestrator, UI}) : svc[s] = "ready"]_vars
  BY <1>1
<1>3. QED  BY <1>2, PlanInvariance, PTL DEF Spec, DependenciesFirst

=============================================================================
