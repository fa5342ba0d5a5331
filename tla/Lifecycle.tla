------------------------------ MODULE Lifecycle ------------------------------
(***************************************************************************)
(* The lifecycle CLI: beemo up, down and restart over the containers, the  *)
(* user unit of the code tools daemon and the session file.                *)
(*                                                                         *)
(* A command is the sequence of steps its options select, executed one at  *)
(* a time.  Any step may fail (docker, systemd, a deadline, Ctrl-C): the   *)
(* command then returns at once and everything stays as it is, the part of *)
(* the step that was done included.  Containers get ready, stop by         *)
(* themselves and fail to get ready beside the command.                    *)
(***************************************************************************)
EXTENDS Naturals, Sequences, SequencesExt, FiniteSets

CONSTANTS
  Models,        \* the model services, in the order Up waits for them
  Voice,         \* the voice services
  UpChoices,     \* options explored for up
  DownChoices,   \* options explored for down
  RestartChoices,\* services explored for restart
  MaxCommands,   \* bound of the model: commands given
  MaxCrashes     \* bound of the model: services that stop by themselves

Db == "eve-db"
Memory == "memory_palace"
Orchestrator == "eve-orchestrator"
UI == "eve-ui"
Code == "beemo-code"

Services == Range(Models) \cup Voice \cup {Db, Memory, Orchestrator, UI}

(* The machine profiles, and those that run their own PostgreSQL.          *)
Profiles == {"garnetmoon", "vllm-gpu", "legion-go", "llama-cpu", "vllm-cpu"}
LocalDB == {"legion-go", "llama-cpu", "vllm-cpu"}

UpOptions == [build : BOOLEAN, memory : BOOLEAN, ui : BOOLEAN, voice : BOOLEAN,
              code : BOOLEAN, profile : Profiles]
DownOptions == [memory : BOOLEAN, ui : BOOLEAN, voice : BOOLEAN, profile : Profiles]

ASSUME ModelsInOrder == Models \in Seq(STRING) /\ IsInjective(Models)
ASSUME ServicesDiffer ==
  /\ Voice \cap (Range(Models) \cup {Db, Memory, Orchestrator, UI, Code}) = {}
  /\ Range(Models) \cap {Db, Memory, Orchestrator, UI, Code} = {}
ASSUME UpChoicesAreOptions == UpChoices \subseteq UpOptions
ASSUME DownChoicesAreOptions == DownChoices \subseteq DownOptions
ASSUME Bounds == MaxCommands \in Nat /\ MaxCrashes \in Nat

VARIABLES
  svc,       \* state of each container
  daemon,    \* the unit of beemo-code, its socket file, whether it listens
  session,   \* the id in the session file, 0 if the file is empty
  cmd,       \* the command under way, or the last one
  given,     \* commands given so far
  crashes,   \* crashes so far
  crashed,   \* history: services that stopped by themselves during cmd
  before     \* history: the id in the session file when cmd began

vars == <<svc, daemon, session, cmd, given, crashes, crashed, before>>
history == <<crashed, before>>

Running(s) == svc[s] # "stopped"

-----------------------------------------------------------------------------
(* Steps of a command.                                                     *)

Rotate == [do |-> "rotate"]
Start(ss, build) ==
  [do |-> "start", of |-> ss, fresh |-> IF build THEN SUBSET ss ELSE {{}}]
Recreate(s) == [do |-> "start", of |-> {s}, fresh |-> {{s}}]
Await(s) == [do |-> "await", of |-> {s}]
Stop(ss) == [do |-> "stop", of |-> ss]
CodeCheck(build, force) == [do |-> "codeCheck", anew |-> build \/ force]
CodeStop == [do |-> "codeStop"]
CodeRun == [do |-> "codeRun"]
CodeWait == [do |-> "codeWait"]
CodeDown == [do |-> "codeDown"]

If(c, steps) == IF c THEN steps ELSE <<>>

(* MUTANT of AwaitModels: the first model to be ready is enough.           *)
AwaitFirstModel == <<Await(Models[1])>>

AwaitModels == [i \in DOMAIN Models |-> Await(Models[i])]

UpPlan(o) ==
  <<Rotate>>
  \o If(o.profile \in LocalDB, <<Start({Db}, FALSE), Await(Db)>>)
  \o If(o.code, <<CodeCheck(o.build, FALSE)>>)
  \o <<Start(Range(Models), o.build)>> \o AwaitModels
  \o If(o.memory, <<Start({Memory}, o.build), Await(Memory)>>)
  \o <<Start({Orchestrator}, o.build), Await(Orchestrator)>>
  \o If(o.ui, <<Start({UI}, o.build), Await(UI)>>)
  \o If(o.voice, <<Start(Voice, o.build)>>)

DownPlan(o) ==
  <<Stop((IF o.voice THEN Voice ELSE {}) \cup (IF o.ui THEN {UI} ELSE {})
           \cup {Orchestrator})>>
  \o If(o.memory, <<Stop({Memory})>>)
  \o <<Stop(Range(Models))>>
  \o If(o.profile \in LocalDB, <<Stop({Db})>>)
  \o <<CodeDown>>

RestartPlan(s) ==
  <<Rotate, IF s = Code THEN CodeCheck(FALSE, TRUE) ELSE Recreate(s)>>

-----------------------------------------------------------------------------
Init ==
  /\ svc = [s \in Services |-> "stopped"]
  /\ daemon = [unit |-> "inactive", socket |-> FALSE, serving |-> FALSE]
  /\ session = 0
  /\ cmd = [op |-> "none", opt |-> {}, plan |-> <<>>, status |-> "ok"]
  /\ given = 0 /\ crashes = 0
  /\ crashed = {} /\ before = 0

(* A command is given when the last one has returned.                      *)
Give(op, o, plan) ==
  /\ cmd.status # "running"
  /\ given < MaxCommands
  /\ given' = given + 1
  /\ cmd' = [op |-> op, opt |-> o, plan |-> plan, status |-> "running"]
  /\ crashed' = {c \in {Code} : daemon.unit = "restarting"}
  /\ before' = session
  /\ UNCHANGED <<svc, daemon, session, crashes>>

GiveUp == \E o \in UpChoices : Give("up", o, UpPlan(o))
GiveDown == \E o \in DownChoices : Give("down", o, DownPlan(o))
GiveRestart == \E s \in RestartChoices : Give("restart", s, RestartPlan(s))

-----------------------------------------------------------------------------
Step(kind) ==
  /\ cmd.status = "running"
  /\ cmd.plan # <<>>
  /\ Head(cmd.plan).do = kind
  /\ UNCHANGED <<given, crashes, history>>

Continue(steps) == cmd' = [cmd EXCEPT !.plan = steps \o Tail(@)]
Done == Continue(<<>>)
Failed == cmd' = [cmd EXCEPT !.status = "failed"]

(* MUTANT of DoRotate: without a new session the old one serves.           *)
DoRotateOrGoOn ==
  /\ Step("rotate")
  /\ session' \in {given, session} /\ Done
  /\ UNCHANGED <<svc, daemon>>

(* os.WriteFile truncates the file before it writes the id.                *)
DoRotate ==
  /\ Step("rotate")
  /\ \/ session' = given /\ Done
     \/ session' \in {session, 0} /\ Failed
  /\ UNCHANGED <<svc, daemon>>

(* docker compose up starts what does not run, with the services a voice   *)
(* service depends on; --build starts those of the named ones anew whose   *)
(* image changed, --force-recreate the named one.  A failing call may have *)
(* started some of them.                                                   *)
Needed(ss) == ss \cup (IF ss \cap Voice # {} THEN Voice \cup {Orchestrator} ELSE {})
Started(now, ss, fresh) ==
  [s \in Services |->
     IF s \in ss /\ (now[s] = "stopped" \/ s \in fresh) THEN "starting" ELSE now[s]]

DoStart ==
  /\ Step("start")
  /\ LET step == Head(cmd.plan)
         ss == Needed(step.of)
     IN \E fresh \in step.fresh :
          \/ svc' = Started(svc, ss, fresh) /\ Done
          \/ \E part \in SUBSET ss : svc' = Started(svc, part, fresh) /\ Failed
  /\ UNCHANGED <<daemon, session>>

(* MUTANT of DoAwait: a service that is late is waited for later.          *)
DoAwaitOrGoOn ==
  /\ Step("await")
  /\ Done
  /\ UNCHANGED <<svc, daemon, session>>

(* waitHTTP, waitOrchestrator and waitPostgres poll until the service      *)
(* answers, its container has stopped or the deadline has passed.          *)
DoAwait ==
  /\ Step("await")
  /\ \/ (\A s \in Head(cmd.plan).of : svc[s] = "ready") /\ Done
     \/ Failed
  /\ UNCHANGED <<svc, daemon, session>>

Stopped(ss) == [s \in Services |-> IF s \in ss THEN "stopped" ELSE svc[s]]

(* MUTANT of DoStop: what could not be stopped is left running.            *)
DoStopSome ==
  /\ Step("stop")
  /\ \E part \in SUBSET Head(cmd.plan).of : svc' = Stopped(part) /\ Done
  /\ UNCHANGED <<daemon, session>>

DoStop ==
  /\ Step("stop")
  /\ \/ svc' = Stopped(Head(cmd.plan).of) /\ Done
     \/ \E part \in SUBSET Head(cmd.plan).of : svc' = Stopped(part) /\ Failed
  /\ UNCHANGED <<daemon, session>>

-----------------------------------------------------------------------------
(* startCode.  A unit that is just being restarted by systemd is not       *)
(* active, so it is not stopped, and systemd-run refuses its name.         *)
DoCodeCheck ==
  /\ Step("codeCheck")
  /\ \/ IF daemon.unit # "active" THEN Continue(<<CodeRun, CodeWait>>)
        ELSE IF ~Head(cmd.plan).anew /\ daemon.socket THEN Done
        ELSE Continue(<<CodeStop, CodeRun, CodeWait>>)
     \/ Failed
  /\ UNCHANGED <<svc, daemon, session>>

DaemonGone == [unit |-> "inactive", socket |-> FALSE, serving |-> FALSE]

DoCodeStop ==
  /\ Step("codeStop")
  /\ \/ daemon' = DaemonGone /\ Done
     \/ UNCHANGED daemon /\ Failed
  /\ UNCHANGED <<svc, session>>

DoCodeRun ==
  /\ Step("codeRun")
  /\ \/ /\ daemon.unit = "inactive"
        /\ daemon' = [daemon EXCEPT !.unit = "active"] /\ Done
     \/ UNCHANGED daemon /\ Failed
  /\ UNCHANGED <<svc, session>>

(* waitForSocket looks at the file only, which may be one that a crash     *)
(* left behind.                                                            *)
DoCodeWait ==
  /\ Step("codeWait")
  /\ (daemon.socket /\ Done) \/ Failed
  /\ UNCHANGED <<svc, daemon, session>>

DoCodeDown ==
  /\ Step("codeDown")
  /\ \/ daemon' = (IF daemon.unit = "active" THEN DaemonGone ELSE daemon) /\ Done
     \/ UNCHANGED daemon /\ Failed
  /\ UNCHANGED <<svc, session>>

Return ==
  /\ cmd.status = "running" /\ cmd.plan = <<>>
  /\ cmd' = [cmd EXCEPT !.status = "ok"]
  /\ UNCHANGED <<svc, daemon, session, given, crashes, history>>

-----------------------------------------------------------------------------
(* The world beside the command.                                           *)

BecomeReady(s) ==
  /\ svc[s] = "starting"
  /\ svc' = [svc EXCEPT ![s] = "ready"]
  /\ UNCHANGED <<daemon, session, cmd, given, crashes, history>>

CountCrash(s) ==
  /\ crashes < MaxCrashes
  /\ crashes' = crashes + 1
  /\ crashed' = crashed \cup {s}
  /\ UNCHANGED <<session, cmd, given, before>>

Crash(s) ==
  /\ Running(s)
  /\ svc' = [svc EXCEPT ![s] = "stopped"]
  /\ CountCrash(s)
  /\ UNCHANGED daemon

(* A new daemon removes the socket it finds and listens on its own.        *)
DaemonListens ==
  /\ daemon.unit = "active" /\ ~daemon.serving
  /\ daemon' = [daemon EXCEPT !.socket = TRUE, !.serving = TRUE]
  /\ UNCHANGED <<svc, session, cmd, given, crashes, history>>

(* A daemon that is killed leaves its socket; systemd starts it again, or  *)
(* gives it up.                                                            *)
DaemonCrashes ==
  /\ daemon.unit = "active"
  /\ daemon' = [daemon EXCEPT !.unit = "restarting", !.serving = FALSE]
  /\ CountCrash(Code)
  /\ UNCHANGED svc

SystemdRestarts ==
  /\ daemon.unit = "restarting"
  /\ \E u \in {"active", "inactive"} : daemon' = [daemon EXCEPT !.unit = u]
  /\ UNCHANGED <<svc, session, cmd, given, crashes, history>>

Next ==
  \/ GiveUp \/ GiveDown \/ GiveRestart
  \/ DoRotate \/ DoStart \/ DoAwait \/ DoStop
  \/ DoCodeCheck \/ DoCodeStop \/ DoCodeRun \/ DoCodeWait \/ DoCodeDown
  \/ Return
  \/ \E s \in Services : BecomeReady(s) \/ Crash(s)
  \/ DaemonListens \/ DaemonCrashes \/ SystemdRestarts

Spec == Init /\ [][Next]_vars

-----------------------------------------------------------------------------
TypeOK ==
  /\ svc \in [Services -> {"stopped", "starting", "ready"}]
  /\ daemon \in [unit : {"inactive", "active", "restarting"},
                 socket : BOOLEAN, serving : BOOLEAN]
  /\ session \in 0..given /\ before \in 0..given
  /\ given \in 0..MaxCommands /\ crashes \in 0..MaxCrashes
  /\ crashed \subseteq Services \cup {Code}
  /\ cmd.op \in {"none", "up", "down", "restart"}
  /\ cmd.status \in {"running", "ok", "failed"}

(* What an up was asked to bring up and to wait for.                       *)
Asked(o) ==
  {Orchestrator} \cup Range(Models)
    \cup (IF o.profile \in LocalDB THEN {Db} ELSE {})
    \cup (IF o.memory THEN {Memory} ELSE {})
    \cup (IF o.ui THEN {UI} ELSE {})

(* When up says that Beemo is ready, every service it was asked for is     *)
(* ready, the voice services run and the daemon's unit is active, but for  *)
(* those that stopped by themselves meanwhile: no later step of up may     *)
(* take an earlier one back, and none may be waited for before it starts.  *)
ReadyMeansUp ==
  cmd.op = "up" /\ cmd.status = "ok" =>
    /\ \A s \in Asked(cmd.opt) \ crashed : svc[s] = "ready"
    /\ cmd.opt.voice => \A s \in Voice \ crashed : Running(s)
    /\ cmd.opt.code /\ Code \notin crashed => daemon.unit = "active"

(* The orchestrator is started by up only when the services it calls have  *)
(* been seen ready, in spite of whatever failed on the way.                *)
DependenciesFirst ==
  [][cmd.op = "up" /\ ~Running(Orchestrator) /\ Running(Orchestrator)' =>
       \A s \in Asked(cmd.opt) \ (crashed \cup {Orchestrator, UI}) : svc[s] = "ready"]_vars

(* A down that returns without an error leaves nothing running: except the *)
(* database when it was given another profile than the up, and the daemon  *)
(* when it was just being restarted after a crash.                         *)
DownLeavesNothing ==
  cmd.op = "down" /\ cmd.status = "ok" /\ cmd.opt.voice /\ cmd.opt.ui /\ cmd.opt.memory =>
    /\ \A s \in Services : Running(s) => s = Db /\ cmd.opt.profile \notin LocalDB
    /\ Code \notin crashed => daemon.unit = "inactive"

(* No container comes up under the session it had before: up and           *)
(* restart rotate the session file first and do nothing if that fails.     *)
FreshSession ==
  [][\A s \in Services :
       svc[s] # "starting" /\ svc'[s] = "starting" => session \notin {0, before}]_vars
=============================================================================
