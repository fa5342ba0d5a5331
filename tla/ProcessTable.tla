---------------------------- MODULE ProcessTable ----------------------------
(***************************************************************************)
(* The background processes of the beemo-code daemon: process_start,       *)
(* process_poll and process_stop, one goroutine per call, over the table   *)
(* Service.processes and, for each process, the channel done of capacity   *)
(* one into which a goroutine puts the status cmd.Wait returns.            *)
(*                                                                         *)
(* A poll learns that a process ended by taking the status out of the      *)
(* channel and putting it back; a stop takes it for good.  A call works    *)
(* on the Process it looked up even if its entry is deleted meanwhile.     *)
(* The variables stopped and spent are history.                            *)
(***************************************************************************)
EXTENDS Naturals, FiniteSets

CONSTANTS Processes, Callers

VARIABLES
  proc,     \* each process: "new", "alive", "exited", and "waited" after cmd.Wait
  done,     \* the processes whose channel holds their status
  table,    \* the keys of Service.processes
  killed,   \* the processes that were sent SIGKILL
  at,       \* where each call is, or how it returned
  on,       \* the process each call looked up
  stopped,  \* the processes some call reported stopped
  spent     \* the processes whose status a stop took

system == <<proc, done, table, killed>>
past == <<stopped, spent>>
tableVars == <<system, at, on, past>>

Working == {"poll", "holding", "stop", "signalled", "unlisting"}
Returned == {"idle", "unknown", "running", "ended", "stopped"}

TypeOK ==
  /\ proc \in [Processes -> {"new", "alive", "exited", "waited"}]
  /\ done \subseteq Processes /\ table \subseteq Processes /\ killed \subseteq Processes
  /\ at \in [Callers -> Working \cup Returned]
  /\ on \in [Callers -> Processes]
  /\ \A c \in Callers : at[c] \in Working => proc[on[c]] # "new"
  /\ stopped \subseteq Processes /\ spent \subseteq Processes

TableInit ==
  /\ proc = [p \in Processes |-> "new"]
  /\ done = {} /\ table = {} /\ killed = {}
  /\ at = [c \in Callers |-> "idle"] /\ on \in [Callers -> Processes]
  /\ stopped = {} /\ spent = {}

Go(c, place) == at' = [at EXCEPT ![c] = place]

-----------------------------------------------------------------------------
(* The processes                                                           *)

(* The id is drawn and returned once the entry is there, so that nobody    *)
(* can look a process up before.                                           *)
Start(p) ==
  /\ proc[p] = "new"
  /\ proc' = [proc EXCEPT ![p] = "alive"] /\ table' = table \cup {p}
  /\ UNCHANGED <<done, killed, at, on, past>>

(* By itself, on the end of its input, or by a signal.                     *)
Exit(p) ==
  /\ proc[p] = "alive"
  /\ proc' = [proc EXCEPT ![p] = "exited"]
  /\ UNCHANGED <<done, table, killed, at, on, past>>

(* go func() { process.done <- cmd.Wait() }()                              *)
Wait(p) ==
  /\ proc[p] = "exited"
  /\ proc' = [proc EXCEPT ![p] = "waited"] /\ done' = done \cup {p}
  /\ UNCHANGED <<table, killed, at, on, past>>

-----------------------------------------------------------------------------
(* process_poll                                                            *)

Find(c, p, operation) ==
  /\ at[c] \in Returned
  /\ Go(c, IF p \in table THEN operation ELSE "unknown")
  /\ on' = [on EXCEPT ![c] = p]
  /\ UNCHANGED <<system, past>>

PollRunning(c) ==
  /\ at[c] = "poll" /\ on[c] \notin done
  /\ Go(c, "running")
  /\ UNCHANGED <<system, on, past>>

PollTake(c) ==
  /\ at[c] = "poll" /\ on[c] \in done
  /\ done' = done \ {on[c]} /\ Go(c, "holding")
  /\ UNCHANGED <<proc, table, killed, on, past>>

(* MUTANT of PollPut: the status is not put back.                          *)
PollKeeps(c) ==
  /\ at[c] = "holding"
  /\ Go(c, "ended")
  /\ UNCHANGED <<system, on, past>>

(* p.done <- err blocks while the channel is full.                         *)
PollPut(c) ==
  /\ at[c] = "holding" /\ on[c] \notin done
  /\ done' = done \cup {on[c]} /\ Go(c, "ended")
  /\ UNCHANGED <<proc, table, killed, on, past>>

-----------------------------------------------------------------------------
(* process_stop                                                            *)

(* Closes the input and sends SIGTERM, which a process may ignore, or      *)
(* which finds no process any more.                                        *)
Signal(c) ==
  /\ at[c] = "stop" /\ Go(c, "signalled")
  /\ UNCHANGED <<system, on, past>>

StopTakes(c) ==
  /\ at[c] = "signalled" /\ on[c] \in done
  /\ done' = done \ {on[c]} /\ spent' = spent \cup {on[c]}
  /\ Go(c, "unlisting")
  /\ UNCHANGED <<proc, table, killed, on, stopped>>

(* MUTANT of StopTimesOut: nobody waits two seconds for a status that      *)
(* another stop took.                                                      *)
StopTimesOutUnlessSpent(c) ==
  /\ at[c] = "signalled" /\ on[c] \notin spent
  /\ killed' = killed \cup {on[c]} /\ Go(c, "unlisting")
  /\ UNCHANGED <<proc, done, table, on, past>>

(* MUTANT of StopTimesOut: after two seconds the process is left alone.    *)
StopGivesUp(c) ==
  /\ at[c] = "signalled" /\ Go(c, "unlisting")
  /\ UNCHANGED <<system, on, past>>

(* After two seconds: SIGKILL.                                             *)
StopTimesOut(c) ==
  /\ at[c] = "signalled"
  /\ killed' = killed \cup {on[c]} /\ Go(c, "unlisting")
  /\ UNCHANGED <<proc, done, table, on, past>>

Unlist(c) ==
  /\ at[c] = "unlisting"
  /\ table' = table \ {on[c]} /\ stopped' = stopped \cup {on[c]}
  /\ Go(c, "stopped")
  /\ UNCHANGED <<proc, done, killed, on, spent>>

-----------------------------------------------------------------------------
Poll(c) == PollRunning(c) \/ PollTake(c) \/ PollPut(c)
Stop(c) == Signal(c) \/ StopTakes(c) \/ StopTimesOut(c) \/ Unlist(c)
Call(c) == \E p \in Processes, operation \in {"poll", "stop"} : Find(c, p, operation)

TableNext ==
  \/ \E p \in Processes : Start(p) \/ Exit(p) \/ Wait(p)
  \/ \E c \in Callers : Call(c) \/ Poll(c) \/ Stop(c)

TableSpec == TableInit /\ [][TableNext]_tableVars

(* A killed process ends, an ended one is waited for, and a call that      *)
(* works goes on; the process table promises nothing about SIGTERM.        *)
FairSpec ==
  /\ TableSpec
  /\ \A p \in Processes : WF_tableVars(p \in killed /\ Exit(p)) /\ WF_tableVars(Wait(p))
  /\ \A c \in Callers : WF_tableVars(Poll(c)) /\ WF_tableVars(Stop(c))

-----------------------------------------------------------------------------
Holders(p) == {c \in Callers : at[c] = "holding" /\ on[c] = p}

(* A poll calls an ended process running only while another poll holds its *)
(* status, or once a stop took it.                                         *)
ExitSeen ==
  [][\A c \in Callers : PollRunning(c) /\ proc[on[c]] = "waited" =>
       Holders(on[c]) # {} \/ on[c] \in spent]_tableVars

(* A process reported stopped ends, even if it ignores SIGTERM.            *)
StoppedEnds == \A p \in Processes : p \in stopped ~> proc[p] = "waited"

(* Every call returns, whatever other polls and stops of the process do.   *)
CallsReturn == \A c \in Callers : at[c] \in Working ~> at[c] \in Returned
=============================================================================
