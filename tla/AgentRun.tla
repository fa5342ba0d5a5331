----------------------------- MODULE AgentRun ------------------------------
(***************************************************************************)
(* What one agent run promises about the workspace, whatever its model     *)
(* decides: it starts at most Budget tool calls, one at a time, and none   *)
(* once it has ended.  A call that waits for the user's approval does      *)
(* nothing.  A call that runs may change the workspace while it runs, or   *)
(* start one process that works on in the background and may change the    *)
(* workspace later, even after the run has ended.  Nothing else the run    *)
(* does touches the workspace.  A call counts once, whatever it writes.    *)
(***************************************************************************)
EXTENDS Naturals

CONSTANT Budget

VARIABLES
  started,     \* tool calls started so far
  call,        \* the current call: "none", "held" for approval, or "running"
  background,  \* processes that calls started and that changed nothing so far
  effects,     \* calls through which the workspace was changed
  ended        \* the run is over

vars == <<started, call, background, effects, ended>>
workspace == <<background, effects>>

Init ==
  /\ started = 0 /\ call = "none" /\ ended = FALSE
  /\ background = 0 /\ effects = 0

(* A call is started; it may fail before it reaches the daemon, and end    *)
(* the run.                                                                *)
Start ==
  /\ ~ended /\ call = "none" /\ started < Budget
  /\ started' = started + 1
  /\ call' = "none" \/ (call' \in {"held", "running"} /\ ~ended')
  /\ UNCHANGED workspace

(* The user approves the call that was held back.                          *)
Approve ==
  /\ ~ended /\ call = "held"
  /\ call' = "running"
  /\ UNCHANGED <<started, workspace, ended>>

(* The call that runs finishes: with no effect, with a change, or with a   *)
(* process left behind.                                                    *)
Settle ==
  /\ call = "running" /\ call' = "none"
  /\ \/ UNCHANGED workspace
     \/ effects' = effects + 1 /\ UNCHANGED background
     \/ background' = background + 1 /\ UNCHANGED effects
  /\ ended => ended'
  /\ UNCHANGED started

(* The call that was held back is dropped.                                 *)
Drop ==
  /\ call = "held" /\ call' = "none"
  /\ ended => ended'
  /\ UNCHANGED <<started, workspace>>

(* A process changes the workspace for the first time.                     *)
ChangeLater ==
  /\ background > 0
  /\ background' = background - 1
  /\ effects' = effects + 1
  /\ UNCHANGED <<started, call, ended>>

(* The run is over; the current call may be left to itself.                *)
End ==
  /\ ~ended /\ ended'
  /\ UNCHANGED <<started, call, workspace>>

Next == Start \/ Approve \/ Settle \/ Drop \/ ChangeLater \/ End

Spec == Init /\ [][Next]_vars

(* The workspace is changed through at most as many calls as were started, *)
(* and calls are budgeted.                                                 *)
EffectsWithinBudget ==
  effects + background + (IF call = "none" THEN 0 ELSE 1) <= started
    /\ started <= Budget
=============================================================================
