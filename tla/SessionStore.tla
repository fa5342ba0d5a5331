---------------------------- MODULE SessionStore ----------------------------
(***************************************************************************)
(* The session rows and the registered projects of the orchestrator, and   *)
(* the requests that read and write them one SQL statement at a time:      *)
(* RunAgent (which writes the mode it resolved back into the row, first as *)
(* active and at the end as complete), the commands a run may carry        *)
(* (/normal, /code, /switch, /internet) and the management calls.          *)
(*                                                                         *)
(* Nothing locks a row across two statements of a request.  What the code  *)
(* then promises is about the last choice a user was told of: it stands as *)
(* long as no other request on the session was in flight when it was made. *)
(* A statement may fail, and many failures are passed over: a run that     *)
(* cannot read its row or the projects goes on in normal mode, one that    *)
(* cannot write its row or its status goes on without.  From had on, all   *)
(* the variables but req are history.                                      *)
(***************************************************************************)
EXTENDS Naturals, FiniteSets

CONSTANTS
  Ids,        \* session ids
  Projects,   \* paths that can be registered as projects
  Requests,   \* requests at a time: a RunAgent stream or a management call
  None,       \* the empty workspace, and the session of no request
  NoRow,      \* no row with this session id
  Open        \* history: no choice to hold the code to

Modes == {"normal", "code"}
Access == {"off", "on"}
Row == [mode : Modes, workspace : Projects \cup {None}, internet : Access,
        status : {"idle", "active", "complete", "error", "cancelled"}]
Choice == [mode : Modes, workspace : Projects \cup {None}]

ASSUME NullsDiffer ==
  /\ None \notin Projects \cup Ids
  /\ NoRow \notin Row \cup Choice
  /\ Open \notin Choice \cup {NoRow}

RunOps  == {"talk", "/normal", "/code", "/internet"}
CallOps == {"select", "remove", "activate"}

Choosing == {"/normal", "/code", "select"}

VARIABLES
  rows,      \* beemo_code.sessions: a row, or NoRow, for each id
  projects,  \* beemo_code.projects
  at,        \* the statement each request is about to run
  req,       \* what each request asks and what it has read so far
  had,       \* the projects registered at some time since the run began
  alone,     \* the requests nothing has crossed on their session so far
  choice,    \* the mode and workspace a session's user was last told
  told,      \* what the user may believe of internet access
  deleted,   \* the sessions deleted and not asked for since
  unsettled  \* the sessions whose runs could not write how they ended

tables  == <<rows, projects>>
history == <<choice, told, deleted, unsettled>>
vars    == <<tables, at, req, had, alone, history>>

Places == {"idle", "resolve", "check", "mark", "work", "choose", "use", "set",
           "read", "toggle", "answer", "fail", "return", "deferred", "remove",
           "look", "registered"}

Request == [op : RunOps \cup CallOps, session : Ids \cup {None},
            mode : Modes \cup {""}, workspace : Projects \cup {None},
            access : Access]

Asks(op, s, mode, w) ==
  [op |-> op, session |-> s, mode |-> mode, workspace |-> w, access |-> "off"]

Blank == Asks("talk", None, "", None)

TypeOK ==
  /\ rows \in [Ids -> Row \cup {NoRow}] /\ projects \subseteq Projects
  /\ at \in [Requests -> Places] /\ req \in [Requests -> Request]
  /\ \A x \in Requests :
       /\ at[x] # "idle" => req[x].session \in Ids
       /\ at[x] \in {"check", "mark", "work"} => req[x].mode \in Modes
  /\ had \in [Requests -> SUBSET Projects]
  /\ alone \subseteq Requests
  /\ choice \in [Ids -> Choice \cup {NoRow, Open}]
  /\ told \in [Ids -> SUBSET Access] /\ deleted \subseteq Ids
  /\ unsettled \subseteq Ids

Live(x) == at[x] # "idle"
LiveOn(s) == {x \in Requests : Live(x) /\ req[x].session = s}
IsRun(x) == req[x].op \in RunOps
Id(x) == req[x].session

RowOf(mode, workspace, status, internet) ==
  [mode |-> mode, workspace |-> workspace, status |-> status,
   internet |-> internet]

NewRow(mode, workspace, status) == RowOf(mode, workspace, status, "off")

(* Rows as earlier requests leave them: a removed project may still be the *)
(* workspace of a session that was not the one in front of the user.       *)
Init ==
  /\ rows \in [Ids -> {NoRow, NewRow("normal", None, "idle")}
                        \cup {NewRow("code", p, "complete") : p \in Projects}]
  /\ projects \in SUBSET Projects
  /\ at = [x \in Requests |-> "idle"]
  /\ req = [x \in Requests |-> Blank]
  /\ had = [x \in Requests |-> {}] /\ alone = {}
  /\ choice = [s \in Ids |-> Open] /\ told = [s \in Ids |-> Access]
  /\ deleted = {} /\ unsettled = {}

-----------------------------------------------------------------------------
(* History                                                                 *)

(* A choice of mode is crossed by anything in flight on the session, an    *)
(* /internet only by another one, or by the deletion of the session.       *)
Crosses(op, other) ==
  \/ op \in Choosing
  \/ op = "/internet" /\ other \in {"/internet", "delete"}

CrossedBy(s, op) == {y \in LiveOn(s) : Crosses(req[y].op, op)}

(* A request that may change the mode opens the choice, and anything that  *)
(* brings the row of a deleted session back does.                          *)
Begins(x, r) ==
  LET s == r.session
      crossed == \E y \in LiveOn(s) : Crosses(r.op, req[y].op) IN
    /\ had' = [had EXCEPT ![x] = IF r.op \in RunOps THEN projects ELSE {}]
    /\ alone' = (alone \ CrossedBy(s, r.op)) \cup
         (IF r.op \in Choosing \cup {"/internet"} /\ ~crossed THEN {x} ELSE {})
    /\ choice' = [choice EXCEPT ![s] =
         IF r.op \in Choosing \/ r.mode # "" \/ @ = NoRow THEN Open ELSE @]
    /\ told' = [told EXCEPT ![s] = IF r.op = "/internet" THEN Access ELSE @]
    /\ deleted' = deleted \ {s}
    /\ UNCHANGED unsettled

Chosen(s, known, value) ==
  choice' = [choice EXCEPT ![s] = IF known THEN value ELSE Open]

(* A run that could not read what it is to work on loses a choice of code. *)
CodeChoices == [mode : {"code"}, workspace : Projects]

Mislay(s) ==
  /\ choice' = [choice EXCEPT ![s] = IF @ \in CodeChoices THEN Open ELSE @]
  /\ UNCHANGED <<told, deleted, unsettled>>

-----------------------------------------------------------------------------
(* Statements                                                              *)

Go(x, place) == at' = [at EXCEPT ![x] = place]
Stay == UNCHANGED <<req, had, alone>>

End(x) ==
  /\ at' = [at EXCEPT ![x] = "idle"] /\ req' = [req EXCEPT ![x] = Blank]
  /\ had' = [had EXCEPT ![x] = {}] /\ alone' = alone \ {x}

(* On to a statement, or the request ends.                                 *)
GoOrEnd(x, goes, place) ==
  \/ goes /\ Go(x, place) /\ Stay
  \/ ~goes /\ End(x)

(* MUTANT of Upsert: a conflict also puts internet access back to its      *)
(* default.                                                                *)
UpsertAll(s, mode, workspace, status) ==
  rows' = [rows EXCEPT ![s] = NewRow(mode, workspace, status)]

Upsert(s, mode, workspace, status) ==
  rows' = [rows EXCEPT ![s] =
    IF @ = NoRow THEN NewRow(mode, workspace, status)
    ELSE RowOf(mode, workspace, status, @.internet)]

UpdateStatus(s, status) ==
  rows' = [rows EXCEPT ![s] =
    IF @ = NoRow THEN NoRow ELSE RowOf(@.mode, @.workspace, status, @.internet)]

SetMode(s, mode, workspace) ==
  rows' = [rows EXCEPT ![s] = RowOf(mode, workspace, @.status, @.internet)]

SetInternet(s, access) ==
  rows' = [rows EXCEPT ![s] = RowOf(@.mode, @.workspace, @.status, access)]

-----------------------------------------------------------------------------
(* Requests begin: a run may name a mode and a workspace (the terminal     *)
(* client does), the management calls name the project they are about.     *)

Opening(op) ==
  IF op \in RunOps THEN "resolve"
  ELSE IF op = "activate" THEN "look" ELSE IF op = "select" THEN "use" ELSE op

Start(x) ==
  /\ at[x] = "idle"
  /\ \E op \in RunOps \cup CallOps, s \in Ids, mode \in Modes \cup {""},
        w \in Projects \cup {None} :
       LET r == Asks(op, s, mode, w) IN
         /\ op \in CallOps => mode = ""
         /\ w # None <=> mode = "code" \/ op \in {"select", "remove"}
         /\ req' = [req EXCEPT ![x] = r] /\ Begins(x, r)
         /\ Go(x, Opening(op))
  /\ UNCHANGED tables

-----------------------------------------------------------------------------
(* RunAgent                                                                *)

(* What the request leaves out comes from the row: mode, then workspace.   *)
ResolvedMode(r, row) ==
  IF r.mode # "" THEN r.mode ELSE IF row # NoRow THEN row.mode ELSE "normal"

ResolvedWorkspace(r, row) ==
  IF ResolvedMode(r, row) = "normal" THEN None
  ELSE IF r.workspace = None /\ row # NoRow THEN row.workspace
  ELSE r.workspace

Resolved(x, mode, workspace) ==
  /\ req' = [req EXCEPT ![x].mode = mode, ![x].workspace = workspace]
  /\ UNCHANGED <<tables, had, alone>>

Passes(s, read) == IF read THEN UNCHANGED history ELSE Mislay(s)

(* MUTANT of Resolve: the workspace comes from the row in either mode.     *)
ResolveKeepsWorkspace(x) ==
  LET r == req[x] row == rows[r.session] IN
    /\ at[x] = "resolve" /\ UNCHANGED history
    /\ Resolved(x, ResolvedMode(r, row),
                IF row # NoRow THEN row.workspace ELSE ResolvedWorkspace(r, row))
    /\ Go(x, IF ResolvedMode(r, row) = "code" THEN "check" ELSE "mark")

(* A row that cannot be read is as good as none.                           *)
Resolve(x) ==
  \E read \in BOOLEAN :
    LET r == req[x]
        row == IF read THEN rows[r.session] ELSE NoRow IN
      /\ at[x] = "resolve" /\ Passes(r.session, read)
      /\ Resolved(x, ResolvedMode(r, row), ResolvedWorkspace(r, row))
      /\ Go(x, IF ResolvedMode(r, row) = "code" THEN "check" ELSE "mark")

(* MUTANT of Check: code mode needs a workspace, registered or not.        *)
CheckGiven(x) ==
  /\ at[x] = "check" /\ Go(x, "mark") /\ UNCHANGED history
  /\ IF req[x].workspace # None THEN Resolved(x, "code", req[x].workspace)
     ELSE Resolved(x, "normal", None)

(* And when the projects cannot be read none is registered.                *)
Check(x) ==
  \E read \in BOOLEAN :
    /\ at[x] = "check" /\ Go(x, "mark") /\ Passes(Id(x), read)
    /\ IF read /\ req[x].workspace \in projects
       THEN Resolved(x, "code", req[x].workspace) ELSE Resolved(x, "normal", None)

(* A row that cannot be written is left as it is.                          *)
Mark(x) ==
  /\ at[x] = "mark"
  /\ \/ /\ Upsert(Id(x), req[x].mode, req[x].workspace, "active")
        /\ unsettled' = unsettled \ {Id(x)}
     \/ UNCHANGED <<rows, unsettled>>
  /\ Go(x, CASE req[x].op = "talk" -> "work" [] req[x].op = "/normal" -> "set"
             [] req[x].op = "/code" -> "choose" [] OTHER -> "read")
  /\ had' = [had EXCEPT ![x] = {}]
  /\ UNCHANGED <<req, alone, projects, choice, told, deleted>>

(* MUTANT of Finish: a finished conversation is a normal one.              *)
FinishNormal(x) ==
  /\ at[x] = "work" /\ Upsert(Id(x), "normal", None, "complete")
  /\ Go(x, "answer") /\ Stay /\ UNCHANGED <<projects, history>>

(* The conversation or code agent ends with an answer or with an error.    *)
Finish(x) ==
  /\ at[x] = "work"
  /\ \/ /\ Upsert(Id(x), req[x].mode, req[x].workspace, "complete")
        /\ unsettled' = unsettled \ {Id(x)}
     \/ UNCHANGED <<rows, unsettled>>
  /\ Go(x, "answer") /\ Stay
  /\ UNCHANGED <<projects, choice, told, deleted>>

Breaks(x) ==
  /\ at[x] = "work" /\ Go(x, "fail") /\ Stay /\ UNCHANGED <<tables, history>>

-----------------------------------------------------------------------------
(* Commands                                                                *)

(* /code takes the project at hand or the one used last, /switch the one   *)
(* its words match.  With none the answer is a picker.                     *)
ChooseProject(x) ==
  /\ at[x] = "choose"
  /\ \/ /\ \E p \in projects : req' = [req EXCEPT ![x].workspace = p]
        /\ Go(x, "use")
     \/ Go(x, "answer") /\ UNCHANGED req
  /\ UNCHANGED <<tables, had, alone, history>>

(* UseProject: the row of the project must still be there.                 *)
Use(x) ==
  /\ at[x] = "use"
  /\ IF req[x].workspace \in projects THEN GoOrEnd(x, TRUE, "set")
     ELSE GoOrEnd(x, IsRun(x), "fail")
  /\ UNCHANGED <<tables, history>>

Target(x) ==
  IF req[x].op \in {"/code", "select"}
  THEN [mode |-> "code", workspace |-> req[x].workspace]
  ELSE [mode |-> "normal", workspace |-> None]

(* SetSessionMode; its caller then answers with the new mode.              *)
Set(x) ==
  LET s == Id(x) IN
    /\ at[x] = "set" /\ rows[s] # NoRow
    /\ SetMode(s, Target(x).mode, Target(x).workspace)
    /\ GoOrEnd(x, IsRun(x), "answer")
    /\ IF req[x].op \in Choosing
       THEN Chosen(s, x \in alone /\ Target(x).workspace \in projects \cup {None},
                   Target(x))
       ELSE UNCHANGED choice
    /\ UNCHANGED <<projects, told, deleted, unsettled>>

SetFails(x) ==
  /\ at[x] = "set" /\ rows[Id(x)] = NoRow /\ GoOrEnd(x, IsRun(x), "fail")
  /\ UNCHANGED <<tables, history>>

(* Without a search provider the access cannot be enabled.                 *)
ReadInternet(x) ==
  /\ at[x] = "read"
  /\ LET row == rows[Id(x)] IN
       \/ row = NoRow /\ Go(x, "fail") /\ UNCHANGED req
       \/ /\ row # NoRow /\ Go(x, "toggle")
          /\ \E a \in Access \ {row.internet} : req' = [req EXCEPT ![x].access = a]
       \/ row # NoRow /\ row.internet = "off" /\ Go(x, "answer") /\ UNCHANGED req
  /\ UNCHANGED <<tables, had, alone, history>>

Toggle(x) ==
  LET s == Id(x) IN
    /\ at[x] = "toggle"
    /\ \/ /\ rows[s] # NoRow /\ Go(x, "answer")
          /\ SetInternet(s, req[x].access)
          /\ told' = [told EXCEPT ![s] =
               IF x \in alone THEN {req[x].access} ELSE Access]
       \/ rows[s] = NoRow /\ Go(x, "fail") /\ UNCHANGED <<rows, told>>
    /\ Stay /\ UNCHANGED <<projects, choice, deleted, unsettled>>

-----------------------------------------------------------------------------
(* How a run ends                                                          *)

(* A statement of a command fails, and the error is what the user sees.    *)
Errs(x) ==
  /\ at[x] \in {"choose", "use", "set", "read", "toggle"} /\ IsRun(x)
  /\ Go(x, "fail") /\ Stay /\ UNCHANGED <<tables, history>>

(* The last write of a run, which may fail unnoticed.                      *)
Settle(s, status) ==
  /\ \/ UpdateStatus(s, status) /\ unsettled' = unsettled \ {s}
     \/ /\ UNCHANGED rows
        /\ unsettled' = IF rows[s] # NoRow /\ rows[s].status = "active"
                        THEN unsettled \cup {s} ELSE unsettled
  /\ UNCHANGED <<projects, choice, told, deleted>>

Answer(x) ==
  at[x] = "answer" /\ Settle(Id(x), "complete") /\ Go(x, "return") /\ Stay

(* MUTANT of Fail: the error event leaves the status alone.                *)
FailQuietly(x) ==
  /\ at[x] = "fail" /\ Go(x, "return") /\ Stay /\ UNCHANGED <<tables, history>>

Fail(x) == at[x] = "fail" /\ Settle(Id(x), "error") /\ Go(x, "return") /\ Stay

Return(x) == at[x] = "return" /\ End(x) /\ UNCHANGED <<tables, history>>

(* The client goes away: the statements of the request fail from then on,  *)
(* and only the deferred update of a run, on a context of its own, is left.*)
Cancel(x) ==
  /\ Live(x) /\ at[x] # "deferred" /\ GoOrEnd(x, IsRun(x), "deferred")
  /\ UNCHANGED <<tables, history>>

Deferred(x) == at[x] = "deferred" /\ Settle(Id(x), "cancelled") /\ End(x)

-----------------------------------------------------------------------------
(* Management                                                              *)

(* The choices for a project do not outlive its registration.              *)
Remove(x) ==
  LET p == req[x].workspace
      coding == [mode |-> "code", workspace |-> p] IN
    /\ at[x] = "remove"
    /\ projects' = projects \ {p}
    /\ GoOrEnd(x, p \in projects, "look")
    /\ choice' = [s \in Ids |-> IF choice[s] = coding THEN Open ELSE choice[s]]
    /\ UNCHANGED <<rows, told, deleted, unsettled>>

(* RemoveAgentProject takes the session out of a project that is gone.     *)
LookAtRemoved(x) ==
  LET row == rows[Id(x)] IN
    /\ at[x] = "look" /\ req[x].op = "remove"
    /\ GoOrEnd(x, row # NoRow /\ row.workspace = req[x].workspace, "set")
    /\ UNCHANGED <<tables, history>>

(* ActivateAgentSession does so when the user comes back to a session.     *)
LookAtActivated(x) ==
  LET row == rows[Id(x)] IN
    /\ at[x] = "look" /\ req[x].op = "activate"
    /\ \/ /\ row # NoRow /\ row.mode = "code" /\ Go(x, "registered")
          /\ req' = [req EXCEPT ![x].workspace = row.workspace]
          /\ UNCHANGED <<had, alone>>
       \/ (row # NoRow => row.mode = "normal") /\ End(x)
    /\ UNCHANGED <<tables, history>>

Registered(x) ==
  /\ at[x] = "registered"
  /\ GoOrEnd(x, req[x].workspace \notin projects, "set")
  /\ UNCHANGED <<tables, history>>

AddProject(p) ==
  /\ p \notin projects /\ projects' = projects \cup {p}
  /\ had' = [x \in Requests |->
       IF at[x] \in {"resolve", "check", "mark"} THEN had[x] \cup {p} ELSE had[x]]
  /\ UNCHANGED <<rows, at, req, alone, history>>

CreateSession(s) ==
  /\ rows[s] = NoRow
  /\ rows' = [rows EXCEPT ![s] = NewRow("normal", None, "idle")]
  /\ alone' = alone \ CrossedBy(s, "create")
  /\ Chosen(s, LiveOn(s) = {}, [mode |-> "normal", workspace |-> None])
  /\ deleted' = deleted \ {s}
  /\ UNCHANGED <<projects, at, req, had, told, unsettled>>

(* One statement deletes the sessions listed, but for the one the request  *)
(* calls active; here each session at a time.                              *)
DeleteSession(s) ==
  /\ rows[s] # NoRow
  /\ rows' = [rows EXCEPT ![s] = NoRow]
  /\ alone' = alone \ CrossedBy(s, "delete")
  /\ Chosen(s, LiveOn(s) = {}, NoRow)
  /\ told' = [told EXCEPT ![s] = Access]
  /\ deleted' = deleted \cup {s} /\ unsettled' = unsettled \ {s}
  /\ UNCHANGED <<projects, at, req, had>>

-----------------------------------------------------------------------------
Run(x) ==
  \/ Resolve(x) \/ Check(x) \/ Mark(x) \/ Finish(x) \/ Breaks(x)
  \/ ChooseProject(x) \/ ReadInternet(x) \/ Toggle(x) \/ Errs(x)
  \/ Answer(x) \/ Fail(x) \/ Return(x) \/ Deferred(x)

Call(x) ==
  \/ Use(x) \/ Set(x) \/ SetFails(x) \/ Remove(x)
  \/ LookAtRemoved(x) \/ LookAtActivated(x) \/ Registered(x)

Next ==
  \/ \E x \in Requests : Start(x) \/ Run(x) \/ Call(x) \/ Cancel(x)
  \/ \E p \in Projects : AddProject(p)
  \/ \E s \in Ids : CreateSession(s) \/ DeleteSession(s)

Spec == Init /\ [][Next]_vars

-----------------------------------------------------------------------------
(* What a row says of the choice of its user.                              *)
Says(row) ==
  IF row = NoRow THEN NoRow ELSE [mode |-> row.mode, workspace |-> row.workspace]

(* A row is in code mode exactly when it has a workspace, whoever wrote it *)
(* last: the run that resolved it, a command or a management call.         *)
CodeHasWorkspace ==
  \A s \in Ids : rows[s] # NoRow =>
    (rows[s].mode = "code" <=> rows[s].workspace # None)

(* A row says active only while one of its runs is still under way: the    *)
(* last run to mark it settles it, also when the client goes away, unless  *)
(* that very write failed.                                                 *)
ActiveHasRun ==
  \A s \in Ids \ unsettled : rows[s] # NoRow /\ rows[s].status = "active" =>
    \E x \in LiveOn(s) : IsRun(x) /\ at[x] \notin {"resolve", "check", "return"}

(* A run never settles on a project that was not registered at any time    *)
(* since the run began, whatever the row still says.                       *)
CodesInRegistered ==
  \A x \in Requests : at[x] = "mark" /\ req[x].mode = "code"
    => req[x].workspace \in had[x]

(* What a user chose while nothing else was under way on the session       *)
(* stands through every later run, activation and change of other          *)
(* sessions, and through writes that fail, until the next choice, the      *)
(* removal of the project or a run that cannot read what was chosen.       *)
QuietChoiceStands ==
  \A s \in Ids : choice[s] # Open => choice[s] = Says(rows[s])

(* An answer to /internet stands until the next one, whatever runs were    *)
(* under way meanwhile.                                                    *)
InternetAsTold ==
  \A s \in Ids : rows[s] # NoRow => rows[s].internet \in told[s]

(* SessionManagerDialog.svelte asks to "Permanently delete" the selected   *)
(* sessions: a deleted session stays away until somebody asks for it.      *)
DeletedStaysDeleted == \A s \in deleted : rows[s] = NoRow
=============================================================================
