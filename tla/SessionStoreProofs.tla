------------------------- MODULE SessionStoreProofs -------------------------
(***************************************************************************)
(* Proofs about SessionStore, for any sets of sessions, projects and       *)
(* requests: the types, that the rows make sense whatever interleaving of  *)
(* runs, commands, management calls and deletions wrote them, and that     *)
(* they keep what users chose when nothing crossed it.                     *)
(***************************************************************************)
EXTENDS SessionStore, TLAPS

-----------------------------------------------------------------------------
(* Type correctness                                                        *)

(* Each way to write a row leaves rows behind.                             *)
LEMMA UpsertTyped ==
  ASSUME rows \in [Ids -> Row \cup {NoRow}],
         NEW s, NEW mode \in Modes, NEW w \in Projects \cup {None},
         NEW status \in {"idle", "active", "complete", "error", "cancelled"},
         Upsert(s, mode, w, status)
  PROVE  rows' \in [Ids -> Row \cup {NoRow}]
BY DEF Upsert, NewRow, RowOf, Row, Modes, Access

LEMMA StatusTyped ==
  ASSUME rows \in [Ids -> Row \cup {NoRow}], NEW s,
         NEW status \in {"idle", "active", "complete", "error", "cancelled"},
         UpdateStatus(s, status)
  PROVE  rows' \in [Ids -> Row \cup {NoRow}]
BY DEF UpdateStatus, RowOf, Row

LEMMA ModeTyped ==
  ASSUME rows \in [Ids -> Row \cup {NoRow}], NEW s \in Ids, rows[s] # NoRow,
         NEW mode \in Modes, NEW w \in Projects \cup {None}, SetMode(s, mode, w)
  PROVE  rows' \in [Ids -> Row \cup {NoRow}]
BY DEF SetMode, RowOf, Row, Modes

LEMMA BlankTyped == Blank \in Request
BY DEF Blank, Asks, Request, RunOps, CallOps, Modes, Access

(* A request that ends, or goes on without reading anything.               *)
LEMMA EndTyped ==
  ASSUME TypeOK, NEW x \in Requests, End(x)
  PROVE  /\ at' \in [Requests -> Places] /\ req' \in [Requests -> Request]
         /\ \A y \in Requests :
              /\ at'[y] # "idle" => req'[y].session \in Ids
              /\ at'[y] \in {"check", "mark", "work"} => req'[y].mode \in Modes
         /\ had' \in [Requests -> SUBSET Projects] /\ alone' \subseteq Requests
BY BlankTyped DEF TypeOK, End, Places

LEMMA GoTyped ==
  ASSUME TypeOK, NEW x \in Requests, at[x] # "idle",
         NEW place \in Places \ {"check", "mark", "work"}, Go(x, place), Stay
  PROVE  /\ at' \in [Requests -> Places] /\ req' \in [Requests -> Request]
         /\ \A y \in Requests :
              /\ at'[y] # "idle" => req'[y].session \in Ids
              /\ at'[y] \in {"check", "mark", "work"} => req'[y].mode \in Modes
         /\ had' \in [Requests -> SUBSET Projects] /\ alone' \subseteq Requests
BY DEF TypeOK, Go, Stay

LEMMA GoOrEndTyped ==
  ASSUME TypeOK, NEW x \in Requests, at[x] # "idle", NEW goes,
         NEW place \in Places \ {"check", "mark", "work"}, GoOrEnd(x, goes, place)
  PROVE  /\ at' \in [Requests -> Places] /\ req' \in [Requests -> Request]
         /\ \A y \in Requests :
              /\ at'[y] # "idle" => req'[y].session \in Ids
              /\ at'[y] \in {"check", "mark", "work"} => req'[y].mode \in Modes
         /\ had' \in [Requests -> SUBSET Projects] /\ alone' \subseteq Requests
BY EndTyped, GoTyped DEF GoOrEnd

(* A request that reads on before it goes to a statement.                  *)
LEMMA ReadTyped ==
  ASSUME TypeOK, NEW x \in Requests, at[x] # "idle", NEW place \in Places,
         Go(x, place), NEW mode \in Modes \cup {""},
         NEW w \in Projects \cup {None},
         place \in {"check", "mark", "work"} => mode \in Modes,
         req' = [req EXCEPT ![x].mode = mode, ![x].workspace = w],
         UNCHANGED <<had, alone>>
  PROVE  /\ at' \in [Requests -> Places] /\ req' \in [Requests -> Request]
         /\ \A y \in Requests :
              /\ at'[y] # "idle" => req'[y].session \in Ids
              /\ at'[y] \in {"check", "mark", "work"} => req'[y].mode \in Modes
         /\ had' \in [Requests -> SUBSET Projects] /\ alone' \subseteq Requests
<1>1. req[x] \in Request
  BY DEF TypeOK
<1>2. /\ [req[x] EXCEPT !.mode = mode, !.workspace = w] \in Request
      /\ [req[x] EXCEPT !.mode = mode, !.workspace = w].session = req[x].session
      /\ [req[x] EXCEPT !.mode = mode, !.workspace = w].mode = mode
  BY <1>1 DEF Request
<1>3. req' = [req EXCEPT ![x] = [req[x] EXCEPT !.mode = mode, !.workspace = w]]
  BY DEF TypeOK
<1>4. req' \in [Requests -> Request]
  BY <1>2, <1>3 DEF TypeOK
<1>5. QED
  BY <1>2, <1>3, <1>4 DEF TypeOK, Go

(* What a run takes its row to be.                                         *)
Taken(x, read) == IF read THEN rows[Id(x)] ELSE NoRow

LEMMA ResolvedTyped ==
  ASSUME TypeOK, NEW x \in Requests, at[x] = "resolve",
         NEW row \in {rows[Id(x)], NoRow}
  PROVE  /\ ResolvedMode(req[x], row) \in Modes
         /\ ResolvedWorkspace(req[x], row) \in Projects \cup {None}
BY DEF TypeOK, ResolvedMode, ResolvedWorkspace, Request, Row, Modes, Id

LEMMA PassesTyped ==
  ASSUME TypeOK, NEW s \in Ids, NEW read, Passes(s, read)
  PROVE  /\ choice' \in [Ids -> Choice \cup {NoRow, Open}]
         /\ told' \in [Ids -> SUBSET Access] /\ deleted' \subseteq Ids
         /\ unsettled' \subseteq Ids
BY DEF TypeOK, Passes, Mislay, history

LEMMA SettleTyped ==
  ASSUME TypeOK, NEW s \in Ids, NEW status \in {"complete", "error", "cancelled"},
         Settle(s, status)
  PROVE  /\ rows' \in [Ids -> Row \cup {NoRow}] /\ unsettled' \subseteq Ids
         /\ UNCHANGED <<projects, choice, told, deleted>>
<1>1. rows \in [Ids -> Row \cup {NoRow}] /\ unsettled \subseteq Ids
  BY DEF TypeOK
<1>2. UpdateStatus(s, status) => rows' \in [Ids -> Row \cup {NoRow}]
  BY <1>1, StatusTyped
<1>3. QED  BY <1>1, <1>2 DEF Settle

LEMMA TypeInit == ASSUME Init PROVE TypeOK
<1>1. rows \in [Ids -> Row \cup {NoRow}]
  BY DEF Init, NewRow, RowOf, Row, Modes, Access
<1>2. QED
  BY <1>1, BlankTyped DEF Init, TypeOK, Places

LEMMA StartTyped ==
  ASSUME TypeOK, NEW x \in Requests, Start(x)
  PROVE  TypeOK'
<1>1. PICK op \in RunOps \cup CallOps, s \in Ids, mode \in Modes \cup {""},
           w \in Projects \cup {None} :
        LET r == Asks(op, s, mode, w) IN
          /\ req' = [req EXCEPT ![x] = r] /\ Begins(x, r)
          /\ Go(x, Opening(op))
  BY DEF Start
<1> DEFINE r == Asks(op, s, mode, w)
<1>2. r \in Request /\ r.session = s
  BY DEF Asks, Request, Access
<1>3. /\ at' \in [Requests -> Places]
      /\ at'[x] \in {"resolve", "use", "remove", "look"}
      /\ \A y \in Requests \ {x} : at'[y] = at[y]
  BY <1>1 DEF TypeOK, Go, Places, RunOps, CallOps, Opening
<1>4. /\ req' \in [Requests -> Request] /\ req'[x] = r
      /\ \A y \in Requests \ {x} : req'[y] = req[y]
  BY <1>1, <1>2 DEF TypeOK
<1>5. Begins(x, r)
  BY <1>1
<1> HIDE DEF r
<1>6. /\ had' \in [Requests -> SUBSET Projects] /\ alone' \subseteq Requests
      /\ choice' \in [Ids -> Choice \cup {NoRow, Open}]
      /\ told' \in [Ids -> SUBSET Access] /\ deleted' \subseteq Ids
      /\ unsettled' \subseteq Ids
  <2>1. had' \in [Requests -> SUBSET Projects]
    BY <1>5 DEF TypeOK, Begins
  <2>2. alone' \subseteq Requests
    BY <1>5 DEF TypeOK, Begins
  <2>3. choice' \in [Ids -> Choice \cup {NoRow, Open}]
    BY <1>5 DEF TypeOK, Begins
  <2>4. told' \in [Ids -> SUBSET Access] /\ deleted' \subseteq Ids
    BY <1>5 DEF TypeOK, Begins
  <2>5. unsettled' \subseteq Ids
    BY <1>5 DEF TypeOK, Begins
  <2>6. QED  BY <2>1, <2>2, <2>3, <2>4, <2>5
<1>7. UNCHANGED tables
  BY DEF Start
<1>8. QED
  BY <1>2, <1>3, <1>4, <1>6, <1>7 DEF TypeOK, tables

LEMMA TypeStep ==
  ASSUME TypeOK, [Next]_vars
  PROVE  TypeOK'
<1> USE DEF Places, Modes
<1>1. ASSUME NEW x \in Requests, Start(x) PROVE TypeOK'
  BY <1>1, StartTyped
<1>2. ASSUME NEW x \in Requests, Resolve(x) PROVE TypeOK'
  <2>1. PICK read \in BOOLEAN :
          LET row == Taken(x, read) IN
            /\ at[x] = "resolve" /\ Passes(Id(x), read)
            /\ Resolved(x, ResolvedMode(req[x], row), ResolvedWorkspace(req[x], row))
            /\ Go(x, IF ResolvedMode(req[x], row) = "code" THEN "check" ELSE "mark")
    BY <1>2 DEF Resolve, Taken, Id
  <2> DEFINE row == Taken(x, read)
             mode == ResolvedMode(req[x], row)
             w == ResolvedWorkspace(req[x], row)
  <2>2. mode \in Modes /\ w \in Projects \cup {None}
    BY <2>1, ResolvedTyped DEF Taken
  <2>3. req' = [req EXCEPT ![x].mode = mode, ![x].workspace = w]
    BY <2>1 DEF Resolved
  <2>4. UNCHANGED <<tables, had, alone>>
    BY <2>1 DEF Resolved
  <2>5. Id(x) \in Ids
    BY <2>1 DEF TypeOK, Id
  <2> HIDE DEF row, mode, w
  <2>6. Go(x, IF mode = "code" THEN "check" ELSE "mark")
    BY <2>1 DEF row, mode
  <2>7. QED
    BY <2>1, <2>2, <2>3, <2>4, <2>5, <2>6, ReadTyped, PassesTyped DEF TypeOK, tables
<1>3. ASSUME NEW x \in Requests, Check(x) PROVE TypeOK'
  <2>1. PICK mode \in Modes, w \in Projects \cup {None}, read \in BOOLEAN :
          /\ at[x] = "check" /\ Go(x, "mark") /\ Resolved(x, mode, w)
          /\ Passes(Id(x), read)
    BY <1>3 DEF Check, TypeOK
  <2>2. Id(x) \in Ids
    BY <2>1 DEF TypeOK, Id
  <2>3. QED
    BY <2>1, <2>2, ReadTyped, PassesTyped DEF TypeOK, Resolved, tables
<1>4. ASSUME NEW x \in Requests, Mark(x) PROVE TypeOK'
  <2>1. rows' \in [Ids -> Row \cup {NoRow}]
    <3>1. Upsert(Id(x), req[x].mode, req[x].workspace, "active") \/ rows' = rows
      BY <1>4 DEF Mark
    <3>2. at[x] = "mark"
      BY <1>4 DEF Mark
    <3>3. QED  BY <3>1, <3>2, UpsertTyped DEF TypeOK, Request
  <2>2. unsettled' \subseteq Ids
    BY <1>4 DEF Mark, TypeOK
  <2>3. QED
    BY <1>4, <2>1, <2>2 DEF Mark, TypeOK, Go
<1>5. ASSUME NEW x \in Requests, Finish(x) PROVE TypeOK'
  <2>1. rows' \in [Ids -> Row \cup {NoRow}]
    <3>1. Upsert(Id(x), req[x].mode, req[x].workspace, "complete") \/ rows' = rows
      BY <1>5 DEF Finish
    <3>2. at[x] = "work"
      BY <1>5 DEF Finish
    <3>3. QED  BY <3>1, <3>2, UpsertTyped DEF TypeOK, Request
  <2>2. unsettled' \subseteq Ids
    BY <1>5 DEF Finish, TypeOK
  <2>3. QED
    BY <1>5, <2>1, <2>2, GoTyped DEF Finish, TypeOK
<1>6. ASSUME NEW x \in Requests, Breaks(x) \/ Errs(x) PROVE TypeOK'
  BY <1>6, GoTyped DEF Breaks, Errs, TypeOK, tables, history
<1>7. ASSUME NEW x \in Requests, ChooseProject(x) PROVE TypeOK'
  <2>1. at[x] = "choose" /\ UNCHANGED <<tables, had, alone, history>>
    BY <1>7 DEF ChooseProject
  <2>2. CASE req' = req /\ Go(x, "answer")
    BY <2>1, <2>2, GoTyped DEF Stay, TypeOK, tables, history
  <2>3. CASE \E p \in projects : req' = [req EXCEPT ![x].workspace = p] /\ Go(x, "use")
    <3>1. PICK p \in Projects : req' = [req EXCEPT ![x].workspace = p]
      BY <2>3 DEF TypeOK
    <3>2. [req[x] EXCEPT !.workspace = p] \in Request
      BY DEF TypeOK, Request
    <3>3. req' \in [Requests -> Request] /\ req'[x].session = req[x].session
      BY <3>1, <3>2 DEF TypeOK, Request
    <3>4. \A y \in Requests \ {x} : req'[y] = req[y]
      BY <3>1 DEF TypeOK
    <3>5. QED
      BY <2>1, <2>3, <3>3, <3>4 DEF TypeOK, Go, tables, history
  <2>4. QED  BY <1>7, <2>2, <2>3 DEF ChooseProject
<1>8. ASSUME NEW x \in Requests, Use(x) PROVE TypeOK'
  BY <1>8, GoOrEndTyped DEF Use, TypeOK, tables, history
<1>9. ASSUME NEW x \in Requests, Set(x) PROVE TypeOK'
  <2>1. Target(x) \in Choice
    BY DEF Target, TypeOK, Request, Choice
  <2>2. rows' \in [Ids -> Row \cup {NoRow}]
    BY <1>9, <2>1, ModeTyped DEF Set, TypeOK, Choice, Id
  <2>3. /\ choice' \in [Ids -> Choice \cup {NoRow, Open}]
    BY <1>9, <2>1 DEF Set, Chosen, TypeOK
  <2>4. QED
    BY <1>9, <2>2, <2>3, GoOrEndTyped DEF Set, TypeOK
<1>10. ASSUME NEW x \in Requests, SetFails(x) PROVE TypeOK'
  BY <1>10, GoOrEndTyped DEF SetFails, TypeOK, tables, history
<1>11. ASSUME NEW x \in Requests, ReadInternet(x) PROVE TypeOK'
  <2>1. at[x] = "read" /\ UNCHANGED <<tables, had, alone, history>>
    BY <1>11 DEF ReadInternet
  <2>2. CASE req' = req /\ (Go(x, "fail") \/ Go(x, "answer"))
    BY <2>1, <2>2, GoTyped DEF Stay, TypeOK, tables, history
  <2>3. CASE /\ \E a \in Access : req' = [req EXCEPT ![x].access = a]
             /\ Go(x, "toggle")
    <3>1. PICK a \in Access : req' = [req EXCEPT ![x].access = a]
      BY <2>3
    <3>2. [req[x] EXCEPT !.access = a] \in Request
      BY DEF TypeOK, Request
    <3>3. req' \in [Requests -> Request] /\ req'[x].session = req[x].session
      BY <3>1, <3>2 DEF TypeOK, Request
    <3>4. \A y \in Requests \ {x} : req'[y] = req[y]
      BY <3>1 DEF TypeOK
    <3>5. QED
      BY <2>1, <2>3, <3>3, <3>4 DEF TypeOK, Go, tables, history
  <2>4. QED  BY <1>11, <2>2, <2>3 DEF ReadInternet
<1>12. ASSUME NEW x \in Requests, Toggle(x) PROVE TypeOK'
  <2> DEFINE s == Id(x)
  <2>1. at[x] = "toggle" /\ req[x].access \in Access /\ s \in Ids
    BY <1>12 DEF Toggle, TypeOK, Request, Id
  <2>2. CASE /\ rows[s] # NoRow /\ Go(x, "answer") /\ Stay
             /\ SetInternet(s, req[x].access)
             /\ told' = [told EXCEPT ![s] =
                  IF x \in alone THEN {req[x].access} ELSE Access]
             /\ UNCHANGED <<projects, choice, deleted, unsettled>>
    <3>1. rows[s] \in Row
      BY <2>1, <2>2 DEF TypeOK
    <3>2. rows' \in [Ids -> Row \cup {NoRow}]
      BY <2>1, <2>2, <3>1 DEF SetInternet, RowOf, TypeOK, Row
    <3>3. told' \in [Ids -> SUBSET Access]
      BY <2>1, <2>2 DEF TypeOK
    <3>4. QED
      BY <2>1, <2>2, <3>2, <3>3, GoTyped DEF TypeOK
  <2>3. CASE /\ Go(x, "fail") /\ Stay
             /\ UNCHANGED <<rows, told, projects, choice, deleted, unsettled>>
    BY <2>1, <2>3, GoTyped DEF TypeOK
  <2>4. QED  BY <1>12, <2>2, <2>3 DEF Toggle
<1>13. ASSUME NEW x \in Requests, Answer(x) \/ Fail(x) PROVE TypeOK'
  <2>1. /\ at[x] \in {"answer", "fail"} /\ Go(x, "return") /\ Stay
        /\ \E status \in {"complete", "error"} : Settle(Id(x), status)
    BY <1>13 DEF Answer, Fail
  <2>2. Id(x) \in Ids
    BY <2>1 DEF TypeOK, Id
  <2>3. QED
    BY <2>1, <2>2, SettleTyped, GoTyped DEF TypeOK
<1>14. ASSUME NEW x \in Requests, Return(x) \/ Deferred(x) PROVE TypeOK'
  <2>1. CASE Return(x)
    BY <2>1, EndTyped DEF Return, TypeOK, tables, history
  <2>2. CASE Deferred(x)
    <3>1. Id(x) \in Ids
      BY <2>2 DEF Deferred, TypeOK, Id
    <3>2. QED
      BY <2>2, <3>1, SettleTyped, EndTyped DEF Deferred, TypeOK
  <2>3. QED  BY <1>14, <2>1, <2>2
<1>15. ASSUME NEW x \in Requests, Cancel(x) PROVE TypeOK'
  BY <1>15, GoOrEndTyped DEF Cancel, Live, TypeOK, tables, history
<1>16. ASSUME NEW x \in Requests, Remove(x) PROVE TypeOK'
  BY <1>16, GoOrEndTyped DEF Remove, TypeOK
<1>17. ASSUME NEW x \in Requests, LookAtRemoved(x) \/ Registered(x) PROVE TypeOK'
  BY <1>17, GoOrEndTyped DEF LookAtRemoved, Registered, TypeOK, tables, history
<1>18. ASSUME NEW x \in Requests, LookAtActivated(x) PROVE TypeOK'
  <2>1. at[x] = "look" /\ UNCHANGED <<tables, history>>
    BY <1>18 DEF LookAtActivated
  <2>2. CASE End(x)
    BY <2>1, <2>2, EndTyped DEF TypeOK, tables, history
  <2>3. CASE ~End(x)
    <3> DEFINE w == rows[Id(x)].workspace
    <3>1. /\ rows[Id(x)] # NoRow /\ Go(x, "registered") /\ UNCHANGED <<had, alone>>
          /\ req' = [req EXCEPT ![x].workspace = w]
      BY <1>18, <2>3 DEF LookAtActivated
    <3>2. rows[Id(x)] \in Row
      BY <2>1, <3>1 DEF TypeOK, Id
    <3>3. w \in Projects \cup {None}
      BY <3>2 DEF Row
    <3> HIDE DEF w
    <3>4. [req[x] EXCEPT !.workspace = w] \in Request
      BY <3>3 DEF TypeOK, Request
    <3>5. req' \in [Requests -> Request] /\ req'[x].session = req[x].session
      BY <3>1, <3>4 DEF TypeOK, Request
    <3>6. \A y \in Requests \ {x} : req'[y] = req[y]
      BY <3>1 DEF TypeOK
    <3>7. QED
      BY <2>1, <3>1, <3>5, <3>6 DEF TypeOK, Go, tables, history
  <2>4. QED  BY <2>2, <2>3
<1>19. ASSUME NEW p \in Projects, AddProject(p) PROVE TypeOK'
  BY <1>19 DEF AddProject, TypeOK, history
<1>20. ASSUME NEW s \in Ids, CreateSession(s) PROVE TypeOK'
  BY <1>20 DEF CreateSession, Chosen, Choice, NewRow, RowOf, Row, Access, TypeOK
<1>21. ASSUME NEW s \in Ids, DeleteSession(s) PROVE TypeOK'
  BY <1>21 DEF DeleteSession, Chosen, TypeOK
<1>22. ASSUME UNCHANGED vars PROVE TypeOK'
  BY <1>22 DEF vars, tables, history, TypeOK
<1>23. QED
  BY <1>1, <1>2, <1>3, <1>4, <1>5, <1>6, <1>7, <1>8, <1>9, <1>10, <1>11, <1>12,
     <1>13, <1>14, <1>15, <1>16, <1>17, <1>18, <1>19, <1>20, <1>21, <1>22
     DEF Next, Run, Call

(* THEOREM: every reachable state is well typed.                           *)
THEOREM TypeCorrect == Spec => []TypeOK
<1>1. Init => TypeOK  BY TypeInit
<1>2. TypeOK /\ [Next]_vars => TypeOK'  BY TypeStep
<1>3. QED  BY <1>1, <1>2, PTL DEF Spec

-----------------------------------------------------------------------------
(* What a request holds at each of its statements                          *)

(* A mode and the workspace that belongs to it are read, checked and       *)
(* written together; only runs mark a row, only calls look at one.         *)
ReqInv ==
  \A x \in Requests :
    /\ at[x] \in {"mark", "work"} =>
         (req[x].mode = "code" <=> req[x].workspace # None)
    /\ at[x] \in {"resolve", "check", "mark"} => IsRun(x)
    /\ at[x] = "choose" => req[x].op = "/code"
    /\ at[x] = "use" =>
         req[x].op \in {"/code", "select"} /\ req[x].workspace # None
    /\ at[x] = "set" /\ req[x].op \in {"/code", "select"} =>
         req[x].workspace # None
    /\ at[x] \in {"remove", "look", "registered"} =>
         req[x].op \in {"remove", "activate"}

(* Until its row is marked a run remembers every registered project.       *)
HadInv ==
  \A x \in Requests :
    at[x] \in {"resolve", "check", "mark"} => projects \subseteq had[x]

IInv ==
  /\ TypeOK /\ ReqInv /\ HadInv
  /\ CodesInRegistered /\ CodeHasWorkspace /\ ActiveHasRun

Active(s) == s \notin unsettled /\ rows[s] # NoRow /\ rows[s].status = "active"

(* Request x is a run on session s that has yet to settle the row.         *)
Settles(s, x) ==
  /\ at[x] \notin {"idle", "resolve", "check", "return"}
  /\ IsRun(x) /\ req[x].session = s

LEMMA InvInit == ASSUME Init PROVE IInv
<1>1. ReqInv /\ HadInv /\ CodesInRegistered
  BY DEF Init, ReqInv, HadInv, CodesInRegistered
<1>2. CodeHasWorkspace /\ ActiveHasRun
  BY NullsDiffer DEF Init, CodeHasWorkspace, ActiveHasRun, NewRow, RowOf
<1>3. QED  BY <1>1, <1>2, TypeInit DEF IInv

-----------------------------------------------------------------------------
(* What the steps have in common                                           *)

LEMMA EndKeeps ==
  ASSUME TypeOK, NEW x \in Requests, End(x), ReqInv, HadInv,
         projects' \subseteq projects
  PROVE  ReqInv' /\ HadInv' /\ (CodesInRegistered => CodesInRegistered')
BY DEF TypeOK, End, ReqInv, HadInv, CodesInRegistered, IsRun

(* A step to a place about which ReqInv says nothing.                      *)
LEMMA GoKeeps ==
  ASSUME TypeOK, NEW x \in Requests, NEW place, Go(x, place), Stay,
         ReqInv, HadInv,
         place \notin {"mark", "work", "resolve", "check", "choose", "use",
                       "set", "remove", "look", "registered"},
         projects' \subseteq projects
  PROVE  ReqInv' /\ HadInv' /\ (CodesInRegistered => CodesInRegistered')
BY DEF TypeOK, Go, Stay, ReqInv, HadInv, CodesInRegistered, IsRun

LEMMA RowsKeep ==
  ASSUME rows' = rows, CodeHasWorkspace
  PROVE  CodeHasWorkspace'
BY DEF CodeHasWorkspace

LEMMA StatusKeeps ==
  ASSUME TypeOK, NEW s, NEW status, UpdateStatus(s, status), CodeHasWorkspace
  PROVE  CodeHasWorkspace'
BY DEF TypeOK, UpdateStatus, RowOf, CodeHasWorkspace

LEMMA UpsertKeeps ==
  ASSUME TypeOK, NEW s, NEW mode, NEW w, NEW status, Upsert(s, mode, w, status),
         mode = "code" <=> w # None, CodeHasWorkspace
  PROVE  CodeHasWorkspace'
BY DEF TypeOK, Upsert, NewRow, RowOf, CodeHasWorkspace

(* The rows that stay active still have the run that will settle them.     *)
LEMMA ActiveKept ==
  ASSUME ActiveHasRun,
         \A s \in Ids : Active(s)' =>
           Active(s) /\ \A x \in Requests : Settles(s, x) => Settles(s, x)'
  PROVE  ActiveHasRun'
BY DEF ActiveHasRun, Active, Settles, LiveOn, Live

-----------------------------------------------------------------------------
(* The steps                                                               *)

LEMMA GoOrEndKeeps ==
  ASSUME TypeOK, NEW x \in Requests, NEW goes, NEW place, GoOrEnd(x, goes, place),
         ReqInv, HadInv, projects' \subseteq projects,
         place \notin {"mark", "work", "resolve", "check", "choose", "use",
                       "set", "remove", "look", "registered"}
  PROVE  ReqInv' /\ HadInv' /\ (CodesInRegistered => CodesInRegistered')
BY EndKeeps, GoKeeps DEF GoOrEnd

LEMMA StartKeeps ==
  ASSUME TypeOK, ReqInv, HadInv, CodesInRegistered, NEW x \in Requests, Start(x)
  PROVE  ReqInv' /\ HadInv' /\ CodesInRegistered'
<1>1. PICK op \in RunOps \cup CallOps, s \in Ids, mode \in Modes \cup {""},
           w \in Projects \cup {None} :
        LET r == Asks(op, s, mode, w) IN
          /\ w # None <=> mode = "code" \/ op \in {"select", "remove"}
          /\ req' = [req EXCEPT ![x] = r] /\ Begins(x, r)
          /\ Go(x, Opening(op))
  BY DEF Start
<1>2. /\ req'[x].op = op /\ req'[x].workspace = w
      /\ \A y \in Requests \ {x} : req'[y] = req[y]
  BY <1>1 DEF TypeOK, Asks
<1>3. /\ had'[x] = IF op \in RunOps THEN projects ELSE {}
      /\ \A y \in Requests \ {x} : had'[y] = had[y]
  BY <1>1 DEF TypeOK, Begins, Asks
<1>4. /\ \/ op \in RunOps /\ at'[x] = "resolve"
         \/ op = "select" /\ at'[x] = "use"
         \/ op \in {"remove", "activate"} /\ at'[x] \in {"remove", "look"}
      /\ \A y \in Requests \ {x} : at'[y] = at[y]
  <2>1. at'[x] = Opening(op) /\ \A y \in Requests \ {x} : at'[y] = at[y]
    BY <1>1 DEF TypeOK, Go
  <2>2. \/ op \in RunOps /\ Opening(op) = "resolve"
        \/ op = "select" /\ Opening(op) = "use"
        \/ op \in {"remove", "activate"} /\ Opening(op) \in {"remove", "look"}
    BY DEF Opening, RunOps, CallOps
  <2>3. QED  BY <2>1, <2>2
<1>5. projects' = projects /\ (op = "select" => w # None)
  BY <1>1 DEF Start, tables
<1>6. ReqInv'
  BY <1>2, <1>4, <1>5 DEF ReqInv, IsRun, RunOps
<1>7. HadInv'
  BY <1>3, <1>4, <1>5 DEF HadInv, RunOps, CallOps
<1>8. CodesInRegistered'
  BY <1>2, <1>3, <1>4 DEF CodesInRegistered
<1>9. QED  BY <1>6, <1>7, <1>8

LEMMA ResolvedKeeps ==
  ASSUME TypeOK, ReqInv, HadInv, CodesInRegistered, NEW x \in Requests,
         at[x] \in {"resolve", "check"}, NEW mode, NEW w, Resolved(x, mode, w),
         NEW place \in {"check", "mark"}, Go(x, place),
         place = "mark" => (mode = "code" <=> w # None),
         place = "mark" /\ mode = "code" => w \in projects
  PROVE  ReqInv' /\ HadInv' /\ CodesInRegistered'
<1>1. /\ req'[x].op = req[x].op /\ req'[x].workspace = w /\ req'[x].mode = mode
      /\ \A y \in Requests \ {x} : req'[y] = req[y]
  BY DEF TypeOK, Resolved, Request
<1>2. at'[x] = place /\ \A y \in Requests \ {x} : at'[y] = at[y]
  BY DEF TypeOK, Go
<1>3. projects' = projects /\ had' = had
  BY DEF Resolved, tables
<1>4. ReqInv'
  BY <1>1, <1>2 DEF ReqInv, IsRun
<1>5. HadInv' /\ CodesInRegistered'
  BY <1>1, <1>2, <1>3 DEF HadInv, CodesInRegistered
<1>6. QED  BY <1>4, <1>5

LEMMA ReqStep ==
  ASSUME TypeOK, ReqInv, HadInv, CodesInRegistered, [Next]_vars
  PROVE  ReqInv' /\ HadInv' /\ CodesInRegistered'
<1> DEFINE Goal == ReqInv' /\ HadInv' /\ CodesInRegistered'
<1>1. ASSUME NEW x \in Requests, Start(x) PROVE Goal
  BY <1>1, StartKeeps
<1>2. ASSUME NEW x \in Requests, Resolve(x) PROVE Goal
  <2>1. PICK read \in BOOLEAN :
          LET row == Taken(x, read) IN
            /\ at[x] = "resolve"
            /\ Resolved(x, ResolvedMode(req[x], row), ResolvedWorkspace(req[x], row))
            /\ Go(x, IF ResolvedMode(req[x], row) = "code" THEN "check" ELSE "mark")
    BY <1>2 DEF Resolve, Taken, Id
  <2>2. ResolvedMode(req[x], Taken(x, read)) # "code" =>
          ResolvedWorkspace(req[x], Taken(x, read)) = None
    BY <2>1, ResolvedTyped DEF Taken, ResolvedWorkspace, Modes
  <2>3. QED
    BY <2>1, <2>2, ResolvedKeeps
<1>3. ASSUME NEW x \in Requests, Check(x) PROVE Goal
  BY <1>3, ResolvedKeeps, NullsDiffer DEF Check, TypeOK
<1>4. ASSUME NEW x \in Requests, Mark(x) PROVE Goal
  <2>1. /\ at[x] = "mark" /\ projects' = projects /\ req' = req
        /\ had' = [had EXCEPT ![x] = {}]
        /\ at'[x] = CASE req[x].op = "talk" -> "work" [] req[x].op = "/normal" -> "set"
             [] req[x].op = "/code" -> "choose" [] OTHER -> "read"
        /\ \A y \in Requests \ {x} : at'[y] = at[y]
    BY <1>4 DEF Mark, TypeOK, Go
  <2>2. ReqInv'
    BY <2>1 DEF ReqInv, IsRun
  <2>3. HadInv' /\ CodesInRegistered'
    BY <2>1 DEF HadInv, CodesInRegistered, TypeOK
  <2>4. QED  BY <2>2, <2>3
<1>5. ASSUME NEW x \in Requests,
             Finish(x) \/ Breaks(x) \/ Errs(x) \/ Toggle(x) \/ Answer(x) \/ Fail(x)
      PROVE  Goal
  BY <1>5, GoKeeps DEF Finish, Breaks, Errs, Toggle, Answer, Fail, Settle, tables
<1>6. ASSUME NEW x \in Requests, ChooseProject(x) PROVE Goal
  <2>1. /\ at[x] = "choose" /\ projects' = projects /\ had' = had /\ alone' = alone
        /\ \/ /\ \E p \in projects : req' = [req EXCEPT ![x].workspace = p]
              /\ Go(x, "use")
           \/ Go(x, "answer") /\ req' = req
    BY <1>6 DEF ChooseProject, tables
  <2>2. CASE Go(x, "answer") /\ req' = req
    BY <2>1, <2>2, GoKeeps DEF Stay
  <2>3. CASE /\ \E p \in projects : req' = [req EXCEPT ![x].workspace = p]
             /\ Go(x, "use")
    <3>1. PICK p \in projects : req' = [req EXCEPT ![x].workspace = p]
      BY <2>3
    <3>2. /\ req'[x].op = "/code" /\ req'[x].workspace = p /\ p # None
          /\ \A y \in Requests \ {x} : req'[y] = req[y]
      BY <2>1, <3>1, NullsDiffer DEF TypeOK, Request, ReqInv
    <3>3. at'[x] = "use" /\ \A y \in Requests \ {x} : at'[y] = at[y]
      BY <2>3 DEF TypeOK, Go
    <3>4. QED
      BY <2>1, <3>2, <3>3 DEF ReqInv, HadInv, CodesInRegistered, IsRun
  <2>4. QED  BY <2>1, <2>2, <2>3
<1>7. ASSUME NEW x \in Requests, Use(x) PROVE Goal
  <2>1. at[x] = "use" /\ projects' = projects
    BY <1>7 DEF Use, tables
  <2>2. CASE Go(x, "set") /\ Stay
    BY <2>1, <2>2 DEF Go, Stay, TypeOK, ReqInv, HadInv, CodesInRegistered, IsRun
  <2>3. CASE Go(x, "fail") /\ Stay
    BY <2>1, <2>3, GoKeeps
  <2>4. CASE End(x)
    BY <2>1, <2>4, EndKeeps
  <2>5. QED  BY <1>7, <2>2, <2>3, <2>4 DEF Use, GoOrEnd
<1>8. ASSUME NEW x \in Requests, Set(x) \/ SetFails(x) \/ Cancel(x) PROVE Goal
  BY <1>8, GoOrEndKeeps DEF Set, SetFails, Cancel, tables
<1>9. ASSUME NEW x \in Requests, ReadInternet(x) PROVE Goal
  <2>1. /\ at[x] = "read" /\ projects' = projects /\ had' = had
        /\ at'[x] \in {"fail", "toggle", "answer"}
        /\ \A y \in Requests \ {x} : at'[y] = at[y]
    BY <1>9 DEF ReadInternet, tables, Go, TypeOK
  <2>2. \A y \in Requests \ {x} : req'[y] = req[y]
    BY <1>9 DEF ReadInternet, TypeOK
  <2>3. QED
    BY <2>1, <2>2 DEF ReqInv, HadInv, CodesInRegistered, IsRun
<1>10. ASSUME NEW x \in Requests, Return(x) \/ Deferred(x) PROVE Goal
  BY <1>10, EndKeeps DEF Return, Deferred, Settle, tables
<1>11. ASSUME NEW x \in Requests, Remove(x) PROVE Goal
  <2>1. at[x] = "remove" /\ projects' \subseteq projects
    BY <1>11 DEF Remove
  <2>2. CASE Go(x, "look") /\ Stay
    BY <2>1, <2>2 DEF Go, Stay, TypeOK, ReqInv, HadInv, CodesInRegistered, IsRun
  <2>3. CASE End(x)
    BY <2>1, <2>3, EndKeeps
  <2>4. QED  BY <1>11, <2>2, <2>3 DEF Remove, GoOrEnd
<1>12. ASSUME NEW x \in Requests, LookAtRemoved(x) \/ Registered(x) PROVE Goal
  <2>1. /\ at[x] \in {"look", "registered"} /\ projects' = projects
        /\ req[x].op = "remove" \/ at[x] = "registered"
    BY <1>12 DEF LookAtRemoved, Registered, tables
  <2>2. CASE Go(x, "set") /\ Stay
    BY <2>1, <2>2
       DEF Go, Stay, TypeOK, ReqInv, HadInv, CodesInRegistered, IsRun, CallOps
  <2>3. CASE End(x)
    BY <2>1, <2>3, EndKeeps
  <2>4. QED  BY <1>12, <2>2, <2>3 DEF LookAtRemoved, Registered, GoOrEnd
<1>13. ASSUME NEW x \in Requests, LookAtActivated(x) PROVE Goal
  <2>1. at[x] = "look" /\ req[x].op = "activate" /\ projects' = projects
    BY <1>13 DEF LookAtActivated, tables
  <2>2. CASE End(x)
    BY <2>1, <2>2, EndKeeps
  <2>3. CASE ~End(x)
    <3>1. /\ Go(x, "registered") /\ had' = had
          /\ req' = [req EXCEPT ![x].workspace = rows[Id(x)].workspace]
      BY <1>13, <2>3 DEF LookAtActivated
    <3>2. /\ at'[x] = "registered" /\ req'[x].op = "activate"
          /\ \A y \in Requests \ {x} : at'[y] = at[y] /\ req'[y] = req[y]
      BY <2>1, <3>1 DEF Go, TypeOK, Request
    <3>3. QED
      BY <2>1, <3>1, <3>2
         DEF ReqInv, HadInv, CodesInRegistered, IsRun, CallOps
  <2>4. QED  BY <2>2, <2>3
<1>14. ASSUME NEW p \in Projects, AddProject(p) PROVE Goal
  BY <1>14 DEF AddProject, TypeOK, ReqInv, HadInv, CodesInRegistered, IsRun
<1>15. ASSUME NEW s \in Ids, CreateSession(s) \/ DeleteSession(s) PROVE Goal
  BY <1>15 DEF CreateSession, DeleteSession, ReqInv, HadInv, CodesInRegistered, IsRun
<1>16. ASSUME UNCHANGED vars PROVE Goal
  BY <1>16 DEF vars, tables, ReqInv, HadInv, CodesInRegistered, IsRun
<1>17. QED
  BY <1>1, <1>2, <1>3, <1>4, <1>5, <1>6, <1>7, <1>8, <1>9, <1>10, <1>11, <1>12,
     <1>13, <1>14, <1>15, <1>16 DEF Next, Run, Call

LEMMA WorkspaceStep ==
  ASSUME TypeOK, ReqInv, CodeHasWorkspace, [Next]_vars
  PROVE  CodeHasWorkspace'
<1>1. CASE rows' = rows
  BY <1>1, RowsKeep
<1>2. ASSUME NEW x \in Requests, Mark(x) \/ Finish(x) PROVE CodeHasWorkspace'
  BY <1>1, <1>2, UpsertKeeps DEF Mark, Finish, ReqInv
<1>3. ASSUME NEW x \in Requests, Answer(x) \/ Fail(x) \/ Deferred(x)
      PROVE  CodeHasWorkspace'
  BY <1>1, <1>3, StatusKeeps DEF Answer, Fail, Deferred, Settle
<1>4. ASSUME NEW x \in Requests, Set(x) PROVE CodeHasWorkspace'
  <2>1. Target(x).mode = "code" <=> Target(x).workspace # None
    BY <1>4 DEF Set, ReqInv, Target
  <2>2. QED
    BY <1>4, <2>1 DEF Set, SetMode, RowOf, TypeOK, CodeHasWorkspace
<1>5. ASSUME NEW x \in Requests, Toggle(x) PROVE CodeHasWorkspace'
  BY <1>5 DEF Toggle, SetInternet, RowOf, TypeOK, CodeHasWorkspace
<1>6. ASSUME NEW s \in Ids, CreateSession(s) \/ DeleteSession(s)
      PROVE  CodeHasWorkspace'
  BY <1>6 DEF CreateSession, DeleteSession, NewRow, RowOf, TypeOK, CodeHasWorkspace
<1>7. QED
  BY <1>1, <1>2, <1>3, <1>4, <1>5, <1>6
     DEF Next, Run, Call, Start, Cancel, AddProject, Resolve, Resolved, Check,
         Breaks, Errs, ChooseProject, ReadInternet, Return, Use, SetFails, Remove,
         LookAtRemoved, LookAtActivated, Registered, vars, tables

(* A call leaves every run where it is, and so does a run that begins.     *)
LEMMA OthersSettle ==
  ASSUME TypeOK, NEW x \in Requests, NEW y \in Requests, y # x, NEW s,
         NEW place, NEW r,
         at' = [at EXCEPT ![x] = place], req' = [req EXCEPT ![x] = r],
         Settles(s, y)
  PROVE  Settles(s, y)'
BY DEF TypeOK, Settles, IsRun

LEMMA EndSettles ==
  ASSUME TypeOK, NEW x \in Requests, End(x), NEW s, ~Settles(s, x),
         NEW y \in Requests, Settles(s, y)
  PROVE  Settles(s, y)'
BY DEF TypeOK, Settles, IsRun, End

LEMMA GoSettles ==
  ASSUME TypeOK, NEW x \in Requests, NEW place, Go(x, place), Stay, NEW s,
         place \notin {"idle", "resolve", "check", "return"} \/ ~Settles(s, x),
         NEW y \in Requests, Settles(s, y)
  PROVE  Settles(s, y)'
BY DEF TypeOK, Settles, IsRun, Go, Stay

LEMMA GoOrEndSettles ==
  ASSUME TypeOK, NEW x \in Requests, NEW place, GoOrEnd(x, IsRun(x), place),
         NEW s, place \notin {"idle", "resolve", "check", "return"},
         NEW y \in Requests, Settles(s, y)
  PROVE  Settles(s, y)'
<1>1. CASE Go(x, place) /\ Stay
  BY <1>1, GoSettles
<1>2. CASE ~IsRun(x) /\ End(x)
  BY <1>2, EndSettles DEF Settles
<1>3. QED  BY <1>1, <1>2 DEF GoOrEnd

LEMMA ActiveStep ==
  ASSUME TypeOK, ReqInv, ActiveHasRun, [Next]_vars
  PROVE  ActiveHasRun'
<1> DEFINE Kept ==
      \A s \in Ids : Active(s)' =>
        Active(s) /\ \A y \in Requests : Settles(s, y) => Settles(s, y)'
<1>1. ASSUME NEW x \in Requests, Start(x) PROVE ActiveHasRun'
  <2>1. /\ at[x] = "idle" /\ rows' = rows /\ unsettled' = unsettled
        /\ \E r, place : req' = [req EXCEPT ![x] = r] /\ Go(x, place)
    <3>1. \E r, place : Begins(x, r) /\ req' = [req EXCEPT ![x] = r] /\ Go(x, place)
      BY <1>1 DEF Start
    <3>2. unsettled' = unsettled
      BY <3>1 DEF Begins
    <3>3. QED  BY <1>1, <3>1, <3>2 DEF Start, tables
  <2>2. Kept
    <3>1. PICK r, place : req' = [req EXCEPT ![x] = r]
                          /\ at' = [at EXCEPT ![x] = place]
      BY <2>1 DEF Go
    <3>2. \A s \in Ids, y \in Requests : Settles(s, y) => y # x
      BY <2>1 DEF Settles
    <3>3. \A s \in Ids, y \in Requests : Settles(s, y) => Settles(s, y)'
      BY <3>1, <3>2, OthersSettle
    <3>4. QED  BY <2>1, <3>3 DEF Active
  <2>3. QED  BY <2>2, ActiveKept
<1>2. ASSUME NEW x \in Requests, Resolve(x) \/ Check(x) PROVE ActiveHasRun'
  <2>1. /\ at[x] \in {"resolve", "check"} /\ rows' = rows /\ unsettled' = unsettled
        /\ \A y \in Requests \ {x} : at'[y] = at[y] /\ req'[y] = req[y]
    BY <1>2 DEF Resolve, Check, Resolved, Passes, Mislay, Go, TypeOK, tables, history
  <2>2. Kept
    BY <2>1 DEF Active, Settles, IsRun
  <2>3. QED  BY <2>2, ActiveKept
<1>3. ASSUME NEW x \in Requests, Mark(x) PROVE ActiveHasRun'
  <2>0. PICK s \in Ids : s = Id(x)
    BY <1>3 DEF Mark, TypeOK, Id
  <2>1. /\ at[x] = "mark" /\ IsRun(x) /\ req' = req
        /\ \A y \in Requests \ {x} : at'[y] = at[y]
        /\ at'[x] \in {"work", "set", "choose", "read"}
        /\ \A t \in Ids \ {s} : rows'[t] = rows[t]
        /\ unsettled \ {s} \subseteq unsettled'
    BY <1>3, <2>0 DEF Mark, ReqInv, Go, Upsert, TypeOK
  <2>2. Settles(s, x)'
    BY <2>0, <2>1 DEF Settles, IsRun, Id
  <2>3. \A t \in Ids, y \in Requests : Settles(t, y) => Settles(t, y)'
    BY <2>1 DEF Settles, IsRun
  <2>4. ASSUME NEW t \in Ids, Active(t)'
        PROVE  \E y \in Requests : Settles(t, y)'
    <3>1. CASE t = s  BY <2>2, <3>1
    <3>2. CASE t # s
      BY <2>1, <2>3, <2>4, <3>2 DEF ActiveHasRun, Active, Settles, LiveOn, Live
    <3>3. QED  BY <3>1, <3>2
  <2>5. QED
    BY <2>4 DEF ActiveHasRun, Active, Settles, LiveOn, Live
<1>4. ASSUME NEW x \in Requests, Finish(x) \/ Breaks(x) \/ Errs(x)
      PROVE  ActiveHasRun'
  <2>1. \A s \in Ids : Active(s)' => Active(s)
    BY <1>4 DEF Finish, Breaks, Errs, Upsert, NewRow, RowOf, TypeOK, Active, tables,
                history
  <2>2. Kept
    <3>1. (Go(x, "answer") /\ Stay) \/ (Go(x, "fail") /\ Stay)
      BY <1>4 DEF Finish, Breaks, Errs
    <3>2. \A s \in Ids, y \in Requests : Settles(s, y) => Settles(s, y)'
      BY <3>1, GoSettles
    <3>3. QED  BY <2>1, <3>2
  <2>3. QED  BY <2>2, ActiveKept
<1>5. ASSUME NEW x \in Requests, ChooseProject(x) \/ ReadInternet(x)
      PROVE  ActiveHasRun'
  <2>1. /\ at'[x] \in {"use", "answer", "fail", "toggle"}
        /\ rows' = rows /\ unsettled' = unsettled
        /\ \A y \in Requests \ {x} : at'[y] = at[y]
        /\ \A y \in Requests : req'[y].op = req[y].op
                               /\ req'[y].session = req[y].session
    <3>1. /\ at'[x] \in {"use", "answer", "fail", "toggle"}
          /\ rows' = rows /\ unsettled' = unsettled
          /\ \A y \in Requests \ {x} : at'[y] = at[y]
      BY <1>5 DEF ChooseProject, ReadInternet, Go, TypeOK, tables, history
    <3>2. \/ req' = req
          \/ \E p : req' = [req EXCEPT ![x].workspace = p]
          \/ \E a : req' = [req EXCEPT ![x].access = a]
      BY <1>5 DEF ChooseProject, ReadInternet
    <3>3. \A y \in Requests : req'[y].op = req[y].op
                              /\ req'[y].session = req[y].session
      <4>1. CASE req' = req
        BY <4>1
      <4>2. CASE \E p : req' = [req EXCEPT ![x].workspace = p]
        <5>1. PICK p : req' = [req EXCEPT ![x].workspace = p]
          BY <4>2
        <5>2. req[x] \in Request
          BY DEF TypeOK
        <5>3. /\ [req[x] EXCEPT !.workspace = p].op = req[x].op
              /\ [req[x] EXCEPT !.workspace = p].session = req[x].session
          BY <5>2 DEF Request
        <5>4. QED
          BY <5>1, <5>3 DEF TypeOK
      <4>3. CASE \E a : req' = [req EXCEPT ![x].access = a]
        <5>1. PICK a : req' = [req EXCEPT ![x].access = a]
          BY <4>3
        <5>2. req[x] \in Request
          BY DEF TypeOK
        <5>3. /\ [req[x] EXCEPT !.access = a].op = req[x].op
              /\ [req[x] EXCEPT !.access = a].session = req[x].session
          BY <5>2 DEF Request
        <5>4. QED
          BY <5>1, <5>3 DEF TypeOK
      <4>4. QED  BY <3>2, <4>1, <4>2, <4>3
    <3>4. QED  BY <3>1, <3>3
  <2>2. Kept
    BY <2>1 DEF Active, Settles, IsRun
  <2>3. QED  BY <2>2, ActiveKept
<1>6. ASSUME NEW x \in Requests, Use(x) PROVE ActiveHasRun'
  <2>0. unsettled' = unsettled
    BY <1>6 DEF Use, history
  <2>1. CASE Go(x, "set") /\ Stay /\ rows' = rows
    <3>1. Kept  BY <2>0, <2>1, GoSettles DEF Active
    <3>2. QED  BY <3>1, ActiveKept
  <2>2. CASE GoOrEnd(x, IsRun(x), "fail") /\ rows' = rows
    <3>1. Kept  BY <2>0, <2>2, GoOrEndSettles DEF Active
    <3>2. QED  BY <3>1, ActiveKept
  <2>3. QED  BY <1>6, <2>1, <2>2 DEF Use, GoOrEnd, tables
<1>7. ASSUME NEW x \in Requests, Set(x) \/ SetFails(x) \/ Cancel(x)
      PROVE  ActiveHasRun'
  <2>1. \A s \in Ids : Active(s)' => Active(s)
    BY <1>7 DEF Set, SetFails, Cancel, SetMode, RowOf, TypeOK, Active, tables, history, Id
  <2>2. Kept
    BY <1>7, <2>1, GoOrEndSettles DEF Set, SetFails, Cancel
  <2>3. QED  BY <2>2, ActiveKept
<1>8. ASSUME NEW x \in Requests, Toggle(x) PROVE ActiveHasRun'
  <2>1. \A s \in Ids : Active(s)' => Active(s)
    BY <1>8 DEF Toggle, SetInternet, RowOf, TypeOK, Active
  <2>2. (Go(x, "answer") /\ Stay) \/ (Go(x, "fail") /\ Stay)
    BY <1>8 DEF Toggle
  <2>3. \A s \in Ids, y \in Requests : Settles(s, y) => Settles(s, y)'
    BY <2>2, GoSettles
  <2>4. Kept  BY <2>1, <2>3
  <2>5. QED  BY <2>4, ActiveKept
<1>9. ASSUME NEW x \in Requests, Answer(x) \/ Fail(x) PROVE ActiveHasRun'
  <2>1. \A s \in Ids : Active(s)' => Active(s) /\ s # Id(x)
    BY <1>9 DEF Answer, Fail, Settle, UpdateStatus, RowOf, TypeOK, Active
  <2>2. Kept
    BY <1>9, <2>1, GoSettles DEF Answer, Fail, Settles, Id
  <2>3. QED  BY <2>2, ActiveKept
<1>10. ASSUME NEW x \in Requests, Deferred(x) PROVE ActiveHasRun'
  <2>1. \A s \in Ids : Active(s)' => Active(s) /\ s # Id(x)
    BY <1>10 DEF Deferred, Settle, UpdateStatus, RowOf, TypeOK, Active
  <2>2. Kept
    BY <1>10, <2>1, EndSettles DEF Deferred, Settles, Id
  <2>3. QED  BY <2>2, ActiveKept
<1>11. ASSUME NEW x \in Requests, Return(x) PROVE ActiveHasRun'
  <2>1. Kept
    BY <1>11, EndSettles DEF Return, Settles, Active, tables, history
  <2>2. QED  BY <2>1, ActiveKept
<1>12. ASSUME NEW x \in Requests, Remove(x) \/ LookAtRemoved(x) \/ Registered(x)
       PROVE  ActiveHasRun'
  <2>1. ~IsRun(x) /\ rows' = rows /\ unsettled' = unsettled
    BY <1>12 DEF Remove, LookAtRemoved, Registered, ReqInv, IsRun, RunOps, tables,
                 history
  <2>2. End(x) \/ (Go(x, "look") /\ Stay) \/ (Go(x, "set") /\ Stay)
    BY <1>12 DEF Remove, LookAtRemoved, Registered, GoOrEnd
  <2>3. Kept
    BY <2>1, <2>2, EndSettles, GoSettles DEF Active, Settles
  <2>4. QED  BY <2>3, ActiveKept
<1>13. ASSUME NEW x \in Requests, LookAtActivated(x) PROVE ActiveHasRun'
  <2>1. ~IsRun(x) /\ rows' = rows /\ unsettled' = unsettled
    BY <1>13 DEF LookAtActivated, IsRun, RunOps, tables, history
  <2>2. \A y \in Requests \ {x} : at'[y] = at[y] /\ req'[y] = req[y]
    BY <1>13 DEF LookAtActivated, Go, End, TypeOK
  <2>3. Kept
    BY <2>1, <2>2 DEF Active, Settles, IsRun
  <2>4. QED  BY <2>3, ActiveKept
<1>14. ASSUME NEW p \in Projects, AddProject(p) PROVE ActiveHasRun'
  <2>1. Kept  BY <1>14 DEF AddProject, Active, Settles, IsRun, history
  <2>2. QED  BY <2>1, ActiveKept
<1>15. ASSUME NEW s \in Ids, CreateSession(s) \/ DeleteSession(s)
       PROVE  ActiveHasRun'
  <2>1. Kept
    BY <1>15 DEF CreateSession, DeleteSession, NewRow, RowOf, TypeOK, Active,
                 Settles, IsRun
  <2>2. QED  BY <2>1, ActiveKept
<1>16. ASSUME UNCHANGED vars PROVE ActiveHasRun'
  <2>1. Kept  BY <1>16 DEF vars, tables, history, Active, Settles, IsRun
  <2>2. QED  BY <2>1, ActiveKept
<1>17. QED
  BY <1>1, <1>2, <1>3, <1>4, <1>5, <1>6, <1>7, <1>8, <1>9, <1>10, <1>11, <1>12,
     <1>13, <1>14, <1>15, <1>16 DEF Next, Run, Call

-----------------------------------------------------------------------------
(* The invariants                                                          *)

LEMMA Invariance == Spec => []IInv
<1>1. Init => IInv  BY InvInit
<1>2. IInv /\ [Next]_vars => IInv'
  BY TypeStep, ReqStep, WorkspaceStep, ActiveStep DEF IInv
<1>3. QED  BY <1>1, <1>2, PTL DEF Spec

(* THEOREM: mode and workspace of a row belong together, whatever runs,    *)
(* commands, management calls and deletions interleave on the session.     *)
THEOREM WorkspaceOfMode == Spec => []CodeHasWorkspace
BY Invariance, PTL DEF IInv

(* THEOREM: a row that says active has a run that will settle it, or the   *)
(* last write of the run that was to settle it failed.                     *)
THEOREM ActiveIsSettled == Spec => []ActiveHasRun
BY Invariance, PTL DEF IInv

(* THEOREM: a run codes only in a project registered while it was there.   *)
THEOREM OnlyRegistered == Spec => []CodesInRegistered
BY Invariance, PTL DEF IInv

-----------------------------------------------------------------------------
(* The choices of a user.  A choice is settled by a request that nothing   *)
(* crosses; from then on every request that is under way on the session    *)
(* was begun knowing the choice, and holds what the row holds.             *)

(* A request that is crossed is not alone, so a request that is choosing   *)
(* and alone is the only one on its session.                               *)
AloneInv ==
  \A x \in alone :
    at[x] # "idle" /\ (req[x].op \in Choosing => LiveOn(Id(x)) \subseteq {x})

Coding(p) == [mode |-> "code", workspace |-> p]

(* Request x will leave a session with choice c as it is.                  *)
Follows(x, c) ==
  /\ c # NoRow /\ at[x] \notin {"choose", "use", "set"}
  /\ at[x] = "resolve" => req[x].mode = "" /\ req[x].workspace = None
  /\ at[x] \in {"resolve", "check", "mark"} => req[x].op \notin Choosing
  /\ at[x] = "check" => req[x].mode = "code"
  /\ at[x] \in {"check", "mark", "work"} =>
       c = [mode |-> req[x].mode, workspace |-> req[x].workspace]
  /\ at[x] \in {"remove", "look"} /\ req[x].op = "remove" => req[x].workspace # None
  /\ at[x] = "look" /\ req[x].op = "remove" => c # Coding(req[x].workspace)
  /\ at[x] = "registered" => c = Coding(req[x].workspace)

ChosenInv ==
  \A s \in Ids : choice[s] # Open =>
    /\ \A p \in Projects : choice[s] = Coding(p) => p \in projects
    /\ \A x \in Requests : Live(x) /\ Id(x) = s => Follows(x, choice[s])

(* The user of a session that is not there may believe anything.           *)
ToldInv == \A s \in Ids : rows[s] = NoRow => told[s] = Access

ChoiceInv ==
  /\ IInv /\ AloneInv /\ ChosenInv /\ QuietChoiceStands
  /\ ToldInv /\ InternetAsTold

OnlyBy(x) ==
  \A y \in Requests \ {x} : at'[y] = at[y] /\ req'[y] = req[y]

(* A request goes on, or ends.                                             *)
GoesOn(x) ==
  /\ OnlyBy(x) /\ at[x] # "idle" /\ alone' \subseteq alone
  /\ at'[x] = "idle" => x \notin alone'
  /\ at'[x] # "idle" => req'[x].session = req[x].session /\ req'[x].op = req[x].op

LEMMA EndGoesOn ==
  ASSUME TypeOK, NEW x \in Requests, at[x] # "idle", End(x)
  PROVE  GoesOn(x)
BY DEF TypeOK, End, GoesOn, OnlyBy

LEMMA GoGoesOn ==
  ASSUME TypeOK, NEW x \in Requests, at[x] # "idle", NEW place \in Places \ {"idle"},
         Go(x, place), req' = req, alone' = alone
  PROVE  GoesOn(x)
BY DEF TypeOK, Go, GoesOn, OnlyBy

(* A request that has read a mode, a workspace or an access.               *)
LEMMA ReadGoesOn ==
  ASSUME TypeOK, NEW x \in Requests, at[x] # "idle", NEW place \in Places \ {"idle"},
         Go(x, place), alone' = alone,
         \/ \E mode, w : req' = [req EXCEPT ![x].mode = mode, ![x].workspace = w]
         \/ \E w : req' = [req EXCEPT ![x].workspace = w]
         \/ \E a : req' = [req EXCEPT ![x].access = a]
  PROVE  GoesOn(x)
<1>1. req \in [Requests -> Request] /\ req[x] \in Request
  BY DEF TypeOK
<1>2. /\ \A y \in Requests \ {x} : req'[y] = req[y]
      /\ req'[x].session = req[x].session /\ req'[x].op = req[x].op
  <2>1. CASE \E mode, w : req' = [req EXCEPT ![x].mode = mode, ![x].workspace = w]
    <3>1. PICK mode, w : req' = [req EXCEPT ![x].mode = mode, ![x].workspace = w]
      BY <2>1
    <3>2. /\ [req[x] EXCEPT !.mode = mode, !.workspace = w].session = req[x].session
          /\ [req[x] EXCEPT !.mode = mode, !.workspace = w].op = req[x].op
      BY <1>1 DEF Request
    <3>3. req' = [req EXCEPT ![x] = [req[x] EXCEPT !.mode = mode, !.workspace = w]]
      BY <3>1 DEF TypeOK
    <3>4. QED
      BY <3>2, <3>3 DEF TypeOK
  <2>2. CASE \E w : req' = [req EXCEPT ![x].workspace = w]
    <3>1. PICK w : req' = [req EXCEPT ![x].workspace = w]
      BY <2>2
    <3>2. /\ [req[x] EXCEPT !.workspace = w].session = req[x].session
          /\ [req[x] EXCEPT !.workspace = w].op = req[x].op
      BY <1>1 DEF Request
    <3>3. req' = [req EXCEPT ![x] = [req[x] EXCEPT !.workspace = w]]
      BY <1>1, <3>1
    <3>4. QED
      BY <1>1, <3>2, <3>3
  <2>3. CASE \E a : req' = [req EXCEPT ![x].access = a]
    <3>1. PICK a : req' = [req EXCEPT ![x].access = a]
      BY <2>3
    <3>2. /\ [req[x] EXCEPT !.access = a].session = req[x].session
          /\ [req[x] EXCEPT !.access = a].op = req[x].op
      BY <1>1 DEF Request
    <3>3. req' = [req EXCEPT ![x] = [req[x] EXCEPT !.access = a]]
      BY <1>1, <3>1
    <3>4. QED
      BY <1>1, <3>2, <3>3
  <2>4. QED  BY <2>1, <2>2, <2>3
<1>3. QED
  BY <1>2 DEF TypeOK, Go, GoesOn, OnlyBy

LEMMA GoOrEndGoesOn ==
  ASSUME TypeOK, NEW x \in Requests, at[x] # "idle", NEW place \in Places \ {"idle"},
         NEW goes, GoOrEnd(x, goes, place)
  PROVE  GoesOn(x)
BY EndGoesOn, GoGoesOn DEF GoOrEnd, Stay

LEMMA RequestGoesOn ==
  ASSUME TypeOK, NEW x \in Requests, Run(x) \/ Call(x) \/ Cancel(x)
  PROVE  GoesOn(x)
<1> USE DEF Places
<1>1. CASE Resolve(x) \/ Check(x)
  BY <1>1, ReadGoesOn DEF Resolve, Check, Resolved
<1>2. CASE Mark(x)
  BY <1>2, GoGoesOn DEF Mark
<1>3. CASE Finish(x) \/ Breaks(x) \/ Errs(x) \/ Toggle(x) \/ Answer(x) \/ Fail(x)
  BY <1>3, GoGoesOn DEF Finish, Breaks, Errs, Toggle, Answer, Fail, Stay
<1>4. CASE ChooseProject(x)
  BY <1>4, ReadGoesOn, GoGoesOn DEF ChooseProject
<1>5. CASE ReadInternet(x)
  BY <1>5, ReadGoesOn, GoGoesOn DEF ReadInternet
<1>6. CASE Return(x) \/ Deferred(x)
  BY <1>6, EndGoesOn DEF Return, Deferred
<1>7. CASE Use(x) \/ Set(x) \/ SetFails(x) \/ Cancel(x) \/ Remove(x)
           \/ LookAtRemoved(x) \/ Registered(x)
  BY <1>7, GoOrEndGoesOn
     DEF Use, Set, SetFails, Cancel, Live, Remove, LookAtRemoved, Registered
<1>8. CASE LookAtActivated(x)
  BY <1>8, ReadGoesOn, EndGoesOn DEF LookAtActivated
<1>9. QED
  BY <1>1, <1>2, <1>3, <1>4, <1>5, <1>6, <1>7, <1>8 DEF Run, Call

LEMMA StartFacts ==
  ASSUME TypeOK, NEW x \in Requests, Start(x)
  PROVE  \E op \in RunOps \cup CallOps, s \in Ids, mode \in Modes \cup {""},
            w \in Projects \cup {None} :
           /\ at[x] = "idle" /\ OnlyBy(x) /\ UNCHANGED tables
           /\ at'[x] = Opening(op)
           /\ req'[x] = Asks(op, s, mode, w) /\ Begins(x, Asks(op, s, mode, w))
           /\ op \in CallOps => mode = ""
           /\ w # None <=> mode = "code" \/ op \in {"select", "remove"}
BY DEF Start, TypeOK, Go, OnlyBy

LEMMA AloneStep ==
  ASSUME TypeOK, AloneInv, [Next]_vars
  PROVE  AloneInv'
<1> USE DEF AloneInv, LiveOn, Live, Id
<1>1. ASSUME NEW x \in Requests, Start(x) PROVE AloneInv'
  <2>1. PICK op \in RunOps \cup CallOps, s \in Ids, mode \in Modes \cup {""},
             w \in Projects \cup {None} :
          /\ at[x] = "idle" /\ OnlyBy(x) /\ at'[x] = Opening(op)
          /\ req'[x] = Asks(op, s, mode, w) /\ Begins(x, Asks(op, s, mode, w))
    BY <1>1, StartFacts
  <2>2. at'[x] # "idle" /\ req'[x].op = op /\ req'[x].session = s
    <3>1. Opening(op) # "idle"
      BY DEF Opening, RunOps, CallOps
    <3>2. /\ Asks(op, s, mode, w).op = op /\ Asks(op, s, mode, w).session = s
      BY DEF Asks
    <3>3. QED  BY <2>1, <3>1, <3>2
  <2>3. /\ alone' \subseteq alone \cup {x} /\ x \notin alone
        /\ x \in alone' /\ op \in Choosing => LiveOn(s) = {}
        /\ \A y \in alone' \ {x} : req[y].op \in Choosing => y \notin LiveOn(s)
    BY <2>1 DEF Begins, Asks, CrossedBy, Crosses
  <2>4. QED
    BY <2>1, <2>2, <2>3 DEF OnlyBy, TypeOK
<1>2. ASSUME NEW x \in Requests, Run(x) \/ Call(x) \/ Cancel(x) PROVE AloneInv'
  BY <1>2, RequestGoesOn DEF GoesOn, OnlyBy, TypeOK
<1>3. ASSUME NEW p \in Projects, AddProject(p) PROVE AloneInv'
  BY <1>3 DEF AddProject
<1>4. ASSUME NEW s \in Ids, CreateSession(s) \/ DeleteSession(s) PROVE AloneInv'
  BY <1>4 DEF CreateSession, DeleteSession
<1>5. CASE UNCHANGED vars
  BY <1>5 DEF vars
<1>6. QED
  BY <1>1, <1>2, <1>3, <1>4, <1>5 DEF Next

LEMMA RowOfFields ==
  ASSUME NEW mode \in Modes, NEW w \in Projects \cup {None},
         NEW status \in {"idle", "active", "complete", "error", "cancelled"},
         NEW a \in Access
  PROVE  LET row == RowOf(mode, w, status, a) IN
           /\ row # NoRow /\ row.internet = a
           /\ row.mode = mode /\ row.workspace = w
<1>1. RowOf(mode, w, status, a) \in Row
  BY DEF RowOf, Row
<1>2. QED  BY <1>1, NullsDiffer DEF RowOf

(* No statement but the one of /internet changes the access of a row.      *)
AccessKept(s) ==
  IF rows[s] = NoRow THEN rows'[s] # NoRow => rows'[s].internet = "off"
  ELSE rows'[s] # NoRow /\ rows'[s].internet = rows[s].internet

LEMMA UpsertAccess ==
  ASSUME TypeOK, NEW s \in Ids, NEW mode \in Modes, NEW w \in Projects \cup {None},
         NEW status \in {"active", "complete"}, Upsert(s, mode, w, status)
  PROVE  \A t \in Ids : AccessKept(t)
<1>1. ASSUME NEW t \in Ids, t # s PROVE AccessKept(t)
  BY <1>1 DEF AccessKept, Upsert, TypeOK
<1>2. CASE rows[s] = NoRow
  <2>1. rows'[s] = RowOf(mode, w, status, "off")
    BY <1>2 DEF Upsert, NewRow, TypeOK
  <2>2. QED  BY <1>1, <1>2, <2>1, RowOfFields DEF AccessKept, Access
<1>3. CASE rows[s] # NoRow
  <2>1. rows'[s] = RowOf(mode, w, status, rows[s].internet)
    BY <1>3 DEF Upsert, TypeOK
  <2>2. rows[s].internet \in Access
    BY <1>3 DEF TypeOK, Row
  <2>3. QED  BY <1>1, <1>3, <2>1, <2>2, RowOfFields DEF AccessKept
<1>4. QED  BY <1>2, <1>3

LEMMA StatusAccess ==
  ASSUME TypeOK, NEW s \in Ids, NEW status \in {"complete", "error", "cancelled"},
         UpdateStatus(s, status)
  PROVE  \A t \in Ids : AccessKept(t)
<1>1. ASSUME NEW t \in Ids, t # s PROVE AccessKept(t)
  BY <1>1 DEF AccessKept, UpdateStatus, TypeOK
<1>2. CASE rows[s] = NoRow
  BY <1>1, <1>2 DEF AccessKept, UpdateStatus, TypeOK
<1>3. CASE rows[s] # NoRow
  <2>1. rows'[s] = RowOf(rows[s].mode, rows[s].workspace, status, rows[s].internet)
    BY <1>3 DEF UpdateStatus, TypeOK
  <2>2. rows[s] \in Row
    BY <1>3 DEF TypeOK
  <2>3. QED  BY <1>1, <1>3, <2>1, <2>2, RowOfFields DEF AccessKept, Row
<1>4. QED  BY <1>2, <1>3

LEMMA ModeAccess ==
  ASSUME TypeOK, NEW s \in Ids, rows[s] # NoRow, NEW mode \in Modes,
         NEW w \in Projects \cup {None}, SetMode(s, mode, w)
  PROVE  \A t \in Ids : AccessKept(t)
<1>1. ASSUME NEW t \in Ids, t # s PROVE AccessKept(t)
  BY <1>1 DEF AccessKept, SetMode, TypeOK
<1>2. rows'[s] = RowOf(mode, w, rows[s].status, rows[s].internet)
  BY DEF SetMode, TypeOK
<1>3. rows[s] \in Row
  BY DEF TypeOK
<1>4. QED  BY <1>1, <1>2, <1>3, RowOfFields DEF AccessKept, Row

LEMMA TargetTyped ==
  ASSUME TypeOK, NEW x \in Requests
  PROVE  /\ Target(x).mode \in Modes /\ Target(x).workspace \in Projects \cup {None}
         /\ Target(x) = [mode |-> Target(x).mode, workspace |-> Target(x).workspace]
BY DEF Target, TypeOK, Request, Modes

LEMMA ToldKept ==
  ASSUME ToldInv, InternetAsTold, \A s \in Ids : AccessKept(s), told' = told
  PROVE  ToldInv' /\ InternetAsTold'
BY DEF ToldInv, InternetAsTold, AccessKept, Access

LEMMA ToldStep ==
  ASSUME TypeOK, ToldInv, InternetAsTold, [Next]_vars
  PROVE  ToldInv' /\ InternetAsTold'
<1> DEFINE Goal == ToldInv' /\ InternetAsTold'
<1>0. \A s \in Ids : rows[s] # NoRow => rows[s].internet \in Access
  BY DEF TypeOK, Row
<1>1. CASE rows' = rows /\ told' = told
  BY <1>1 DEF ToldInv, InternetAsTold
<1>2. ASSUME NEW x \in Requests, Start(x) PROVE Goal
  <2>1. rows' = rows
    BY <1>2 DEF Start, tables
  <2>2. PICK r : Begins(x, r)
    BY <1>2 DEF Start
  <2>3. \A s \in Ids : told'[s] \in {told[s], Access}
    BY <2>2 DEF Begins, TypeOK
  <2>4. QED  BY <1>0, <2>1, <2>3 DEF ToldInv, InternetAsTold
<1>3. ASSUME NEW x \in Requests, Mark(x) \/ Finish(x) PROVE Goal
  <2>1. /\ told' = told /\ at[x] \in {"mark", "work"}
        /\ \/ Upsert(Id(x), req[x].mode, req[x].workspace, "active")
           \/ Upsert(Id(x), req[x].mode, req[x].workspace, "complete")
           \/ rows' = rows
    BY <1>3 DEF Mark, Finish
  <2>2. /\ Id(x) \in Ids /\ req[x].mode \in Modes
        /\ req[x].workspace \in Projects \cup {None}
    BY <2>1 DEF TypeOK, Request, Id
  <2>3. QED  BY <1>1, <2>1, <2>2, UpsertAccess, ToldKept
<1>4. ASSUME NEW x \in Requests, Answer(x) \/ Fail(x) \/ Deferred(x) PROVE Goal
  <2>1. told' = told /\ Id(x) \in Ids
    BY <1>4 DEF Answer, Fail, Deferred, Settle, TypeOK, Id
  <2>2. QED
    BY <1>1, <1>4, <2>1, StatusAccess, ToldKept DEF Answer, Fail, Deferred, Settle
<1>5. ASSUME NEW x \in Requests, Set(x) PROVE Goal
  <2>1. told' = told /\ Id(x) \in Ids /\ rows[Id(x)] # NoRow
    BY <1>5 DEF Set, TypeOK, Id
  <2>2. QED  BY <1>5, <2>1, TargetTyped, ModeAccess, ToldKept DEF Set
<1>6. ASSUME NEW x \in Requests, Toggle(x) PROVE Goal
  <2> DEFINE s == Id(x)
  <2>1. req[x].access \in Access /\ s \in Ids
    BY <1>6 DEF Toggle, TypeOK, Request, Id
  <2>2. CASE rows[s] # NoRow /\ SetInternet(s, req[x].access)
             /\ told' = [told EXCEPT ![s] =
                  IF x \in alone THEN {req[x].access} ELSE Access]
    <3>1. rows'[s] = RowOf(rows[s].mode, rows[s].workspace, rows[s].status,
                           req[x].access)
      BY <2>1, <2>2 DEF SetInternet, TypeOK
    <3>2. rows[s] \in Row
      BY <2>1, <2>2 DEF TypeOK
    <3>3. rows'[s] # NoRow /\ rows'[s].internet = req[x].access
      BY <2>1, <3>1, <3>2, RowOfFields DEF Row
    <3>4. req[x].access \in told'[s]
      BY <2>1, <2>2 DEF TypeOK
    <3>5. \A t \in Ids \ {s} : rows'[t] = rows[t] /\ told'[t] = told[t]
      BY <2>1, <2>2 DEF SetInternet, TypeOK
    <3>6. QED  BY <3>3, <3>4, <3>5 DEF ToldInv, InternetAsTold
  <2>3. QED  BY <1>1, <1>6, <2>2 DEF Toggle
<1>7. ASSUME NEW s \in Ids, CreateSession(s) PROVE Goal
  BY <1>7 DEF CreateSession, NewRow, RowOf, TypeOK, ToldInv, InternetAsTold, Access
<1>8. ASSUME NEW s \in Ids, DeleteSession(s) PROVE Goal
  BY <1>8 DEF DeleteSession, TypeOK, ToldInv, InternetAsTold
<1>9. QED
  BY <1>1, <1>2, <1>3, <1>4, <1>5, <1>6, <1>7, <1>8
     DEF Next, Run, Call, Cancel, AddProject, Resolve, Resolved, Passes, Mislay, Check,
         Breaks, Errs, ChooseProject, ReadInternet, Return, Use, SetFails, Remove,
         LookAtRemoved, LookAtActivated, Registered, vars, tables, history

(* A step of one request x which leaves the choices alone or open, and the *)
(* modes of the sessions that keep theirs.                                 *)
LEMMA ChosenKept ==
  ASSUME TypeOK, ChosenInv, QuietChoiceStands, NEW x \in Requests, OnlyBy(x),
         \A s \in Ids : choice'[s] \in {choice[s], Open},
         \A s \in Ids : choice'[s] # Open =>
           /\ Says(rows'[s]) = Says(rows[s])
           /\ \A p \in Projects : choice[s] = Coding(p) /\ p \in projects
                => p \in projects'
           /\ at'[x] # "idle" /\ req'[x].session = s => Follows(x, choice[s])'
  PROVE  ChosenInv' /\ QuietChoiceStands'
<1>1. QuietChoiceStands'
  BY DEF QuietChoiceStands, Says
<1>2. ASSUME NEW s \in Ids, choice'[s] # Open PROVE choice'[s] = choice[s]
  BY <1>2
<1>3. ASSUME NEW s \in Ids, choice'[s] # Open, NEW y \in Requests,
             at'[y] # "idle", req'[y].session = s
      PROVE  Follows(y, choice[s])'
  <2>1. CASE y = x
    BY <1>3, <2>1
  <2>2. CASE y # x
    <3>1. at'[y] = at[y] /\ req'[y] = req[y] /\ choice'[s] = choice[s]
      BY <1>2, <1>3, <2>2 DEF OnlyBy
    <3>2. Follows(y, choice[s])
      BY <1>3, <3>1 DEF ChosenInv, Live, Id
    <3>3. QED  BY <3>1, <3>2 DEF Follows
  <2>3. QED  BY <2>1, <2>2
<1>4. QED
  BY <1>1, <1>2, <1>3 DEF ChosenInv, Live, Id

(* The same for a request that goes on, session and question as before.    *)
LEMMA GoesOnKept ==
  ASSUME TypeOK, ChosenInv, QuietChoiceStands, NEW x \in Requests, GoesOn(x),
         \A s \in Ids : choice'[s] \in {choice[s], Open}, projects' = projects,
         \A s \in Ids : choice[s] # Open => Says(rows'[s]) = Says(rows[s]),
         at'[x] # "idle" /\ choice[Id(x)] # Open /\ Follows(x, choice[Id(x)])
           /\ choice'[Id(x)] = choice[Id(x)] => Follows(x, choice[Id(x)])'
  PROVE  ChosenInv' /\ QuietChoiceStands'
<1>1. Id(x) \in Ids
  BY DEF GoesOn, TypeOK, Id
<1>2. choice[Id(x)] # Open => Follows(x, choice[Id(x)])
  BY <1>1 DEF ChosenInv, GoesOn, Live
<1>3. ASSUME NEW s \in Ids, choice'[s] # Open, at'[x] # "idle", req'[x].session = s
      PROVE  Follows(x, choice[s])'
  <2>1. s = Id(x) /\ s = req'[x].session
    BY <1>3 DEF GoesOn, Id
  <2>2. choice[s] # Open /\ choice'[s] = choice[s]
    BY <1>3
  <2>3. Follows(x, choice[Id(x)])'
    BY <1>2, <1>3, <2>1, <2>2
  <2>4. QED  BY <2>1, <2>3 DEF Id
<1>4. QED
  BY <1>3, ChosenKept DEF GoesOn

LEMMA SaysStatus ==
  ASSUME TypeOK, NEW s \in Ids, NEW status \in {"complete", "error", "cancelled"},
         UpdateStatus(s, status)
  PROVE  \A t \in Ids : Says(rows'[t]) = Says(rows[t])
<1>1. ASSUME NEW t \in Ids, t # s PROVE rows'[t] = rows[t]
  BY <1>1 DEF UpdateStatus, TypeOK
<1>2. CASE rows[s] = NoRow
  BY <1>1, <1>2 DEF UpdateStatus, TypeOK
<1>3. CASE rows[s] # NoRow
  <2>1. rows'[s] = RowOf(rows[s].mode, rows[s].workspace, status, rows[s].internet)
    BY <1>3 DEF UpdateStatus, TypeOK
  <2>2. rows[s] \in Row
    BY <1>3 DEF TypeOK
  <2>3. Says(rows'[s]) = Says(rows[s])
    BY <1>3, <2>1, <2>2, RowOfFields DEF Says, Row
  <2>4. QED  BY <1>1, <2>3
<1>4. QED  BY <1>2, <1>3

LEMMA SaysUpsert ==
  ASSUME TypeOK, NEW s \in Ids, NEW mode \in Modes, NEW w \in Projects \cup {None},
         NEW status \in {"active", "complete"}, Upsert(s, mode, w, status)
  PROVE  /\ \A t \in Ids \ {s} : rows'[t] = rows[t]
         /\ Says(rows'[s]) = [mode |-> mode, workspace |-> w]
<1>1. \A t \in Ids \ {s} : rows'[t] = rows[t]
  BY DEF Upsert, TypeOK
<1>2. CASE rows[s] = NoRow
  <2>1. rows'[s] = RowOf(mode, w, status, "off")
    BY <1>2 DEF Upsert, NewRow, TypeOK
  <2>2. QED  BY <1>1, <2>1, RowOfFields DEF Says, Access
<1>3. CASE rows[s] # NoRow
  <2>1. rows'[s] = RowOf(mode, w, status, rows[s].internet)
    BY <1>3 DEF Upsert, TypeOK
  <2>2. rows[s].internet \in Access
    BY <1>3 DEF TypeOK, Row
  <2>3. QED  BY <1>1, <2>1, <2>2, RowOfFields DEF Says
<1>4. QED  BY <1>2, <1>3

LEMMA SaysMode ==
  ASSUME TypeOK, NEW s \in Ids, rows[s] # NoRow, NEW mode \in Modes,
         NEW w \in Projects \cup {None}, SetMode(s, mode, w)
  PROVE  /\ \A t \in Ids \ {s} : rows'[t] = rows[t]
         /\ Says(rows'[s]) = [mode |-> mode, workspace |-> w]
<1>1. \A t \in Ids \ {s} : rows'[t] = rows[t]
  BY DEF SetMode, TypeOK
<1>2. rows'[s] = RowOf(mode, w, rows[s].status, rows[s].internet)
  BY DEF SetMode, TypeOK
<1>3. /\ rows[s].status \in {"idle", "active", "complete", "error", "cancelled"}
      /\ rows[s].internet \in Access
  BY DEF TypeOK, Row
<1>4. /\ rows'[s] # NoRow /\ rows'[s].mode = mode /\ rows'[s].workspace = w
  BY <1>2, <1>3, RowOfFields
<1>5. QED  BY <1>1, <1>4 DEF Says

(* A request that begins without a choice of its own keeps the last one.   *)
LEMMA StartChosen ==
  ASSUME TypeOK, ChosenInv, QuietChoiceStands, NEW x \in Requests, Start(x)
  PROVE  ChosenInv' /\ QuietChoiceStands'
<1>1. PICK op \in RunOps \cup CallOps, t \in Ids, mode \in Modes \cup {""},
           w \in Projects \cup {None} :
        /\ OnlyBy(x) /\ UNCHANGED tables /\ at'[x] = Opening(op)
        /\ req'[x] = Asks(op, t, mode, w) /\ Begins(x, Asks(op, t, mode, w))
        /\ w # None <=> mode = "code" \/ op \in {"select", "remove"}
  BY StartFacts
<1>2. /\ Asks(op, t, mode, w).session = t /\ Asks(op, t, mode, w).op = op
      /\ Asks(op, t, mode, w).mode = mode /\ Asks(op, t, mode, w).workspace = w
  BY DEF Asks
<1>3. /\ \A s \in Ids : choice'[s] \in {choice[s], Open}
      /\ choice'[t] # Open => op \notin Choosing /\ mode = "" /\ choice[t] # NoRow
  BY <1>1, <1>2 DEF Begins, TypeOK
<1>4. ASSUME choice'[t] # Open PROVE Follows(x, choice[t])'
  <2>1. /\ choice'[t] = choice[t] /\ choice[t] # NoRow /\ op \notin Choosing
        /\ w = None \/ op = "remove"
    BY <1>1, <1>3, <1>4 DEF Choosing
  <2>2. /\ at'[x] \in {"resolve", "remove", "look"}
        /\ at'[x] = "look" => op = "activate"
        /\ at'[x] = "resolve" => op # "remove"
    <3>1. /\ Opening(op) \in {"resolve", "remove", "look"}
          /\ Opening(op) = "look" => op = "activate"
          /\ Opening(op) = "resolve" => op # "remove"
      BY <1>3, <1>4 DEF Opening, RunOps, CallOps, Choosing
    <3>2. QED  BY <1>1, <3>1
  <2>3. req'[x].op = op /\ req'[x].mode = "" /\ req'[x].workspace = w
    BY <1>1, <1>2, <1>3, <1>4
  <2>4. choice'[t] # NoRow /\ op \notin Choosing
    BY <1>3, <1>4
  <2>5. op = "remove" => w # None
    BY <1>1
  <2>6. QED  BY <2>1, <2>2, <2>3, <2>4, <2>5 DEF Follows
<1>5. req'[x].session = t
  BY <1>1, <1>2
<1>6. QED
  BY <1>1, <1>3, <1>4, <1>5, ChosenKept DEF tables

(* A choice is made by the only request on its session.                    *)
LEMMA SetChosen ==
  ASSUME TypeOK, AloneInv, ChosenInv, QuietChoiceStands, NEW x \in Requests, Set(x)
  PROVE  ChosenInv' /\ QuietChoiceStands'
<1>0. PICK s \in Ids, c \in Choice :
        /\ s = Id(x) /\ c = Target(x)
        /\ c = [mode |-> Target(x).mode, workspace |-> Target(x).workspace]
  BY TargetTyped DEF Set, TypeOK, Id, Choice
<1>1. /\ at[x] = "set" /\ rows[s] # NoRow /\ GoesOn(x) /\ projects' = projects
  BY <1>0, RequestGoesOn DEF Set, Call
<1>2. /\ \A t \in Ids \ {s} : rows'[t] = rows[t]
      /\ Says(rows'[s]) = c
  BY <1>0, <1>1, TargetTyped, SaysMode DEF Set
<1>3. \A t \in Ids \ {s} : choice'[t] = choice[t]
  BY <1>0 DEF Set, Chosen, TypeOK
<1>4. at'[x] \in {"answer", "idle"}
  BY <1>1 DEF Set, GoOrEnd, Go, End, TypeOK
<1>5. CASE req[x].op \in Choosing /\ x \in alone /\ c.workspace \in projects \cup {None}
  <2>1. choice'[s] = c
    BY <1>0, <1>1, <1>5 DEF Set, Chosen, TypeOK
  <2>2. ASSUME NEW y \in Requests, at'[y] # "idle", req'[y].session = s
        PROVE  y = x
    BY <1>0, <1>1, <1>5, <2>2 DEF AloneInv, LiveOn, Live, Id, GoesOn, OnlyBy
  <2>4. c # NoRow /\ c # Open
    BY NullsDiffer
  <2>5. \A p \in Projects : c = Coding(p) => p \in projects
    BY <1>5, NullsDiffer DEF Coding
  <2>6. ASSUME at'[x] # "idle" PROVE Follows(x, choice[s])'
    BY <1>4, <2>1, <2>4, <2>6 DEF Follows
  <2>7. QuietChoiceStands'
    BY <1>2, <1>3, <2>1 DEF QuietChoiceStands, Says
  <2>8. ChosenInv'
    <3>1. ASSUME NEW t \in Ids, t # s, choice'[t] # Open,
                 NEW y \in Requests, at'[y] # "idle", req'[y].session = t
          PROVE  Follows(y, choice[t])'
      <4>1. y # x
        BY <1>0, <1>1, <3>1 DEF GoesOn, Id
      <4>2. at'[y] = at[y] /\ req'[y] = req[y] /\ choice'[t] = choice[t]
        BY <1>1, <1>3, <3>1, <4>1 DEF GoesOn, OnlyBy
      <4>3. Follows(y, choice[t])
        BY <3>1, <4>2 DEF ChosenInv, Live, Id
      <4>4. QED  BY <4>2, <4>3 DEF Follows
    <3>2. ASSUME NEW t \in Ids, NEW p \in Projects, choice'[t] # Open, choice'[t] = Coding(p)
          PROVE  p \in projects'
      BY <1>1, <1>3, <2>1, <2>5, <3>2 DEF ChosenInv
    <3>3. ASSUME NEW y \in Requests, at'[y] # "idle", req'[y].session = s
          PROVE  at'[x] # "idle" /\ y = x
      BY <2>2, <3>3
    <3>4. ASSUME NEW y \in Requests, at'[y] # "idle", req'[y].session = s
          PROVE  Follows(y, choice[s])'
      BY <2>6, <3>3, <3>4
    <3>5. QED
      BY <3>1, <3>2, <3>4 DEF ChosenInv, Live, Id, Coding
  <2>9. QED  BY <2>7, <2>8
<1>6. CASE ~(req[x].op \in Choosing /\ x \in alone /\ c.workspace \in projects \cup {None})
  <2>1. choice'[s] \in {choice[s], Open} /\ (req[x].op \in Choosing => choice'[s] = Open)
    BY <1>0, <1>1, <1>6 DEF Set, Chosen, TypeOK
  <2>2. choice[s] = Open
    BY <1>0, <1>1 DEF ChosenInv, Follows, Live
  <2>3. choice'[s] = Open
    BY <2>1, <2>2
  <2>4. \A t \in Ids : choice'[t] # Open => ~(at'[x] # "idle" /\ req'[x].session = t)
    BY <1>0, <1>1, <2>3 DEF GoesOn, Id
  <2>5. QED
    BY <1>1, <1>2, <1>3, <2>1, <2>3, <2>4, ChosenKept DEF GoesOn
<1>7. QED  BY <1>5, <1>6

(* What a run resolved for a session with a choice is that choice.         *)
LEMMA ResolveChosen ==
  ASSUME TypeOK, CodeHasWorkspace, ChosenInv, QuietChoiceStands,
         NEW x \in Requests, Resolve(x) \/ Check(x)
  PROVE  ChosenInv' /\ QuietChoiceStands'
<1>0. PICK s \in Ids : s = Id(x)
  BY DEF Resolve, Check, TypeOK, Id
<1>1. /\ GoesOn(x) /\ rows' = rows /\ projects' = projects
      /\ \A t \in Ids : choice'[t] \in {choice[t], Open}
      /\ at[x] \in {"resolve", "check"}
  <2>1. rows' = rows /\ projects' = projects /\ at[x] \in {"resolve", "check"}
    BY DEF Resolve, Check, Resolved, tables
  <2>2. \E read \in BOOLEAN : Passes(s, read)
    BY <1>0 DEF Resolve, Check, Id
  <2>3. \A t \in Ids : choice'[t] \in {choice[t], Open}
    BY <2>2 DEF Passes, Mislay, history, TypeOK
  <2>4. QED  BY <2>1, <2>3, RequestGoesOn DEF Run
<1>2. ASSUME choice[s] # Open
      PROVE  /\ Follows(x, choice[s]) /\ choice[s] = Says(rows[s])
             /\ rows[s] \in Row /\ rows[s] # NoRow
             /\ choice[s] = [mode |-> rows[s].mode, workspace |-> rows[s].workspace]
  BY <1>0, <1>1, <1>2
     DEF ChosenInv, QuietChoiceStands, Says, Live, Follows, TypeOK
<1>3. ASSUME NEW mode, NEW w, Resolved(x, mode, w)
      PROVE  req'[x].mode = mode /\ req'[x].workspace = w /\ req'[x].op = req[x].op
  <2>1. req[x] \in Request
    BY DEF TypeOK
  <2>2. /\ [req[x] EXCEPT !.mode = mode, !.workspace = w].op = req[x].op
        /\ [req[x] EXCEPT !.mode = mode, !.workspace = w].mode = mode
        /\ [req[x] EXCEPT !.mode = mode, !.workspace = w].workspace = w
    BY <2>1 DEF Request
  <2>3. req' = [req EXCEPT ![x] = [req[x] EXCEPT !.mode = mode, !.workspace = w]]
    BY <1>3 DEF Resolved, TypeOK
  <2>4. QED  BY <2>2, <2>3 DEF TypeOK
<1>4. ASSUME NEW read \in BOOLEAN, Passes(s, read), choice'[s] # Open
      PROVE  /\ choice[s] # Open
             /\ ~read => rows[s].mode = "normal" /\ rows[s].workspace = None
  <2>1. choice[s] # Open
    BY <1>1, <1>4
  <2>2. ASSUME ~read PROVE rows[s].mode = "normal" /\ rows[s].workspace = None
    <3>1. choice[s] \notin CodeChoices
      BY <1>4, <2>2 DEF Passes, Mislay, TypeOK
    <3>2. rows[s].mode \in Modes /\ rows[s].workspace \in Projects \cup {None}
      BY <1>2, <2>1 DEF Row
    <3>3. rows[s].mode = "code" <=> rows[s].workspace # None
      BY <1>2, <2>1 DEF CodeHasWorkspace
    <3>4. QED  BY <1>2, <2>1, <3>1, <3>2, <3>3 DEF CodeChoices, Modes
  <2>3. QED  BY <2>1, <2>2
<1>5. ASSUME choice'[s] # Open PROVE Follows(x, choice[s])'
  <2>1. CASE Resolve(x)
    <3>0. PICK read \in BOOLEAN :
            LET row == Taken(x, read) IN
              /\ at[x] = "resolve" /\ Passes(s, read)
              /\ Resolved(x, ResolvedMode(req[x], row), ResolvedWorkspace(req[x], row))
              /\ Go(x, IF ResolvedMode(req[x], row) = "code" THEN "check" ELSE "mark")
      BY <1>0, <2>1 DEF Resolve, Taken, Id
    <3>a. choice[s] # Open /\ (~read => rows[s].mode = "normal" /\ rows[s].workspace = None)
      BY <1>4, <1>5, <3>0
    <3>1. /\ req[x].mode = "" /\ req[x].workspace = None
          /\ req[x].op \notin Choosing
      BY <1>2, <3>a, <3>0 DEF Follows
    <3>2. rows[s].mode \in Modes /\ (rows[s].mode = "code" <=> rows[s].workspace # None)
      BY <1>2, <3>a DEF CodeHasWorkspace, Row
    <3>3. /\ ResolvedMode(req[x], Taken(x, read)) = rows[s].mode
          /\ ResolvedWorkspace(req[x], Taken(x, read)) = rows[s].workspace
      <4>1. CASE read
        BY <1>0, <1>2, <3>a, <3>1, <3>2, <4>1
           DEF Taken, ResolvedMode, ResolvedWorkspace, Modes
      <4>2. CASE ~read
        BY <3>a, <3>1, <4>2 DEF Taken, ResolvedMode, ResolvedWorkspace
      <4>3. QED  BY <4>1, <4>2
    <3>4. /\ at'[x] = IF rows[s].mode = "code" THEN "check" ELSE "mark"
          /\ Resolved(x, rows[s].mode, rows[s].workspace)
      BY <3>0, <3>3 DEF Go, TypeOK
    <3>5. /\ req'[x].mode = rows[s].mode /\ req'[x].workspace = rows[s].workspace
          /\ req'[x].op = req[x].op
      BY <1>3, <3>4
    <3>6. /\ choice[s] = [mode |-> rows[s].mode, workspace |-> rows[s].workspace]
          /\ choice'[s] = choice[s] /\ choice[s] # NoRow
      BY <1>1, <1>2, <1>5, <3>a DEF Follows
    <3>7. QED
      BY <3>1, <3>4, <3>5, <3>6 DEF Follows
  <2>2. CASE Check(x)
    <3>0. PICK read \in BOOLEAN :
            /\ at[x] = "check" /\ Go(x, "mark") /\ Passes(s, read)
            /\ IF read /\ req[x].workspace \in projects
               THEN Resolved(x, "code", req[x].workspace) ELSE Resolved(x, "normal", None)
      BY <1>0, <2>2 DEF Check
    <3>a. choice[s] # Open /\ (~read => rows[s].mode = "normal" /\ rows[s].workspace = None)
      BY <1>4, <1>5, <3>0
    <3>1. /\ req[x].mode = "code" /\ req[x].op \notin Choosing
          /\ choice[s] = Coding(req[x].workspace) /\ choice[s] # NoRow
      BY <1>2, <3>a, <3>0 DEF Follows, Coding
    <3>2. req[x].workspace = rows[s].workspace /\ rows[s].mode = "code" /\ rows[s] # NoRow
      BY <1>2, <3>a, <3>1 DEF Coding
    <3>3. req[x].workspace \in Projects /\ read
      BY <3>a, <3>2 DEF CodeHasWorkspace, TypeOK, Request
    <3>4. req[x].workspace \in projects
      BY <3>a, <3>1, <3>3 DEF ChosenInv
    <3>5. at'[x] = "mark" /\ Resolved(x, "code", req[x].workspace)
      BY <3>0, <3>3, <3>4 DEF Go, TypeOK
    <3>6. /\ req'[x].mode = "code" /\ req'[x].workspace = req[x].workspace
          /\ req'[x].op = req[x].op
      BY <1>3, <3>5
    <3>7. choice'[s] = choice[s]
      BY <1>1, <1>5
    <3>8. QED
      BY <3>1, <3>5, <3>6, <3>7 DEF Follows, Coding
  <2>3. QED  BY <2>1, <2>2
<1>6. \A t \in Ids : choice'[t] # Open /\ at'[x] # "idle" /\ req'[x].session = t
        => Follows(x, choice[t])'
  BY <1>0, <1>1, <1>5 DEF GoesOn, Id
<1>7. QED
  BY <1>1, <1>6, ChosenKept DEF GoesOn

(* A run writes what it resolved, which is the choice.                     *)
LEMMA WriteChosen ==
  ASSUME TypeOK, ChosenInv, QuietChoiceStands, NEW x \in Requests,
         Mark(x) \/ Finish(x)
  PROVE  ChosenInv' /\ QuietChoiceStands'
<1>0. PICK s \in Ids : s = Id(x)
  BY DEF Mark, Finish, TypeOK, Id
<1>1. /\ GoesOn(x) /\ choice' = choice /\ projects' = projects /\ req' = req
      /\ at[x] \in {"mark", "work"} /\ req[x].mode \in Modes
      /\ req[x].workspace \in Projects \cup {None}
      /\ \/ \E status \in {"active", "complete"} :
              Upsert(s, req[x].mode, req[x].workspace, status)
         \/ rows' = rows
  BY <1>0, RequestGoesOn DEF Run, Mark, Finish, Stay, TypeOK, Request
<1>2. /\ \A t \in Ids \ {s} : rows'[t] = rows[t]
      /\ \/ Says(rows'[s]) = [mode |-> req[x].mode, workspace |-> req[x].workspace]
         \/ Says(rows'[s]) = Says(rows[s])
  BY <1>1, SaysUpsert
<1>3. ASSUME choice[s] # Open
      PROVE  /\ Follows(x, choice[s]) /\ Says(rows'[s]) = Says(rows[s])
  <2>1. Follows(x, choice[s])
    BY <1>0, <1>1, <1>3 DEF ChosenInv, Live
  <2>2. choice[s] = Says(rows[s])
    BY <1>3 DEF QuietChoiceStands, Says
  <2>3. QED  BY <1>1, <1>2, <2>1, <2>2 DEF Follows
<1>4. ASSUME choice[s] # Open PROVE Follows(x, choice[s])'
  <2>1. Follows(x, choice[s])
    BY <1>3, <1>4
  <2>2. \/ at[x] = "mark" /\ at'[x] \in {"work", "set", "choose", "read"}
           /\ (at'[x] = "set" => req[x].op = "/normal")
           /\ (at'[x] = "choose" => req[x].op = "/code")
        \/ at'[x] = "answer"
    BY DEF Mark, Finish, Go, TypeOK
  <2>3. at'[x] \in {"work", "read", "answer"} /\ (at'[x] = "work" => at[x] = "mark")
    BY <2>1, <2>2 DEF Follows, Choosing
  <2>4. QED
    BY <1>1, <2>1, <2>3 DEF Follows
<1>5. \A t \in Ids : choice'[t] # Open /\ at'[x] # "idle" /\ req'[x].session = t
        => Follows(x, choice[t])'
  BY <1>0, <1>1, <1>4 DEF Id
<1>6. \A t \in Ids : choice'[t] # Open => Says(rows'[t]) = Says(rows[t])
  BY <1>1, <1>2, <1>3
<1>7. QED
  BY <1>1, <1>5, <1>6, ChosenKept DEF GoesOn

(* Steps which leave what a session chose in its row.                      *)
LEMMA QuietChosen ==
  ASSUME TypeOK, ChosenInv, QuietChoiceStands, NEW x \in Requests,
         \/ Breaks(x) \/ Errs(x) \/ ChooseProject(x) \/ ReadInternet(x) \/ Toggle(x)
         \/ Answer(x) \/ Fail(x) \/ Return(x) \/ Deferred(x)
         \/ Use(x) \/ SetFails(x) \/ Cancel(x)
  PROVE  ChosenInv' /\ QuietChoiceStands'
<1>0. PICK s \in Ids : s = Id(x)
  BY DEF Breaks, Errs, ChooseProject, ReadInternet, Toggle, Answer, Fail, Return,
         Deferred, Use, SetFails, Cancel, Live, TypeOK, Id
<1>1. GoesOn(x) /\ choice' = choice /\ projects' = projects
  <2>1. GoesOn(x)
    BY RequestGoesOn DEF Run, Call
  <2>2. choice' = choice /\ projects' = projects
    BY DEF Breaks, Errs, ChooseProject, ReadInternet, Toggle, Answer, Fail, Settle,
           Return, Deferred, Use, SetFails, Cancel, tables, history
  <2>3. QED  BY <2>1, <2>2
<1>2. \A t \in Ids : Says(rows'[t]) = Says(rows[t])
  <2>1. CASE rows' = rows
    BY <2>1
  <2>2. CASE Answer(x) \/ Fail(x) \/ Deferred(x)
    BY <1>0, <2>1, <2>2, SaysStatus DEF Answer, Fail, Deferred, Settle
  <2>3. CASE rows[s] # NoRow /\ SetInternet(s, req[x].access)
    <3>1. \A t \in Ids \ {s} : rows'[t] = rows[t]
      BY <2>3 DEF SetInternet, TypeOK
    <3>2. rows'[s] = RowOf(rows[s].mode, rows[s].workspace, rows[s].status,
                           req[x].access)
      BY <2>3 DEF SetInternet, TypeOK
    <3>3. /\ rows[s].mode \in Modes /\ rows[s].workspace \in Projects \cup {None}
          /\ rows[s].status \in {"idle", "active", "complete", "error", "cancelled"}
          /\ req[x].access \in Access
      BY <2>3 DEF TypeOK, Row, Request
    <3>4. /\ rows'[s] # NoRow /\ rows'[s].mode = rows[s].mode
          /\ rows'[s].workspace = rows[s].workspace
      <4>1. rows'[s] \in Row
        BY <3>2, <3>3 DEF RowOf, Row
      <4>2. QED  BY <3>2, <4>1, NullsDiffer DEF RowOf
    <3>5. Says(rows'[s]) = Says(rows[s])
      BY <2>3, <3>4 DEF Says
    <3>6. QED  BY <3>1, <3>5
  <2>4. QED
    BY <1>0, <2>1, <2>2, <2>3
       DEF Breaks, Errs, ChooseProject, ReadInternet, Toggle, Return, Use, SetFails,
           Cancel, tables
<1>3. ASSUME choice[s] # Open, at'[x] # "idle" PROVE Follows(x, choice[s])'
  <2>1. Follows(x, choice[s])
    BY <1>0, <1>1, <1>3 DEF ChosenInv, GoesOn, Live
  <2>2. at[x] \notin {"choose", "use", "set"}
    BY <2>1 DEF Follows
  <2>3. at'[x] \in {"fail", "toggle", "answer", "return", "deferred"}
    <3>1. CASE \/ Breaks(x) \/ Errs(x) \/ ReadInternet(x) \/ Toggle(x)
               \/ Answer(x) \/ Fail(x)
      BY <3>1 DEF Breaks, Errs, ReadInternet, Toggle, Answer, Fail, Go, TypeOK
    <3>2. CASE Return(x) \/ Deferred(x)
      BY <1>3, <3>2 DEF Return, Deferred, End, TypeOK
    <3>3. CASE Cancel(x)
      BY <1>3, <3>3 DEF Cancel, GoOrEnd, Go, End, TypeOK
    <3>4. QED  BY <2>2, <3>1, <3>2, <3>3 DEF ChooseProject, Use, SetFails
  <2>4. QED
    BY <1>1, <2>1, <2>3 DEF Follows
<1>4. \A t \in Ids : choice'[t] # Open /\ at'[x] # "idle" /\ req'[x].session = t
        => Follows(x, choice[t])'
  BY <1>0, <1>1, <1>3 DEF GoesOn, Id
<1>5. QED
  BY <1>1, <1>2, <1>4, ChosenKept DEF GoesOn

(* A call that looks at a row changes it only when its choice is open.     *)
LEMMA LookChosen ==
  ASSUME TypeOK, ReqInv, CodeHasWorkspace, ChosenInv, QuietChoiceStands,
         NEW x \in Requests, LookAtRemoved(x) \/ LookAtActivated(x) \/ Registered(x)
  PROVE  ChosenInv' /\ QuietChoiceStands'
<1>0. PICK s \in Ids : s = Id(x)
  BY DEF LookAtRemoved, LookAtActivated, Registered, TypeOK, Id
<1>1. /\ GoesOn(x) /\ choice' = choice /\ projects' = projects /\ rows' = rows
      /\ at[x] \in {"look", "registered"}
  BY RequestGoesOn DEF Call, LookAtRemoved, LookAtActivated, Registered, tables, history
<1>2. ASSUME choice[s] # Open, at'[x] # "idle" PROVE Follows(x, choice[s])'
  <2>1. /\ Follows(x, choice[s]) /\ choice[s] = Says(rows[s]) /\ choice[s] # NoRow
    BY <1>0, <1>1, <1>2
       DEF ChosenInv, QuietChoiceStands, Says, Live, Follows
  <2>2. /\ rows[s] # NoRow
        /\ choice[s] = [mode |-> rows[s].mode, workspace |-> rows[s].workspace]
        /\ rows[s].mode = "code" <=> rows[s].workspace # None
    BY <2>1 DEF Says, CodeHasWorkspace
  <2>3. ~LookAtRemoved(x)
    <3>1. SUFFICES ASSUME LookAtRemoved(x) PROVE FALSE
      OBVIOUS
    <3>2. rows[s].workspace = req[x].workspace /\ req[x].op = "remove" /\ at[x] = "look"
      BY <1>0, <1>2, <3>1 DEF LookAtRemoved, GoOrEnd, End, TypeOK
    <3>3. req[x].workspace # None /\ choice[s] # Coding(req[x].workspace)
      BY <2>1, <3>2 DEF Follows
    <3>4. QED  BY <2>2, <3>2, <3>3 DEF Coding
  <2>4. ~Registered(x)
    <3>1. SUFFICES ASSUME Registered(x) PROVE FALSE
      OBVIOUS
    <3>2. req[x].workspace \notin projects /\ at[x] = "registered"
      BY <1>2, <3>1 DEF Registered, GoOrEnd, End, TypeOK
    <3>3. choice[s] = Coding(req[x].workspace)
      BY <2>1, <3>2 DEF Follows
    <3>4. rows[s].mode = "code" /\ rows[s].workspace = req[x].workspace
      BY <2>2, <3>3 DEF Coding
    <3>5. req[x].workspace \in Projects
      BY <2>2, <3>4 DEF TypeOK, Request
    <3>6. QED  BY <1>2, <3>2, <3>3, <3>5 DEF ChosenInv
  <2>5. CASE LookAtActivated(x)
    <3>1. /\ rows[s].mode = "code" /\ at'[x] = "registered" /\ req[x].op = "activate"
          /\ req' = [req EXCEPT ![x].workspace = rows[s].workspace]
      BY <1>0, <1>2, <2>5 DEF LookAtActivated, Go, End, TypeOK
    <3>2. req[x] \in Request
      BY DEF TypeOK
    <3>3. req'[x].workspace = rows[s].workspace
      BY <3>1, <3>2 DEF TypeOK, Request
    <3>4. QED
      BY <1>1, <2>1, <2>2, <3>1, <3>3 DEF Follows, Coding
  <2>6. QED  BY <2>3, <2>4, <2>5
<1>3. \A t \in Ids : choice'[t] # Open /\ at'[x] # "idle" /\ req'[x].session = t
        => Follows(x, choice[t])'
  BY <1>0, <1>1, <1>2 DEF GoesOn, Id
<1>4. QED
  BY <1>1, <1>3, ChosenKept DEF GoesOn

LEMMA RemoveChosen ==
  ASSUME TypeOK, ReqInv, ChosenInv, QuietChoiceStands, NEW x \in Requests, Remove(x)
  PROVE  ChosenInv' /\ QuietChoiceStands'
<1>0. PICK s \in Ids : s = Id(x)
  BY DEF Remove, TypeOK, Id
<1> DEFINE p == req[x].workspace
<1>1. /\ GoesOn(x) /\ rows' = rows /\ at[x] = "remove" /\ projects' = projects \ {p}
      /\ \A t \in Ids : choice'[t] = IF choice[t] = Coding(p) THEN Open ELSE choice[t]
  BY <1>0, RequestGoesOn DEF Call, Remove, Coding
<1>2. ASSUME choice'[s] # Open, at'[x] # "idle" PROVE Follows(x, choice[s])'
  <2>1. /\ choice'[s] = choice[s] /\ choice[s] # Coding(p) /\ Follows(x, choice[s])
    BY <1>0, <1>1, <1>2 DEF ChosenInv, Live
  <2>2. at'[x] = "look" /\ req' = req
    BY <1>2 DEF Remove, GoOrEnd, Go, End, Stay, TypeOK
  <2>3. QED
    BY <1>0, <1>1, <2>1, <2>2 DEF Follows
<1>3. \A t \in Ids : choice'[t] # Open /\ at'[x] # "idle" /\ req'[x].session = t
        => Follows(x, choice[t])'
  BY <1>0, <1>1, <1>2 DEF GoesOn, Id
<1>4. \A t \in Ids, q \in Projects :
        choice'[t] # Open /\ choice[t] = Coding(q) /\ q \in projects => q \in projects'
  BY <1>1 DEF Coding
<1>5. QED
  BY <1>1, <1>3, <1>4, ChosenKept DEF GoesOn

(* A session appears or goes with nothing under way on it, or its choice   *)
(* is open.                                                                *)
LEMMA ManagedChosen ==
  ASSUME TypeOK, ChosenInv, QuietChoiceStands, NEW s \in Ids,
         CreateSession(s) \/ DeleteSession(s)
  PROVE  ChosenInv' /\ QuietChoiceStands'
<1>1. /\ at' = at /\ req' = req /\ projects' = projects
      /\ \A t \in Ids \ {s} : rows'[t] = rows[t] /\ choice'[t] = choice[t]
      /\ choice'[s] # Open => LiveOn(s) = {}
  BY DEF CreateSession, DeleteSession, Chosen, TypeOK
<1>2. choice'[s] \in {Open, Says(rows'[s])}
  <2>1. CASE CreateSession(s)
    <3>1. rows'[s] = RowOf("normal", None, "idle", "off")
      BY <2>1 DEF CreateSession, NewRow, TypeOK
    <3>2. rows'[s] # NoRow /\ rows'[s].mode = "normal" /\ rows'[s].workspace = None
      BY <3>1, RowOfFields DEF Modes, Access
    <3>3. QED
      BY <2>1, <3>2 DEF CreateSession, Chosen, Says, TypeOK
  <2>2. CASE DeleteSession(s)
    BY <2>2 DEF DeleteSession, Chosen, Says, TypeOK
  <2>3. QED  BY <2>1, <2>2
<1>3. QuietChoiceStands'
  BY <1>1, <1>2 DEF QuietChoiceStands, Says
<1>4. choice'[s] # Open => choice'[s] = NoRow \/ choice'[s] = [mode |-> "normal", workspace |-> None]
  BY DEF CreateSession, DeleteSession, Chosen, TypeOK
<1>5. \A p \in Projects : Coding(p) # NoRow
  BY NullsDiffer DEF Choice, Coding, Modes
<1>6. ASSUME NEW t \in Ids, choice'[t] # Open
      PROVE  /\ \A p \in Projects : choice'[t] = Coding(p) => p \in projects'
             /\ \A x \in Requests : at'[x] # "idle" /\ req'[x].session = t
                                      => Follows(x, choice[t])'
  <2>1. CASE t = s
    BY <1>1, <1>4, <1>5, <1>6, <2>1 DEF LiveOn, Live, Coding
  <2>2. CASE t # s
    <3>1. /\ choice'[t] = choice[t] /\ choice[t] # Open
          /\ \A p \in Projects : choice[t] = Coding(p) => p \in projects
          /\ \A x \in Requests : at[x] # "idle" /\ req[x].session = t
                                   => Follows(x, choice[t])
      BY <1>1, <1>6, <2>2 DEF ChosenInv, Live, Id
    <3>2. ASSUME NEW x \in Requests, Follows(x, choice[t]) PROVE Follows(x, choice[t])'
      BY <1>1, <3>1, <3>2 DEF Follows
    <3>3. QED  BY <1>1, <3>1, <3>2
  <2>3. QED  BY <2>1, <2>2
<1>7. ChosenInv'
  BY <1>6 DEF ChosenInv, Live, Id, Coding
<1>8. QED  BY <1>3, <1>7

LEMMA ChosenStep ==
  ASSUME IInv, AloneInv, ChosenInv, QuietChoiceStands, [Next]_vars
  PROVE  ChosenInv' /\ QuietChoiceStands'
<1> USE DEF IInv
<1>1. ASSUME NEW x \in Requests, Run(x) \/ Call(x) \/ Cancel(x)
      PROVE  ChosenInv' /\ QuietChoiceStands'
  BY <1>1, ResolveChosen, WriteChosen, QuietChosen, SetChosen, LookChosen, RemoveChosen
     DEF Run, Call
<1>2. ASSUME NEW p \in Projects, AddProject(p)
      PROVE  ChosenInv' /\ QuietChoiceStands'
  BY <1>2 DEF AddProject, history, ChosenInv, QuietChoiceStands, Live, Id, Follows, Coding
<1>3. CASE UNCHANGED vars
  BY <1>3 DEF vars, tables, history, ChosenInv, QuietChoiceStands, Live, Id, Follows, Coding
<1>4. QED
  BY <1>1, <1>2, <1>3, StartChosen, ManagedChosen DEF Next

LEMMA ChoiceInvariance == Spec => []ChoiceInv
<1>1. Init => ChoiceInv
  BY InvInit
     DEF Init, ChoiceInv, AloneInv, ChosenInv, QuietChoiceStands, ToldInv,
         InternetAsTold, NewRow, RowOf, Access
<1>2. ChoiceInv /\ [Next]_vars => ChoiceInv'
  <2>1. ASSUME ChoiceInv, [Next]_vars PROVE IInv'
    BY <2>1, TypeStep, ReqStep, WorkspaceStep, ActiveStep DEF ChoiceInv, IInv
  <2>2. QED
    BY <2>1, AloneStep, ChosenStep, ToldStep DEF ChoiceInv, IInv
<1>3. QED  BY <1>1, <1>2, PTL DEF Spec

(* THEOREM: a choice made while nothing else was under way on the session  *)
(* stands in its row until the next choice, whatever runs, activations and *)
(* deletions of other sessions come after it.                              *)
THEOREM ChoiceStands == Spec => []QuietChoiceStands
BY ChoiceInvariance, PTL DEF ChoiceInv

(* THEOREM: a row grants the internet access its user was last told of.    *)
THEOREM InternetStands == Spec => []InternetAsTold
BY ChoiceInvariance, PTL DEF ChoiceInv
=============================================================================
