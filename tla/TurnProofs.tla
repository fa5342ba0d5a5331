---------------------------- MODULE TurnProofs ----------------------------
(***************************************************************************)
(* Proofs about Turn and the Routing it uses: any number of callers, any   *)
(* catalog, any texts, settings and context limits, conversations of any   *)
(* length.                                                                 *)
(*                                                                         *)
(* The properties of a turn speak of its end.  They follow from what is    *)
(* true while it goes on (TurnFits): what a pending question keeps of the  *)
(* conversation (PendingFits), how the call that answers one relates to    *)
(* the question (AnswerFits), and what a call made from scratch holds      *)
(* (CallFits).  Each action is shown to keep TurnFits and, where it ends a *)
(* turn, to end it right (Right); the lemmas before that say what the      *)
(* parsers, the calculator and the weather tool make of a text or a call.  *)
(***************************************************************************)
EXTENDS Turn, WellFoundedInduction, TLAPS

---------------------------------------------------------------------------
(* Routes, for any number of callers and any catalog                       *)

AllIds == UNION {Ids(v) : v \in Versions}
AllRoutes == UNION {Routes(v) : v \in Versions}

Stages ==
  [at : Places, read : Versions \cup {0}, began : Versions \cup {0}, candidates : SUBSET AllRoutes]

Typed ==
  /\ file \in Versions /\ cache \in Versions \cup {0}
  /\ mutex \in Callers \cup {Nobody}
  /\ docs \subseteq AllIds /\ embs \subseteq AllIds
  /\ calls \in [Callers -> Stages]

(* A call works on the version it began with. *)
KeepsVersion(c) ==
  calls[c].at # "idle" => calls[c].read \in Versions /\ calls[c].began = calls[c].read

(* What a call that loads has stored so far: every route of its version,    *)
(* though the file may be edited and the cache hold another version.        *)
LoadStored(c) ==
  /\ calls[c].at \in {"embeddings", "embed"} => Ids(calls[c].read) \subseteq docs
  /\ calls[c].at = "embed" => Ids(calls[c].read) \subseteq embs

ProposesOwn(c) ==
  calls[c].at = "done" => calls[c].candidates \subseteq Routes(calls[c].read)

IInv ==
  /\ Typed
  /\ MutexHeld
  /\ StoredWhenCached
  /\ \A c \in Callers : KeepsVersion(c) /\ LoadStored(c) /\ ProposesOwn(c)

(* Every route is of a domain of its catalog: the one it was given by       *)
(* inferredDomainID, which normalizeDomains adds.                           *)
LEMMA RouteInItsDomain ==
  ASSUME NEW v \in Versions, NEW r \in Routes(v)
  PROVE  r.domain \in Domains(v)
<1>1. PICK r0 \in Complete(v) : r = [r0 EXCEPT !.domain = InferredDomain(r0)]
  BY DEF Routes
<1>2. r0 \in Catalog[v].routes
  BY DEF Complete
<1> DEFINE Row == [id : STRING, prefix : STRING, domain : STRING, target : STRING, op : STRING]
<1> DEFINE Content == [domains : SUBSET STRING, routes : SUBSET Row]
<1>a. Catalog \in Seq(Content)
  BY CatalogIsOne
<1>b. Catalog[v] \in Content
  <2> HIDE DEF Content
  <2> QED  BY <1>a DEF Versions
<1>3. Catalog[v].routes \subseteq Row
  BY <1>b
<1>4. r0 \in Row
  BY <1>2, <1>3
<1>5. r.domain = InferredDomain(r0)
  BY <1>1, <1>4
<1> QED  BY <1>5 DEF Domains

LEMMA OfSomeVersion ==
  ASSUME NEW v \in Versions
  PROVE  Ids(v) \subseteq AllIds /\ Routes(v) \subseteq AllRoutes
BY DEF AllIds, AllRoutes

LEMMA InitIInv == Init => IInv
<1> SUFFICES ASSUME Init PROVE IInv
  OBVIOUS
<1>1. Idle \in Stages
  BY DEF Idle, Stages, Places
<1>2. Typed
  BY <1>1 DEF Init, Typed
<1>3. MutexHeld
  BY NobodyDiffers DEF Init, Idle, MutexHeld, Holding
<1>4. StoredWhenCached
  BY DEF Init, StoredWhenCached
<1>5. ASSUME NEW c \in Callers PROVE KeepsVersion(c) /\ LoadStored(c) /\ ProposesOwn(c)
  BY DEF Init, Idle, KeepsVersion, LoadStored, ProposesOwn
<1> QED  BY <1>2, <1>3, <1>4, <1>5 DEF IInv

(* What holds of a call still holds when another one moves and what is      *)
(* stored only grows.                                                       *)
LEMMA OthersKeep ==
  ASSUME IInv, NEW c \in Callers, calls'[c] = calls[c], docs \subseteq docs', embs \subseteq embs'
  PROVE  KeepsVersion(c)' /\ LoadStored(c)' /\ ProposesOwn(c)'
BY DEF IInv, KeepsVersion, LoadStored, ProposesOwn

(* One call moves to stage s, and takes or gives back the mutex at most.    *)
LEMMA OneMoves ==
  ASSUME IInv, NEW c \in Callers, NEW s \in Stages,
         calls' = [calls EXCEPT ![c] = s],
         file' \in Versions, cache' \in Versions \cup {0},
         docs \subseteq docs', docs' \subseteq AllIds,
         embs \subseteq embs', embs' \subseteq AllIds,
         mutex' = mutex \/ (mutex \in {c, Nobody} /\ mutex' \in {c, Nobody}),
         s.at \in Holding <=> mutex' = c,
         StoredWhenCached',
         KeepsVersion(c)', LoadStored(c)', ProposesOwn(c)'
  PROVE  IInv'
<1>1. Typed /\ MutexHeld
  BY DEF IInv
<1>2. calls'[c] = s /\ \A d \in Callers : d # c => calls'[d] = calls[d]
  BY <1>1 DEF Typed
<1>3. Typed'
  BY <1>1 DEF Typed
<1>4. MutexHeld'
  BY <1>1, <1>2, NobodyDiffers DEF Typed, MutexHeld
<1>5. ASSUME NEW d \in Callers PROVE KeepsVersion(d)' /\ LoadStored(d)' /\ ProposesOwn(d)'
  BY <1>2, OthersKeep
<1> QED  BY <1>3, <1>4, <1>5 DEF IInv

LEMMA NextIInv == IInv /\ [Next]_vars => IInv'
<1> SUFFICES ASSUME IInv, [Next]_vars PROVE IInv'
  OBVIOUS
<1>0. Typed /\ MutexHeld /\ StoredWhenCached
  BY DEF IInv
<1>1. ASSUME NEW v \in Versions, Edit(v) PROVE IInv'
  BY <1>0, <1>1 DEF IInv, Edit, Typed, MutexHeld, StoredWhenCached, KeepsVersion, LoadStored, ProposesOwn
<1>2. CASE UNCHANGED vars
  BY <1>0, <1>2 DEF IInv, vars, Typed, MutexHeld, StoredWhenCached, KeepsVersion, LoadStored, ProposesOwn
<1>3. ASSUME NEW c \in Callers, Retrieve(c) PROVE IInv'
  <2>0. calls[c] \in Stages /\ calls \in [Callers -> Stages]
    BY <1>0 DEF Typed
  <2>a. KeepsVersion(c) /\ LoadStored(c) /\ ProposesOwn(c)
    BY DEF IInv
  <2>b. calls[c].at \in Holding <=> mutex = c
    BY <1>0 DEF MutexHeld
  <2>c. /\ calls[c].at # "idle" => calls[c].read \in Versions
        /\ calls[c].read \in Versions =>
              Ids(calls[c].read) \subseteq AllIds /\ Routes(calls[c].read) \subseteq AllRoutes
    BY <2>a, OfSomeVersion DEF KeepsVersion
  <2>d. /\ file \in Versions /\ cache \in Versions \cup {0}
        /\ docs \subseteq AllIds /\ embs \subseteq AllIds
    BY <1>0 DEF Typed
  <2>1. CASE ReadCatalog(c)
    <3>1. PICK place \in {"waiting", "failed"} :
            calls' = [calls EXCEPT ![c] = [Idle EXCEPT !.at = place, !.read = file, !.began = file]]
      BY <2>1 DEF ReadCatalog
    <3> DEFINE s == [Idle EXCEPT !.at = place, !.read = file, !.began = file]
    <3>2. s \in Stages /\ s.at = place /\ s.read = file /\ s.began = file
      BY <2>d DEF Idle, Stages, Places
    <3>3. calls' = [calls EXCEPT ![c] = s]
      BY <3>1
    <3> HIDE DEF s
    <3>4. calls'[c] = s
      BY <3>3, <2>0
    <3>5. KeepsVersion(c)' /\ LoadStored(c)' /\ ProposesOwn(c)'
      BY <3>2, <3>4, <2>d DEF KeepsVersion, LoadStored, ProposesOwn
    <3>6. UNCHANGED <<file, cache, mutex, docs, embs>> /\ StoredWhenCached'
      BY <2>1, <1>0 DEF ReadCatalog, StoredWhenCached
    <3>7. s.at \in Holding <=> mutex' = c
      BY <3>2, <3>6, <2>b, <2>1 DEF ReadCatalog, Holding
    <3> QED  BY <3>2, <3>3, <3>5, <3>6, <3>7, <2>d, OneMoves
  <2>2. CASE Enter(c)
    <3> DEFINE place ==
          IF calls[c].read = cache THEN "rank"
          ELSE IF Routes(calls[c].read) = {} THEN "failed" ELSE "documents"
    <3> DEFINE s == [calls[c] EXCEPT !.at = place]
    <3>1. s \in Stages /\ s.at = place /\ s.read = calls[c].read /\ s.began = calls[c].began
      BY <2>0 DEF Stages, Places
    <3>2. calls' = [calls EXCEPT ![c] = s]
      BY <2>2, <2>0 DEF Enter, Move
    <3> HIDE DEF s
    <3>3. calls'[c] = s
      BY <3>2, <2>0
    <3>4. KeepsVersion(c)' /\ LoadStored(c)' /\ ProposesOwn(c)'
      BY <3>1, <3>3, <2>a, <2>2 DEF Enter, KeepsVersion, LoadStored, ProposesOwn
    <3>5. /\ UNCHANGED <<file, cache, docs, embs>>
          /\ StoredWhenCached'
      BY <2>2, <1>0 DEF Enter, StoredWhenCached
    <3>6. s.at \in Holding <=> mutex' = c
      BY <3>1, <2>b, <2>2, NobodyDiffers DEF Enter, Holding
    <3>7. mutex' = mutex \/ (mutex \in {c, Nobody} /\ mutex' \in {c, Nobody})
      BY <2>b, <2>2 DEF Enter, Holding
    <3> QED  BY <3>1, <3>2, <3>4, <3>5, <3>6, <3>7, <2>d, OneMoves
  <2>3. CASE SyncDocuments(c)
    <3> DEFINE s == [calls[c] EXCEPT !.at = "embeddings"]
    <3>1. s \in Stages /\ s.at = "embeddings" /\ s.read = calls[c].read /\ s.began = calls[c].began
      BY <2>0 DEF Stages, Places
    <3>2. calls' = [calls EXCEPT ![c] = s]
      BY <2>3, <2>0 DEF SyncDocuments, Move
    <3> HIDE DEF s
    <3>3. calls'[c] = s
      BY <3>2, <2>0
    <3>4. KeepsVersion(c)' /\ LoadStored(c)' /\ ProposesOwn(c)'
      BY <3>1, <3>3, <2>a, <2>3 DEF SyncDocuments, KeepsVersion, LoadStored, ProposesOwn
    <3>5. /\ UNCHANGED <<file, cache, embs>> /\ docs \subseteq docs' /\ docs' \subseteq AllIds
          /\ StoredWhenCached'
      BY <2>3, <2>c, <2>d, <1>0 DEF SyncDocuments, StoredWhenCached
    <3>6. s.at \in Holding <=> mutex' = c
      BY <3>1, <2>b, <2>3, NobodyDiffers DEF SyncDocuments, Holding
    <3>7. mutex' = mutex \/ (mutex \in {c, Nobody} /\ mutex' \in {c, Nobody})
      BY <2>b, <2>3 DEF SyncDocuments, Holding
    <3> QED  BY <3>1, <3>2, <3>4, <3>5, <3>6, <3>7, <2>d, OneMoves
  <2>4. CASE SyncEmbeddings(c)
    <3> DEFINE s == [calls[c] EXCEPT !.at = "embed"]
    <3>1. s \in Stages /\ s.at = "embed" /\ s.read = calls[c].read /\ s.began = calls[c].began
      BY <2>0 DEF Stages, Places
    <3>2. calls' = [calls EXCEPT ![c] = s]
      BY <2>4, <2>0 DEF SyncEmbeddings, Move
    <3> HIDE DEF s
    <3>3. calls'[c] = s
      BY <3>2, <2>0
    <3>4. KeepsVersion(c)' /\ LoadStored(c)' /\ ProposesOwn(c)'
      BY <3>1, <3>3, <2>a, <2>4 DEF SyncEmbeddings, KeepsVersion, LoadStored, ProposesOwn
    <3>5. /\ UNCHANGED <<file, cache, docs>> /\ embs \subseteq embs' /\ embs' \subseteq AllIds
          /\ StoredWhenCached'
      BY <2>4, <2>c, <2>d, <1>0 DEF SyncEmbeddings, StoredWhenCached
    <3>6. s.at \in Holding <=> mutex' = c
      BY <3>1, <2>b, <2>4, NobodyDiffers DEF SyncEmbeddings, Holding
    <3>7. mutex' = mutex \/ (mutex \in {c, Nobody} /\ mutex' \in {c, Nobody})
      BY <2>b, <2>4 DEF SyncEmbeddings, Holding
    <3> QED  BY <3>1, <3>2, <3>4, <3>5, <3>6, <3>7, <2>d, OneMoves
  <2>5. CASE EmbedCatalog(c)
    <3> DEFINE s == [calls[c] EXCEPT !.at = "rank"]
    <3>1. s \in Stages /\ s.at = "rank" /\ s.read = calls[c].read /\ s.began = calls[c].began
      BY <2>0 DEF Stages, Places
    <3>2. calls' = [calls EXCEPT ![c] = s]
      BY <2>5, <2>0 DEF EmbedCatalog, Move
    <3> HIDE DEF s
    <3>3. calls'[c] = s
      BY <3>2, <2>0
    <3>4. KeepsVersion(c)' /\ LoadStored(c)' /\ ProposesOwn(c)'
      BY <3>1, <3>3, <2>a, <2>5 DEF EmbedCatalog, KeepsVersion, LoadStored, ProposesOwn
    <3>5. /\ UNCHANGED <<file, docs, embs>> /\ cache' \in Versions
          /\ StoredWhenCached'
      BY <2>5, <2>a, <2>c DEF EmbedCatalog, LoadStored, StoredWhenCached
    <3>6. s.at \in Holding <=> mutex' = c
      BY <3>1, <2>b, <2>5, NobodyDiffers DEF EmbedCatalog, Holding
    <3>7. mutex' = mutex \/ (mutex \in {c, Nobody} /\ mutex' \in {c, Nobody})
      BY <2>b, <2>5 DEF EmbedCatalog, Holding
    <3> QED  BY <3>1, <3>2, <3>4, <3>5, <3>6, <3>7, <2>d, OneMoves
  <2>6. CASE Fail(c)
    <3> DEFINE s == [calls[c] EXCEPT !.at = "failed"]
    <3>1. s \in Stages /\ s.at = "failed" /\ s.read = calls[c].read /\ s.began = calls[c].began
      BY <2>0 DEF Stages, Places
    <3>2. calls' = [calls EXCEPT ![c] = s]
      BY <2>6, <2>0 DEF Fail, Move
    <3> HIDE DEF s
    <3>3. calls'[c] = s
      BY <3>2, <2>0
    <3>4. KeepsVersion(c)' /\ LoadStored(c)' /\ ProposesOwn(c)'
      BY <3>1, <3>3, <2>a, <2>6 DEF Fail, Holding, KeepsVersion, LoadStored, ProposesOwn
    <3>5. /\ UNCHANGED <<file, cache, docs, embs>>
          /\ StoredWhenCached'
      BY <2>6, <1>0 DEF Fail, StoredWhenCached
    <3>6. s.at \in Holding <=> mutex' = c
      BY <3>1, <2>b, <2>6, NobodyDiffers DEF Fail, Holding
    <3>7. mutex' = mutex \/ (mutex \in {c, Nobody} /\ mutex' \in {c, Nobody})
      BY <2>b, <2>6 DEF Fail, Holding
    <3> QED  BY <3>1, <3>2, <3>4, <3>5, <3>6, <3>7, <2>d, OneMoves
  <2>7. CASE Rank(c)
    <3>1. PICK found \in SUBSET Routes(calls[c].read) :
            calls' = [calls EXCEPT ![c].at = "done", ![c].candidates = found]
      BY <2>7 DEF Rank
    <3> DEFINE s == [calls[c] EXCEPT !.at = "done", !.candidates = found]
    <3>2. calls[c].at # "idle"
      BY <2>7 DEF Rank
    <3>3. found \in SUBSET AllRoutes
      BY <3>1, <3>2, <2>c
    <3>4. /\ s \in Stages /\ s.at = "done" /\ s.candidates = found
          /\ s.read = calls[c].read /\ s.began = calls[c].began
      BY <3>3, <2>0 DEF Stages, Places
    <3>5. calls' = [calls EXCEPT ![c] = s]
      BY <3>1, <2>0
    <3> HIDE DEF s
    <3>6. calls'[c] = s
      BY <3>5, <2>0
    <3>7. KeepsVersion(c)' /\ LoadStored(c)' /\ ProposesOwn(c)'
      BY <3>1, <3>2, <3>4, <3>6, <2>a DEF KeepsVersion, LoadStored, ProposesOwn
    <3>8. UNCHANGED <<file, cache, mutex, docs, embs>> /\ StoredWhenCached'
      BY <2>7, <1>0 DEF Rank, StoredWhenCached
    <3>9. s.at \in Holding <=> mutex' = c
      BY <3>4, <3>8, <2>b, <2>7 DEF Rank, Holding
    <3> QED  BY <3>4, <3>5, <3>7, <3>8, <3>9, <2>d, OneMoves
  <2> QED
    BY <1>3, <2>1, <2>2, <2>3, <2>4, <2>5, <2>6, <2>7 DEF Retrieve
<1> QED  BY <1>1, <1>2, <1>3 DEF Next

LEMMA WholeByIInv == IInv => RetrievalWhole
<1>1. ASSUME IInv, NEW c \in Callers, calls[c].at = "done"
      PROVE  /\ calls[c].candidates \subseteq Routes(calls[c].began)
             /\ \A r \in calls[c].candidates : r.domain \in Domains(calls[c].began)
  <2>1. calls[c].began \in Versions /\ calls[c].candidates \subseteq Routes(calls[c].began)
    BY <1>1 DEF IInv, KeepsVersion, ProposesOwn
  <2> QED  BY <2>1, RouteInItsDomain
<1> QED  BY <1>1 DEF RetrievalWhole

LEMMA Invariance == Spec => []IInv
BY InitIInv, NextIInv, PTL DEF Spec

(* The variables keep their types. *)
THEOREM TypeCorrect == Spec => []TypeOK
<1>1. IInv => TypeOK
  BY DEF IInv, Typed, TypeOK, KeepsVersion, Stages, AllIds
<1> QED  BY <1>1, Invariance, PTL

(* The mutex is held exactly while its holder loads, on every path out of   *)
(* ensureLoaded, the failed ones included.                                  *)
THEOREM MutexWhileLoading == Spec => []MutexHeld
<1>1. IInv => MutexHeld
  BY DEF IInv
<1> QED  BY <1>1, Invariance, PTL

(* The routes of the cached version all have their rows, though the file is *)
(* edited and loads fail between the two transactions.                      *)
THEOREM CachedIsStored == Spec => []StoredWhenCached
<1>1. IInv => StoredWhenCached
  BY DEF IInv
<1> QED  BY <1>1, Invariance, PTL

(* A retrieval proposes routes, with their domains, of the one version that *)
(* was in the file when it began.                                           *)
THEOREM OneVersion == Spec => []RetrievalWhole
BY WholeByIInv, Invariance, PTL

---------------------------------------------------------------------------
(* The invariant of a turn                                                 *)

Texts == Seq(Token)
Message == [role : {"user", "assistant"}, text : Texts, asks : BOOLEAN]
Person == {"weight", "height", "age_years", "gender", "activity_level"}

(* What a text shows of a person: a bare number may be the age. *)
Shows(t, f) == Mentions(t, f) \/ (f = "age_years" /\ Len(t) = 1 /\ Bare(t[1]))

(* A field of a person that the calculator will not ask for again. *)
Known(args, f) ==
  /\ f \in DOMAIN args
  /\ f \in DOMAIN BaseUnit => args[f] = <<Measure(args[f][1].value, BaseUnit[f])>> /\ Positive(args[f][1].value)

(* Canonical has nothing left to change. *)
Settled(args) == \A f \in DOMAIN BaseUnit \cap DOMAIN args : Canonical(f, args[f]) \in {<< >>, <<args[f]>>}

TimeKept(args, o, texts) ==
  /\ Says(o, {"tomorrow"}) => When(args) = "tomorrow"
  /\ \A i \in DOMAIN o :
       NamesHour(o, i) /\ (\A t \in texts : ~Says(t, {"evening", "tonight"})) =>
         Hour(args) = Clock(o[i]) /\ When(args) \in {"", "current", "today", "tomorrow"}

Grounded(args, taken, heard) ==
  \A f \in (Attrs(Operation(args)) \cap DOMAIN args) \ taken : \E t \in heard : Shows(t, f)

CalculatorFits(p, heard) ==
  /\ Operation(p.args) # ""
  /\ Grounded(p.args, p.taken, heard)
  /\ Attrs(Operation(p.args)) # {} => Settled(p.args)
  /\ \A f \in Attrs(Operation(p.args)), t \in p.texts : Gives(t, f) => Known(p.args, f) /\ f \notin p.missing

WeatherFits(args, p) ==
  "operation" \notin DOMAIN args /\ (p.lost \/ TimeKept(args, p.origin, p.texts))

PendingFits(p, heard) ==
  \/ p = NoPending
  \/ p.tool = "calculator" /\ CalculatorFits(p, heard)
  \/ p.tool = "weather" /\ WeatherFits(p.args, p)

(* A call that answers no question. *)
CallFits(call, text) ==
  /\ call.tool = "calculator" => Operation(call.args) # ""
  /\ call.tool = "weather" =>
       /\ DOMAIN call.args \subseteq DOMAIN WeatherUpdate(text)
       /\ \A f \in DOMAIN call.args : call.args[f] = WeatherUpdate(text)[f]

(* The call that answers p. *)
AnswerFits(call, p, taken, heard) ==
  /\ call.tool = p.tool
  /\ call.tool = "calculator" =>
       /\ Operation(call.args) = Operation(p.args)
       /\ \A f \in (Attrs(Operation(p.args)) \cap DOMAIN p.args) \ p.missing :
            f \in DOMAIN call.args /\ call.args[f] = p.args[f]
       /\ Grounded(call.args, taken, heard)
  /\ call.tool = "weather" => WeatherFits(call.args, p)

Fresh == turn.texts = {turn.text} /\ turn.resumed = FALSE /\ turn.taken = {} /\ turn.lost = FALSE
Answering ==
  /\ pending # NoPending /\ turn.asked = pending /\ turn.origin = pending.origin
  /\ turn.lost = pending.lost /\ turn.texts = {turn.text} \cup pending.texts
  /\ AnswerFits(turn.call, pending, turn.taken, Heard \cup {turn.text})

StageFits ==
  /\ turn.at # "idle" => outcome = Nothing /\ turn.text \in Texts
  /\ turn.at \in {"resume", "unanswered", "update"} =>
       pending # NoPending /\ Fresh /\ turn.origin = pending.origin
  /\ turn.at \in {"plan", "select", "choose", "extract"} => Fresh /\ turn.origin = turn.text
  /\ turn.at = "run" =>
       \/ turn.resumed = TRUE /\ Answering
       \/ Fresh /\ turn.origin = turn.text /\ CallFits(turn.call, turn.text)

IsTurn(t) ==
  t = [at |-> t.at, text |-> t.text, call |-> t.call, resumed |-> t.resumed, origin |-> t.origin,
       texts |-> t.texts, taken |-> t.taken, lost |-> t.lost, asked |-> t.asked]

IsCall(call) == call = [tool |-> call.tool, args |-> call.args]

TurnFits ==
  /\ setting \in DOMAIN Settings
  /\ messages \in Seq(Message)
  /\ IsTurn(turn) /\ IsCall(turn.call)
  /\ turn.at \in {"idle", "resume", "unanswered", "update", "plan", "select", "choose", "extract", "run"}
  /\ PendingFits(pending, Heard)
  /\ StageFits

---------------------------------------------------------------------------
(* What the parsers read from a text                                       *)

(* What the first of some positions is. *)
LEMMA FirstNone == First({}) = << >>
BY DEF First

(* The least of some positions, from the well-foundedness of < on Nat. *)
LEMMA LeastByRelation ==
  ASSUME NEW R, IsWellFoundedOn(R, Nat), \A m, n \in Nat : ~(<<m, n>> \in R) => ~(m < n),
         NEW S, S \subseteq Nat, S # {}
  PROVE  \E n \in S : \A m \in S : n <= m
<1>1. PICK n \in S : \A m \in S : ~(<<m, n>> \in R)
  BY WFMin, Zenon
<1>2. \A m \in S : m \in Nat /\ n \in Nat
  OBVIOUS
<1>3. \A m \in S : ~(m < n)
  BY <1>1, <1>2, Zenon
<1>4. \A m \in S : n <= m
  BY <1>2, <1>3, SMT
<1> QED  BY <1>4, Zenon

LEMMA LeastNatural ==
  ASSUME NEW S \in SUBSET Nat, S # {}
  PROVE  \E n \in S : \A m \in S : n <= m
<1>1. IsWellFoundedOn(OpToRel(<, Nat), Nat)
  BY NatLessThanWellFounded
<1>2. \A m, n \in Nat : <<m, n>> \in OpToRel(<, Nat) <=> m < n
  BY DEF OpToRel
<1> QED  BY <1>1, <1>2, LeastByRelation

(* First is the least of some positions. *)
LEMMA FirstIs ==
  ASSUME NEW S \in SUBSET Nat, S # {}
  PROVE  \E i \in S : First(S) = <<i>> /\ \A j \in S : i <= j
<1>1. PICK n \in S : \A m \in S : n <= m
  BY LeastNatural
<1>2. \A i, j \in S : (\A m \in S : i <= m) /\ (\A m \in S : j <= m) => i = j
  OBVIOUS
<1> QED  BY <1>1, <1>2 DEF First

(* A token holds at most one number. *)
LEMMA Tokens ==
  ASSUME NEW text \in Texts, NEW i \in DOMAIN text
  PROVE  /\ DOMAIN text \subseteq Nat /\ i \in 1 .. Len(text)
         /\ text[i] \in Token
         /\ text[i].n # << >> => text[i].n = <<text[i].n[1]>>
<1>1. text[i] \in Token /\ DOMAIN text = 1 .. Len(text) /\ Len(text) \in Nat
  BY DEF Texts
<1>2. text[i].n \in Seq(Int \X Int) /\ Len(text[i].n) <= 1
  BY <1>1 DEF Token
<1> QED  BY <1>1, <1>2

(* The first amount of a text, if it has one. *)
LEMMA FirstAmountIs ==
  ASSUME NEW text \in Texts, NEW units
  PROVE  /\ AmountsIn(text, units) = {} => FirstAmount(text, units) = << >>
         /\ AmountsIn(text, units) # {} =>
              \E i \in AmountsIn(text, units) :
                 FirstAmount(text, units) = <<i>> /\ \A j \in AmountsIn(text, units) : i <= j
<1>1. AmountsIn(text, units) \in SUBSET Nat /\ FirstAmount(text, units) = First(AmountsIn(text, units))
  BY Tokens DEF AmountsIn, FirstAmount
<1> QED  BY <1>1, FirstIs, FirstNone

(* ParseWeight, ParseHeight: the amounts they read. *)
LEMMA WeightIs ==
  ASSUME NEW text \in Texts
  PROVE  /\ AmountsIn(text, Measured.weight) = {} => ParseWeight(text) = << >>
         /\ AmountsIn(text, Measured.weight) # {} =>
              \E i \in AmountsIn(text, Measured.weight) : ParseWeight(text) = << <<SaidAt(text, i)>> >>
<1>1. Measured.weight = {"kg", "g", "lb"}
  BY DEF Measured
<1> DEFINE found == FirstAmount(text, {"kg", "g", "lb"})
<1>2. CASE AmountsIn(text, {"kg", "g", "lb"}) = {}
  <2>1. found = << >>
    BY <1>2, FirstAmountIs
  <2> QED  BY <1>1, <1>2, <2>1 DEF ParseWeight, MeasureAt
<1>3. CASE AmountsIn(text, {"kg", "g", "lb"}) # {}
  <2>1. PICK i \in AmountsIn(text, {"kg", "g", "lb"}) : found = <<i>>
    BY <1>3, FirstAmountIs
  <2> QED  BY <1>1, <1>3, <2>1 DEF ParseWeight, MeasureAt, SaidAt
<1> QED  BY <1>2, <1>3

LEMMA FeetAreFeet == ASSUME NEW w, Unit(w) = "ft" PROVE w = "ft"
BY DEF Unit, Slashed

Others == {"cm", "m", "km", "in", "mi"}

(* A height is feet with the number right after them, else the first other *)
(* amount.                                                                 *)
LEMMA HeightIs ==
  ASSUME NEW text \in Texts
  PROVE  LET feet == AmountsIn(text, {"ft"})
             rest == AmountsIn(text, Others)
             next(i) == i + 1 <= Len(text) /\ text[i + 1].n # << >>
         IN  /\ feet # {} =>
                  \E i \in feet :
                     /\ \A j \in feet : i <= j
                     /\ text[i].w = "ft"
                     /\ ParseHeight(text) =
                          IF next(i) THEN << <<Measure(text[i].n[1], "ft"), Measure(text[i + 1].n[1], "in")>> >>
                          ELSE << <<Measure(text[i].n[1], "ft")>> >>
             /\ feet = {} /\ rest # {} =>
                  \E i \in rest : ParseHeight(text) = << <<SaidAt(text, i)>> >>
             /\ feet = {} /\ rest = {} => ParseHeight(text) = << >>
<1> DEFINE feet == AmountsIn(text, {"ft"})
<1> DEFINE rest == AmountsIn(text, Others)
<1>1. ASSUME feet # {}
      PROVE  \E i \in feet :
                /\ \A j \in feet : i <= j
                /\ text[i].w = "ft"
                /\ ParseHeight(text) =
                     IF i + 1 <= Len(text) /\ text[i + 1].n # << >>
                     THEN << <<Measure(text[i].n[1], "ft"), Measure(text[i + 1].n[1], "in")>> >>
                     ELSE << <<Measure(text[i].n[1], "ft")>> >>
  <2>1. PICK i \in feet : FirstAmount(text, {"ft"}) = <<i>> /\ \A j \in feet : i <= j
    BY <1>1, FirstAmountIs
  <2>2. text[i].w = "ft"
    BY FeetAreFeet DEF AmountsIn
  <2> QED  BY <2>1, <2>2 DEF ParseHeight, HeightFrom
<1>2. ASSUME feet = {}
      PROVE  ParseHeight(text) = MeasureAt(text, FirstAmount(text, Others))
  <2>1. FirstAmount(text, {"ft"}) = << >>
    BY <1>2, FirstAmountIs
  <2> QED  BY <2>1 DEF ParseHeight, HeightFrom, Others
<1>3. ASSUME rest # {}
      PROVE  \E i \in rest : MeasureAt(text, FirstAmount(text, Others)) = << <<SaidAt(text, i)>> >>
  <2>1. PICK i \in rest : FirstAmount(text, Others) = <<i>>
    BY <1>3, FirstAmountIs
  <2> QED  BY <2>1 DEF MeasureAt, SaidAt
<1>4. ASSUME rest = {}
      PROVE  MeasureAt(text, FirstAmount(text, Others)) = << >>
  BY <1>4, FirstAmountIs DEF MeasureAt
<1> HIDE DEF feet, rest
<1>5. feet = {} /\ rest # {} => \E i \in rest : ParseHeight(text) = << <<SaidAt(text, i)>> >>
  BY <1>2, <1>3
<1>6. feet = {} /\ rest = {} => ParseHeight(text) = << >>
  BY <1>2, <1>4
<1> QED  BY <1>1, <1>5, <1>6 DEF feet, rest

(* ParseAge: the number that names the age. *)
LEMMA AgeIs ==
  ASSUME NEW text \in Texts, NEW allowBare \in BOOLEAN
  PROVE  /\ AgesIn(text) # {} => \E i \in AgesIn(text) : ParseAge(text, allowBare) = <<text[i].n[1]>>
         /\ AgesIn(text) = {} =>
              (ParseAge(text, allowBare) # << >> => allowBare /\ Len(text) = 1 /\ Bare(text[1]))
<1> DEFINE said == {i \in DOMAIN text : AfterAge(text, i) \/ (text[i].n # << >> /\ text[i].w = "years")}
<1>1. said = AgesIn(text)
  BY DEF AfterAge, AgesIn
<1>2. said \in SUBSET Nat
  BY Tokens
<1>3. ASSUME said # {} PROVE \E i \in said : ParseAge(text, allowBare) = <<text[i].n[1]>>
  <2>1. PICK i \in said : First(said) = <<i>>
    BY <1>2, <1>3, FirstIs
  <2>2. text[i].n # << >>
    BY DEF AfterAge
  <2>3. text[i].n = <<text[i].n[1]>>
    BY <2>2, Tokens
  <2>4. ParseAge(text, allowBare) = text[i].n
    BY <2>1 DEF ParseAge
  <2> QED  BY <2>3, <2>4
<1>4. ASSUME said = {}, ParseAge(text, allowBare) # << >>
      PROVE  allowBare /\ Len(text) = 1 /\ Bare(text[1])
  <2>1. First(said) = << >>
    BY <1>4, FirstNone
  <2> QED  BY <1>4, <2>1 DEF ParseAge
<1> QED  BY <1>1, <1>3, <1>4

(* A gender is read exactly where the text says one. *)
LEMMA GenderIs ==
  ASSUME NEW text \in Texts
  PROVE  ParseGender(text) # << >> <=> Says(text, {"male", "female", "man", "woman"})
<1> DEFINE said == {i \in DOMAIN text : text[i].w \in {"male", "man", "female", "woman"}}
<1>1. said # {} <=> Says(text, {"male", "female", "man", "woman"})
  BY DEF Says, Words
<1>2. said \in SUBSET Nat
  BY Tokens
<1>3. ASSUME said # {} PROVE ParseGender(text) # << >>
  <2>1. PICK i \in said : First(said) = <<i>>
    BY <1>2, <1>3, FirstIs
  <2> QED  BY <2>1 DEF ParseGender
<1>4. ASSUME said = {} PROVE ParseGender(text) = << >>
  <2>1. First(said) = << >>
    BY <1>4, FirstNone
  <2> QED  BY <2>1 DEF ParseGender
<1> QED  BY <1>1, <1>3, <1>4

LEMMA FirstSaidIs ==
  ASSUME NEW text, NEW words, DOMAIN words \subseteq Nat
  PROVE  /\ (\E i \in DOMAIN words : words[i] \in Words(text)) =>
              \E i \in DOMAIN words : FirstSaid(text, words) = <<words[i]>>
         /\ ~(\E i \in DOMAIN words : words[i] \in Words(text)) => FirstSaid(text, words) = << >>
<1> DEFINE said == {i \in DOMAIN words : words[i] \in Words(text)}
<1>1. ASSUME said # {} PROVE \E i \in said : FirstSaid(text, words) = <<words[i]>>
  <2>0. said \in SUBSET Nat
    OBVIOUS
  <2>1. PICK i \in said : First(said) = <<i>>
    BY <1>1, <2>0, FirstIs
  <2>2. FirstSaid(text, words) = IF First(said) = << >> THEN << >> ELSE <<words[First(said)[1]]>>
    BY DEF FirstSaid
  <2> HIDE DEF said
  <2> QED  BY <2>1, <2>2
<1>2. ASSUME said = {} PROVE FirstSaid(text, words) = << >>
  <2>1. First(said) = << >>
    BY <1>2, FirstNone
  <2> QED  BY <2>1 DEF FirstSaid
<1> QED  BY <1>1, <1>2

(* So is an activity level. *)
LEMMA ActivityIs ==
  ASSUME NEW text
  PROVE  ParseActivity(text) # << >> <=> Says(text, DOMAIN ActivityFactor)
<1>1. DOMAIN ActivityLevels = 1 .. 5
  BY DEF ActivityLevels
<1>2. {ActivityLevels[i] : i \in DOMAIN ActivityLevels} = DOMAIN ActivityFactor
  BY DEF ActivityLevels, ActivityFactor
<1>3. (\E i \in DOMAIN ActivityLevels : ActivityLevels[i] \in Words(text))
        <=> Says(text, DOMAIN ActivityFactor)
  BY <1>2 DEF Says
<1>4. DOMAIN ActivityLevels \subseteq Nat
  BY <1>1
<1>5. ParseActivity(text) = FirstSaid(text, ActivityLevels)
  BY DEF ParseActivity
<1>6. Says(text, DOMAIN ActivityFactor) =>
        \E i \in DOMAIN ActivityLevels : FirstSaid(text, ActivityLevels) = <<ActivityLevels[i]>>
  BY <1>3, <1>4, FirstSaidIs
<1>7. ~Says(text, DOMAIN ActivityFactor) => FirstSaid(text, ActivityLevels) = << >>
  BY <1>3, <1>4, FirstSaidIs
<1>8. \A x : <<x>> # << >>
  OBVIOUS
<1> QED  BY <1>5, <1>6, <1>7, <1>8

LEMMA OneIsSome == ASSUME NEW x PROVE <<x>> # << >>
OBVIOUS

LEMMA ArgIs ==
  ASSUME NEW field, NEW found
  PROVE  /\ DOMAIN Arg(field, found) = IF found = << >> THEN {} ELSE {field}
         /\ found # << >> => Arg(field, found)[field] = found[1]
BY DEF Arg, NoArgs

(* f ++ g is f where f is defined, else g. *)
LEMMA OrElse ==
  ASSUME NEW f, NEW g
  PROVE  /\ DOMAIN (f ++ g) = DOMAIN f \cup DOMAIN g
         /\ \A x \in DOMAIN f : (f ++ g)[x] = f[x]
         /\ \A x \in DOMAIN g \ DOMAIN f : (f ++ g)[x] = g[x]
BY DEF ++

(* What the parsers read of a person. *)
PersonRead(text) ==
  [weight |-> ParseWeight(text), height |-> ParseHeight(text), age_years |-> ParseAge(text, FALSE),
   gender |-> ParseGender(text), activity_level |-> ParseActivity(text)]

(* HealthPatch holds the fields that are read. *)
LEMMA PatchIs ==
  ASSUME NEW text
  PROVE  /\ DOMAIN HealthPatch(text) = {f \in Person : PersonRead(text)[f] # << >>}
         /\ \A f \in DOMAIN HealthPatch(text) : HealthPatch(text)[f] = PersonRead(text)[f][1]
<1> DEFINE w == Arg("weight", ParseWeight(text))
           h == Arg("height", ParseHeight(text))
           a == Arg("age_years", ParseAge(text, FALSE))
           g == Arg("gender", ParseGender(text))
           l == Arg("activity_level", ParseActivity(text))
           p == PersonRead(text)
<1>1. /\ DOMAIN w = (IF p.weight = << >> THEN {} ELSE {"weight"})
      /\ p.weight # << >> => w["weight"] = p.weight[1]
  BY ArgIs DEF PersonRead
<1>2. /\ DOMAIN h = (IF p.height = << >> THEN {} ELSE {"height"})
      /\ p.height # << >> => h["height"] = p.height[1]
  BY ArgIs DEF PersonRead
<1>3. /\ DOMAIN a = (IF p.age_years = << >> THEN {} ELSE {"age_years"})
      /\ p.age_years # << >> => a["age_years"] = p.age_years[1]
  BY ArgIs DEF PersonRead
<1>4. /\ DOMAIN g = (IF p.gender = << >> THEN {} ELSE {"gender"})
      /\ p.gender # << >> => g["gender"] = p.gender[1]
  BY ArgIs DEF PersonRead
<1>5. /\ DOMAIN l = (IF p.activity_level = << >> THEN {} ELSE {"activity_level"})
      /\ p.activity_level # << >> => l["activity_level"] = p.activity_level[1]
  BY ArgIs DEF PersonRead
<1>6. HealthPatch(text) = w ++ h ++ a ++ g ++ l
  BY DEF HealthPatch
<1> HIDE DEF w, h, a, g, l, p
<1> DEFINE wh == w ++ h
           wha == wh ++ a
           whag == wha ++ g
<1>61. DOMAIN wh = DOMAIN w \cup DOMAIN h /\ (\A x \in DOMAIN w : wh[x] = w[x])
         /\ (\A x \in DOMAIN h \ DOMAIN w : wh[x] = h[x])
  BY OrElse
<1>62. DOMAIN wha = DOMAIN wh \cup DOMAIN a /\ (\A x \in DOMAIN wh : wha[x] = wh[x])
         /\ (\A x \in DOMAIN a \ DOMAIN wh : wha[x] = a[x])
  BY OrElse
<1>63. DOMAIN whag = DOMAIN wha \cup DOMAIN g /\ (\A x \in DOMAIN wha : whag[x] = wha[x])
         /\ (\A x \in DOMAIN g \ DOMAIN wha : whag[x] = g[x])
  BY OrElse
<1>64. HealthPatch(text) = whag ++ l
  BY <1>6
<1> HIDE DEF wh, wha, whag
<1>65. DOMAIN HealthPatch(text) = DOMAIN whag \cup DOMAIN l
         /\ (\A x \in DOMAIN whag : HealthPatch(text)[x] = whag[x])
         /\ (\A x \in DOMAIN l \ DOMAIN whag : HealthPatch(text)[x] = l[x])
  <2>1. DOMAIN (whag ++ l) = DOMAIN whag \cup DOMAIN l
         /\ (\A x \in DOMAIN whag : (whag ++ l)[x] = whag[x])
         /\ (\A x \in DOMAIN l \ DOMAIN whag : (whag ++ l)[x] = l[x])
    BY OrElse
  <2> QED  BY <2>1, <1>64, Zenon
<1>7. /\ DOMAIN HealthPatch(text) = DOMAIN w \cup DOMAIN h \cup DOMAIN a \cup DOMAIN g \cup DOMAIN l
      /\ \A x \in DOMAIN w : HealthPatch(text)[x] = w[x]
      /\ \A x \in DOMAIN h \ DOMAIN w : HealthPatch(text)[x] = h[x]
      /\ \A x \in DOMAIN a \ (DOMAIN w \cup DOMAIN h) : HealthPatch(text)[x] = a[x]
      /\ \A x \in DOMAIN g \ (DOMAIN w \cup DOMAIN h \cup DOMAIN a) : HealthPatch(text)[x] = g[x]
      /\ \A x \in DOMAIN l \ (DOMAIN w \cup DOMAIN h \cup DOMAIN a \cup DOMAIN g) :
           HealthPatch(text)[x] = l[x]
  BY <1>61, <1>62, <1>63, <1>65
<1>8. DOMAIN HealthPatch(text) = {f \in Person : p[f] # << >>}
  BY <1>1, <1>2, <1>3, <1>4, <1>5, <1>7 DEF Person
<1>9. ASSUME NEW f \in DOMAIN HealthPatch(text) PROVE HealthPatch(text)[f] = p[f][1]
  <2>1. f \in Person /\ p[f] # << >>
    BY <1>8
  <2>2. CASE f = "weight"
    BY <2>1, <2>2, <1>1, <1>7
  <2>3. CASE f = "height"
    BY <2>1, <2>3, <1>1, <1>2, <1>7
  <2>4. CASE f = "age_years"
    BY <2>1, <2>4, <1>1, <1>2, <1>3, <1>7
  <2>5. CASE f = "gender"
    BY <2>1, <2>5, <1>1, <1>2, <1>3, <1>4, <1>7
  <2>6. CASE f = "activity_level"
    BY <2>1, <2>6, <1>1, <1>2, <1>3, <1>4, <1>5, <1>7
  <2> QED  BY <2>1, <2>2, <2>3, <2>4, <2>5, <2>6 DEF Person
<1> QED  BY <1>8, <1>9 DEF p

LEMMA WeightUnits == UnitsOf("weight") = {"mg", "g", "kg", "lb"}
BY DEF UnitsOf, Simple

LEMMA LengthUnits == UnitsOf("length") = {"mm", "cm", "m", "km", "in", "ft", "mi"}
BY DEF UnitsOf, Simple

(* The units a person is measured in. *)
LEMMA MeasuresAre ==
  /\ DOMAIN Measured = {"weight", "height"}
  /\ Measured.weight = {"kg", "g", "lb"} /\ Measured.height = {"ft"} \cup Others
  /\ DOMAIN KindOf = {"weight", "height", "distance"}
  /\ KindOf["weight"] = "weight" /\ KindOf["height"] = "length"
  /\ DOMAIN BaseUnit = {"weight", "height"} /\ BaseUnit["weight"] = "kg" /\ BaseUnit["height"] = "cm"
BY DEF Measured, Others, KindOf, BaseUnit

(* A text mentions a field where its tokens name it. *)
LEMMA MentionsOf ==
  ASSUME NEW text
  PROVE  /\ Mentions(text, "weight") <=> AmountsIn(text, UnitsOf("weight")) # {}
         /\ Mentions(text, "height") <=> AmountsIn(text, UnitsOf("length")) # {}
         /\ Mentions(text, "age_years") <=> AgesIn(text) # {}
         /\ Mentions(text, "gender") <=> Says(text, {"male", "female", "man", "woman"})
         /\ Mentions(text, "activity_level") <=> Says(text, DOMAIN ActivityFactor)
         /\ \A f : f \notin Person => ~Mentions(text, f)
BY MeasuresAre, Zenon DEF Mentions, Person

(* A field of a person is read exactly where the text gives it. *)
LEMMA ReadIsGiven ==
  ASSUME NEW text \in Texts, NEW f \in Person
  PROVE  /\ PersonRead(text)[f] # << >> <=> Gives(text, f)
         /\ Gives(text, f) => Mentions(text, f)
<1>1. Gives(text, f) => Mentions(text, f)
  BY DEF Gives
<1>2. CASE f = "weight"
  <2>1. ParseWeight(text) # << >> <=> AmountsIn(text, Measured.weight) # {}
    <3>1. CASE AmountsIn(text, Measured.weight) = {}
      BY <3>1, WeightIs
    <3>2. CASE AmountsIn(text, Measured.weight) # {}
      <4>1. PICK i \in AmountsIn(text, Measured.weight) : ParseWeight(text) = << <<SaidAt(text, i)>> >>
        BY <3>2, WeightIs
      <4> QED  BY <3>2, <4>1
    <3> QED  BY <3>1, <3>2
  <2>2. AmountsIn(text, Measured.weight) \subseteq AmountsIn(text, UnitsOf("weight"))
    BY WeightUnits, MeasuresAre DEF AmountsIn
  <2>3. PersonRead(text)[f] = ParseWeight(text)
    BY <1>2 DEF PersonRead
  <2> QED  BY <1>2, <2>1, <2>2, <2>3, MeasuresAre, MentionsOf DEF Gives
<1>3. CASE f = "height"
  <2>1. AmountsIn(text, Measured.height) = AmountsIn(text, {"ft"}) \cup AmountsIn(text, Others)
    BY MeasuresAre DEF AmountsIn
  <2>2. ParseHeight(text) # << >> <=> AmountsIn(text, Measured.height) # {}
    BY <2>1, HeightIs
  <2>3. AmountsIn(text, Measured.height) \subseteq AmountsIn(text, UnitsOf("length"))
    BY LengthUnits, MeasuresAre DEF AmountsIn, Others
  <2>4. PersonRead(text)[f] = ParseHeight(text)
    BY <1>3 DEF PersonRead
  <2> QED  BY <1>3, <2>2, <2>3, <2>4, MeasuresAre, MentionsOf DEF Gives
<1>4. CASE f = "age_years"
  <2>1. ParseAge(text, FALSE) # << >> <=> AgesIn(text) # {}
    <3>1. CASE AgesIn(text) = {}
      BY <3>1, AgeIs
    <3>2. CASE AgesIn(text) # {}
      <4>1. PICK i \in AgesIn(text) : ParseAge(text, FALSE) = <<text[i].n[1]>>
        BY <3>2, AgeIs
      <4>2. <<text[i].n[1]>> # << >>
        BY OneIsSome
      <4> QED  BY <3>2, <4>1, <4>2, Zenon
    <3> QED  BY <3>1, <3>2
  <2>2. PersonRead(text)[f] = ParseAge(text, FALSE)
    BY <1>4 DEF PersonRead
  <2> QED  BY <1>4, <2>1, <2>2, MeasuresAre, MentionsOf DEF Gives
<1>5. CASE f = "gender"
  <2>1. PersonRead(text)[f] = ParseGender(text)
    BY <1>5 DEF PersonRead
  <2> QED  BY <1>5, <2>1, GenderIs, MeasuresAre, MentionsOf DEF Gives
<1>6. CASE f = "activity_level"
  <2>1. PersonRead(text)[f] = ParseActivity(text)
    BY <1>6 DEF PersonRead
  <2> QED  BY <1>6, <2>1, ActivityIs, MeasuresAre, MentionsOf DEF Gives
<1> QED  BY <1>1, <1>2, <1>3, <1>4, <1>5, <1>6 DEF Person

(* HealthPatch takes exactly what the text gives. *)
LEMMA PatchIsGiven ==
  ASSUME NEW text \in Texts
  PROVE  /\ DOMAIN HealthPatch(text) \subseteq Person
         /\ \A f \in Person : f \in DOMAIN HealthPatch(text) <=> Gives(text, f)
         /\ \A f \in DOMAIN HealthPatch(text) : Mentions(text, f)
BY PatchIs, ReadIsGiven

---------------------------------------------------------------------------
(* Measures and base units                                                 *)

LEMMA FirstOne ==
  ASSUME NEW n \in Nat
  PROVE  First({n}) = <<n>>
<1>1. {n} \in SUBSET Nat /\ {n} # {}
  OBVIOUS
<1>2. \E i \in {n} : First({n}) = <<i>>
  BY <1>1, FirstIs
<1> QED  BY <1>2

(* The total of one component is the component in the base unit. *)
LEMMA TotalOne == ASSUME NEW c PROVE Total(<<c>>) = Normalized(c)
<1> DEFINE base == Normalized(c)
<1>1. Tail(<<c>>) = << >> /\ <<c>>[1] = c
  OBVIOUS
<1>2. Total(<<c>>) = FoldLeft(LAMBDA t, d : Plus(t, Normalized(d)), base, << >>)
  BY <1>1, Zenon DEF Total
<1> HIDE DEF base
<1>3. FoldLeft(LAMBDA t, d : Plus(t, Normalized(d)), base, << >>) = base
  <2>1. DOMAIN << >> = {}
    OBVIOUS
  <2> QED  BY <2>1, Zenon DEF FoldLeft, MapThenFoldSet
<1> QED  BY <1>2, <1>3 DEF base

LEMMA SimpleFactors == Simple["kg"].factor = Whole(1) /\ Simple["cm"].factor = Whole(1)
  /\ Simple["kg"].of = "weight" /\ Simple["cm"].of = "length" /\ {"kg", "cm"} \subseteq DOMAIN Simple
BY DEF Simple

LEMMA MeasureIs ==
  ASSUME NEW v, NEW u
  PROVE  Measure(v, u).unit = u /\ Measure(v, u).value = v
BY DEF Measure

LEMMA BaseTotal ==
  ASSUME NEW f \in DOMAIN BaseUnit, NEW v
  PROVE  Total(<<Measure(v, BaseUnit[f])>>) = v
<1>1. BaseUnit[f] \in {"kg", "cm"}
  BY MeasuresAre
<1>2. BaseUnit[f] \notin Temperatures /\ Simple[BaseUnit[f]].factor = Whole(1)
  BY <1>1, SimpleFactors DEF Temperatures
<1>3. Normalized(Measure(v, BaseUnit[f])) = v
  BY <1>2, MeasureIs DEF Normalized
<1> QED  BY <1>3, TotalOne

LEMMA CategoryIs ==
  ASSUME NEW v, NEW u \in DOMAIN Simple
  PROVE  Category(Measure(v, u)) = Simple[u].of
<1>1. DOMAIN Simple = {"mm", "cm", "m", "km", "in", "ft", "mi", "mg", "g", "kg", "lb", "ml", "l", "s", "min",
                       "hr", "mmol", "mol"}
  BY DEF Simple
<1>2. u \notin Temperatures
  BY <1>1 DEF Temperatures
<1> QED  BY <1>2, MeasureIs DEF Category

(* The parts of a height that selectHeight looks at. *)
FeetOf(f, input) == {i \in DOMAIN input : f = "height" /\ input[i].unit = "ft"}
KindIn(f, input) == {i \in DOMAIN input : Category(input[i]) = KindOf[f]}
InchesAfter(input, feet) == {i \in DOMAIN input : i > feet /\ input[i].unit = "in"}

(* What Canonical selects of a measure. *)
LEMMA SelectedIs ==
  ASSUME NEW f, NEW input
  PROVE  /\ \A n : First(FeetOf(f, input)) = <<n>> =>
              Selected(f, input) = SelectHeight(input, n)
         /\ \A n : First(FeetOf(f, input)) = << >> /\ First(KindIn(f, input)) = <<n>> =>
              Selected(f, input) = <<input[n]>>
<1>1. Selected(f, input) =
        IF First(FeetOf(f, input)) # << >> THEN SelectHeight(input, First(FeetOf(f, input))[1])
        ELSE IF First(KindIn(f, input)) # << >> THEN <<input[First(KindIn(f, input))[1]]>> ELSE << >>
  BY Zenon DEF Selected, FeetOf, KindIn
<1>2. ASSUME NEW n, First(FeetOf(f, input)) = <<n>> PROVE Selected(f, input) = SelectHeight(input, n)
  <2>1. First(FeetOf(f, input)) # << >> /\ First(FeetOf(f, input))[1] = n
    BY <1>2
  <2> QED  BY <1>1, <2>1
<1>3. ASSUME NEW n, First(FeetOf(f, input)) = << >>, First(KindIn(f, input)) = <<n>>
      PROVE  Selected(f, input) = <<input[n]>>
  <2>1. First(KindIn(f, input)) # << >> /\ First(KindIn(f, input))[1] = n
    BY <1>3
  <2> QED  BY <1>1, <1>3, <2>1
<1> QED  BY <1>2, <1>3

LEMMA SelectHeightIs ==
  ASSUME NEW input, NEW feet
  PROVE  /\ First(InchesAfter(input, feet)) = << >> => SelectHeight(input, feet) = <<input[feet]>>
         /\ \A n : First(InchesAfter(input, feet)) = <<n>> =>
              SelectHeight(input, feet) = <<input[feet], input[n]>>
<1>1. SelectHeight(input, feet) =
        IF First(InchesAfter(input, feet)) = << >> THEN <<input[feet]>>
        ELSE <<input[feet], input[First(InchesAfter(input, feet))[1]]>>
  BY Zenon DEF SelectHeight, InchesAfter
<1>2. ASSUME NEW n, First(InchesAfter(input, feet)) = <<n>>
      PROVE  SelectHeight(input, feet) = <<input[feet], input[n]>>
  <2>1. First(InchesAfter(input, feet)) # << >> /\ First(InchesAfter(input, feet))[1] = n
    BY <1>2
  <2> QED  BY <1>1, <2>1
<1> QED  BY <1>1, <1>2

(* One component of the kind of the field is the whole selection ... *)
LEMMA SelectedOne ==
  ASSUME NEW f \in DOMAIN BaseUnit, NEW c, Category(c) = KindOf[f]
  PROVE  Selected(f, <<c>>) = <<c>>
<1>0. DOMAIN <<c>> = {1} /\ <<c>>[1] = c
  OBVIOUS
<1>1. KindIn(f, <<c>>) = {1} /\ FeetOf(f, <<c>>) \in {{}, {1}} /\ InchesAfter(<<c>>, 1) = {}
  BY <1>0 DEF KindIn, FeetOf, InchesAfter
<1>2. First(KindIn(f, <<c>>)) = <<1>> /\ First(InchesAfter(<<c>>, 1)) = << >>
  BY <1>1, FirstOne, FirstNone
<1>3. CASE FeetOf(f, <<c>>) = {}
  <2>1. First(FeetOf(f, <<c>>)) = << >>
    BY <1>3, FirstNone
  <2>2. Selected(f, <<c>>) = << <<c>>[1] >>
    BY <1>2, <2>1, SelectedIs
  <2> QED  BY <1>0, <2>2
<1>4. CASE FeetOf(f, <<c>>) = {1}
  <2>1. First(FeetOf(f, <<c>>)) = <<1>>
    BY <1>4, FirstOne
  <2>2. Selected(f, <<c>>) = SelectHeight(<<c>>, 1)
    BY <2>1, SelectedIs
  <2>3. SelectHeight(<<c>>, 1) = << <<c>>[1] >>
    BY <1>2, SelectHeightIs
  <2> QED  BY <1>0, <2>2, <2>3
<1> QED  BY <1>1, <1>3, <1>4

(* ... and so are feet and inches. *)
LEMMA SelectedFeetInches ==
  ASSUME NEW v, NEW w
  PROVE  Selected("height", <<Measure(v, "ft"), Measure(w, "in")>>) = <<Measure(v, "ft"), Measure(w, "in")>>
<1> DEFINE m == <<Measure(v, "ft"), Measure(w, "in")>>
<1>0. DOMAIN m = {1, 2} /\ m[1] = Measure(v, "ft") /\ m[2] = Measure(w, "in")
  OBVIOUS
<1> HIDE DEF m
<1>1. m[1].unit = "ft" /\ m[2].unit = "in"
  BY <1>0, MeasureIs
<1>2. FeetOf("height", m) = {1} /\ InchesAfter(m, 1) = {2}
  BY <1>0, <1>1 DEF FeetOf, InchesAfter
<1>3. First(FeetOf("height", m)) = <<1>> /\ First(InchesAfter(m, 1)) = <<2>>
  BY <1>2, FirstOne
<1>4. Selected("height", m) = <<m[1], m[2]>>
  BY <1>3, SelectedIs, SelectHeightIs
<1> QED  BY <1>0, <1>4 DEF m

(* What Canonical makes of a measure. *)
LEMMA CanonicalIs ==
  ASSUME NEW f \in DOMAIN BaseUnit, NEW input
  PROVE  /\ Selected(f, input) = << >> => Canonical(f, input) = <<input>>
         /\ Selected(f, input) # << >> /\ Canonical(f, input) # << >> =>
              LET t == Total(Selected(f, input))
              IN  Canonical(f, input) = << <<Measure(t, BaseUnit[f])>> >> /\ Positive(t)
BY DEF Canonical, Sound

LEMMA BaseIsOfKind ==
  ASSUME NEW f \in DOMAIN BaseUnit, NEW v
  PROVE  Category(Measure(v, BaseUnit[f])) = KindOf[f]
<1>1. BaseUnit[f] \in DOMAIN Simple /\ Simple[BaseUnit[f]].of = KindOf[f]
  BY SimpleFactors, MeasuresAre
<1> QED  BY <1>1, CategoryIs

(* A measure that was made canonical stays as it is. *)
LEMMA BaseStays ==
  ASSUME NEW f \in DOMAIN BaseUnit, NEW v
  PROVE  Canonical(f, <<Measure(v, BaseUnit[f])>>) \in {<< >>, << <<Measure(v, BaseUnit[f])>> >>}
<1> DEFINE c == Measure(v, BaseUnit[f])
<1>1. Selected(f, <<c>>) = <<c>> /\ Total(<<c>>) = v
  BY SelectedOne, BaseIsOfKind, BaseTotal
<1>2. <<c>> # << >>
  BY OneIsSome
<1>3. Canonical(f, <<c>>) # << >> => Canonical(f, <<c>>) = << <<Measure(v, BaseUnit[f])>> >>
  BY <1>1, <1>2, CanonicalIs
<1> QED  BY <1>3

LEMMA CanonicalStays ==
  ASSUME NEW f \in DOMAIN BaseUnit, NEW input, Canonical(f, input) # << >>
  PROVE  Canonical(f, Canonical(f, input)[1]) \in {<< >>, <<Canonical(f, input)[1]>>}
<1>1. CASE Selected(f, input) = << >>
  <2>1. Canonical(f, input) = <<input>>
    BY <1>1, CanonicalIs
  <2>2. Canonical(f, input)[1] = input
    BY <2>1
  <2> QED  BY <2>1, <2>2
<1>2. CASE Selected(f, input) # << >>
  <2> DEFINE t == Total(Selected(f, input))
  <2>1. Canonical(f, input) = << <<Measure(t, BaseUnit[f])>> >>
    BY <1>2, CanonicalIs
  <2> HIDE DEF t
  <2>2. Canonical(f, input)[1] = <<Measure(t, BaseUnit[f])>>
    BY <2>1
  <2>3. Canonical(f, <<Measure(t, BaseUnit[f])>>) \in {<< >>, << <<Measure(t, BaseUnit[f])>> >>}
    BY BaseStays
  <2> QED  BY <2>2, <2>3, Zenon
<1> QED  BY <1>1, <1>2

(* What a text gives as a weight or a height is all selected. *)
LEMMA GivenIsSelected ==
  ASSUME NEW text \in Texts, NEW f \in DOMAIN BaseUnit, PersonRead(text)[f] # << >>
  PROVE  Selected(f, PersonRead(text)[f][1]) = PersonRead(text)[f][1] /\ PersonRead(text)[f][1] # << >>
<1>0. DOMAIN BaseUnit = {"weight", "height"} /\ f \in Person
  BY MeasuresAre DEF Person
<1>1. ASSUME NEW i \in DOMAIN text, Unit(text[i].w) \in UnitsOf(KindOf[f])
      PROVE  Selected(f, <<SaidAt(text, i)>>) = <<SaidAt(text, i)>>
  <2>1. Unit(text[i].w) \in DOMAIN Simple /\ Simple[Unit(text[i].w)].of = KindOf[f]
    BY <1>1 DEF UnitsOf
  <2> QED  BY <2>1, CategoryIs, SelectedOne DEF SaidAt
<1>2. CASE f = "weight"
  <2>1. PersonRead(text)[f] = ParseWeight(text)
    BY <1>2 DEF PersonRead
  <2>2. AmountsIn(text, Measured.weight) # {}
    BY <2>1, WeightIs
  <2>3. PICK i \in AmountsIn(text, Measured.weight) : ParseWeight(text) = << <<SaidAt(text, i)>> >>
    BY <2>2, WeightIs
  <2>4. i \in DOMAIN text /\ Unit(text[i].w) \in UnitsOf(KindOf[f])
    BY <1>2, WeightUnits, MeasuresAre DEF AmountsIn
  <2>5. PersonRead(text)[f][1] = <<SaidAt(text, i)>>
    BY <2>1, <2>3
  <2> QED  BY <1>1, <2>4, <2>5, OneIsSome
<1>3. CASE f = "height"
  <2>0. PersonRead(text)[f] = ParseHeight(text)
    BY <1>3 DEF PersonRead
  <2>1. CASE AmountsIn(text, {"ft"}) # {}
    <3>1. PICK i \in AmountsIn(text, {"ft"}) :
             /\ text[i].w = "ft"
             /\ \/ ParseHeight(text) = << <<Measure(text[i].n[1], "ft"), Measure(text[i + 1].n[1], "in")>> >>
                \/ ParseHeight(text) = << <<Measure(text[i].n[1], "ft")>> >>
      BY <2>1, HeightIs
    <3>2. "ft" \in DOMAIN Simple /\ Simple["ft"].of = KindOf[f]
      BY <1>3, LengthUnits, MeasuresAre DEF UnitsOf
    <3>3. CASE ParseHeight(text) = << <<Measure(text[i].n[1], "ft"), Measure(text[i + 1].n[1], "in")>> >>
      <4>1. PersonRead(text)[f][1] = <<Measure(text[i].n[1], "ft"), Measure(text[i + 1].n[1], "in")>>
        BY <2>0, <3>3
      <4>2. <<Measure(text[i].n[1], "ft"), Measure(text[i + 1].n[1], "in")>> # << >>
        OBVIOUS
      <4> QED  BY <1>3, <4>1, <4>2, SelectedFeetInches
    <3>4. CASE ParseHeight(text) = << <<Measure(text[i].n[1], "ft")>> >>
      <4>1. PersonRead(text)[f][1] = <<Measure(text[i].n[1], "ft")>>
        BY <2>0, <3>4
      <4>2. Category(Measure(text[i].n[1], "ft")) = KindOf[f]
        BY <3>2, CategoryIs
      <4> QED  BY <4>1, <4>2, SelectedOne, OneIsSome
    <3> QED  BY <3>1, <3>3, <3>4
  <2>2. CASE AmountsIn(text, {"ft"}) = {}
    <3>1. AmountsIn(text, Others) # {}
      BY <2>0, <2>2, HeightIs
    <3>2. PICK i \in AmountsIn(text, Others) : ParseHeight(text) = << <<SaidAt(text, i)>> >>
      BY <2>2, <3>1, HeightIs
    <3>3. i \in DOMAIN text /\ Unit(text[i].w) \in UnitsOf(KindOf[f])
      BY <1>3, LengthUnits, MeasuresAre DEF AmountsIn, Others
    <3>4. PersonRead(text)[f][1] = <<SaidAt(text, i)>>
      BY <2>0, <3>2
    <3> QED  BY <1>1, <3>3, <3>4, OneIsSome
  <2> QED  BY <2>1, <2>2
<1> QED  BY <1>0, <1>2, <1>3

---------------------------------------------------------------------------
(* The calculator                                                          *)

(* A known measure is one positive amount in the base unit. *)
LEMMA KnownIs ==
  ASSUME NEW args, NEW f, Known(args, f)
  PROVE  /\ f \in DOMAIN args
         /\ f \in DOMAIN BaseUnit => \E v : args[f] = <<Measure(v, BaseUnit[f])>> /\ Positive(v)
BY DEF Known

LEMMA KnownByValue ==
  ASSUME NEW args, NEW f \in DOMAIN args,
         f \in DOMAIN BaseUnit => \E v : args[f] = <<Measure(v, BaseUnit[f])>> /\ Positive(v)
  PROVE  Known(args, f)
<1>1. CASE f \notin DOMAIN BaseUnit
  BY <1>1 DEF Known
<1>2. CASE f \in DOMAIN BaseUnit
  <2>1. PICK v : args[f] = <<Measure(v, BaseUnit[f])>> /\ Positive(v)
    BY <1>2
  <2>2. args[f][1].value = v
    BY <2>1, MeasureIs
  <2> QED  BY <2>1, <2>2 DEF Known
<1> QED  BY <1>1, <1>2

(* sanitizeCalculatorArgs throws nothing away that was made canonical. *)
LEMMA OfKindOne ==
  ASSUME NEW c, NEW kind, Category(c) = kind
  PROVE  OfKind(<<c>>, kind) = <<c>>
<1>1. \A i \in DOMAIN <<c>> : Category(<<c>>[i]) = kind
  OBVIOUS
<1> QED  BY <1>1, Zenon DEF OfKind

(* sanitizeCalculatorCall leaves known fields alone. *)
LEMMA SanitizeIs ==
  ASSUME NEW args
  PROVE  /\ DOMAIN Sanitize(args) = DOMAIN args
         /\ \A f \in DOMAIN args \ {"weight", "height", "distance"} : Sanitize(args)[f] = args[f]
         /\ \A f \in DOMAIN BaseUnit : Known(args, f) => Sanitize(args)[f] = args[f]
<1> DEFINE kept(f) == IF f \in DOMAIN KindOf THEN OfKind(args[f], KindOf[f]) ELSE args[f]
<1>1. Sanitize(args) = [f \in DOMAIN args |-> kept(f)]
  BY Zenon DEF Sanitize
<1>2. ASSUME NEW f \in DOMAIN args \ {"weight", "height", "distance"} PROVE kept(f) = args[f]
  BY MeasuresAre
<1>3. ASSUME NEW f \in DOMAIN BaseUnit, Known(args, f) PROVE kept(f) = args[f]
  <2>1. PICK v : args[f] = <<Measure(v, BaseUnit[f])>>
    BY <1>3, KnownIs
  <2>2. OfKind(<<Measure(v, BaseUnit[f])>>, KindOf[f]) = <<Measure(v, BaseUnit[f])>>
    BY OfKindOne, BaseIsOfKind
  <2> QED  BY <2>1, <2>2
<1>4. \A f \in DOMAIN BaseUnit : Known(args, f) => f \in DOMAIN args
  BY KnownIs
<1> HIDE DEF kept
<1>5. DOMAIN Sanitize(args) = DOMAIN args /\ \A f \in DOMAIN args : Sanitize(args)[f] = kept(f)
  BY <1>1
<1> QED  BY <1>2, <1>3, <1>4, <1>5

(* What each operation about a person needs. *)
LEMMA AttrsAre ==
  /\ Attrs("bmi") = {"weight", "height"}
  /\ Attrs("bmr") = {"weight", "height", "age_years", "gender"}
  /\ Attrs("tdee") = Person
  /\ \A op : op \notin {"bmi", "bmr", "tdee"} => Attrs(op) = {}
  /\ \A op : Attrs(op) \subseteq Person
BY DEF Attrs, Person

LEMMA StatusIs ==
  /\ \A v : Answer(v).status = "answer" /\ Answer(v).value = v
  /\ \A m : Needs(m).status = "needs_input" /\ Needs(m).missing = m
  /\ Failed.status = "error"
BY DEF Answer, Needs, Failed

LEMMA PositiveKnown ==
  ASSUME NEW args, NEW f \in DOMAIN BaseUnit, Known(args, f)
  PROVE  HasPositive(Sanitize(args), f)
<1>1. PICK v : args[f] = <<Measure(v, BaseUnit[f])>> /\ Positive(v)
  BY KnownIs
<1>2. f \in DOMAIN Sanitize(args) /\ Sanitize(args)[f] = <<Measure(v, BaseUnit[f])>>
  BY <1>1, SanitizeIs, KnownIs
<1>3. Field(Sanitize(args), f) = <<Measure(v, BaseUnit[f])>>
  BY <1>2 DEF Field
<1>4. 1 \in DOMAIN <<Measure(v, BaseUnit[f])>> /\ <<Measure(v, BaseUnit[f])>>[1].value = v
  BY MeasureIs
<1> QED  BY <1>1, <1>2, <1>3, <1>4 DEF HasPositive

LEMMA PositiveGiven ==
  ASSUME NEW args, NEW f, HasPositive(args, f)
  PROVE  f \in DOMAIN args
<1>1. CASE f \notin DOMAIN args
  <2>1. Field(args, f) = << >>
    BY <1>1 DEF Field
  <2> QED  BY <2>1 DEF HasPositive
<1> QED  BY <1>1

(* Of the numbers about a person: what they are computed from, and what     *)
(* they ask for.                                                            *)
PersonalResult(args, op, r) ==
  /\ r.status \in {"answer", "needs_input", "error"}
  /\ r.status = "answer" => Attrs(op) \subseteq DOMAIN args
  /\ r.status = "needs_input" => r.missing \subseteq Attrs(op) /\ \A f \in r.missing : ~Known(args, f)

(* Each of the three operations results in that. *)
LEMMA BMIResult ==
  ASSUME NEW args
  PROVE  PersonalResult(args, "bmi", BMI(Sanitize(args)))
<1> DEFINE s == Sanitize(args)
           missing == {f \in {"weight", "height"} : ~HasPositive(s, f)}
           r == BMI(s)
<1>1. \/ missing # {} /\ r = Needs(missing)
      \/ missing = {} /\ r = Failed
      \/ missing = {} /\ \E v : r = Answer(v)
  BY Zenon DEF BMI
<1>2. \A f \in missing : f \in {"weight", "height"} /\ ~Known(args, f)
  BY PositiveKnown, MeasuresAre
<1>3. missing = {} => {"weight", "height"} \subseteq DOMAIN args
  BY PositiveGiven, SanitizeIs
<1> HIDE DEF missing, r, s
<1>4. PersonalResult(args, "bmi", r)
  BY <1>1, <1>2, <1>3, AttrsAre, StatusIs DEF PersonalResult
<1> QED  BY <1>4 DEF r, s

LEMMA BMRResult ==
  ASSUME NEW args
  PROVE  PersonalResult(args, "bmr", BMR(Sanitize(args)))
<1> DEFINE s == Sanitize(args)
           missing == BMRAsks(s)
           r == BMR(s)
<1>1. \/ missing # {} /\ r = Needs(missing)
      \/ missing = {} /\ r = Failed
      \/ missing = {} /\ \E v : r = Answer(v)
  BY Zenon DEF BMR
<1>2. \A f \in missing : f \in {"weight", "height", "age_years", "gender"} /\ ~Known(args, f)
  <2>1. \A f \in {"weight", "height"} : ~HasPositive(s, f) => ~Known(args, f)
    BY PositiveKnown, MeasuresAre
  <2>2. DOMAIN s = DOMAIN args
    BY SanitizeIs
  <2> HIDE DEF s
  <2> QED  BY <2>1, <2>2, KnownIs DEF BMRAsks
<1>3. missing = {} => {"weight", "height", "age_years", "gender"} \subseteq DOMAIN args
  <2>1. \A f \in {"weight", "height"} : HasPositive(s, f) => f \in DOMAIN s
    BY PositiveGiven
  <2>2. DOMAIN s = DOMAIN args
    BY SanitizeIs
  <2> HIDE DEF s
  <2> QED  BY <2>1, <2>2 DEF BMRAsks
<1> HIDE DEF missing, r, s
<1>4. PersonalResult(args, "bmr", r)
  BY <1>1, <1>2, <1>3, AttrsAre, StatusIs DEF PersonalResult
<1> QED  BY <1>4 DEF r, s

LEMMA TDEEResult ==
  ASSUME NEW args
  PROVE  PersonalResult(args, "tdee", TDEE(Sanitize(args)))
<1> DEFINE s == Sanitize(args)
           bmr == BMR(s)
           r == TDEE(s)
<1>1. PersonalResult(args, "bmr", bmr)
  BY BMRResult
<1>2. DOMAIN s = DOMAIN args
  BY SanitizeIs
<1> HIDE DEF s, bmr
<1>3. \/ bmr.status # "answer" /\ r = bmr
      \/ bmr.status = "answer" /\ "activity_level" \notin DOMAIN args /\ r = Needs({"activity_level"})
      \/ r = Failed
      \/ bmr.status = "answer" /\ "activity_level" \in DOMAIN args /\ \E v : r = Answer(v)
  BY <1>2, Zenon DEF TDEE, Active, bmr
<1> HIDE DEF r
<1>4. Attrs("tdee") = Attrs("bmr") \cup {"activity_level"}
  BY AttrsAre DEF Person
<1>5. "activity_level" \notin DOMAIN args => ~Known(args, "activity_level")
  BY KnownIs
<1>6. PersonalResult(args, "tdee", r)
  BY <1>1, <1>3, <1>4, <1>5, StatusIs DEF PersonalResult
<1> QED  BY <1>6 DEF r, s

LEMMA EvaluateIs == ASSUME NEW tokens PROVE Evaluate(tokens).status \in {"answer", "error"}
<1>1. Evaluate(tokens) = Failed \/ \E v : Evaluate(tokens) = Answer(v)
  BY Zenon DEF Evaluate
<1> QED  BY <1>1, StatusIs

LEMMA CalculateIs ==
  ASSUME NEW args, Attrs(Operation(args)) # {}
  PROVE  PersonalResult(args, Operation(args), Calculate(args))
<1> DEFINE op == Operation(args)
           s == Sanitize(args)
<1>1. op \in {"bmi", "bmr", "tdee"}
  BY AttrsAre
<1>2. "operation" \in DOMAIN args /\ args.operation = op
  BY <1>1 DEF Operation
<1>3. "operation" \in DOMAIN s /\ s.operation = op
  BY <1>2, SanitizeIs
<1>4. PersonalResult(args, op, Failed)
  BY StatusIs DEF PersonalResult
<1>5. PersonalResult(args, "bmi", BMI(s)) /\ PersonalResult(args, "bmr", BMR(s))
        /\ PersonalResult(args, "tdee", TDEE(s))
  BY BMIResult, BMRResult, TDEEResult
<1>6. Calculate(args) = Execute(s)
  BY DEF Calculate
<1> HIDE DEF op, s
<1>7. Execute(s) \in {Failed, BMI(s), BMR(s), TDEE(s)} /\
      (Execute(s) = Failed \/ Execute(s) = IF op = "bmi" THEN BMI(s) ELSE IF op = "bmr" THEN BMR(s) ELSE TDEE(s))
  BY <1>1, <1>3 DEF Execute
<1>8. PersonalResult(args, op, Execute(s))
  BY <1>1, <1>4, <1>5, <1>7
<1> QED  BY <1>6, <1>8 DEF op

---------------------------------------------------------------------------
(* What ResolveCalculatorCall makes of a call                              *)

LEMMA BaseFields == DOMAIN BaseUnit = {"weight", "height"} /\ DOMAIN Measured = DOMAIN BaseUnit
                    /\ DOMAIN BaseUnit \subseteq Person /\ "operation" \notin Person
BY MeasuresAre DEF Person

(* What the text says goes before what the call holds. *)
LEMMA StatedIs ==
  ASSUME NEW args, NEW text
  PROVE  LET patch == HealthPatch(text)
             taken == DOMAIN patch \cap Attrs(Operation(args))
             st    == Stated(args, text)
         IN  /\ DOMAIN st = DOMAIN args \cup taken
             /\ \A f \in taken : st[f] = patch[f]
             /\ \A f \in DOMAIN args \ taken : st[f] = args[f]
             /\ Operation(st) = Operation(args)
<1> DEFINE patch == HealthPatch(text)
           taken == DOMAIN patch \cap Attrs(Operation(args))
           said == [f \in taken |-> patch[f]]
           st == Stated(args, text)
<1>1. st = said ++ args
  BY Zenon DEF Stated
<1>2. DOMAIN said = taken /\ \A f \in taken : said[f] = patch[f]
  OBVIOUS
<1>3. /\ DOMAIN st = DOMAIN said \cup DOMAIN args
      /\ \A x \in DOMAIN said : st[x] = said[x]
      /\ \A x \in DOMAIN args \ DOMAIN said : st[x] = args[x]
  <2> HIDE DEF said, st
  <2>1. /\ DOMAIN (said ++ args) = DOMAIN said \cup DOMAIN args
        /\ \A x \in DOMAIN said : (said ++ args)[x] = said[x]
        /\ \A x \in DOMAIN args \ DOMAIN said : (said ++ args)[x] = args[x]
    BY OrElse
  <2> QED  BY <1>1, <2>1, Zenon
<1>4. "operation" \notin taken
  BY AttrsAre, BaseFields
<1> HIDE DEF taken, said, st
<1>5. DOMAIN st = DOMAIN args \cup taken /\ (\A f \in taken : st[f] = patch[f])
        /\ (\A f \in DOMAIN args \ taken : st[f] = args[f])
  BY <1>2, <1>3
<1>6. Operation(st) = Operation(args)
  BY <1>4, <1>5 DEF Operation
<1> QED  BY <1>5, <1>6 DEF taken, st

(* Every measure of a person is brought to its base unit, or the call is   *)
(* refused.                                                                *)
LEMMA CanonicalizeIs ==
  ASSUME NEW args, Canonicalize(args) # << >>
  PROVE  \E out :
            /\ Canonicalize(args) = <<out>>
            /\ DOMAIN out = DOMAIN args
            /\ \A f \in DOMAIN args \ DOMAIN BaseUnit : out[f] = args[f]
            /\ \A f \in DOMAIN args \cap DOMAIN BaseUnit :
                 Canonical(f, args[f]) # << >> /\ out[f] = Canonical(f, args[f])[1]
<1> DEFINE fields == {"weight", "height"} \cap DOMAIN args
           measures == [f \in fields |-> Canonical(f, args[f])]
           firsts == [f \in DOMAIN measures |-> measures[f][1]]
           out == firsts ++ args
<1>1. Canonicalize(args) = IF \E f \in DOMAIN measures : measures[f] = << >> THEN << >> ELSE <<out>>
  BY Zenon DEF Canonicalize
<1>2. DOMAIN measures = fields /\ \A f \in fields : measures[f] = Canonical(f, args[f])
  OBVIOUS
<1>3. Canonicalize(args) = <<out>> /\ \A f \in fields : measures[f] # << >>
  <2> HIDE DEF out
  <2> QED  BY <1>1, <1>2
<1>4. DOMAIN firsts = fields /\ \A f \in fields : firsts[f] = Canonical(f, args[f])[1]
  BY <1>2
<1>5. /\ DOMAIN out = DOMAIN firsts \cup DOMAIN args
      /\ \A x \in DOMAIN firsts : out[x] = firsts[x]
      /\ \A x \in DOMAIN args \ DOMAIN firsts : out[x] = args[x]
  <2> HIDE DEF firsts
  <2> QED  BY OrElse
<1>6. fields = DOMAIN args \cap DOMAIN BaseUnit
  BY BaseFields
<1> HIDE DEF measures, firsts, out
<1>7. DOMAIN out = DOMAIN args /\ (\A f \in DOMAIN args \ DOMAIN BaseUnit : out[f] = args[f])
        /\ \A f \in DOMAIN args \cap DOMAIN BaseUnit :
             Canonical(f, args[f]) # << >> /\ out[f] = Canonical(f, args[f])[1]
  <2> HIDE DEF fields
  <2> QED  BY <1>2, <1>3, <1>4, <1>5, <1>6
<1> QED  BY <1>3, <1>7

(* Bringing a call to base units twice is the same as once. *)
LEMMA CanonicalizeSettles ==
  ASSUME NEW args, NEW out, DOMAIN out = DOMAIN args,
         \A f \in DOMAIN args \cap DOMAIN BaseUnit :
           Canonical(f, args[f]) # << >> /\ out[f] = Canonical(f, args[f])[1]
  PROVE  Settled(out)
<1> SUFFICES ASSUME NEW f \in DOMAIN BaseUnit \cap DOMAIN out
             PROVE  Canonical(f, out[f]) \in {<< >>, <<out[f]>>}
  BY DEF Settled
<1> QED  BY CanonicalStays

(* ResolveCalculatorCall, for a number about a person. *)
Resolved(args, text, out) ==
  LET attrs == Attrs(Operation(args))
  IN  /\ Operation(out) = Operation(args)
      /\ Settled(out)
      /\ \A f \in attrs : f \in DOMAIN out <=> f \in DOMAIN args \/ Gives(text, f)
      /\ \A f \in attrs : Gives(text, f) =>
           /\ Known(out, f)
           /\ IF f \in DOMAIN BaseUnit THEN Total(out[f]) = Total(PersonRead(text)[f][1])
              ELSE out[f] = PersonRead(text)[f][1]
      /\ \A f \in attrs \cap DOMAIN args : ~Gives(text, f) =>
           IF f \in DOMAIN BaseUnit
           THEN Canonical(f, args[f]) # << >> /\ out[f] = Canonical(f, args[f])[1]
           ELSE out[f] = args[f]

(* It is that call. *)
LEMMA ResolveIs ==
  ASSUME NEW args, NEW text \in Texts, Attrs(Operation(args)) # {}, Resolve(args, text) # << >>
  PROVE  \E out : Resolve(args, text) = <<out>> /\ Resolved(args, text, out)
<1> DEFINE op == Operation(args)
           patch == HealthPatch(text)
           st == Stated(args, text)
<1>1. op \in {"bmi", "bmr", "tdee"}
  BY AttrsAre
<1>2. Resolve(args, text) = Canonicalize(st)
  BY <1>1, Zenon DEF Resolve
<1>3. PICK out :
         /\ Canonicalize(st) = <<out>>
         /\ DOMAIN out = DOMAIN st
         /\ \A f \in DOMAIN st \ DOMAIN BaseUnit : out[f] = st[f]
         /\ \A f \in DOMAIN st \cap DOMAIN BaseUnit :
              Canonical(f, st[f]) # << >> /\ out[f] = Canonical(f, st[f])[1]
  BY <1>2, CanonicalizeIs
<1>4. Settled(out)
  BY <1>3, CanonicalizeSettles
<1>5. /\ DOMAIN st = DOMAIN args \cup (DOMAIN patch \cap Attrs(op))
      /\ \A f \in DOMAIN patch \cap Attrs(op) : st[f] = patch[f]
      /\ \A f \in DOMAIN args \ (DOMAIN patch \cap Attrs(op)) : st[f] = args[f]
      /\ Operation(st) = op
  BY StatedIs
<1>6. /\ \A f \in Person : f \in DOMAIN patch <=> Gives(text, f)
      /\ \A f \in DOMAIN patch : patch[f] = PersonRead(text)[f][1]
  BY PatchIsGiven, PatchIs
<1>7. Attrs(op) \subseteq Person
  BY AttrsAre
<1> HIDE DEF op, patch, st
<1>8. Operation(out) = op
  BY <1>3, <1>5, BaseFields DEF Operation
<1>9. ASSUME NEW f \in Attrs(op)
      PROVE  f \in DOMAIN out <=> f \in DOMAIN args \/ Gives(text, f)
  BY <1>3, <1>5, <1>6, <1>7
<1>10. ASSUME NEW f \in Attrs(op), Gives(text, f)
       PROVE  /\ Known(out, f)
              /\ IF f \in DOMAIN BaseUnit THEN Total(out[f]) = Total(PersonRead(text)[f][1])
                 ELSE out[f] = PersonRead(text)[f][1]
  <2>1. f \in DOMAIN out /\ f \in DOMAIN st /\ st[f] = PersonRead(text)[f][1]
    BY <1>3, <1>5, <1>6, <1>7, <1>10
  <2>2. CASE f \notin DOMAIN BaseUnit
    <3>1. Known(out, f)
      BY <2>1, <2>2, KnownByValue
    <3> QED  BY <1>3, <2>1, <2>2, <3>1
  <2>3. CASE f \in DOMAIN BaseUnit
    <3> DEFINE given == PersonRead(text)[f][1]
               t == Total(Selected(f, given))
    <3>1. Selected(f, given) = given /\ given # << >>
      BY <1>7, <1>10, <2>3, ReadIsGiven, GivenIsSelected
    <3>2. Canonical(f, given) # << >> /\ out[f] = Canonical(f, given)[1]
      BY <1>3, <2>1, <2>3
    <3>3. Canonical(f, given) = << <<Measure(t, BaseUnit[f])>> >> /\ Positive(t)
      BY <2>3, <3>1, <3>2, CanonicalIs
    <3>4. t = Total(given)
      BY <3>1
    <3> HIDE DEF t, given
    <3>5. out[f] = <<Measure(t, BaseUnit[f])>>
      BY <3>2, <3>3
    <3>6. Known(out, f)
      BY <2>1, <3>3, <3>5, KnownByValue
    <3>7. Total(out[f]) = t
      BY <2>3, <3>5, BaseTotal
    <3> QED  BY <2>3, <3>4, <3>6, <3>7 DEF given
  <2> QED  BY <2>2, <2>3
<1>11. ASSUME NEW f \in Attrs(op) \cap DOMAIN args, ~Gives(text, f)
       PROVE  IF f \in DOMAIN BaseUnit
              THEN Canonical(f, args[f]) # << >> /\ out[f] = Canonical(f, args[f])[1]
              ELSE out[f] = args[f]
  <2>1. f \in DOMAIN st /\ st[f] = args[f]
    BY <1>5, <1>6, <1>7, <1>11
  <2> QED  BY <1>3, <2>1
<1>12. Resolved(args, text, out)
  BY <1>4, <1>8, <1>9, <1>10, <1>11 DEF Resolved, op
<1> QED  BY <1>2, <1>3, <1>12

LEMMA NotArg ==
  ASSUME NEW field, NEW found, NEW other, other # field
  PROVE  other \notin DOMAIN Arg(field, found)
<1>1. DOMAIN Arg(field, found) \subseteq {field}
  BY ArgIs
<1> QED  BY <1>1

LEMMA ConvertFieldsOnly == ASSUME NEW text PROVE "operation" \notin DOMAIN ConvertUpdate(text)
<1> DEFINE measure == ParseMeasure(text)
           value == ParseValueUnit(text)
           given == IF measure # << >> THEN Arg("input", measure) ELSE IF value # << >> THEN value[1] ELSE NoArgs
<1>1. ConvertUpdate(text) = Arg("to_unit", ParseTarget(text)) ++ given
  BY Zenon DEF ConvertUpdate
<1>2. "operation" \notin DOMAIN Arg("to_unit", ParseTarget(text)) /\ "operation" \notin DOMAIN Arg("input", measure)
  BY NotArg
<1>3. value # << >> => \E v, u : value[1] = [value |-> v, from_unit |-> u]
  <2>1. value = << >> \/ \E v, u : value = <<[value |-> v, from_unit |-> u]>>
    BY Zenon DEF ParseValueUnit
  <2> HIDE DEF value
  <2>2. ASSUME value # << >> PROVE \E v, u : value[1] = [value |-> v, from_unit |-> u]
    <3>1. PICK v, u : value = <<[value |-> v, from_unit |-> u]>>
      BY <2>1, <2>2
    <3>2. value[1] = [value |-> v, from_unit |-> u]
      BY <3>1
    <3> QED  BY <3>2, Zenon
  <2> QED  BY <2>2
<1>4. DOMAIN NoArgs = {}
  BY DEF NoArgs
<1> HIDE DEF measure, value
<1>5. "operation" \notin DOMAIN given
  BY <1>2, <1>3, <1>4
<1> HIDE DEF given
<1>6. DOMAIN (Arg("to_unit", ParseTarget(text)) ++ given) = DOMAIN Arg("to_unit", ParseTarget(text)) \cup DOMAIN given
  BY OrElse
<1> QED  BY <1>1, <1>2, <1>5, <1>6

(* Whatever the operation, a call keeps it. *)
LEMMA ResolveKeeps ==
  ASSUME NEW args, NEW text \in Texts, Resolve(args, text) # << >>
  PROVE  \E out : Resolve(args, text) = <<out>> /\ Operation(out) = Operation(args)
<1>1. CASE Operation(args) = "convert"
  <2>1. Resolve(args, text) = <<args ++ ConvertUpdate(text)>>
    BY <1>1 DEF Resolve
  <2>2. "operation" \in DOMAIN args
    BY <1>1 DEF Operation
  <2>3. "operation" \in DOMAIN (args ++ ConvertUpdate(text))
          /\ (args ++ ConvertUpdate(text))["operation"] = args["operation"]
    BY <2>2, OrElse
  <2>4. Operation(args ++ ConvertUpdate(text)) = Operation(args)
    BY <2>2, <2>3 DEF Operation
  <2> QED  BY <2>1, <2>4
<1>2. CASE Operation(args) # "convert" /\ Attrs(Operation(args)) = {}
  BY <1>2 DEF Resolve
<1>3. CASE Attrs(Operation(args)) # {}
  BY <1>3, ResolveIs DEF Resolved
<1> QED  BY <1>1, <1>2, <1>3

---------------------------------------------------------------------------
(* Answers to a question, and the grounding of a call                      *)

LEMMA RangeOne == ASSUME NEW x PROVE Range(<<x>>) = {x}
<1>1. DOMAIN <<x>> = {1} /\ <<x>>[1] = x
  OBVIOUS
<1> QED  BY <1>1 DEF Range

LEMMA RangeNone == Range(<< >>) = {}
<1>1. DOMAIN << >> = {}
  OBVIOUS
<1> QED  BY <1>1 DEF Range

(* mergePendingArgs, from what was taken of an update. *)
MergedFrom(p, update) ==
  [operation |-> Operation(p.args)]
    ++ [f \in DOMAIN update \cap Allowed(p) |-> update[f]] ++ p.args

LEMMA MergedFromIs ==
  ASSUME NEW p, NEW update
  PROVE  LET m == MergedFrom(p, update)
         IN  /\ Operation(m) = Operation(p.args)
             /\ DOMAIN m = {"operation"} \cup (DOMAIN update \cap Allowed(p)) \cup DOMAIN p.args
             /\ \A f \in DOMAIN p.args \ ({"operation"} \cup (DOMAIN update \cap Allowed(p))) : m[f] = p.args[f]
<1> DEFINE taken == [f \in DOMAIN update \cap Allowed(p) |-> update[f]]
           named == [operation |-> Operation(p.args)]
           first == named ++ taken
           m == first ++ p.args
<1>1. MergedFrom(p, update) = m
  BY DEF MergedFrom
<1>2. DOMAIN taken = DOMAIN update \cap Allowed(p) /\ DOMAIN named = {"operation"}
        /\ named["operation"] = Operation(p.args)
  OBVIOUS
<1> HIDE DEF taken, named
<1>3. DOMAIN first = DOMAIN named \cup DOMAIN taken /\ (\A f \in DOMAIN named : first[f] = named[f])
  BY OrElse
<1> HIDE DEF first
<1>4. /\ DOMAIN m = DOMAIN first \cup DOMAIN p.args /\ (\A f \in DOMAIN first : m[f] = first[f])
      /\ \A f \in DOMAIN p.args \ DOMAIN first : m[f] = p.args[f]
  BY OrElse
<1> HIDE DEF m
<1>5. "operation" \in DOMAIN m /\ m["operation"] = Operation(p.args)
  BY <1>2, <1>3, <1>4
<1>6. Operation(m) = Operation(p.args)
  BY <1>5 DEF Operation
<1> QED  BY <1>1, <1>2, <1>3, <1>4, <1>6

(* mergePendingArgs keeps the operation of the question. *)
LEMMA MergeIs ==
  ASSUME NEW p, p.tool = "calculator", Operation(p.args) # "", NEW update
  PROVE  /\ \A m \in Range(MergeArgs(p, update)) : \E u : m = MergedFrom(p, u)
         /\ Operation(update) = "" => MergeArgs(p, update) = <<MergedFrom(p, update)>>
<1> DEFINE op == Operation(p.args)
           agrees == op = "" \/ Operation(update) \in {"", op}
           chosen == IF agrees THEN <<update>> ELSE Coerced(p, update)
           merged(u) == [operation |-> op] ++ [f \in DOMAIN u \cap Allowed(p) |-> u[f]] ++ p.args
<1>0. \A u : merged(u) = MergedFrom(p, u)
  BY DEF MergedFrom
<1>1. MergeArgs(p, update) = IF chosen = << >> THEN << >> ELSE <<merged(chosen[1])>>
  BY Zenon DEF MergeArgs
<1>2. MergeArgs(p, update) = IF chosen = << >> THEN << >> ELSE <<MergedFrom(p, chosen[1])>>
  <2> HIDE DEF chosen, merged
  <2> QED  BY <1>0, <1>1
<1>3. ASSUME NEW m \in Range(MergeArgs(p, update)) PROVE \E u : m = MergedFrom(p, u)
  <2> HIDE DEF chosen
  <2>1. CASE chosen = << >>
    <3>1. MergeArgs(p, update) = << >>
      BY <1>2, <2>1
    <3>2. Range(MergeArgs(p, update)) = {}
      BY <3>1, RangeNone
    <3> QED  BY <3>2
  <2>2. CASE chosen # << >>
    <3>1. MergeArgs(p, update) = <<MergedFrom(p, chosen[1])>>
      BY <1>2, <2>2
    <3>2. Range(MergeArgs(p, update)) = {MergedFrom(p, chosen[1])}
      BY <3>1, RangeOne
    <3> QED  BY <3>2
  <2> QED  BY <2>1, <2>2
<1>4. ASSUME Operation(update) = "" PROVE MergeArgs(p, update) = <<MergedFrom(p, update)>>
  <2>1. chosen = <<update>>
    BY <1>4
  <2> HIDE DEF chosen
  <2>2. chosen # << >> /\ chosen[1] = update
    BY <2>1
  <2> QED  BY <1>2, <2>2
<1> QED  BY <1>3, <1>4

(* A question about a person takes what it misses and nothing else. *)
LEMMA AllowedIs ==
  ASSUME NEW p, Attrs(Operation(p.args)) # {}
  PROVE  Allowed(p) = p.missing \cup {"operation"}
<1>1. Operation(p.args) # "convert"
  BY AttrsAre
<1> QED  BY <1>1 DEF Allowed

(* What a merge leaves of the call, for a number about a person. *)
LEMMA MergeKeeps ==
  ASSUME NEW p, NEW u, Attrs(Operation(p.args)) # {}
  PROVE  LET m == MergedFrom(p, u)
             attrs == Attrs(Operation(p.args))
         IN  /\ Operation(m) = Operation(p.args)
             /\ \A f \in (attrs \cap DOMAIN p.args) \ p.missing : f \in DOMAIN m /\ m[f] = p.args[f]
             /\ \A f \in attrs \cap DOMAIN m : f \in DOMAIN p.args \/ f \in DOMAIN u \cap p.missing
<1>1. Attrs(Operation(p.args)) \subseteq Person /\ "operation" \notin Person
  BY AttrsAre, BaseFields
<1> DEFINE m == MergedFrom(p, u)
           attrs == Attrs(Operation(p.args))
<1>2. Allowed(p) = p.missing \cup {"operation"}
  BY AllowedIs
<1>3. /\ Operation(m) = Operation(p.args)
      /\ DOMAIN m = {"operation"} \cup (DOMAIN u \cap Allowed(p)) \cup DOMAIN p.args
      /\ \A f \in DOMAIN p.args \ ({"operation"} \cup (DOMAIN u \cap Allowed(p))) : m[f] = p.args[f]
  BY MergedFromIs
<1>4. "operation" \notin attrs
  BY <1>1
<1> HIDE DEF m, attrs
<1>5. \A f \in (attrs \cap DOMAIN p.args) \ p.missing : f \in DOMAIN m /\ m[f] = p.args[f]
  BY <1>2, <1>3, <1>4
<1>6. \A f \in attrs \cap DOMAIN m : f \in DOMAIN p.args \/ f \in DOMAIN u \cap p.missing
  BY <1>2, <1>3, <1>4
<1> QED  BY <1>3, <1>5, <1>6 DEF m, attrs

(* What a reply answers it shows. *)
LEMMA AnswerShows ==
  ASSUME NEW reply \in Texts, NEW alone \in BOOLEAN, NEW f \in Person, FieldAnswer(f, reply, alone) # << >>
  PROVE  Shows(reply, f)
<1>1. CASE f = "age_years"
  <2>1. ParseAge(reply, alone) # << >>
    BY <1>1 DEF FieldAnswer
  <2>2. AgesIn(reply) # {} \/ (Len(reply) = 1 /\ Bare(reply[1]))
    BY <2>1, AgeIs
  <2> QED  BY <1>1, <2>2, MentionsOf DEF Shows
<1>2. CASE f # "age_years"
  <2>1. FieldAnswer(f, reply, alone) = PersonRead(reply)[f]
    <3>1. f = "weight" => FieldAnswer(f, reply, alone) = ParseWeight(reply)
      BY DEF FieldAnswer
    <3>2. f = "height" => FieldAnswer(f, reply, alone) = ParseHeight(reply)
      BY DEF FieldAnswer
    <3>3. f = "gender" => FieldAnswer(f, reply, alone) = ParseGender(reply)
      BY DEF FieldAnswer
    <3>4. f = "activity_level" => FieldAnswer(f, reply, alone) = ParseActivity(reply)
      BY DEF FieldAnswer
    <3> QED  BY <1>2, <3>1, <3>2, <3>3, <3>4 DEF Person, PersonRead
  <2>2. Mentions(reply, f)
    BY <2>1, ReadIsGiven
  <2> QED  BY <2>2 DEF Shows
<1> QED  BY <1>1, <1>2

(* What fills a question without the model is what the reply shows. *)
LEMMA FillIs ==
  ASSUME NEW p, NEW reply \in Texts
  PROVE  /\ Operation(FillUpdate(p, reply)) = ""
         /\ Attrs(Operation(p.args)) # {} =>
              \A f \in DOMAIN FillUpdate(p, reply) \cap Person : Shows(reply, f)
<1> DEFINE alone == Cardinality(p.missing) = 1
           answers == [f \in p.missing |-> FieldAnswer(f, reply, alone)]
           said == [f \in {g \in DOMAIN answers : answers[g] # << >>} |-> answers[f][1]]
           converted == IF Operation(p.args) = "convert" THEN ConvertUpdate(reply) ELSE NoArgs
<1>1. FillUpdate(p, reply) = said ++ converted
  BY Zenon DEF FillUpdate
<1>2. alone \in BOOLEAN
  OBVIOUS
<1> HIDE DEF alone
<1>3. DOMAIN said = {g \in p.missing : FieldAnswer(g, reply, alone) # << >>}
  OBVIOUS
<1>4. FieldAnswer("operation", reply, alone) = << >>
  BY DEF FieldAnswer
<1>5. "operation" \notin DOMAIN converted
  BY ConvertFieldsOnly DEF NoArgs
<1>6. Attrs(Operation(p.args)) # {} => DOMAIN converted = {}
  BY AttrsAre DEF NoArgs
<1> HIDE DEF said, converted
<1>7. DOMAIN (said ++ converted) = DOMAIN said \cup DOMAIN converted
  BY OrElse
<1>8. DOMAIN FillUpdate(p, reply) = DOMAIN said \cup DOMAIN converted
  BY <1>1, <1>7
<1>9. "operation" \notin DOMAIN FillUpdate(p, reply)
  BY <1>3, <1>4, <1>5, <1>8
<1>10. Operation(FillUpdate(p, reply)) = ""
  BY <1>9 DEF Operation
<1>11. ASSUME Attrs(Operation(p.args)) # {}, NEW f \in DOMAIN FillUpdate(p, reply) \cap Person
       PROVE  Shows(reply, f)
  BY <1>2, <1>3, <1>6, <1>8, <1>11, AnswerShows
<1> QED  BY <1>10, <1>11

(* What formatTurns keeps of a text. *)
Cut(text) == IF Len(text) <= MaxPrompt THEN text ELSE SubSeq(text, 1, MaxPrompt)

(* A message is cut to its first tokens in the prompt. *)
LEMMA CutIs ==
  ASSUME NEW text \in Texts
  PROVE  \E n \in Nat : /\ n <= Len(text) /\ DOMAIN Cut(text) = 1 .. n
                        /\ \A i \in 1 .. n : Cut(text)[i] = text[i]
<1>1. MaxPrompt \in Nat \ {0}
  BY ContextIsBounded
<1>2. text \in Seq(Token) /\ Len(text) \in Nat /\ DOMAIN text = 1 .. Len(text)
  BY DEF Texts
<1>3. CASE Len(text) <= MaxPrompt
  <2>1. Cut(text) = text
    BY <1>3 DEF Cut
  <2>2. Len(text) <= Len(text) /\ DOMAIN Cut(text) = 1 .. Len(text)
    BY <1>2, <2>1
  <2> QED  BY <1>2, <2>1, <2>2
<1>4. CASE ~(Len(text) <= MaxPrompt)
  <2>1. Cut(text) = SubSeq(text, 1, MaxPrompt)
    BY <1>4 DEF Cut
  <2>2. DOMAIN SubSeq(text, 1, MaxPrompt) = 1 .. MaxPrompt
          /\ \A i \in 1 .. MaxPrompt : SubSeq(text, 1, MaxPrompt)[i] = text[i]
    BY <1>1, <1>2, <1>4
  <2> QED  BY <1>1, <1>2, <1>4, <2>1, <2>2
<1> QED  BY <1>3, <1>4

(* Evidence in a cut message is a mention in the whole one. *)
LEMMA EvidenceMentions ==
  ASSUME NEW text \in Texts, NEW f \in Person, Evidence(Cut(text), f)
  PROVE  Mentions(text, f)
<1> DEFINE k == Cut(text)
<1>1. PICK n \in Nat : n <= Len(text) /\ DOMAIN k = 1 .. n /\ \A i \in 1 .. n : k[i] = text[i]
  BY CutIs
<1>2. DOMAIN text = 1 .. Len(text) /\ Len(text) \in Nat
  BY DEF Texts
<1> HIDE DEF k
<1>3. DOMAIN k \subseteq DOMAIN text /\ (\A i \in DOMAIN k : k[i] = text[i])
        /\ \A i \in DOMAIN k : i > 1 => i - 1 \in DOMAIN k
  BY <1>1, <1>2
<1>4. ASSUME NEW units, ShowsAmount(k, units) PROVE AmountsIn(text, units) # {}
  BY <1>3, <1>4 DEF ShowsAmount, AmountsIn
<1>5. Words(k) \subseteq Words(text)
  BY <1>3 DEF Words
<1>6. CASE f = "weight"
  <2>1. ShowsAmount(k, {"kg", "g", "lb"})
    BY <1>6, Zenon DEF Evidence, k
  <2>2. AmountsIn(text, {"kg", "g", "lb"}) \subseteq AmountsIn(text, UnitsOf("weight"))
    BY WeightUnits DEF AmountsIn
  <2> QED  BY <1>4, <1>6, <2>1, <2>2, MentionsOf
<1>7. CASE f = "height"
  <2>1. ShowsAmount(k, {"ft", "in", "mm", "cm", "m"})
    BY <1>7 DEF Evidence, k
  <2>2. AmountsIn(text, {"ft", "in", "mm", "cm", "m"}) \subseteq AmountsIn(text, UnitsOf("length"))
    BY LengthUnits DEF AmountsIn
  <2> QED  BY <1>4, <1>7, <2>1, <2>2, MentionsOf
<1>8. CASE f = "age_years"
  <2>1. \E i \in DOMAIN k : k[i].n # << >> /\ (k[i].w = "years" \/ (i > 1 /\ k[i - 1].w = "age"))
    BY <1>8 DEF Evidence, k
  <2>2. PICK i \in DOMAIN k : k[i].n # << >> /\ (k[i].w = "years" \/ (i > 1 /\ k[i - 1].w = "age"))
    BY <2>1
  <2>3. i \in AgesIn(text)
    BY <1>3, <2>2 DEF AgesIn
  <2> QED  BY <1>8, <2>3, MentionsOf
<1>9. CASE f = "gender"
  <2>1. Says(k, {"male", "female", "man", "woman"})
    BY <1>9 DEF Evidence, k
  <2>2. Says(text, {"male", "female", "man", "woman"})
    BY <1>5, <2>1 DEF Says
  <2> QED  BY <1>9, <2>2, MentionsOf
<1>10. CASE f = "activity_level"
  <2>1. \E i \in DOMAIN ActivityLevels : ActivityLevels[i] \in Words(k)
    BY <1>10 DEF Evidence, k
  <2>2. \E i \in DOMAIN ActivityLevels : ActivityLevels[i] \in Words(text)
    BY <1>5, <2>1
  <2>3. ParseActivity(text) # << >>
    <3>1. DOMAIN ActivityLevels \subseteq Nat
      BY DEF ActivityLevels
    <3>2. \E i \in DOMAIN ActivityLevels : FirstSaid(text, ActivityLevels) = <<ActivityLevels[i]>>
      BY <2>2, <3>1, FirstSaidIs
    <3> QED  BY <3>2 DEF ParseActivity
  <2> QED  BY <1>10, <2>3, ActivityIs, MentionsOf
<1> QED  BY <1>6, <1>7, <1>8, <1>9, <1>10 DEF Person

(* The context holds messages of the user only. *)
LEMMA BuildOfUsers ==
  ASSUME NEW all, NEW i \in Build(all)
  PROVE  i \in DOMAIN all /\ all[i].role = "user"
<1> DEFINE recent == {j \in DOMAIN all : all[j].role = "user" /\ j > Len(all) - MaxMessages}
<1>1. i \in recent
  BY DEF Build
<1> QED  BY <1>1

(* So the evidence is what was heard. *)
LEMMA EvidenceHeard ==
  ASSUME NEW all \in Seq(Message), NEW t \in UserEvidence(all)
  PROVE  \E i \in DOMAIN all : all[i].role = "user" /\ t = Cut(all[i].text) /\ all[i].text \in Texts
<1>1. PICK i \in Build(all) : t = Cut(all[i].text)
  BY DEF UserEvidence, Cut
<1>2. i \in DOMAIN all /\ all[i].role = "user"
  BY BuildOfUsers
<1>3. all[i] \in Message
  BY <1>2
<1>4. all[i].text \in Texts
  BY <1>3 DEF Message
<1> QED  BY <1>1, <1>2, <1>4

(* GroundCall leaves of a call what there is evidence of. *)
LEMMA GroundIs ==
  ASSUME NEW call, NEW evidence, IsCall(call), call.tool = "calculator"
  PROVE  LET args == Ground(call, evidence).args
         IN  /\ Operation(args) = Operation(call.args)
             /\ \A f \in Attrs(Operation(args)) \cap DOMAIN args : \E t \in evidence : Evidence(t, f)
<1> DEFINE out == {a \in Attrs(Operation(call.args)) : \A t \in evidence : ~Evidence(t, a)}
           kept == [f \in DOMAIN call.args \ out |-> call.args[f]]
<1>1. Ground(call, evidence) = [call EXCEPT !.args = kept]
  BY DEF Ground, Without
<1>2. Ground(call, evidence).args = kept
  <2> HIDE DEF kept
  <2> QED  BY <1>1 DEF IsCall
<1>3. "operation" \notin out
  BY AttrsAre, BaseFields
<1>4. DOMAIN kept = DOMAIN call.args \ out /\ \A f \in DOMAIN kept : kept[f] = call.args[f]
  OBVIOUS
<1> HIDE DEF kept
<1>5. Operation(kept) = Operation(call.args)
  <2> HIDE DEF out
  <2> QED  BY <1>3, <1>4 DEF Operation
<1> QED  BY <1>2, <1>4, <1>5

---------------------------------------------------------------------------
(* Every call of the calculator names an operation                         *)

(* A call names the operation op. *)
HasOp(args, op) == "operation" \in DOMAIN args /\ args["operation"] = op

LEMMA HasOpIs ==
  ASSUME NEW args, NEW op, HasOp(args, op)
  PROVE  Operation(args) = op
BY DEF HasOp, Operation

LEMMA OpFirst ==
  ASSUME NEW f, NEW g, NEW op, HasOp(f, op)
  PROVE  HasOp(f ++ g, op)
BY OrElse DEF HasOp

LEMMA OpSecond ==
  ASSUME NEW f, NEW g, NEW op, "operation" \notin DOMAIN f, HasOp(g, op)
  PROVE  HasOp(f ++ g, op)
<1>1. "operation" \in DOMAIN g \ DOMAIN f /\ g["operation"] = op
  BY DEF HasOp
<1>2. "operation" \in DOMAIN (f ++ g) /\ (f ++ g)["operation"] = g["operation"]
  BY <1>1 DEF ++
<1> QED  BY <1>1, <1>2 DEF HasOp

LEMMA InNeither ==
  ASSUME NEW f, NEW g, NEW x, x \notin DOMAIN f, x \notin DOMAIN g
  PROVE  x \notin DOMAIN (f ++ g)
BY OrElse

LEMMA OpOnly == ASSUME NEW op PROVE HasOp([operation |-> op], op)
BY DEF HasOp

LEMMA CalculatorArgsNamed == ASSUME NEW text, NEW op PROVE HasOp(CalculatorArgs(text, op), op)
<1> DEFINE converted == IF op = "convert" THEN ConvertUpdate(text) ELSE NoArgs
<1>1. CalculatorArgs(text, op) = [operation |-> op] ++ HealthPatch(text) ++ converted
  BY DEF CalculatorArgs
<1> HIDE DEF converted
<1>2. HasOp([operation |-> op] ++ HealthPatch(text), op)
  BY OpOnly, OpFirst
<1>3. HasOp([operation |-> op] ++ HealthPatch(text) ++ converted, op)
  BY <1>2, OpFirst
<1> QED  BY <1>1, <1>3

LEMMA PartNamed ==
  ASSUME NEW args, NEW op, HasOp(args, op)
  PROVE  HasOp(Part(args, {"operation"}), op)
BY DEF HasOp, Part

LEMMA OfPersonNamed ==
  ASSUME NEW said, NEW made, NEW op, HasOp(said, op), NEW args \in OfPerson(said, made)
  PROVE  HasOp(args, op)
<1> DEFINE named == Part(said, {"operation"})
<1>1. \/ args = named
      \/ args = said ++ made
      \/ args = named ++ made ++ said
      \/ \E before \in Earlier : args = said ++ before
  BY Zenon DEF OfPerson
<1>2. HasOp(named, op)
  BY PartNamed
<1> HIDE DEF named
<1>3. HasOp(said ++ made, op) /\ HasOp(named ++ made, op)
  BY <1>2, OpFirst
<1>4. HasOp(named ++ made ++ said, op)
  BY <1>3, OpFirst
<1>5. \A before : HasOp(said ++ before, op)
  BY OpFirst
<1> QED  BY <1>1, <1>2, <1>3, <1>4, <1>5

LEMMA ConversionsNamed ==
  ASSUME NEW said, NEW unit, NEW found, HasOp(said, "convert"), NEW args \in ConversionsOf(said, unit, found)
  PROVE  HasOp(args, "convert")
<1>1. \/ args = said ++ unit
      \/ \E f : args = [operation |-> "convert"] ++ f ++ unit
  BY Zenon DEF ConversionsOf
<1>2. HasOp(said ++ unit, "convert")
  BY OpFirst
<1>3. ASSUME NEW f PROVE HasOp([operation |-> "convert"] ++ f ++ unit, "convert")
  <2>1. HasOp([operation |-> "convert"] ++ f, "convert")
    BY OpOnly, OpFirst
  <2> QED  BY <2>1, OpFirst
<1> QED  BY <1>1, <1>2, <1>3

LEMMA TripNamed == ASSUME NEW text, NEW op PROVE HasOp(TripOf(text) ++ [operation |-> op], op)
<1> DEFINE a == Arg("distance", MeasureAt(text, FirstAmount(text, {"m", "km"})))
           b == Arg("duration_seconds", AsNumber(FirstAmount(text, {"s"})))
           c == Arg("pace_unit", FieldAnswer("pace_unit", text, TRUE))
           d == Arg("speed_unit", FieldAnswer("speed_unit", text, TRUE))
<1>1. TripOf(text) = a ++ b ++ c ++ d
  BY Zenon DEF TripOf
<1>2. "operation" \notin DOMAIN a /\ "operation" \notin DOMAIN b
        /\ "operation" \notin DOMAIN c /\ "operation" \notin DOMAIN d
  BY NotArg
<1> HIDE DEF a, b, c, d
<1>3. "operation" \notin DOMAIN (a ++ b)
  BY <1>2, InNeither
<1>4. "operation" \notin DOMAIN (a ++ b ++ c)
  BY <1>2, <1>3, InNeither
<1>5. "operation" \notin DOMAIN TripOf(text)
  BY <1>1, <1>2, <1>4, InNeither
<1> QED  BY <1>5, OpOnly, OpSecond

LEMMA ShareNamed == ASSUME NEW text, NEW op PROVE HasOp(ShareOf(text) ++ [operation |-> op], op)
<1> DEFINE a == Arg("percent", AsNumber(FirstAmount(text, {"percent"})))
           b == Arg("value", AsNumber(FirstAmount(text, {""})))
           c == Arg("direction", ParseDirection(text))
<1>1. ShareOf(text) = a ++ b ++ c
  BY Zenon DEF ShareOf
<1>2. "operation" \notin DOMAIN a /\ "operation" \notin DOMAIN b /\ "operation" \notin DOMAIN c
  BY NotArg
<1> HIDE DEF a, b, c
<1>3. "operation" \notin DOMAIN (a ++ b)
  BY <1>2, InNeither
<1>4. "operation" \notin DOMAIN ShareOf(text)
  BY <1>1, <1>2, <1>3, InNeither
<1> QED  BY <1>4, OpOnly, OpSecond

(* What the model extracts for an operation is a call of that operation.    *)
LEMMA FromTextNamed ==
  ASSUME NEW text, NEW op, NEW args \in FromText(text, op)
  PROVE  HasOp(args, op)
<1>1. CASE op = "convert"
  <2>1. args \in ConversionsOf(CalculatorArgs(text, op), Arg("to_unit", ParseTarget(text)), ParseValueUnit(text))
    BY <1>1, Zenon DEF FromText
  <2> QED  BY <1>1, <2>1, CalculatorArgsNamed, ConversionsNamed
<1>2. CASE op \in {"pace", "speed"}
  <2>1. args = TripOf(text) ++ [operation |-> op]
    BY <1>2 DEF FromText
  <2> QED  BY <2>1, TripNamed
<1>3. CASE op = "percent_change"
  <2>1. args = ShareOf(text) ++ [operation |-> op]
    BY <1>3 DEF FromText
  <2> QED  BY <2>1, ShareNamed
<1>4. CASE op \notin {"convert", "pace", "speed", "percent_change"}
  <2>1. args \in OfPerson(CalculatorArgs(text, op), [f \in Attrs(op) |-> Invented[f]])
    BY <1>4 DEF FromText
  <2> QED  BY <2>1, CalculatorArgsNamed, OfPersonNamed
<1> QED  BY <1>1, <1>2, <1>3, <1>4

LEMMA CallIs ==
  ASSUME NEW tool, NEW args
  PROVE  IsCall(Call(tool, args)) /\ Call(tool, args).tool = tool /\ Call(tool, args).args = args
BY DEF IsCall, Call

LEMMA NoCallIs == IsCall(NoCall) /\ NoCall.tool = ""
BY CallIs DEF NoCall

LEMMA NamedFits ==
  ASSUME NEW args, NEW op, HasOp(args, op), op # "", NEW text
  PROVE  IsCall(Call("calculator", args)) /\ CallFits(Call("calculator", args), text)
<1>1. Operation(args) = op
  BY HasOpIs
<1> DEFINE call == Call("calculator", args)
<1>2. IsCall(call) /\ call.tool = "calculator" /\ call.args = args
  BY CallIs
<1> HIDE DEF call
<1>3. IsCall(call) /\ CallFits(call, text)
  BY <1>1, <1>2 DEF CallFits
<1> QED  BY <1>3 DEF call

LEMMA OtherFits ==
  ASSUME NEW tool, tool \notin {"calculator", "weather"}, NEW args, NEW text
  PROVE  IsCall(Call(tool, args)) /\ CallFits(Call(tool, args), text)
BY CallIs DEF CallFits

LEMMA WeatherCallFits ==
  ASSUME NEW text, NEW args, DOMAIN args \subseteq DOMAIN WeatherUpdate(text),
         \A f \in DOMAIN args : args[f] = WeatherUpdate(text)[f]
  PROVE  IsCall(Call("weather", args)) /\ CallFits(Call("weather", args), text)
BY CallIs DEF CallFits

(* Whatever the model extracts, a call of the calculator names an          *)
(* operation and one of the weather holds what the text says.              *)
LEMMA ExtractedFits ==
  ASSUME NEW tool, NEW ops, "" \notin ops, NEW call \in Extractions(tool, ops)
  PROVE  IsCall(call) /\ CallFits(call, turn.text)
<1>1. CASE tool = "calculator"
  <2>1. \E op \in ops : \E args \in FromText(turn.text, op) : call = Call("calculator", args)
    BY <1>1, Zenon DEF Extractions
  <2>2. PICK op \in ops : \E args \in FromText(turn.text, op) : call = Call("calculator", args)
    BY <2>1
  <2>3. PICK args \in FromText(turn.text, op) : call = Call("calculator", args)
    BY <2>2
  <2>4. op # "" /\ HasOp(args, op)
    BY FromTextNamed
  <2> QED  BY <2>3, <2>4, NamedFits
<1>2. CASE tool = "weather"
  <2>1. PICK fields \in SUBSET DOMAIN WeatherUpdate(turn.text) :
           call = Call("weather", Part(WeatherUpdate(turn.text), fields))
    BY <1>2 DEF Extractions, PartsOf
  <2> DEFINE args == Part(WeatherUpdate(turn.text), fields)
  <2>2. DOMAIN args \subseteq DOMAIN WeatherUpdate(turn.text)
          /\ \A f \in DOMAIN args : args[f] = WeatherUpdate(turn.text)[f]
    BY DEF Part
  <2> HIDE DEF args
  <2>3. IsCall(Call("weather", args)) /\ CallFits(Call("weather", args), turn.text)
    BY <2>2, WeatherCallFits
  <2> QED  BY <2>1, <2>3 DEF args
<1>3. CASE tool \notin {"calculator", "weather"}
  <2>1. call = Call(tool, [query |-> turn.text])
    BY <1>3 DEF Extractions
  <2> QED  BY <1>3, <2>1, OtherFits
<1> QED  BY <1>1, <1>2, <1>3

LEMMA ExpressionFits == ASSUME NEW text PROVE IsCall(InferArithmetic(text)) /\ CallFits(InferArithmetic(text), text)
<1>1. \/ InferArithmetic(text) = NoCall
      \/ \E e : InferArithmetic(text) = Call("calculator", [operation |-> "expression", expression |-> e])
  BY Zenon DEF InferArithmetic
<1>2. ASSUME NEW e PROVE HasOp([operation |-> "expression", expression |-> e], "expression")
  BY DEF HasOp
<1>3. IsCall(NoCall) /\ CallFits(NoCall, text)
  BY OtherFits DEF NoCall
<1>4. \A e : /\ IsCall(Call("calculator", [operation |-> "expression", expression |-> e]))
             /\ CallFits(Call("calculator", [operation |-> "expression", expression |-> e]), text)
  BY <1>2, NamedFits
<1> QED  BY <1>1, <1>3, <1>4

LEMMA SearchFits == ASSUME NEW text PROVE IsCall(InferSearch(text)) /\ CallFits(InferSearch(text), text)
<1>1. InferSearch(text) = NoCall \/ InferSearch(text) = Call("internet.search", [query |-> text])
  BY DEF InferSearch
<1>2. IsCall(NoCall) /\ CallFits(NoCall, text)
  BY OtherFits DEF NoCall
<1> QED  BY <1>1, <1>2, OtherFits

LEMMA PercentFits ==
  ASSUME NEW found, NEW text
  PROVE  IsCall(PercentCall(found)) /\ CallFits(PercentCall(found), text)
<1>1. \/ PercentCall(found) = NoCall
      \/ \E a, b : PercentCall(found) = Call("calculator", [operation |-> "percent_of", percent |-> a, value |-> b])
  BY Zenon DEF PercentCall
<1>2. ASSUME NEW a, NEW b PROVE HasOp([operation |-> "percent_of", percent |-> a, value |-> b], "percent_of")
  BY DEF HasOp
<1>3. IsCall(NoCall) /\ CallFits(NoCall, text)
  BY OtherFits DEF NoCall
<1>4. \A a, b :
        /\ IsCall(Call("calculator", [operation |-> "percent_of", percent |-> a, value |-> b]))
        /\ CallFits(Call("calculator", [operation |-> "percent_of", percent |-> a, value |-> b]), text)
  BY <1>2, NamedFits
<1> QED  BY <1>1, <1>3, <1>4

LEMMA RecognisedAs ==
  ASSUME NEW text
  PROVE  Recognises(text) \in {"search", "older_sister", "weather", "convert", "get_time", "bmi", "bmr", "tdee",
                               "percent_of"}
<1> DEFINE words == <<"bmi", "bmr", "tdee", "convert">>
           said == FirstSaid(text, words)
<1>1. DOMAIN words = 1 .. 4 /\ \A i \in DOMAIN words : words[i] \in {"bmi", "bmr", "tdee", "convert"}
  OBVIOUS
<1>2. said = << >> \/ \E i \in DOMAIN words : said = <<words[i]>>
  <2> HIDE DEF words
  <2>1. DOMAIN words \subseteq Nat
    BY <1>1
  <2> QED  BY <2>1, FirstSaidIs
<1> HIDE DEF said
<1>3. Or(said, <<"percent_of">>)[1] \in {"bmi", "bmr", "tdee", "convert", "percent_of"}
  <2>1. CASE said = << >>
    BY <2>1 DEF Or
  <2>2. CASE said # << >>
    <3>1. PICK i \in DOMAIN words : said = <<words[i]>>
      BY <1>2, <2>2
    <3> QED  BY <1>1, <2>2, <3>1 DEF Or
  <2> QED  BY <2>1, <2>2
<1> HIDE DEF words
<1>4. Recognises(text) \in {"search", "older_sister", "weather", "convert", "get_time", Or(said, <<"percent_of">>)[1]}
  BY Zenon DEF Recognises, said, words
<1> QED  BY <1>3, <1>4

(* So does what is inferred without the model. *)
LEMMA InferFits == ASSUME NEW text PROVE IsCall(InferTool(text)) /\ CallFits(InferTool(text), text)
<1> DEFINE what == Recognises(text)
<1>1. what \in {"search", "older_sister", "weather", "convert", "get_time", "bmi", "bmr", "tdee", "percent_of"}
  BY RecognisedAs
<1>2. InferTool(text) = InferAs(text, what)
  BY DEF InferTool
<1> HIDE DEF what
<1>3. CASE what = "search"
  <2>1. InferTool(text) = InferSearch(text)
    BY <1>2, <1>3 DEF InferAs
  <2> QED  BY <2>1, SearchFits
<1>4. CASE what = "older_sister"
  <2>1. InferTool(text) = Call("older_sister", [query |-> text])
    BY <1>2, <1>4 DEF InferAs
  <2> QED  BY <2>1, OtherFits
<1>5. CASE what = "weather"
  <2>1. InferTool(text) = Call("weather", WeatherUpdate(text))
    BY <1>2, <1>5 DEF InferAs
  <2> QED  BY <2>1, WeatherCallFits
<1>6. CASE what = "get_time"
  <2>1. InferTool(text) = Call("get_time", NoArgs)
    BY <1>2, <1>6 DEF InferAs
  <2> QED  BY <2>1, OtherFits
<1>7. CASE what = "percent_of"
  <2>1. InferTool(text) = PercentCall(ParsePercentOf(text))
    BY <1>2, <1>7 DEF InferAs
  <2> QED  BY <2>1, PercentFits
<1>8. CASE what \in {"convert", "bmi", "bmr", "tdee"}
  <2>1. InferTool(text) = Call("calculator", CalculatorArgs(text, what))
    BY <1>2, <1>8 DEF InferAs
  <2> QED  BY <1>8, <2>1, CalculatorArgsNamed, NamedFits
<1> QED  BY <1>1, <1>3, <1>4, <1>5, <1>6, <1>7, <1>8

LEMMA InferredFits ==
  /\ IsCall(Shortcut) /\ CallFits(Shortcut, turn.text)
  /\ IsCall(Inferred) /\ CallFits(Inferred, turn.text)
<1>1. IsCall(NoCall) /\ CallFits(NoCall, turn.text)
  BY OtherFits DEF NoCall
<1>2. Shortcut = NoCall \/ Shortcut = InferTool(turn.text)
  BY DEF Shortcut
<1>3. IsCall(Shortcut) /\ CallFits(Shortcut, turn.text)
  BY <1>1, <1>2, InferFits
<1>4. Inferred \in {InferArithmetic(turn.text), InferSearch(turn.text), Shortcut}
  BY DEF Inferred
<1> QED  BY <1>3, <1>4, ExpressionFits, SearchFits

---------------------------------------------------------------------------
(* The day and the hour of a weather call                                  *)

(* The hour a text names is the one that is parsed. *)
LEMMA ClockIs ==
  ASSUME NEW t \in Hours
  PROVE  HourOf(t) = Clock(t) /\ Clock(t) \in 1 .. 23
<1>1. CASE \E k \in 1 .. 11 : t = Amount(k, "am")
  <2>1. PICK k \in 1 .. 11 : t = Amount(k, "am")
    BY <1>1
  <2>2. t.w = "am" /\ t.n[1][1] = k
    BY <2>1 DEF Amount, Whole
  <2> QED  BY <2>2 DEF HourOf, Clock
<1>2. CASE \E k \in 1 .. 12 : t = Amount(k, "pm")
  <2>1. PICK k \in 1 .. 12 : t = Amount(k, "pm")
    BY <1>2
  <2>2. t.w = "pm" /\ t.n[1][1] = k
    BY <2>1 DEF Amount, Whole
  <2>3. k % 12 = IF k = 12 THEN 0 ELSE k
    OBVIOUS
  <2> QED  BY <2>2, <2>3 DEF HourOf, Clock
<1> QED  BY <1>1, <1>2 DEF Hours

(* The one hour a text names is read. *)
LEMMA HourParsed ==
  ASSUME NEW text \in Texts, NEW i, NamesHour(text, i)
  PROVE  ParseHour(text) = <<Clock(text[i])>> /\ Clock(text[i]) \in 1 .. 23
<1> DEFINE hours == {j \in 2 .. Len(text) : text[j - 1].w = "at" /\ text[j].n # << >>}
<1>1. hours = {i} /\ text[i] \in Hours
  BY DEF NamesHour
<1>2. i \in Nat
  <2>1. Len(text) \in Nat
    BY DEF Texts
  <2> QED  BY <1>1, <2>1
<1>3. First(hours) = <<i>>
  BY <1>1, <1>2, FirstOne
<1>4. HourOf(text[i]) = Clock(text[i]) /\ Clock(text[i]) \in 1 .. 23
  BY <1>1, ClockIs
<1>5. ParseHour(text) =
        IF First(hours) = << >> THEN << >>
        ELSE IF HourOf(text[First(hours)[1]]) \notin 0 .. 23 THEN << >> ELSE <<HourOf(text[First(hours)[1]])>>
  BY Zenon DEF ParseHour
<1> HIDE DEF hours
<1>6. First(hours) # << >> /\ First(hours)[1] = i
  BY <1>3
<1> QED  BY <1>4, <1>5, <1>6

(* What is read of the day. *)
LEMMA WhenParsed ==
  ASSUME NEW text
  PROVE  /\ Says(text, {"tomorrow"}) => ParseWhen(text) = <<"tomorrow">>
         /\ ParseWhen(text) \in {<< >>, <<"tomorrow">>, <<"evening">>, <<"today">>, <<"current">>}
         /\ ~Says(text, {"evening", "tonight"}) => ParseWhen(text) # <<"evening">>
         /\ ParseHour(text) # << >> => ParseWhen(text) # << >>
BY DEF ParseWhen

(* What a text says of the weather. *)
LEMMA UpdateIs ==
  ASSUME NEW text
  PROVE  LET u == WeatherUpdate(text)
         IN  /\ DOMAIN u \subseteq {"when", "focus", "hour_local", "location"}
             /\ "when" \in DOMAIN u <=> ParseWhen(text) # << >>
             /\ "when" \in DOMAIN u => u["when"] = ParseWhen(text)[1]
             /\ "hour_local" \in DOMAIN u <=> ParseHour(text) # << >>
             /\ "hour_local" \in DOMAIN u => u["hour_local"] = ParseHour(text)[1]
<1> DEFINE w == Arg("when", ParseWhen(text))
           f == Arg("focus", ParseFocus(text))
           h == Arg("hour_local", ParseHour(text))
           l == Arg("location", ParseLocation(text))
           wf == w ++ f
           wfh == wf ++ h
           u == wfh ++ l
<1>1. WeatherUpdate(text) = u
  BY DEF WeatherUpdate
<1>2. /\ DOMAIN w = (IF ParseWhen(text) = << >> THEN {} ELSE {"when"})
      /\ ParseWhen(text) # << >> => w["when"] = ParseWhen(text)[1]
  BY ArgIs
<1>3. /\ DOMAIN h = (IF ParseHour(text) = << >> THEN {} ELSE {"hour_local"})
      /\ ParseHour(text) # << >> => h["hour_local"] = ParseHour(text)[1]
  BY ArgIs
<1>4. DOMAIN f \subseteq {"focus"} /\ DOMAIN l \subseteq {"location"}
  BY ArgIs
<1> HIDE DEF w, f, h, l
<1>5. /\ DOMAIN wf = DOMAIN w \cup DOMAIN f /\ (\A x \in DOMAIN w : wf[x] = w[x])
  BY OrElse
<1> HIDE DEF wf
<1>6. /\ DOMAIN wfh = DOMAIN wf \cup DOMAIN h /\ (\A x \in DOMAIN wf : wfh[x] = wf[x])
      /\ \A x \in DOMAIN h \ DOMAIN wf : wfh[x] = h[x]
  BY OrElse
<1> HIDE DEF wfh
<1>7. DOMAIN u = DOMAIN wfh \cup DOMAIN l /\ (\A x \in DOMAIN wfh : u[x] = wfh[x])
  BY OrElse
<1> HIDE DEF u
<1>8. /\ DOMAIN u = DOMAIN w \cup DOMAIN f \cup DOMAIN h \cup DOMAIN l
      /\ \A x \in DOMAIN w : u[x] = w[x]
      /\ \A x \in DOMAIN h \ (DOMAIN w \cup DOMAIN f) : u[x] = h[x]
  BY <1>5, <1>6, <1>7
<1>9. /\ DOMAIN u \subseteq {"when", "focus", "hour_local", "location"}
      /\ "when" \in DOMAIN u <=> ParseWhen(text) # << >>
      /\ "when" \in DOMAIN u => u["when"] = ParseWhen(text)[1]
  BY <1>2, <1>3, <1>4, <1>8
<1>10. /\ "hour_local" \in DOMAIN u <=> ParseHour(text) # << >>
       /\ "hour_local" \in DOMAIN u => u["hour_local"] = ParseHour(text)[1]
  BY <1>2, <1>3, <1>4, <1>8
<1> QED  BY <1>1, <1>9, <1>10

(* The day and the hour after normalizeWeatherCall. *)
LEMMA NormalizeIs ==
  ASSUME NEW args
  PROVE  LET n == Normalize(args)
         IN  /\ DOMAIN n = {"when", "focus", "hour_local"} \cup DOMAIN args
             /\ Hour(n) = Hour(args)
             /\ When(n) = When(args) \/ (When(args) \in {"", "current"} /\ When(n) \in {"today", "current"})
             /\ When(args) \in {"", "current"} /\ Hour(args) > 0 => When(n) = "today"
             /\ n["when"] = When(n)
<1> DEFINE when == CASE When(args) \in {"", "current"} /\ Hour(args) > 0 -> "today"
                  [] When(args) = "" /\ Hour(args) = 0 ->
                        IF Focus(args) = "rain" THEN "today" ELSE "current"
                  [] OTHER -> When(args)
           focus == IF Focus(args) = "" THEN "general" ELSE Focus(args)
           given == [when |-> when, focus |-> focus, hour_local |-> Hour(args)]
           n == given ++ args
<1>1. Normalize(args) = n
  BY Zenon DEF Normalize
<1>2. when = When(args) \/ (When(args) \in {"", "current"} /\ when \in {"today", "current"})
  <2>1. CASE When(args) \in {"", "current"} /\ Hour(args) > 0
    BY <2>1
  <2>2. CASE ~(When(args) \in {"", "current"} /\ Hour(args) > 0) /\ When(args) = "" /\ Hour(args) = 0
    BY <2>2
  <2>3. CASE ~(When(args) \in {"", "current"} /\ Hour(args) > 0) /\ ~(When(args) = "" /\ Hour(args) = 0)
    BY <2>3
  <2> QED  BY <2>1, <2>2, <2>3
<1>3. When(args) \in {"", "current"} /\ Hour(args) > 0 => when = "today"
  <2>1. CASE Hour(args) > 0
    <3>1. Hour(args) # 0
      BY <2>1
    <3> QED  BY <2>1, <3>1
  <2>2. CASE ~(Hour(args) > 0)
    BY <2>2
  <2> QED  BY <2>1, <2>2
<1> HIDE DEF when, focus
<1>4. DOMAIN given = {"when", "focus", "hour_local"} /\ given["when"] = when /\ given["hour_local"] = Hour(args)
  OBVIOUS
<1> HIDE DEF given
<1>5. DOMAIN n = DOMAIN given \cup DOMAIN args /\ \A x \in DOMAIN given : n[x] = given[x]
  BY OrElse
<1> HIDE DEF n
<1>6. DOMAIN n = {"when", "focus", "hour_local"} \cup DOMAIN args /\ n["when"] = when /\ n["hour_local"] = Hour(args)
  BY <1>4, <1>5
<1>7. Hour(n) = Hour(args) /\ When(n) = when
  BY <1>6 DEF Hour, When
<1> QED  BY <1>1, <1>2, <1>3, <1>6, <1>7

(* It keeps what the request said of the time. *)
LEMMA TimeKeptNormal ==
  ASSUME NEW args, NEW o, NEW texts
  PROVE  TimeKept(Normalize(args), o, texts) <=> TimeKept(args, o, texts)
<1> DEFINE n == Normalize(args)
<1>1. /\ Hour(n) = Hour(args)
      /\ When(n) = When(args) \/ (When(args) \in {"", "current"} /\ When(n) \in {"today", "current"})
  BY NormalizeIs
<1> HIDE DEF n
<1>2. When(n) = "tomorrow" <=> When(args) = "tomorrow"
  BY <1>1
<1>3. When(n) \in {"", "current", "today", "tomorrow"} <=> When(args) \in {"", "current", "today", "tomorrow"}
  BY <1>1
<1>4. TimeKept(n, o, texts) <=> TimeKept(args, o, texts)
  BY <1>1, <1>2, <1>3 DEF TimeKept
<1> QED  BY <1>4 DEF n

(* Only the time of a call matters. *)
LEMMA TimeKeptSame ==
  ASSUME NEW a, NEW b, Hour(a) = Hour(b), When(a) = When(b), NEW o, NEW texts
  PROVE  TimeKept(a, o, texts) <=> TimeKept(b, o, texts)
BY DEF TimeKept

(* ResolveWeatherCall, before the call is normalized. *)
Completed(args, text) ==
  (IF Hour(args) = 0 /\ "hour_local" \in DOMAIN WeatherUpdate(text)
   THEN [hour_local |-> WeatherUpdate(text).hour_local] ELSE NoArgs) ++ args ++ WeatherUpdate(text)

(* What the call says goes before the text, an hour of 0 excepted. *)
LEMMA CompletedIs ==
  ASSUME NEW args, NEW text
  PROVE  LET c == Completed(args, text)
             u == WeatherUpdate(text)
         IN  /\ ResolveWeather(args, text) = Normalize(c)
             /\ DOMAIN c = DOMAIN args \cup DOMAIN u
             /\ When(c) = IF "when" \in DOMAIN args THEN args["when"] ELSE When(u)
             /\ Hour(c) = IF Hour(args) = 0 THEN Hour(u) ELSE Hour(args)
<1> DEFINE u == WeatherUpdate(text)
           hour == IF Hour(args) = 0 /\ "hour_local" \in DOMAIN u THEN [hour_local |-> u.hour_local] ELSE NoArgs
           first == hour ++ args
           c == first ++ u
<1>1. ResolveWeather(args, text) = Normalize(c) /\ Completed(args, text) = c
  BY Zenon DEF ResolveWeather, Completed
<1>2. /\ Hour(args) = 0 /\ "hour_local" \in DOMAIN u =>
           DOMAIN hour = {"hour_local"} /\ hour["hour_local"] = u["hour_local"]
      /\ ~(Hour(args) = 0 /\ "hour_local" \in DOMAIN u) => DOMAIN hour = {}
  BY DEF NoArgs
<1> HIDE DEF hour, u
<1>3. /\ DOMAIN first = DOMAIN hour \cup DOMAIN args
      /\ \A x \in DOMAIN hour : first[x] = hour[x]
      /\ \A x \in DOMAIN args \ DOMAIN hour : first[x] = args[x]
  BY OrElse
<1> HIDE DEF first
<1>4. /\ DOMAIN c = DOMAIN first \cup DOMAIN u
      /\ \A x \in DOMAIN first : c[x] = first[x]
      /\ \A x \in DOMAIN u \ DOMAIN first : c[x] = u[x]
  BY OrElse
<1> HIDE DEF c
<1>5. DOMAIN c = DOMAIN args \cup DOMAIN u
  BY <1>2, <1>3, <1>4
<1>6. When(c) = IF "when" \in DOMAIN args THEN args["when"] ELSE When(u)
  BY <1>2, <1>3, <1>4 DEF When
<1>7. Hour(c) = IF Hour(args) = 0 THEN Hour(u) ELSE Hour(args)
  <2>1. CASE Hour(args) = 0 /\ "hour_local" \in DOMAIN u
    BY <1>2, <1>3, <1>4, <2>1 DEF Hour
  <2>2. CASE ~(Hour(args) = 0 /\ "hour_local" \in DOMAIN u)
    BY <1>2, <1>3, <1>4, <2>2 DEF Hour
  <2> QED  BY <2>1, <2>2
<1> QED  BY <1>1, <1>5, <1>6, <1>7 DEF u

(* The day a text says, and what the update has of it. *)
LEMMA WhenOf ==
  ASSUME NEW u, NEW w, w \in {<< >>, <<"tomorrow">>, <<"today">>, <<"current">>},
         "when" \in DOMAIN u <=> w # << >>, "when" \in DOMAIN u => u["when"] = w[1]
  PROVE  When(u) \in {"", "current", "today", "tomorrow"}
<1>1. CASE w = << >>
  BY <1>1 DEF When
<1>2. ASSUME NEW d \in {"tomorrow", "today", "current"}, w = <<d>>
      PROVE  When(u) = d
  <2>1. w # << >> /\ w[1] = d
    BY <1>2
  <2> QED  BY <2>1 DEF When
<1> QED  BY <1>1, <1>2

(* The call of the message that names the time. *)
LEMMA FirstTime ==
  ASSUME NEW text \in Texts, NEW args, DOMAIN args \subseteq DOMAIN WeatherUpdate(text),
         \A f \in DOMAIN args : args[f] = WeatherUpdate(text)[f]
  PROVE  "operation" \notin DOMAIN ResolveWeather(args, text) /\ TimeKept(ResolveWeather(args, text), text, {text})
<1> DEFINE u == WeatherUpdate(text)
           c == Completed(args, text)
<1>1. /\ DOMAIN u \subseteq {"when", "focus", "hour_local", "location"}
      /\ "when" \in DOMAIN u <=> ParseWhen(text) # << >>
      /\ "when" \in DOMAIN u => u["when"] = ParseWhen(text)[1]
      /\ "hour_local" \in DOMAIN u <=> ParseHour(text) # << >>
      /\ "hour_local" \in DOMAIN u => u["hour_local"] = ParseHour(text)[1]
  BY UpdateIs
<1>2. /\ ResolveWeather(args, text) = Normalize(c)
      /\ DOMAIN c = DOMAIN args \cup DOMAIN u
      /\ When(c) = IF "when" \in DOMAIN args THEN args["when"] ELSE When(u)
      /\ Hour(c) = IF Hour(args) = 0 THEN Hour(u) ELSE Hour(args)
  BY CompletedIs
<1>3. DOMAIN args \subseteq DOMAIN u /\ \A f \in DOMAIN args : args[f] = u[f]
  OBVIOUS
<1> HIDE DEF u, c
<1>4. When(c) = When(u)
  BY <1>2, <1>3 DEF When
<1>5. Hour(c) = Hour(u)
  BY <1>2, <1>3 DEF Hour
<1>6. "operation" \notin DOMAIN ResolveWeather(args, text)
  <2>1. DOMAIN Normalize(c) = {"when", "focus", "hour_local"} \cup DOMAIN c
    BY NormalizeIs
  <2> QED  BY <1>1, <1>2, <1>3, <2>1
<1>7. Says(text, {"tomorrow"}) => When(u) = "tomorrow"
  <2>1. Says(text, {"tomorrow"}) => ParseWhen(text) = <<"tomorrow">>
    BY WhenParsed
  <2> QED  BY <1>1, <2>1 DEF When
<1>8. ASSUME NEW i \in DOMAIN text, NamesHour(text, i), ~Says(text, {"evening", "tonight"})
      PROVE  Hour(u) = Clock(text[i]) /\ When(u) \in {"", "current", "today", "tomorrow"}
  <2>1. ParseHour(text) = <<Clock(text[i])>>
    BY <1>8, HourParsed
  <2>2. Hour(u) = Clock(text[i])
    BY <1>1, <2>1 DEF Hour
  <2>3. ParseWhen(text) \in {<< >>, <<"tomorrow">>, <<"today">>, <<"current">>}
    BY <1>8, WhenParsed
  <2>4. When(u) \in {"", "current", "today", "tomorrow"}
    BY <1>1, <2>3, WhenOf
  <2> QED  BY <2>2, <2>4
<1>9. TimeKept(c, text, {text})
  BY <1>4, <1>5, <1>7, <1>8 DEF TimeKept
<1>10. TimeKept(Normalize(c), text, {text})
  BY <1>9, TimeKeptNormal
<1> QED  BY <1>2, <1>6, <1>10

(* The call of an answer. *)
LEMMA LaterTime ==
  ASSUME NEW text, NEW args, NEW o, NEW texts, "operation" \notin DOMAIN args
  PROVE  /\ "operation" \notin DOMAIN ResolveWeather(args, text)
         /\ TimeKept(args, o, texts) => TimeKept(ResolveWeather(args, text), o, {text} \cup texts)
<1> DEFINE u == WeatherUpdate(text)
           c == Completed(args, text)
<1>1. /\ DOMAIN u \subseteq {"when", "focus", "hour_local", "location"}
      /\ "when" \in DOMAIN u <=> ParseWhen(text) # << >>
      /\ "when" \in DOMAIN u => u["when"] = ParseWhen(text)[1]
  BY UpdateIs
<1>2. /\ ResolveWeather(args, text) = Normalize(c)
      /\ DOMAIN c = DOMAIN args \cup DOMAIN u
      /\ When(c) = IF "when" \in DOMAIN args THEN args["when"] ELSE When(u)
      /\ Hour(c) = IF Hour(args) = 0 THEN Hour(u) ELSE Hour(args)
  BY CompletedIs
<1> HIDE DEF u, c
<1>3. "operation" \notin DOMAIN ResolveWeather(args, text)
  <2>1. DOMAIN Normalize(c) = {"when", "focus", "hour_local"} \cup DOMAIN c
    BY NormalizeIs
  <2> QED  BY <1>1, <1>2, <2>1
<1>4. ASSUME TimeKept(args, o, texts) PROVE TimeKept(c, o, {text} \cup texts)
  <2>1. ASSUME Says(o, {"tomorrow"}) PROVE When(c) = "tomorrow"
    <3>1. When(args) = "tomorrow"
      BY <1>4, <2>1 DEF TimeKept
    <3> QED  BY <1>2, <3>1 DEF When
  <2>2. ASSUME NEW i \in DOMAIN o, NamesHour(o, i), \A t \in {text} \cup texts : ~Says(t, {"evening", "tonight"})
        PROVE  Hour(c) = Clock(o[i]) /\ When(c) \in {"", "current", "today", "tomorrow"}
    <3>1. Hour(args) = Clock(o[i]) /\ When(args) \in {"", "current", "today", "tomorrow"}
      BY <1>4, <2>2 DEF TimeKept
    <3>2. Clock(o[i]) \in 1 .. 23
      <4>1. o[i] \in Hours
        BY <2>2 DEF NamesHour
      <4> QED  BY <4>1, ClockIs
    <3>3. ParseWhen(text) \in {<< >>, <<"tomorrow">>, <<"today">>, <<"current">>}
      BY <2>2, WhenParsed
    <3>4. When(u) \in {"", "current", "today", "tomorrow"}
      BY <1>1, <3>3, WhenOf
    <3> DEFINE k == Clock(o[i])
    <3>7. k # 0
      <4>1. k \in 1 .. 23
        BY <3>2
      <4> HIDE DEF k
      <4> QED  BY <4>1
    <3>5. Hour(c) = Clock(o[i])
      BY <1>2, <3>1, <3>7
    <3>6. "when" \in DOMAIN args => args["when"] = When(args)
      BY DEF When
    <3> QED  BY <1>2, <3>1, <3>4, <3>5, <3>6
  <2> QED  BY <2>1, <2>2 DEF TimeKept
<1>5. TimeKept(args, o, texts) => TimeKept(Normalize(c), o, {text} \cup texts)
  BY <1>4, TimeKeptNormal
<1> QED  BY <1>2, <1>3, <1>5

(* The report is of the time kept. *)
LEMMA ReportIs ==
  /\ \A k, d, h : /\ Report(k, d, h).status = "answer" /\ Report(k, d, h).kind = k
                  /\ Report(k, d, h).day = d /\ Report(k, d, h).hour = h
  /\ NoReport.status = "error" /\ [NoReport EXCEPT !.status = "needs_input"].status = "needs_input"
BY DEF Report, NoReport

(* The report is of the time the call keeps. *)
LEMMA ReportedAsKept ==
  ASSUME NEW args, NEW o, NEW texts, TimeKept(args, o, texts), NEW forecast,
         ExecuteWeather(args, forecast).status = "answer"
  PROVE  LET r == ExecuteWeather(args, forecast)
         IN  /\ Says(o, {"tomorrow"}) => r.day = 1
             /\ \A i \in DOMAIN o :
                  NamesHour(o, i) /\ (\A t \in texts : ~Says(t, {"evening", "tonight"})) =>
                    r.kind = "hour" /\ r.hour = Clock(o[i])
<1> DEFINE n == Normalize(args)
           r == ExecuteWeather(args, forecast)
<1>1. r = Format(n, forecast[1])
  <2>1. r \in {[NoReport EXCEPT !.status = "needs_input"], NoReport, Format(n, forecast[1])}
    BY Zenon DEF ExecuteWeather
  <2> QED  BY <2>1, ReportIs
<1>2. TimeKept(n, o, texts) /\ Hour(n) = Hour(args)
        /\ (When(args) \in {"", "current"} /\ Hour(args) > 0 => When(n) = "today")
        /\ (When(n) = When(args) \/ (When(args) \in {"", "current"} /\ When(n) \in {"today", "current"}))
        /\ n["when"] = When(n)
  BY TimeKeptNormal, NormalizeIs
<1>3. r.status = "answer"
  OBVIOUS
<1> HIDE DEF n, r
<1>4. ASSUME NEW d, NEW h
      PROVE  /\ Daily(forecast[1], d).status = "answer" => Daily(forecast[1], d).day = d
             /\ Hourly(forecast[1], d, h).status = "answer" =>
                  /\ Hourly(forecast[1], d, h).day = d /\ Hourly(forecast[1], d, h).kind = "hour"
                  /\ Hourly(forecast[1], d, h).hour = h
  BY ReportIs DEF Daily, Hourly
<1>5. ASSUME n["when"] = "tomorrow"
      PROVE  r = IF Hour(n) > 0 THEN Hourly(forecast[1], 1, Hour(n)) ELSE Daily(forecast[1], 1)
  BY <1>1, <1>5 DEF Format
<1>6. ASSUME n["when"] = "today", Hour(n) > 0
      PROVE  r = Hourly(forecast[1], 0, Hour(n))
  BY <1>1, <1>6 DEF Format
<1>7. ASSUME Says(o, {"tomorrow"}) PROVE r.day = 1
  <2>1. n["when"] = "tomorrow"
    BY <1>2, <1>7 DEF TimeKept
  <2> QED  BY <1>3, <1>4, <1>5, <2>1
<1>8. ASSUME NEW i \in DOMAIN o, NamesHour(o, i), \A t \in texts : ~Says(t, {"evening", "tonight"})
      PROVE  r.kind = "hour" /\ r.hour = Clock(o[i])
  <2>1. Hour(n) = Clock(o[i]) /\ When(n) \in {"", "current", "today", "tomorrow"}
    BY <1>2, <1>8 DEF TimeKept
  <2>2. Clock(o[i]) \in 1 .. 23
    <3>1. o[i] \in Hours
      BY <1>8 DEF NamesHour
    <3> QED  BY <3>1, ClockIs
  <2>3. Hour(n) > 0
    <3> DEFINE k == Clock(o[i])
    <3>1. k > 0
      <4>1. k \in 1 .. 23
        BY <2>2
      <4> HIDE DEF k
      <4> QED  BY <4>1
    <3>2. Hour(n) = k
      BY <2>1
    <3> HIDE DEF k
    <3> QED  BY <3>1, <3>2
  <2>4. n["when"] \in {"today", "tomorrow"}
    BY <1>2, <2>1, <2>3
  <2>5. r = Hourly(forecast[1], 0, Hour(n)) \/ r = Hourly(forecast[1], 1, Hour(n))
    BY <1>5, <1>6, <2>3, <2>4
  <2>6. ASSUME NEW d, r = Hourly(forecast[1], d, Hour(n)) PROVE r.kind = "hour" /\ r.hour = Hour(n)
    BY <1>3, <1>4, <2>6
  <2> QED  BY <2>1, <2>5, <2>6
<1> QED  BY <1>7, <1>8 DEF r

(* A place that is found does not change the time. *)
LEMMA LocatedKeeps ==
  ASSUME NEW args, NEW o, NEW texts
  PROVE  /\ TimeKept(Located(args), o, texts) <=> TimeKept(args, o, texts)
         /\ "operation" \notin DOMAIN args => "operation" \notin DOMAIN Located(args)
<1> DEFINE place == [latitude |-> args.location]
           l == place ++ args
<1>1. Located(args) = l
  BY DEF Located
<1>2. DOMAIN place = {"latitude"}
  OBVIOUS
<1> HIDE DEF place
<1>3. DOMAIN l = DOMAIN place \cup DOMAIN args /\ \A x \in DOMAIN args \ DOMAIN place : l[x] = args[x]
  BY OrElse
<1> HIDE DEF l
<1>4. Hour(l) = Hour(args) /\ When(l) = When(args)
  BY <1>2, <1>3 DEF Hour, When
<1>5. TimeKept(l, o, texts) <=> TimeKept(args, o, texts)
  BY <1>4, TimeKeptSame
<1> QED  BY <1>1, <1>2, <1>3, <1>5

(* When completing a call did not change its time, the call had it.         *)
LEMMA NotLost ==
  ASSUME NEW call, NEW args, NEW resolved, args = Normalize(resolved),
         Part(Normalize(call), Time) = Part(args, Time), NEW o, NEW texts, TimeKept(args, o, texts)
  PROVE  TimeKept(call, o, texts)
<1> DEFINE n == Normalize(call)
<1>1. {"when", "hour_local"} \subseteq DOMAIN n /\ {"when", "hour_local"} \subseteq DOMAIN args
  BY NormalizeIs
<1> HIDE DEF n
<1>2. Part(n, Time) = Part(args, Time)
  BY DEF n
<1>3. ASSUME NEW f \in {"when", "hour_local"}, NEW a, {"when", "hour_local"} \subseteq DOMAIN a
      PROVE  Part(a, Time)[f] = a[f]
  BY <1>3 DEF Part, Time
<1>4. n["when"] = args["when"] /\ n["hour_local"] = args["hour_local"]
  <2>1. Part(n, Time)["when"] = n["when"] /\ Part(args, Time)["when"] = args["when"]
    BY <1>1, <1>3
  <2>2. Part(n, Time)["hour_local"] = n["hour_local"] /\ Part(args, Time)["hour_local"] = args["hour_local"]
    BY <1>1, <1>3
  <2> QED  BY <1>2, <2>1, <2>2
<1>5. Hour(n) = Hour(args) /\ When(n) = When(args)
  BY <1>1, <1>4 DEF Hour, When
<1>6. TimeKept(n, o, texts)
  BY <1>5, TimeKeptSame
<1> QED  BY <1>6, TimeKeptNormal DEF n

(* The answer to the question for a place. *)
LEMMA PlaceKeeps ==
  ASSUME NEW args, NEW place, "operation" \notin DOMAIN args, NEW o, NEW texts
  PROVE  LET filled == [location |-> place] ++ args
         IN  /\ "operation" \notin DOMAIN filled
             /\ TimeKept(args, o, texts) => TimeKept(filled, o, texts)
<1> DEFINE at == [location |-> place]
           filled == at ++ args
<1>1. DOMAIN at = {"location"}
  OBVIOUS
<1> HIDE DEF at
<1>2. DOMAIN filled = DOMAIN at \cup DOMAIN args /\ \A x \in DOMAIN args \ DOMAIN at : filled[x] = args[x]
  BY OrElse
<1> HIDE DEF filled
<1>3. Hour(filled) = Hour(args) /\ When(filled) = When(args)
  BY <1>1, <1>2 DEF Hour, When
<1>4. TimeKept(args, o, texts) => TimeKept(filled, o, texts)
  BY <1>3, TimeKeptSame
<1>5. "operation" \notin DOMAIN filled
  BY <1>1, <1>2
<1> QED  BY <1>4, <1>5 DEF filled, at

---------------------------------------------------------------------------
(* What the latest message says is what is computed with                   *)

(* What the latest message gives is what is read of it. *)
LEMMA AmountsAre ==
  ASSUME NEW text
  PROVE  AmountsIn(text, Measured.height) = AmountsIn(text, {"ft"}) \cup AmountsIn(text, Others)
<1>1. Measured.height = {"ft"} \cup Others
  BY MeasuresAre
<1> QED  BY <1>1 DEF AmountsIn

LEMMA FeetAndInches == Unit("ft") = "ft" /\ Unit("in") = "in"
BY DEF Unit, Slashed

(* The amount that is read is the one the text gives. *)
LEMMA OneAmount ==
  ASSUME NEW text \in Texts, NEW f \in {"weight", "height"}, NEW i \in DOMAIN text,
         AmountsIn(text, Measured[f]) = {i}, text[i].w = "ft" /\ i < Len(text) => text[i + 1].n = << >>
  PROVE  PersonRead(text)[f] = << <<SaidAt(text, i)>> >>
<1>1. CASE f = "weight"
  <2>1. AmountsIn(text, Measured.weight) = {i}
    BY <1>1
  <2>2. ParseWeight(text) = << <<SaidAt(text, i)>> >>
    BY <2>1, WeightIs
  <2> QED  BY <1>1, <2>2 DEF PersonRead
<1>2. CASE f = "height"
  <2> DEFINE feet == AmountsIn(text, {"ft"})
             rest == AmountsIn(text, Others)
  <2>1. feet \cup rest = {i}
    BY <1>2, AmountsAre
  <2>2. ParseHeight(text) = << <<SaidAt(text, i)>> >>
    <3>1. CASE feet # {}
      <4>1. PICK j \in feet :
              /\ text[j].w = "ft"
              /\ ParseHeight(text) =
                   IF j + 1 <= Len(text) /\ text[j + 1].n # << >>
                   THEN << <<Measure(text[j].n[1], "ft"), Measure(text[j + 1].n[1], "in")>> >>
                   ELSE << <<Measure(text[j].n[1], "ft")>> >>
        BY <3>1, HeightIs
      <4>2. j = i
        BY <2>1, <4>1
      <4>3. ~(i + 1 <= Len(text) /\ text[i + 1].n # << >>)
        <5>1. text[i].w = "ft"
          BY <4>1, <4>2
        <5>2. i \in 1 .. Len(text)
          BY Tokens
        <5>3. Len(text) \in Nat
          BY DEF Texts
        <5> QED  BY <5>1, <5>2, <5>3
      <4>4. ParseHeight(text) = << <<Measure(text[i].n[1], "ft")>> >>
        BY <4>1, <4>2, <4>3
      <4>5. Unit(text[i].w) = "ft"
        BY <4>1, <4>2, FeetAndInches
      <4> QED  BY <4>4, <4>5 DEF SaidAt
    <3>2. CASE feet = {}
      <4>1. rest # {}
        BY <2>1, <3>2
      <4>2. PICK j \in rest : ParseHeight(text) = << <<SaidAt(text, j)>> >>
        BY <3>2, <4>1, HeightIs
      <4>3. j = i
        BY <2>1, <4>2
      <4> QED  BY <4>2, <4>3
    <3> QED  BY <3>1, <3>2
  <2> QED  BY <1>2, <2>2 DEF PersonRead
<1> QED  BY <1>1, <1>2

(* So are feet and the inches after them. *)
LEMMA TwoAmounts ==
  ASSUME NEW text \in Texts, NEW i \in 1 .. Len(text) - 1,
         AmountsIn(text, Measured.height) = {i, i + 1}, text[i].w = "ft", text[i + 1].w = "in"
  PROVE  PersonRead(text)["height"] = << <<SaidAt(text, i), SaidAt(text, i + 1)>> >>
<1> DEFINE feet == AmountsIn(text, {"ft"})
<1>1. Len(text) \in Nat
  BY DEF Texts
<1>2. i \in AmountsIn(text, Measured.height) /\ i + 1 \in AmountsIn(text, Measured.height)
  OBVIOUS
<1>3. /\ i \in DOMAIN text /\ text[i].n # << >>
      /\ i + 1 <= Len(text) /\ text[i + 1].n # << >>
  BY <1>1, <1>2 DEF AmountsIn
<1>4. i \in feet
  BY <1>3, FeetAndInches DEF AmountsIn
<1>5. feet \subseteq {i, i + 1}
  BY AmountsAre
<1>6. i + 1 \notin feet
  <2>1. Unit(text[i + 1].w) # "ft"
    BY FeetAndInches
  <2> QED  BY <2>1 DEF AmountsIn
<1>7. PICK j \in feet :
        ParseHeight(text) =
          IF j + 1 <= Len(text) /\ text[j + 1].n # << >>
          THEN << <<Measure(text[j].n[1], "ft"), Measure(text[j + 1].n[1], "in")>> >>
          ELSE << <<Measure(text[j].n[1], "ft")>> >>
  BY <1>4, HeightIs
<1>8. j = i
  BY <1>5, <1>6, <1>7
<1>9. ParseHeight(text) = << <<Measure(text[i].n[1], "ft"), Measure(text[i + 1].n[1], "in")>> >>
  BY <1>3, <1>7, <1>8
<1>10. SaidAt(text, i) = Measure(text[i].n[1], "ft") /\ SaidAt(text, i + 1) = Measure(text[i + 1].n[1], "in")
  BY FeetAndInches DEF SaidAt
<1> QED  BY <1>9, <1>10 DEF PersonRead

(* So is the age. *)
LEMMA OneAge ==
  ASSUME NEW text \in Texts, NEW i, AgesIn(text) = {i}
  PROVE  PersonRead(text)["age_years"] = <<text[i].n[1]>>
<1>1. PICK j \in AgesIn(text) : ParseAge(text, FALSE) = <<text[j].n[1]>>
  BY AgeIs
<1>2. j = i
  BY <1>1
<1> QED  BY <1>1, <1>2 DEF PersonRead

(* The number that is computed is of what was said. *)
LEMMA StatedUsed ==
  ASSUME NEW text \in Texts, NEW args, NEW out, Resolved(args, text, out)
  PROVE  LET attrs == Attrs(Operation(args))
         IN  /\ \A f \in attrs \cap DOMAIN Measured, i \in DOMAIN text :
                  /\ AmountsIn(text, Measured[f]) = {i}
                  /\ text[i].w = "ft" /\ i < Len(text) => text[i + 1].n = << >>
                  => Total(out[f]) = Total(<<SaidAt(text, i)>>)
             /\ \A i \in 1 .. Len(text) - 1 :
                  /\ "height" \in attrs /\ AmountsIn(text, Measured.height) = {i, i + 1}
                  /\ <<text[i].w, text[i + 1].w>> = <<"ft", "in">>
                  => Total(out.height) = Total(<<SaidAt(text, i), SaidAt(text, i + 1)>>)
             /\ \A i \in DOMAIN text :
                  "age_years" \in attrs /\ AgesIn(text) = {i} => out.age_years = text[i].n[1]
<1> DEFINE attrs == Attrs(Operation(args))
<1>1. ASSUME NEW f \in attrs, NEW read, PersonRead(text)[f] = <<read>>
      PROVE  IF f \in DOMAIN BaseUnit THEN Total(out[f]) = Total(read) ELSE out[f] = read
  <2>1. f \in Person
    BY AttrsAre
  <2>2. PersonRead(text)[f] # << >> /\ PersonRead(text)[f][1] = read
    BY <1>1
  <2>3. Gives(text, f)
    BY <2>1, <2>2, ReadIsGiven
  <2> QED  BY <2>2, <2>3 DEF Resolved
<1>2. DOMAIN BaseUnit = {"weight", "height"} /\ DOMAIN Measured = {"weight", "height"}
  BY MeasuresAre
<1>3. ASSUME NEW f \in attrs \cap DOMAIN Measured, NEW i \in DOMAIN text, AmountsIn(text, Measured[f]) = {i},
             text[i].w = "ft" /\ i < Len(text) => text[i + 1].n = << >>
      PROVE  Total(out[f]) = Total(<<SaidAt(text, i)>>)
  <2>1. PersonRead(text)[f] = << <<SaidAt(text, i)>> >>
    BY <1>2, <1>3, OneAmount
  <2> QED  BY <1>1, <1>2, <2>1
<1>4. ASSUME NEW i \in 1 .. Len(text) - 1, "height" \in attrs,
             AmountsIn(text, Measured.height) = {i, i + 1}, text[i].w = "ft", text[i + 1].w = "in"
      PROVE  Total(out["height"]) = Total(<<SaidAt(text, i), SaidAt(text, i + 1)>>)
  <2>1. PersonRead(text)["height"] = << <<SaidAt(text, i), SaidAt(text, i + 1)>> >>
    BY <1>4, TwoAmounts
  <2> QED  BY <1>1, <1>2, <1>4, <2>1
<1>5. ASSUME NEW i \in DOMAIN text, "age_years" \in attrs, AgesIn(text) = {i}
      PROVE  out["age_years"] = text[i].n[1]
  <2>1. PersonRead(text)["age_years"] = <<text[i].n[1]>>
    BY <1>5, OneAge
  <2> QED  BY <1>1, <1>2, <1>5, <2>1
<1> HIDE DEF attrs
<1>6. ASSUME NEW i \in 1 .. Len(text) - 1, "height" \in attrs, AmountsIn(text, Measured.height) = {i, i + 1},
             <<text[i].w, text[i + 1].w>> = <<"ft", "in">>
      PROVE  Total(out["height"]) = Total(<<SaidAt(text, i), SaidAt(text, i + 1)>>)
  <2>1. text[i].w = "ft" /\ text[i + 1].w = "in"
    BY <1>6
  <2> QED  BY <1>4, <1>6, <2>1
<1> QED  BY <1>3, <1>5, <1>6 DEF attrs

(* What a call of the calculator rests on, once it is completed. *)
LEMMA CompletedFits ==
  ASSUME NEW args, NEW text \in Texts, NEW out, Resolved(args, text, out),
         NEW taken, NEW heard, text \in heard, Grounded(args, taken, heard)
  PROVE  Grounded(out, taken, heard) /\ Settled(out) /\ Operation(out) = Operation(args)
<1>1. Operation(out) = Operation(args) /\ Settled(out)
  BY DEF Resolved
<1>2. ASSUME NEW f \in (Attrs(Operation(out)) \cap DOMAIN out) \ taken
      PROVE  \E t \in heard : Shows(t, f)
  <2>1. f \in DOMAIN args \/ Gives(text, f)
    BY <1>1, <1>2 DEF Resolved
  <2>2. CASE f \in DOMAIN args
    BY <1>1, <1>2, <2>2 DEF Grounded
  <2>3. CASE Gives(text, f)
    <3>1. Mentions(text, f)
      BY <2>3 DEF Gives
    <3> QED  BY <3>1 DEF Shows
  <2> QED  BY <2>1, <2>2, <2>3
<1> QED  BY <1>1, <1>2 DEF Grounded

(* What was settled before and is not said again stays. *)
LEMMA SettledStays ==
  ASSUME NEW args, NEW text \in Texts, NEW out, Resolved(args, text, out),
         NEW was, Settled(was), NEW f \in Attrs(Operation(args)), f \in DOMAIN was,
         f \in DOMAIN args, args[f] = was[f], ~Gives(text, f)
  PROVE  f \in DOMAIN out /\ out[f] = was[f]
<1>1. f \in DOMAIN out
  BY DEF Resolved
<1>2. CASE f \in DOMAIN BaseUnit
  <2>1. Canonical(f, args[f]) # << >> /\ out[f] = Canonical(f, args[f])[1]
    BY <1>2 DEF Resolved
  <2>2. Canonical(f, was[f]) \in {<< >>, <<was[f]>>}
    BY <1>2 DEF Settled
  <2>3. Canonical(f, args[f]) = <<was[f]>>
    BY <2>1, <2>2
  <2> QED  BY <1>1, <2>1, <2>3
<1>3. CASE f \notin DOMAIN BaseUnit
  BY <1>1, <1>3 DEF Resolved
<1> QED  BY <1>2, <1>3

(* A field that is known stays known in a call with the same value. *)
LEMMA KnownSame ==
  ASSUME NEW a, NEW b, NEW f, Known(a, f), f \in DOMAIN b, b[f] = a[f]
  PROVE  Known(b, f)
<1>1. f \in DOMAIN BaseUnit => \E v : a[f] = <<Measure(v, BaseUnit[f])>> /\ Positive(v)
  BY KnownIs
<1>2. f \in DOMAIN BaseUnit => \E v : b[f] = <<Measure(v, BaseUnit[f])>> /\ Positive(v)
  BY <1>1
<1> QED  BY <1>2, KnownByValue

(* What was given before is known still. *)
LEMMA KnownStays ==
  ASSUME NEW args, NEW text \in Texts, NEW out, Resolved(args, text, out),
         NEW was, Settled(was), NEW f \in Attrs(Operation(args)), Known(was, f),
         f \in DOMAIN args, args[f] = was[f]
  PROVE  Known(out, f)
<1>1. CASE Gives(text, f)
  BY <1>1 DEF Resolved
<1>2. CASE ~Gives(text, f)
  <2>1. f \in DOMAIN was
    BY DEF Known
  <2>2. f \in DOMAIN out /\ out[f] = was[f]
    BY <1>2, <2>1, SettledStays
  <2> QED  BY <2>2, KnownSame
<1> QED  BY <1>1, <1>2

---------------------------------------------------------------------------
(* The ends of a turn                                                      *)

(* What a turn's end must be: the five properties. *)
Right == StatedIsUsed /\ NothingInvented /\ QuestionKept /\ NotAskedAgain /\ WeatherAsTold

(* Only an answer, a question and a report can be wrong. *)
LEMMA QuietIsRight ==
  ASSUME outcome'.kind \notin {"answer", "asks", "report"}
  PROVE  Right'
BY DEF Right, StatedIsUsed, NothingInvented, QuestionKept, NotAskedAgain, WeatherAsTold

LEMMA NothingIsQuiet == Nothing.kind = "none"
BY DEF Nothing

(* More being said takes nothing from a question. *)
LEMMA HeardMore ==
  ASSUME NEW p, NEW heard, NEW more, PendingFits(p, heard), heard \subseteq more
  PROVE  PendingFits(p, more)
<1>1. ASSUME CalculatorFits(p, heard) PROVE CalculatorFits(p, more)
  <2>1. Grounded(p.args, p.taken, heard)
    BY <1>1 DEF CalculatorFits
  <2>2. Grounded(p.args, p.taken, more)
    BY <2>1 DEF Grounded
  <2> QED  BY <1>1, <2>2 DEF CalculatorFits
<1> QED  BY <1>1 DEF PendingFits

(* A turn that ends keeps what it was about. *)
LEMMA IdleTurn ==
  ASSUME IsTurn(turn), turn' = [turn EXCEPT !.at = "idle"]
  PROVE  /\ turn'.at = "idle" /\ turn'.text = turn.text /\ turn'.call = turn.call
         /\ turn'.resumed = turn.resumed /\ turn'.origin = turn.origin /\ turn'.texts = turn.texts
         /\ turn'.taken = turn.taken /\ turn'.lost = turn.lost /\ turn'.asked = turn.asked
         /\ IsTurn(turn')
<1> DEFINE t == [at |-> turn.at, text |-> turn.text, call |-> turn.call, resumed |-> turn.resumed,
                 origin |-> turn.origin, texts |-> turn.texts, taken |-> turn.taken, lost |-> turn.lost,
                 asked |-> turn.asked]
           i == [at |-> "idle", text |-> turn.text, call |-> turn.call, resumed |-> turn.resumed,
                 origin |-> turn.origin, texts |-> turn.texts, taken |-> turn.taken, lost |-> turn.lost,
                 asked |-> turn.asked]
<1>1. turn = t
  BY DEF IsTurn
<1>2. [t EXCEPT !.at = "idle"] = i
  OBVIOUS
<1>3. turn' = i
  BY <1>1, <1>2
<1> QED  BY <1>3 DEF IsTurn

(* The transcript after a reply. *)
LEMMA RepliesHeard ==
  ASSUME messages \in Seq(Message), turn.text \in Texts, NEW asks \in BOOLEAN, Replies(asks)
  PROVE  messages' \in Seq(Message) /\ Heard' = Heard \cup {turn.text}
<1> DEFINE user == [role |-> "user", text |-> turn.text, asks |-> FALSE]
           beemo == [role |-> "assistant", text |-> << >>, asks |-> asks]
           m == messages
           n == Len(messages)
<1>1. messages' = m \o <<user, beemo>>
  BY DEF Replies, UserSaid
<1>2. user \in Message /\ beemo \in Message
  BY DEF Message, Texts
<1>3. user.role = "user" /\ user.text = turn.text /\ beemo.role = "assistant"
  OBVIOUS
<1> HIDE DEF user, beemo
<1>4. messages' \in Seq(Message)
  BY <1>1, <1>2
<1>5. n \in Nat /\ Len(messages') = n + 2 /\ (\A i \in 1 .. n : messages'[i] = m[i])
        /\ messages'[n + 1] = user /\ messages'[n + 2] = beemo
  BY <1>1, <1>2
<1>6. DOMAIN m = 1 .. n /\ DOMAIN messages' = 1 .. n + 2
  BY <1>4, <1>5
<1>7. Heard = {m[i].text : i \in {j \in 1 .. n : m[j].role = "user"}}
  BY <1>6 DEF Heard
<1>8. Heard' = {messages'[i].text : i \in {j \in 1 .. n + 2 : messages'[j].role = "user"}}
  BY <1>6 DEF Heard
<1>9. ASSUME NEW x \in Heard' PROVE x \in Heard \cup {turn.text}
  <2>1. PICK i \in 1 .. n + 2 : messages'[i].role = "user" /\ x = messages'[i].text
    BY <1>8, <1>9
  <2>2. CASE i \in 1 .. n
    <3>1. m[i].role = "user" /\ x = m[i].text
      BY <1>5, <2>1, <2>2
    <3> QED  BY <1>7, <2>2, <3>1
  <2>3. CASE i = n + 1
    BY <1>3, <1>5, <2>1, <2>3
  <2>4. CASE i = n + 2
    BY <1>3, <1>5, <2>1, <2>4
  <2> QED  BY <1>5, <2>2, <2>3, <2>4
<1>10. ASSUME NEW x \in Heard PROVE x \in Heard'
  <2>1. PICK i \in 1 .. n : m[i].role = "user" /\ x = m[i].text
    BY <1>7, <1>10
  <2>2. i \in 1 .. n + 2 /\ messages'[i].role = "user" /\ x = messages'[i].text
    BY <1>5, <2>1
  <2> QED  BY <1>8, <2>2
<1>11. turn.text \in Heard'
  <2>1. n + 1 \in 1 .. n + 2 /\ messages'[n + 1].role = "user" /\ messages'[n + 1].text = turn.text
    BY <1>3, <1>5
  <2> QED  BY <1>8, <2>1
<1> QED  BY <1>4, <1>9, <1>10, <1>11

(* The ways a turn ends. *)
Ended(kind, call, result) ==
  /\ turn' = [turn EXCEPT !.at = "idle"]
  /\ outcome'.kind = kind /\ outcome'.call = call /\ outcome'.result = result
  /\ setting' = setting

LEMMA EndsIs ==
  ASSUME NEW kind, NEW call, NEW result, Ends(kind, call, result)
  PROVE  Ended(kind, call, result)
BY DEF Ends, Ended

(* It is then enough that the question left fits. *)
LEMMA EndedFits ==
  ASSUME TurnFits, NEW kind, NEW call, NEW result, Ended(kind, call, result),
         messages' \in Seq(Message), PendingFits(pending', Heard')
  PROVE  TurnFits'
<1>1. /\ turn'.at = "idle" /\ turn'.call = turn.call /\ IsTurn(turn')
  BY IdleTurn DEF TurnFits, Ended
<1>2. StageFits'
  BY <1>1 DEF StageFits
<1> QED  BY <1>1, <1>2 DEF TurnFits, Ended, IsTurn, IsCall

(* An error leaves the question as it was. *)
LEMMA ErrsFits ==
  ASSUME TurnFits, Errs
  PROVE  TurnFits' /\ Right'
<1>1. Ended("error", turn.call, << >>) /\ messages' = messages /\ pending' = pending
  BY EndsIs DEF Errs
<1>2. Heard' = Heard
  BY <1>1 DEF Heard
<1>3. messages' \in Seq(Message) /\ PendingFits(pending', Heard')
  BY <1>1, <1>2 DEF TurnFits
<1>4. TurnFits'
  BY <1>1, <1>3, EndedFits
<1> QED  BY <1>1, <1>4, QuietIsRight DEF Ended

(* A reply that is said ends the turn. *)
LEMMA RepliedFits ==
  ASSUME TurnFits, turn.at # "idle", NEW kind, NEW call, NEW result, Ended(kind, call, result),
         NEW asks \in BOOLEAN, Replies(asks),
         PendingFits(pending', Heard \cup {turn.text})
  PROVE  TurnFits' /\ Heard' = Heard \cup {turn.text}
<1>1. messages' \in Seq(Message) /\ Heard' = Heard \cup {turn.text}
  BY RepliesHeard DEF TurnFits, StageFits
<1>2. PendingFits(pending', Heard')
  BY <1>1
<1> QED  BY <1>1, <1>2, EndedFits

(* A turn that ends with a reply and no question, answer or report. *)
LEMMA QuietReplyFits ==
  ASSUME TurnFits, turn.at # "idle", NEW kind, NEW call, NEW result, Ends(kind, call, result),
         kind \in {"canceled", "offline", "done"}, Replies(FALSE), pending' \in {pending, NoPending}
  PROVE  TurnFits' /\ Right'
<1>1. Ended(kind, call, result)
  BY EndsIs
<1>2. PendingFits(pending, Heard \cup {turn.text})
  BY HeardMore DEF TurnFits
<1>3. PendingFits(pending', Heard \cup {turn.text})
  BY <1>2 DEF PendingFits
<1>4. TurnFits'
  BY <1>1, <1>3, RepliedFits
<1> QED  BY <1>1, <1>4, QuietIsRight DEF Ended

(* An answer ends the turn, unless it is not saved. *)
LEMMA SucceedsFits ==
  ASSUME TurnFits, turn.at # "idle", NEW kind, NEW call, NEW result, Succeeds(kind, call, result)
  PROVE  /\ TurnFits'
         /\ \/ Right'
            \/ Ended(kind, call, result) /\ Heard' = Heard \cup {turn.text}
<1>1. PendingFits(pending', Heard \cup {turn.text}) /\ PendingFits(pending', Heard')
  BY DEF Succeeds, PendingFits
<1>2. CASE \E asks \in BOOLEAN : Replies(asks) /\ Ends(kind, call, result)
  <2>1. PICK asks \in BOOLEAN : Replies(asks) /\ Ends(kind, call, result)
    BY <1>2
  <2>2. Ended(kind, call, result)
    BY <2>1, EndsIs
  <2> QED  BY <1>1, <2>1, <2>2, RepliedFits
<1>3. CASE Ends("error", call, << >>) /\ UNCHANGED messages
  <2>1. Ended("error", call, << >>)
    BY <1>3, EndsIs
  <2>2. messages' \in Seq(Message)
    BY <1>3 DEF TurnFits
  <2>3. TurnFits'
    BY <1>1, <2>1, <2>2, EndedFits
  <2> QED  BY <2>1, <2>3, QuietIsRight DEF Ended
<1> QED  BY <1>2, <1>3 DEF Succeeds

(* The question that Asks leaves. *)
Question(call, missing, lost) ==
  [tool |-> call.tool, args |-> call.args, missing |-> missing, origin |-> turn.origin,
   texts |-> turn.texts, taken |-> turn.taken, lost |-> turn.lost \/ lost]

(* It is enough that this question fits. *)
LEMMA AsksFits ==
  ASSUME TurnFits, turn.at # "idle", NEW call, NEW missing, NEW lost, Asks(call, missing, lost),
         PendingFits(Question(call, missing, lost), Heard \cup {turn.text})
  PROVE  TurnFits' /\ Ended("asks", call, missing) /\ Heard' = Heard \cup {turn.text}
<1>1. Ended("asks", call, missing) /\ Replies(TRUE) /\ pending' = Question(call, missing, lost)
  BY EndsIs DEF Asks, Question
<1> QED  BY <1>1, RepliedFits

---------------------------------------------------------------------------
(* The calculator runs                                                     *)

(* The two ways a call came to be. *)
Answers ==
  /\ turn.resumed = TRUE /\ turn.call.tool = pending.tool
  /\ turn.asked = pending /\ turn.texts = {turn.text} \cup pending.texts
  /\ turn.origin = pending.origin /\ turn.lost = pending.lost

(* A call that runs answers a question or is made from one text. *)
LEMMA RunIs ==
  ASSUME TurnFits, turn.at = "run"
  PROVE  /\ turn.text \in Texts
         /\ \/ Answers /\ AnswerFits(turn.call, pending, turn.taken, Heard \cup {turn.text})
                       /\ pending # NoPending
            \/ Fresh /\ turn.origin = turn.text /\ CallFits(turn.call, turn.text)
BY DEF TurnFits, StageFits, Answering, Answers, AnswerFits

LEMMA NoTool == NoPending.tool = ""
BY DEF NoPending

(* The answer to a question of the calculator. *)
LEMMA AnswersCalculator ==
  ASSUME TurnFits, turn.at = "run", turn.call.tool = "calculator", turn.resumed = TRUE
  PROVE  /\ Answers /\ CalculatorFits(pending, Heard)
         /\ Operation(turn.call.args) = Operation(pending.args)
         /\ \A f \in (Attrs(Operation(pending.args)) \cap DOMAIN pending.args) \ pending.missing :
              f \in DOMAIN turn.call.args /\ turn.call.args[f] = pending.args[f]
         /\ Grounded(turn.call.args, turn.taken, Heard \cup {turn.text})
<1>1. Answers /\ AnswerFits(turn.call, pending, turn.taken, Heard \cup {turn.text}) /\ pending # NoPending
  BY RunIs DEF Fresh
<1>2. pending.tool = "calculator"
  BY <1>1 DEF Answers
<1>3. CalculatorFits(pending, Heard)
  BY <1>2, NoTool DEF TurnFits, PendingFits
<1> QED  BY <1>1, <1>3 DEF AnswerFits

(* The call the calculator gets. *)
LEMMA EvidencedIs ==
  ASSUME TurnFits, turn.at = "run", turn.call.tool = "calculator"
  PROVE  LET args == Evidenced.args
         IN  /\ Operation(args) # ""
             /\ Grounded(args, turn.taken, Heard \cup {turn.text})
             /\ turn.resumed = TRUE => args = turn.call.args
             /\ turn.resumed # TRUE => turn.texts = {turn.text}
<1> DEFINE args == Evidenced.args
           all == Append(messages, UserSaid)
           heard == Heard \cup {turn.text}
<1>1. CASE turn.resumed = TRUE
  <2>1. args = turn.call.args
    BY <1>1 DEF Evidenced
  <2>2. Operation(turn.call.args) # "" /\ Grounded(turn.call.args, turn.taken, heard)
    BY <1>1, AnswersCalculator DEF CalculatorFits
  <2> QED  BY <1>1, <2>1, <2>2
<1>2. CASE turn.resumed # TRUE
  <2>1. Fresh /\ CallFits(turn.call, turn.text) /\ turn.text \in Texts
    BY <1>2, RunIs DEF Answers
  <2>2. Evidenced = Ground(turn.call, UserEvidence(all))
    BY <2>1 DEF Evidenced, Fresh
  <2>3. IsCall(turn.call)
    BY DEF TurnFits
  <2>4. /\ Operation(args) = Operation(turn.call.args)
        /\ \A f \in Attrs(Operation(args)) \cap DOMAIN args : \E t \in UserEvidence(all) : Evidence(t, f)
    BY <2>2, <2>3, GroundIs
  <2>5. Operation(turn.call.args) # ""
    BY <2>1 DEF CallFits
  <2>6. ASSUME NEW i \in DOMAIN all, all[i].role = "user" PROVE all[i].text \in heard
    <3>1. messages \in Seq(Message)
      BY DEF TurnFits
    <3>2. \/ i \in DOMAIN messages /\ all[i] = messages[i]
          \/ all[i] = UserSaid
      BY <2>6, <3>1
    <3>3. CASE i \in DOMAIN messages /\ all[i] = messages[i]
      BY <2>6, <3>3 DEF Heard
    <3>4. CASE all[i] = UserSaid
      BY <3>4 DEF UserSaid
    <3> QED  BY <3>2, <3>3, <3>4
  <2>7. all \in Seq(Message)
    <3>1. messages \in Seq(Message)
      BY DEF TurnFits
    <3>2. UserSaid \in Message
      BY <2>1 DEF UserSaid, Message
    <3> QED  BY <3>1, <3>2
  <2>8. ASSUME NEW f \in Attrs(Operation(args)) \cap DOMAIN args
        PROVE  \E t \in heard : Shows(t, f)
    <3>1. PICK t \in UserEvidence(all) : Evidence(t, f)
      BY <2>4
    <3>2. PICK i \in DOMAIN all : all[i].role = "user" /\ t = Cut(all[i].text) /\ all[i].text \in Texts
      BY <2>7, EvidenceHeard
    <3>3. f \in Person
      BY AttrsAre
    <3>4. Evidence(Cut(all[i].text), f)
      BY <3>1, <3>2
    <3>5. Mentions(all[i].text, f)
      BY <3>2, <3>3, <3>4, EvidenceMentions
    <3> QED  BY <2>6, <3>2, <3>5 DEF Shows
  <2>9. Grounded(args, turn.taken, heard)
    BY <2>8 DEF Grounded
  <2> QED  BY <1>2, <2>1, <2>4, <2>5, <2>9 DEF Fresh
<1> QED  BY <1>1, <1>2

(* Whatever was given since the request is known. *)
LEMMA GivenIsKnown ==
  ASSUME TurnFits, turn.at = "run", turn.call.tool = "calculator",
         NEW out, Resolved(Evidenced.args, turn.text, out),
         NEW f \in Attrs(Operation(Evidenced.args)), NEW t \in turn.texts, Gives(t, f)
  PROVE  Known(out, f)
<1> DEFINE args == Evidenced.args
<1>1. CASE t = turn.text
  BY <1>1 DEF Resolved
<1>2. CASE t # turn.text
  <2>1. turn.resumed = TRUE /\ args = turn.call.args
    BY <1>2, EvidencedIs
  <2>2. /\ Answers /\ CalculatorFits(pending, Heard)
        /\ Operation(turn.call.args) = Operation(pending.args)
        /\ \A g \in (Attrs(Operation(pending.args)) \cap DOMAIN pending.args) \ pending.missing :
             g \in DOMAIN turn.call.args /\ turn.call.args[g] = pending.args[g]
    BY <2>1, AnswersCalculator
  <2>3. t \in pending.texts
    BY <1>2, <2>2 DEF Answers
  <2>4. f \in Attrs(Operation(pending.args))
    BY <2>1, <2>2
  <2>5. Known(pending.args, f) /\ f \notin pending.missing /\ Settled(pending.args)
    BY <2>2, <2>3, <2>4 DEF CalculatorFits
  <2>6. f \in DOMAIN args /\ args[f] = pending.args[f]
    BY <2>1, <2>2, <2>4, <2>5 DEF Known
  <2>7. turn.text \in Texts
    BY RunIs
  <2> HIDE DEF args
  <2>8. Resolved(args, turn.text, out) /\ f \in Attrs(Operation(args))
    BY DEF args
  <2> QED  BY <2>5, <2>6, <2>7, <2>8, KnownStays
<1> QED  BY <1>1, <1>2

(* What the calculator asks for. *)
LEMMA AskedFits ==
  ASSUME TurnFits, turn.at = "run", turn.call.tool = "calculator",
         NEW out, Operation(out) = Operation(Evidenced.args),
         Attrs(Operation(out)) # {} => Resolved(Evidenced.args, turn.text, out),
         NEW missing, \A f \in missing \cap Attrs(Operation(out)) : ~Known(out, f)
  PROVE  PendingFits(Question(Call("calculator", out), missing, FALSE), Heard \cup {turn.text})
<1> DEFINE heard == Heard \cup {turn.text}
           p == Question(Call("calculator", out), missing, FALSE)
<1>1. p.tool = "calculator" /\ p.args = out /\ p.missing = missing /\ p.texts = turn.texts /\ p.taken = turn.taken
  BY DEF Question, Call
<1>2. Operation(out) # "" /\ Grounded(Evidenced.args, turn.taken, heard) /\ turn.text \in Texts
  BY EvidencedIs, RunIs
<1> HIDE DEF p
<1>3. CASE Attrs(Operation(out)) = {}
  <2>1. Grounded(out, turn.taken, heard)
    BY <1>3 DEF Grounded
  <2> QED  BY <1>1, <1>2, <1>3, <2>1 DEF PendingFits, CalculatorFits, p
<1>4. CASE Attrs(Operation(out)) # {}
  <2>1. Resolved(Evidenced.args, turn.text, out)
    BY <1>4
  <2>2. Grounded(out, turn.taken, heard) /\ Settled(out)
    <3> DEFINE args == Evidenced.args
               text == turn.text
               taken == turn.taken
    <3>1. text \in Texts /\ text \in heard /\ Grounded(args, taken, heard) /\ Resolved(args, text, out)
      BY <1>2, <2>1
    <3> HIDE DEF args, text, taken, heard
    <3>2. Grounded(out, taken, heard) /\ Settled(out)
      BY <3>1, CompletedFits
    <3> QED  BY <3>2 DEF taken
  <2>3. \A f \in Attrs(Operation(out)), t \in turn.texts : Gives(t, f) => Known(out, f)
    BY <2>1, GivenIsKnown
  <2>4. CalculatorFits(p, heard)
    BY <1>1, <1>2, <2>2, <2>3 DEF CalculatorFits
  <2> QED  BY <1>1, <2>4 DEF PendingFits, p
<1> QED  BY <1>3, <1>4

(* A reply leaves what it does not mention. *)
LEMMA KeptFits ==
  ASSUME TurnFits, turn.at = "run", turn.call.tool = "calculator", turn.resumed = TRUE,
         NEW out, Operation(out) = Operation(Evidenced.args),
         Attrs(Operation(out)) # {} => Resolved(Evidenced.args, turn.text, out)
  PROVE  /\ turn.asked.tool = "calculator" /\ Operation(out) = Operation(turn.asked.args)
         /\ \A f \in (Attrs(Operation(turn.asked.args)) \cap DOMAIN turn.asked.args) \ turn.asked.missing :
              Mentions(turn.text, f) \/ Field(out, f) = turn.asked.args[f]
<1> DEFINE args == Evidenced.args
<1>1. args = turn.call.args
  BY EvidencedIs
<1>2. /\ Answers /\ CalculatorFits(pending, Heard)
      /\ Operation(turn.call.args) = Operation(pending.args)
      /\ \A g \in (Attrs(Operation(pending.args)) \cap DOMAIN pending.args) \ pending.missing :
           g \in DOMAIN turn.call.args /\ turn.call.args[g] = pending.args[g]
  BY AnswersCalculator
<1>3. turn.asked = pending /\ pending.tool = "calculator" /\ turn.text \in Texts
  BY <1>2, RunIs DEF Answers
<1>4. ASSUME NEW f \in (Attrs(Operation(pending.args)) \cap DOMAIN pending.args) \ pending.missing,
             ~Mentions(turn.text, f)
      PROVE  Field(out, f) = pending.args[f]
  <2>1. Attrs(Operation(out)) # {} /\ f \in Attrs(Operation(args))
    BY <1>1, <1>2, <1>4
  <2>2. Resolved(args, turn.text, out)
    BY <2>1
  <2>3. Settled(pending.args)
    BY <1>2, <1>4 DEF CalculatorFits
  <2>4. f \in DOMAIN args /\ args[f] = pending.args[f]
    BY <1>1, <1>2, <1>4
  <2>5. ~Gives(turn.text, f)
    BY <1>4 DEF Gives
  <2> HIDE DEF args
  <2>6. f \in DOMAIN out /\ out[f] = pending.args[f]
    BY <1>3, <1>4, <2>1, <2>2, <2>3, <2>4, <2>5, SettledStays
  <2> QED  BY <2>6 DEF Field
<1> QED  BY <1>1, <1>2, <1>3, <1>4

(* Which calls are about a person. *)
LEMMA PersonalIs ==
  ASSUME NEW out
  PROVE  /\ Personal(Call("calculator", out)) <=> Attrs(Operation(out)) # {}
         /\ Attrs(Operation(out)) # {} => out.operation = Operation(out)
<1>1. Attrs("") = {}
  BY AttrsAre
<1> QED  BY <1>1, CallIs DEF Personal, Operation

LEMMA InputIsNobodys == ASSUME NEW t PROVE ~Gives(t, "input")
<1>1. "input" \notin Person
  BY DEF Person
<1> QED  BY <1>1, MentionsOf DEF Gives

(* The five properties, of a turn that ends with a call of the calculator. *)
LEMMA AnswerIsRight ==
  ASSUME TurnFits, turn.at = "run", turn.call.tool = "calculator",
         NEW out, Operation(out) = Operation(Evidenced.args),
         Attrs(Operation(out)) # {} => Resolved(Evidenced.args, turn.text, out),
         NEW result, Ended("answer", Call("calculator", out), result), Heard' = Heard \cup {turn.text},
         Attrs(Operation(out)) \subseteq DOMAIN out
  PROVE  Right'
<1> DEFINE c == Call("calculator", out)
<1>1. /\ outcome'.kind = "answer" /\ outcome'.call = c
      /\ turn'.text = turn.text /\ turn'.taken = turn.taken
      /\ turn'.resumed = turn.resumed /\ turn'.asked = turn.asked
  BY IdleTurn DEF Ended, TurnFits
<1>2. c.tool = "calculator" /\ c.args = out
  BY CallIs
<1>3. turn.text \in Texts /\ Grounded(Evidenced.args, turn.taken, Heard \cup {turn.text})
  BY EvidencedIs, RunIs
<1> HIDE DEF c
<1>4. StatedIsUsed'
  <2> SUFFICES ASSUME Personal(c)
               PROVE  LET args  == out
                          text  == turn.text
                          attrs == Attrs(args.operation)
                      IN  /\ \A f \in attrs \cap DOMAIN Measured, i \in DOMAIN text :
                               /\ AmountsIn(text, Measured[f]) = {i}
                               /\ text[i].w = "ft" /\ i < Len(text) => text[i + 1].n = << >>
                               => Total(args[f]) = Total(<<SaidAt(text, i)>>)
                          /\ \A i \in 1 .. Len(text) - 1 :
                               /\ "height" \in attrs /\ AmountsIn(text, Measured.height) = {i, i + 1}
                               /\ <<text[i].w, text[i + 1].w>> = <<"ft", "in">>
                               => Total(args.height) = Total(<<SaidAt(text, i), SaidAt(text, i + 1)>>)
                          /\ \A i \in DOMAIN text :
                               "age_years" \in attrs /\ AgesIn(text) = {i} => args.age_years = text[i].n[1]
    BY <1>1, <1>2, Zenon DEF StatedIsUsed
  <2>1. Attrs(Operation(out)) # {} /\ out.operation = Operation(Evidenced.args)
    BY PersonalIs DEF c
  <2>2. Resolved(Evidenced.args, turn.text, out)
    BY <2>1
  <2> QED  BY <1>3, <2>1, <2>2, StatedUsed
<1>5. NothingInvented'
  <2>1. ASSUME Personal(c), NEW f \in Attrs(out.operation) \ turn.taken
        PROVE  \E t \in Heard \cup {turn.text} : Shows(t, f)
    <3>1. Attrs(Operation(out)) # {} /\ out.operation = Operation(out)
      BY <2>1, PersonalIs DEF c
    <3>2. Resolved(Evidenced.args, turn.text, out)
      BY <3>1
    <3> DEFINE args == Evidenced.args
               text == turn.text
               taken == turn.taken
               heard == Heard \cup {turn.text}
    <3>3. text \in Texts /\ text \in heard /\ Grounded(args, taken, heard) /\ Resolved(args, text, out)
      BY <1>3, <3>2
    <3>4. f \in (Attrs(Operation(out)) \cap DOMAIN out) \ taken
      BY <2>1, <3>1
    <3> HIDE DEF args, text, taken, heard
    <3>5. Grounded(out, taken, heard)
      BY <3>3, CompletedFits
    <3>6. \E t \in heard : Shows(t, f)
      BY <3>4, <3>5 DEF Grounded
    <3> QED  BY <3>6 DEF heard
  <2>2. Personal(c) =>
          \A f \in Attrs(out.operation) \ turn.taken : \E t \in Heard' :
             Mentions(t, f) \/ (f = "age_years" /\ Len(t) = 1 /\ Bare(t[1]))
    BY <2>1 DEF Shows
  <2> QED  BY <1>1, <1>2, <2>2, Zenon DEF NothingInvented
<1>6. QuestionKept'
  <2>1. ASSUME turn.resumed
        PROVE  /\ "calculator" = turn.asked.tool /\ Operation(out) = Operation(turn.asked.args)
               /\ \A f \in (Attrs(Operation(turn.asked.args)) \cap DOMAIN turn.asked.args) \ turn.asked.missing :
                    Mentions(turn.text, f) \/ Field(out, f) = turn.asked.args[f]
    <3>1. turn.resumed = TRUE
      <4>1. turn.resumed = TRUE \/ turn.resumed = FALSE
        BY RunIs DEF Answers, Fresh
      <4> QED  BY <2>1, <4>1
    <3> QED  BY <3>1, KeptFits
  <2> QED  BY <1>1, <1>2, <2>1, Zenon DEF QuestionKept
<1>7. NotAskedAgain' /\ WeatherAsTold'
  BY <1>1 DEF NotAskedAgain, WeatherAsTold
<1> QED  BY <1>4, <1>5, <1>6, <1>7 DEF Right

(* A question asks nobody again. *)
LEMMA QuestionIsRight ==
  ASSUME TurnFits, turn.at = "run", turn.call.tool = "calculator",
         NEW out, Operation(out) = Operation(Evidenced.args),
         Attrs(Operation(out)) # {} => Resolved(Evidenced.args, turn.text, out),
         NEW missing, Ended("asks", Call("calculator", out), missing),
         Attrs(Operation(out)) # {} => missing \subseteq Attrs(Operation(out)) \cup {"input"},
         \A f \in missing \cap Attrs(Operation(out)) : ~Known(out, f)
  PROVE  Right'
<1> DEFINE c == Call("calculator", out)
<1>1. /\ outcome'.kind = "asks" /\ outcome'.call = c /\ outcome'.result = missing
      /\ turn'.text = turn.text /\ turn'.texts = turn.texts
      /\ turn'.resumed = turn.resumed /\ turn'.asked = turn.asked
  BY IdleTurn DEF Ended, TurnFits
<1>2. c.tool = "calculator" /\ c.args = out
  BY CallIs
<1> HIDE DEF c
<1>3. QuestionKept'
  <2>1. ASSUME turn.resumed
        PROVE  /\ "calculator" = turn.asked.tool /\ Operation(out) = Operation(turn.asked.args)
               /\ \A f \in (Attrs(Operation(turn.asked.args)) \cap DOMAIN turn.asked.args) \ turn.asked.missing :
                    Mentions(turn.text, f) \/ Field(out, f) = turn.asked.args[f]
    <3>1. turn.resumed = TRUE
      <4>1. turn.resumed = TRUE \/ turn.resumed = FALSE
        BY RunIs DEF Answers, Fresh
      <4> QED  BY <2>1, <4>1
    <3> QED  BY <3>1, KeptFits
  <2> QED  BY <1>1, <1>2, <2>1, Zenon DEF QuestionKept
<1>4. NotAskedAgain'
  <2>1. ASSUME Personal(c), NEW f \in missing, NEW t \in turn.texts, Gives(t, f)
        PROVE  FALSE
    <3>1. Attrs(Operation(out)) # {}
      BY <2>1, PersonalIs DEF c
    <3>2. Resolved(Evidenced.args, turn.text, out)
      BY <3>1
    <3>3. f # "input"
      BY <2>1, InputIsNobodys
    <3>4. f \in Attrs(Operation(out))
      BY <2>1, <3>1, <3>3
    <3>5. Known(out, f)
      BY <2>1, <3>2, <3>4, GivenIsKnown
    <3> QED  BY <2>1, <3>4, <3>5
  <2> QED  BY <1>1, <2>1 DEF NotAskedAgain
<1>5. StatedIsUsed' /\ NothingInvented' /\ WeatherAsTold'
  BY <1>1 DEF StatedIsUsed, NothingInvented, WeatherAsTold
<1> QED  BY <1>3, <1>4, <1>5 DEF Right

(* RunCalculator *)
LEMMA ComputeFits ==
  ASSUME TurnFits, turn.at = "run", turn.call.tool = "calculator",
         NEW out, Operation(out) = Operation(Evidenced.args),
         Attrs(Operation(out)) # {} => Resolved(Evidenced.args, turn.text, out), Compute(out)
  PROVE  TurnFits' /\ Right'
<1> DEFINE c == Call("calculator", out)
           op == Operation(out)
<1>1. turn.at # "idle"
  OBVIOUS
<1>2. ASSUME NEW missing, Asks(c, missing, FALSE),
             Attrs(op) # {} => missing \subseteq Attrs(op) \cup {"input"},
             \A f \in missing \cap Attrs(op) : ~Known(out, f)
      PROVE  TurnFits' /\ Right'
  <2>1. PendingFits(Question(c, missing, FALSE), Heard \cup {turn.text})
    BY <1>2, AskedFits
  <2> HIDE DEF c
  <2>2. TurnFits' /\ Ended("asks", c, missing)
    BY <1>1, <1>2, <2>1, AsksFits
  <2> USE DEF c
  <2>3. Right'
    BY <1>2, <2>2, QuestionIsRight
  <2> QED  BY <2>2, <2>3
<1>3. CASE MustAsk(out, turn.text)
  <2>1. Asks(c, {"input"}, FALSE)
    BY <1>3 DEF Compute
  <2>2. "input" \notin Attrs(op)
    <3>1. "input" \notin Person
      BY DEF Person
    <3> QED  BY <3>1, AttrsAre
  <2> DEFINE missing == {"input"}
  <2>3. missing \subseteq Attrs(op) \cup {"input"} /\ \A f \in missing \cap Attrs(op) : ~Known(out, f)
    BY <2>2
  <2>4. Asks(c, missing, FALSE)
    BY <2>1
  <2> HIDE DEF missing, op, c
  <2> QED  BY <1>2, <2>3, <2>4
<1>4. CASE ~MustAsk(out, turn.text)
  <2> DEFINE result == Calculate(out)
  <2>1. Computed(c, result)
    BY <1>4 DEF Compute
  <2>2. Attrs(op) # {} => PersonalResult(out, op, result)
    BY CalculateIs
  <2> HIDE DEF result, op, c
  <2>3. CASE result.status = "error" /\ Errs
    BY <2>3, ErrsFits
  <2>4. CASE result.status = "needs_input" /\ Asks(c, result.missing, FALSE)
    <3>1. CASE Attrs(op) = {}
      BY <1>2, <2>4, <3>1
    <3>2. CASE Attrs(op) # {}
      <4>1. result.missing \subseteq Attrs(op) /\ \A f \in result.missing : ~Known(out, f)
        BY <2>2, <2>4, <3>2 DEF PersonalResult
      <4> QED  BY <1>2, <2>4, <4>1
    <3> QED  BY <3>1, <3>2
  <2>5. CASE result.status = "answer" /\ Succeeds("answer", c, result.value)
    <3>1. Attrs(op) \subseteq DOMAIN out
      BY <2>2, <2>5 DEF PersonalResult
    <3>2. TurnFits' /\ (Right' \/ (Ended("answer", c, result.value) /\ Heard' = Heard \cup {turn.text}))
      BY <1>1, <2>5, SucceedsFits
    <3>3. CASE Ended("answer", c, result.value) /\ Heard' = Heard \cup {turn.text}
      <4>1. Right'
        BY <3>1, <3>3, AnswerIsRight DEF c, op
      <4> QED  BY <3>2, <4>1
    <3> QED  BY <3>2, <3>3
  <2> QED  BY <2>1, <2>3, <2>4, <2>5 DEF Computed
<1> QED  BY <1>3, <1>4

(* The calculator keeps TurnFits and ends the turn right. *)
LEMMA RunCalculatorFits ==
  ASSUME TurnFits, RunCalculator
  PROVE  TurnFits' /\ Right'
<1> DEFINE args == Evidenced.args
           resolved == Resolve(args, turn.text)
<1>1. turn.at = "run" /\ turn.call.tool = "calculator"
  BY DEF RunCalculator, At
<1>2. turn.text \in Texts
  BY <1>1, RunIs
<1>3. IF resolved = << >> THEN Errs ELSE \E out \in Range(resolved) : Compute(out)
  BY DEF RunCalculator
<1>4. CASE resolved = << >>
  BY <1>3, <1>4, ErrsFits
<1>5. CASE resolved # << >>
  <2>1. PICK out \in Range(resolved) : Compute(out)
    BY <1>3, <1>5
  <2>2. PICK o : resolved = <<o>> /\ Operation(o) = Operation(args)
    BY <1>2, <1>5, ResolveKeeps
  <2>3. out = o
    <3> HIDE DEF resolved
    <3> QED  BY <2>1, <2>2, RangeOne
  <2>4. Attrs(Operation(args)) # {} => Resolved(args, turn.text, out)
    <3>1. SUFFICES ASSUME Attrs(Operation(args)) # {} PROVE Resolved(args, turn.text, out)
      OBVIOUS
    <3>2. PICK q : resolved = <<q>> /\ Resolved(args, turn.text, q)
      BY <1>2, <1>5, <3>1, ResolveIs
    <3>3. q = out
      <4> HIDE DEF resolved
      <4> QED  BY <2>2, <2>3, <3>2
    <3> QED  BY <3>2, <3>3
  <2> QED  BY <1>1, <2>1, <2>2, <2>3, <2>4, ComputeFits
<1> QED  BY <1>4, <1>5

---------------------------------------------------------------------------
(* The other tools run                                                     *)

LEMMA NoOperation ==
  ASSUME NEW args, "operation" \notin DOMAIN args
  PROVE  Operation(args) = "" /\ Attrs(Operation(args)) = {}
BY AttrsAre DEF Operation

(* The answer to a question of the weather. *)
LEMMA AnswersWeather ==
  ASSUME TurnFits, turn.at = "run", turn.call.tool = "weather", turn.resumed = TRUE
  PROVE  /\ Answers /\ pending.tool = "weather" /\ "operation" \notin DOMAIN pending.args
         /\ WeatherFits(turn.call.args, pending)
<1>1. Answers /\ AnswerFits(turn.call, pending, turn.taken, Heard \cup {turn.text}) /\ pending # NoPending
  BY RunIs DEF Fresh
<1>2. pending.tool = "weather"
  BY <1>1 DEF Answers
<1>3. WeatherFits(pending.args, pending)
  BY <1>2, NoTool DEF TurnFits, PendingFits
<1> QED  BY <1>1, <1>2, <1>3 DEF AnswerFits, WeatherFits

(* The completed call is of the time the request named. *)
LEMMA CompletedTime ==
  ASSUME TurnFits, turn.at = "run", turn.call.tool = "weather"
  PROVE  LET args == ResolveWeather(turn.call.args, turn.text)
         IN  /\ "operation" \notin DOMAIN turn.call.args /\ "operation" \notin DOMAIN args
             /\ turn.lost \/ TimeKept(args, turn.origin, turn.texts)
<1> DEFINE args == ResolveWeather(turn.call.args, turn.text)
<1>1. CASE turn.resumed = TRUE
  <2>1. Answers /\ WeatherFits(turn.call.args, pending)
    BY <1>1, AnswersWeather
  <2>2. "operation" \notin DOMAIN turn.call.args
    BY <2>1 DEF WeatherFits
  <2>3. /\ "operation" \notin DOMAIN args
        /\ TimeKept(turn.call.args, pending.origin, pending.texts)
             => TimeKept(args, pending.origin, {turn.text} \cup pending.texts)
    BY <2>2, LaterTime
  <2>4. turn.lost \/ TimeKept(turn.call.args, pending.origin, pending.texts)
    BY <2>1 DEF WeatherFits, Answers
  <2> HIDE DEF args
  <2>5. turn.lost \/ TimeKept(args, turn.origin, turn.texts)
    BY <2>1, <2>3, <2>4 DEF Answers
  <2> QED  BY <2>2, <2>3, <2>5 DEF args
<1>2. CASE turn.resumed # TRUE
  <2>1. Fresh /\ turn.origin = turn.text /\ CallFits(turn.call, turn.text) /\ turn.text \in Texts
    BY <1>2, RunIs DEF Answers
  <2>2. /\ DOMAIN turn.call.args \subseteq DOMAIN WeatherUpdate(turn.text)
        /\ \A f \in DOMAIN turn.call.args : turn.call.args[f] = WeatherUpdate(turn.text)[f]
    BY <2>1 DEF CallFits
  <2>3. "operation" \notin DOMAIN turn.call.args
    BY <2>2, UpdateIs
  <2>4. "operation" \notin DOMAIN args /\ TimeKept(args, turn.text, {turn.text})
    BY <2>1, <2>2, FirstTime
  <2> HIDE DEF args
  <2>5. TimeKept(args, turn.origin, turn.texts)
    BY <2>1, <2>4 DEF Fresh
  <2> QED  BY <2>3, <2>4, <2>5 DEF args
<1> QED  BY <1>1, <1>2

(* A question for the place. *)
LEMMA PlaceAsked ==
  ASSUME TurnFits, turn.at = "run", turn.call.tool = "weather",
         NEW call, call.tool = "weather", "operation" \notin DOMAIN call.args,
         NEW lost, turn.lost \/ lost \/ TimeKept(call.args, turn.origin, turn.texts),
         Asks(call, {"location"}, lost)
  PROVE  TurnFits' /\ Right'
<1> DEFINE p == Question(call, {"location"}, lost)
<1>1. /\ p.tool = "weather" /\ p.args = call.args /\ p.origin = turn.origin
      /\ p.texts = turn.texts /\ p.lost = (turn.lost \/ lost)
  BY DEF Question
<1> HIDE DEF p
<1>2. WeatherFits(p.args, p)
  BY <1>1 DEF WeatherFits
<1>3. PendingFits(p, Heard \cup {turn.text})
  BY <1>1, <1>2 DEF PendingFits
<1>4. TurnFits' /\ Ended("asks", call, {"location"})
  <2>1. PendingFits(Question(call, {"location"}, lost), Heard \cup {turn.text})
    BY <1>3 DEF p
  <2> QED  BY <2>1, AsksFits
<1>5. outcome'.kind = "asks" /\ outcome'.call = call /\ turn'.resumed = turn.resumed /\ turn'.asked = turn.asked
  BY <1>4, IdleTurn DEF Ended, TurnFits
<1>6. ~Personal(call)
  BY DEF Personal
<1>7. ASSUME turn.resumed
      PROVE  /\ call.tool = turn.asked.tool /\ Operation(call.args) = Operation(turn.asked.args)
             /\ Attrs(Operation(turn.asked.args)) = {}
  <2>1. turn.resumed = TRUE
    <3>1. turn.resumed = TRUE \/ turn.resumed = FALSE
      BY RunIs DEF Answers, Fresh
    <3> QED  BY <1>7, <3>1
  <2>2. turn.asked = pending /\ pending.tool = "weather" /\ "operation" \notin DOMAIN pending.args
    BY <2>1, AnswersWeather DEF Answers
  <2> QED  BY <2>2, NoOperation
<1>8. QuestionKept'
  BY <1>5, <1>7 DEF QuestionKept
<1>9. StatedIsUsed' /\ NothingInvented' /\ NotAskedAgain' /\ WeatherAsTold'
  BY <1>5, <1>6 DEF StatedIsUsed, NothingInvented, NotAskedAgain, WeatherAsTold
<1> QED  BY <1>4, <1>8, <1>9 DEF Right

(* What is reported is of the time that was told. *)
LEMMA ReportedFits ==
  ASSUME TurnFits, turn.at = "run", turn.call.tool = "weather",
         NEW found, "operation" \notin DOMAIN found, turn.lost \/ TimeKept(found, turn.origin, turn.texts),
         NEW forecast, Reported(Call("weather", found), ExecuteWeather(found, forecast))
  PROVE  TurnFits' /\ Right'
<1> DEFINE call == Call("weather", found)
           report == ExecuteWeather(found, forecast)
<1>1. call.tool = "weather" /\ call.args = found
  BY CallIs
<1>2. turn.lost \/ report.status # "answer" \/
        /\ Says(turn.origin, {"tomorrow"}) => report.day = 1
        /\ \A i \in DOMAIN turn.origin :
             NamesHour(turn.origin, i) /\ (\A t \in turn.texts : ~Says(t, {"evening", "tonight"})) =>
               report.kind = "hour" /\ report.hour = Clock(turn.origin[i])
  BY ReportedAsKept
<1>3. Reported(call, report)
  OBVIOUS
<1> HIDE DEF call, report
<1>4. CASE report.status = "error" /\ Errs
  BY <1>4, ErrsFits
<1>5. CASE report.status = "needs_input" /\ Asks(call, {"location"}, FALSE)
  BY <1>1, <1>5, PlaceAsked
<1>6. CASE report.status = "answer" /\ Succeeds("report", call, report)
  <2>1. TurnFits' /\ (Right' \/ Ended("report", call, report))
    BY <1>6, SucceedsFits
  <2>2. CASE Ended("report", call, report)
    <3>1. /\ outcome'.kind = "report" /\ outcome'.result = report /\ turn'.lost = turn.lost
          /\ turn'.origin = turn.origin /\ turn'.texts = turn.texts
      BY <2>2, IdleTurn DEF Ended, TurnFits
    <3>2. WeatherAsTold'
      BY <1>2, <1>6, <3>1 DEF WeatherAsTold
    <3>3. StatedIsUsed' /\ NothingInvented' /\ QuestionKept' /\ NotAskedAgain'
      BY <3>1 DEF StatedIsUsed, NothingInvented, QuestionKept, NotAskedAgain
    <3> QED  BY <2>1, <3>2, <3>3 DEF Right
  <2> QED  BY <2>1, <2>2
<1> QED  BY <1>3, <1>4, <1>5, <1>6 DEF Reported

(* The weather tool keeps TurnFits and ends the turn right. *)
LEMMA RunWeatherFits ==
  ASSUME TurnFits, RunWeather
  PROVE  TurnFits' /\ Right'
<1> DEFINE args == ResolveWeather(turn.call.args, turn.text)
           lost == Part(Normalize(turn.call.args), Time) # Part(args, Time)
<1>1. turn.at = "run" /\ turn.call.tool = "weather"
  BY DEF RunWeather, At
<1>2. Locate(args)
  BY DEF RunWeather
<1>3. /\ "operation" \notin DOMAIN turn.call.args /\ "operation" \notin DOMAIN args
      /\ turn.lost \/ TimeKept(args, turn.origin, turn.texts)
  BY <1>1, CompletedTime
<1>4. args = Normalize(Completed(turn.call.args, turn.text))
  BY CompletedIs
<1> HIDE DEF args
<1>5. CASE "location" \in DOMAIN args /\ ~Findable(args.location)
  <2>1. Asks(turn.call, {"location"}, lost)
    BY <1>2, <1>5 DEF Locate
  <2>2. turn.lost \/ lost \/ TimeKept(turn.call.args, turn.origin, turn.texts)
    BY <1>3, <1>4, NotLost
  <2> HIDE DEF lost
  <2> QED  BY <1>1, <1>3, <2>1, <2>2, PlaceAsked
<1>6. CASE ~("location" \in DOMAIN args /\ ~Findable(args.location))
  <2>1. PICK found \in {IF "location" \in DOMAIN args THEN Located(args) ELSE args} :
          \E report \in {ExecuteWeather(found, forecast) : forecast \in Forecasts} :
            Reported(Call("weather", found), report)
    BY <1>2, <1>6 DEF Locate
  <2>2. PICK forecast : Reported(Call("weather", found), ExecuteWeather(found, forecast))
    BY <2>1
  <2>3. "operation" \notin DOMAIN found /\ (turn.lost \/ TimeKept(found, turn.origin, turn.texts))
    BY <1>3, <2>1, LocatedKeeps
  <2> QED  BY <1>1, <2>2, <2>3, ReportedFits
<1> QED  BY <1>5, <1>6

(* No other tool is asked about a person or the weather. *)
LEMMA RunOtherFits ==
  ASSUME TurnFits, RunOther
  PROVE  TurnFits' /\ Right'
<1>1. turn.at = "run" /\ turn.at # "idle"
  BY DEF RunOther, At
<1>2. CASE Offline
  <2>1. Replies(FALSE) /\ Ends("offline", NoCall, << >>) /\ pending' = pending
    BY <1>2 DEF Offline
  <2> QED  BY <1>1, <2>1, QuietReplyFits
<1>3. CASE Errs
  BY <1>3, ErrsFits
<1>4. CASE Replies(FALSE) /\ Ends("done", turn.call, << >>) /\ UNCHANGED pending
  BY <1>1, <1>4, QuietReplyFits
<1>5. CASE Succeeds("done", turn.call, << >>)
  <2>1. TurnFits' /\ (Right' \/ Ended("done", turn.call, << >>))
    BY <1>1, <1>5, SucceedsFits
  <2> QED  BY <2>1, QuietIsRight DEF Ended
<1> QED  BY <1>2, <1>3, <1>4, <1>5, Zenon DEF RunOther

---------------------------------------------------------------------------
(* A turn goes on                                                          *)

(* Where a turn may be. *)
TurnPlaces == {"idle", "resume", "unanswered", "update", "plan", "select", "choose", "extract", "run"}

(* A step of a turn that does not end it. *)
LEMMA GoesOn ==
  ASSUME TurnFits, setting' = setting, messages' = messages, outcome' = Nothing,
         IsTurn(turn'), IsCall(turn'.call), turn'.at \in TurnPlaces,
         pending' \in {pending, NoPending}, StageFits'
  PROVE  TurnFits' /\ Right'
<1>1. Heard' = Heard
  BY DEF Heard
<1>2. PendingFits(pending', Heard')
  <2>1. PendingFits(pending, Heard)
    BY DEF TurnFits
  <2> QED  BY <1>1, <2>1 DEF PendingFits
<1>3. TurnFits'
  BY <1>2 DEF TurnFits, TurnPlaces, IsTurn, IsCall
<1> QED  BY <1>3, NothingIsQuiet, QuietIsRight

(* The turn at another place. *)
LEMMA TurnAt ==
  ASSUME IsTurn(turn), NEW place, NEW t, t = [turn EXCEPT !.at = place]
  PROVE  /\ t.at = place /\ t.text = turn.text /\ t.call = turn.call /\ t.resumed = turn.resumed
         /\ t.origin = turn.origin /\ t.texts = turn.texts /\ t.taken = turn.taken
         /\ t.lost = turn.lost /\ t.asked = turn.asked /\ IsTurn(t)
<1> DEFINE u == [at |-> turn.at, text |-> turn.text, call |-> turn.call, resumed |-> turn.resumed,
                 origin |-> turn.origin, texts |-> turn.texts, taken |-> turn.taken, lost |-> turn.lost,
                 asked |-> turn.asked]
<1>1. turn = u
  BY DEF IsTurn
<1>2. t = [u EXCEPT !.at = place]
  BY <1>1
<1> QED  BY <1>2 DEF IsTurn

(* The fields of a turn whose call is to run. *)
LEMMA TurnRuns ==
  ASSUME IsTurn(turn), NEW call, NEW t, t = Executes(call)
  PROVE  /\ t.at = "run" /\ t.text = turn.text /\ t.call = call /\ t.resumed = turn.resumed
         /\ t.origin = turn.origin /\ t.texts = turn.texts /\ t.taken = turn.taken
         /\ t.lost = turn.lost /\ t.asked = turn.asked /\ IsTurn(t)
<1> DEFINE u == [at |-> turn.at, text |-> turn.text, call |-> turn.call, resumed |-> turn.resumed,
                 origin |-> turn.origin, texts |-> turn.texts, taken |-> turn.taken, lost |-> turn.lost,
                 asked |-> turn.asked]
<1>1. turn = u
  BY DEF IsTurn
<1>2. t = [u EXCEPT !.at = "run", !.call = call]
  BY <1>1 DEF Executes
<1> QED  BY <1>2 DEF IsTurn

LEMMA TurnOf ==
  ASSUME IsTurn(turn), NEW t, NEW u, IsTurn(u), NEW o, t = [u EXCEPT !.origin = o]
  PROVE  /\ t.at = u.at /\ t.text = u.text /\ t.call = u.call /\ t.resumed = u.resumed
         /\ t.origin = o /\ t.texts = u.texts /\ t.taken = u.taken
         /\ t.lost = u.lost /\ t.asked = u.asked /\ IsTurn(t)
<1> DEFINE v == [at |-> u.at, text |-> u.text, call |-> u.call, resumed |-> u.resumed,
                 origin |-> u.origin, texts |-> u.texts, taken |-> u.taken, lost |-> u.lost,
                 asked |-> u.asked]
<1>1. u = v
  BY DEF IsTurn
<1>2. t = [v EXCEPT !.origin = o]
  BY <1>1
<1> QED  BY <1>2 DEF IsTurn

(* The fields of a turn that answers a question. *)
LEMMA TurnResumes ==
  ASSUME IsTurn(turn), NEW call, NEW taken, turn' = Resumed(call, taken)
  PROVE  /\ turn'.at = "run" /\ turn'.text = turn.text /\ turn'.call = call /\ turn'.resumed = TRUE
         /\ turn'.origin = turn.origin /\ turn'.texts = turn.texts \cup pending.texts
         /\ turn'.taken = pending.taken \cup taken
         /\ turn'.lost = pending.lost /\ turn'.asked = pending /\ IsTurn(turn')
<1> DEFINE u == Executes(call)
           v == [at |-> u.at, text |-> u.text, call |-> u.call, resumed |-> u.resumed,
                 origin |-> u.origin, texts |-> u.texts, taken |-> u.taken, lost |-> u.lost,
                 asked |-> u.asked]
<1>1. /\ u.at = "run" /\ u.text = turn.text /\ u.call = call
      /\ u.origin = turn.origin /\ u.texts = turn.texts /\ IsTurn(u)
  BY TurnRuns
<1>2. u = v
  BY <1>1 DEF IsTurn
<1>3. turn' = [u EXCEPT !.resumed = TRUE, !.texts = @ \cup pending.texts, !.taken = pending.taken \cup taken,
                    !.lost = pending.lost, !.asked = pending]
  BY DEF Resumed
<1> HIDE DEF u
<1>4. turn' = [v EXCEPT !.resumed = TRUE, !.texts = @ \cup pending.texts, !.taken = pending.taken \cup taken,
                    !.lost = pending.lost, !.asked = pending]
  BY <1>2, <1>3
<1> QED  BY <1>1, <1>4 DEF IsTurn

(* A new call is executed. *)
LEMMA ExecutesFits ==
  ASSUME TurnFits, turn.at \in {"plan", "select", "choose", "extract"},
         NEW call, IsCall(call), CallFits(call, turn.text), turn' = Executes(call),
         setting' = setting, messages' = messages, pending' = pending, outcome' = outcome
  PROVE  TurnFits' /\ Right'
<1>1. Fresh /\ turn.origin = turn.text /\ outcome = Nothing /\ turn.text \in Texts
  BY DEF TurnFits, StageFits
<1>2. /\ turn'.at = "run" /\ turn'.text = turn.text /\ turn'.call = call /\ turn'.resumed = turn.resumed
      /\ turn'.origin = turn.origin /\ turn'.texts = turn.texts /\ turn'.taken = turn.taken
      /\ turn'.lost = turn.lost /\ IsTurn(turn')
  BY TurnRuns DEF TurnFits
<1>3. Fresh'
  BY <1>1, <1>2 DEF Fresh
<1>4. CallFits(turn'.call, turn'.text)
  BY <1>2
<1>5. StageFits'
  BY <1>1, <1>2, <1>3, <1>4 DEF StageFits, CallFits
<1> QED  BY <1>1, <1>2, <1>5, GoesOn DEF TurnPlaces, IsCall

(* The turn goes on to the next place. *)
LEMMA MovesFits ==
  ASSUME TurnFits, NEW place, turn' = [turn EXCEPT !.at = place],
         \/ turn.at \in {"resume", "unanswered"} /\ place \in {"unanswered", "update"}
         \/ turn.at \in {"plan", "select", "choose"} /\ place \in {"select", "choose", "extract"},
         setting' = setting, messages' = messages, pending' = pending, outcome' = outcome
  PROVE  TurnFits' /\ Right'
<1>1. Fresh /\ outcome = Nothing /\ turn.text \in Texts
        /\ (place \in {"unanswered", "update"} => pending # NoPending /\ turn.origin = pending.origin)
        /\ (place \in {"select", "choose", "extract"} => turn.origin = turn.text)
  BY DEF TurnFits, StageFits
<1>2. /\ turn'.at = place /\ turn'.text = turn.text /\ turn'.call = turn.call /\ turn'.resumed = turn.resumed
      /\ turn'.origin = turn.origin /\ turn'.texts = turn.texts /\ turn'.taken = turn.taken
      /\ turn'.lost = turn.lost /\ IsTurn(turn')
  <2>1. IsTurn(turn)
    BY DEF TurnFits
  <2> QED  BY <2>1, TurnAt
<1>3. Fresh'
  BY <1>1, <1>2 DEF Fresh
<1>4. StageFits'
  BY <1>1, <1>2, <1>3 DEF StageFits
<1>5. IsCall(turn'.call)
  BY <1>2 DEF TurnFits
<1> QED  BY <1>1, <1>2, <1>4, <1>5, GoesOn DEF TurnPlaces

(* The call that answers the question is executed. *)
LEMMA ResumedFits ==
  ASSUME TurnFits, turn.at \in {"resume", "update"}, NEW call, IsCall(call), NEW taken,
         AnswerFits(call, pending, pending.taken \cup taken, Heard \cup {turn.text}),
         turn' = Resumed(call, taken),
         setting' = setting, messages' = messages, pending' = pending, outcome' = outcome
  PROVE  TurnFits' /\ Right'
<1>1. pending # NoPending /\ Fresh /\ turn.origin = pending.origin /\ outcome = Nothing /\ turn.text \in Texts
  BY DEF TurnFits, StageFits
<1>2. /\ turn'.at = "run" /\ turn'.text = turn.text /\ turn'.call = call /\ turn'.resumed = TRUE
      /\ turn'.origin = turn.origin /\ turn'.texts = turn.texts \cup pending.texts
      /\ turn'.taken = pending.taken \cup taken
      /\ turn'.lost = pending.lost /\ turn'.asked = pending /\ IsTurn(turn')
  <2>1. IsTurn(turn)
    BY DEF TurnFits
  <2> QED  BY <2>1, TurnResumes
<1>3. Heard' = Heard
  BY DEF Heard
<1>4. AnswerFits(turn'.call, pending', turn'.taken, Heard' \cup {turn'.text})
  BY <1>2, <1>3
<1>5. Answering'
  BY <1>1, <1>2, <1>4 DEF Answering, Fresh
<1>6. StageFits'
  BY <1>1, <1>2, <1>5 DEF StageFits
<1> QED  BY <1>1, <1>2, <1>6, GoesOn DEF TurnPlaces

---------------------------------------------------------------------------
(* A turn begins, and a question is answered                               *)

(* The settings are what the assumptions say. *)
LEMMA ConfigIs ==
  ASSUME TurnFits
  PROVE  /\ Config.openers \cup Config.replies \subseteq Texts
         /\ "" \notin Config.ops
<1>1. Config \in Range(Settings)
  BY DEF TurnFits, Config, Range
<1> QED  BY <1>1, TextsAreTokens, OperationsAreNamed DEF Texts

LEMMA InitFits == ASSUME TurnInit PROVE TurnFits /\ Right
<1>1. /\ setting \in DOMAIN Settings /\ messages = << >> /\ pending = NoPending /\ turn = NoTurn
      /\ outcome = Nothing
  BY DEF TurnInit
<1>2. turn.at = "idle" /\ IsTurn(turn) /\ turn.call = NoCall
  BY <1>1 DEF NoTurn, IsTurn
<1>3. IsCall(turn.call)
  BY <1>2, NoCallIs
<1>4. StageFits
  BY <1>2 DEF StageFits
<1>5. PendingFits(pending, Heard)
  BY <1>1 DEF PendingFits
<1>6. messages \in Seq(Message)
  BY <1>1
<1>7. TurnFits
  BY <1>1, <1>2, <1>3, <1>4, <1>5, <1>6 DEF TurnFits
<1>8. outcome.kind = "none"
  BY <1>1, NothingIsQuiet
<1> QED  BY <1>7, <1>8 DEF Right, StatedIsUsed, NothingInvented, QuestionKept, NotAskedAgain, WeatherAsTold

(* A message begins a turn: with its question, if one is pending. *)
LEMMA BeginFits ==
  ASSUME TurnFits, NEW text \in Texts, Begin(text)
  PROVE  TurnFits' /\ Right'
<1> DEFINE place == IF pending = NoPending THEN "plan" ELSE "resume"
           origin == IF pending = NoPending THEN text ELSE pending.origin
<1>1. /\ turn' = [NoTurn EXCEPT !.at = place, !.text = text, !.texts = {text}, !.origin = origin]
      /\ setting' = setting /\ messages' = messages /\ pending' = pending /\ outcome' = Nothing
  BY DEF Begin
<1>2. turn' = [at |-> place, text |-> text, call |-> NoCall, resumed |-> FALSE, origin |-> origin,
               texts |-> {text}, taken |-> {}, lost |-> FALSE, asked |-> NoPending]
  BY <1>1 DEF NoTurn
<1>3. IsTurn(turn') /\ IsCall(turn'.call)
  BY <1>2, NoCallIs DEF IsTurn
<1>4. Fresh' /\ turn'.text = text /\ turn'.at = place /\ turn'.origin = origin
  BY <1>2 DEF Fresh
<1>5. StageFits'
  BY <1>1, <1>4 DEF StageFits
<1> QED  BY <1>1, <1>3, <1>4, <1>5, GoesOn DEF TurnPlaces

(* A question may be given up, *)
LEMMA CancelFits ==
  ASSUME TurnFits, Cancel
  PROVE  TurnFits' /\ Right'
BY QuietReplyFits DEF Cancel, At

(* The question of a session. *)
LEMMA PendingIs ==
  ASSUME TurnFits, pending # NoPending
  PROVE  \/ pending.tool = "calculator" /\ CalculatorFits(pending, Heard)
         \/ pending.tool = "weather" /\ WeatherFits(pending.args, pending)
BY DEF TurnFits, PendingFits

(* The call merged with an update answers the question. *)
LEMMA MergedFits ==
  ASSUME NEW p, NEW heard, p.tool = "calculator", CalculatorFits(p, heard), NEW more, heard \subseteq more,
         NEW u, NEW taken,
         \A f \in Attrs(Operation(p.args)) : f \in DOMAIN u \cap p.missing =>
            f \in taken \/ \E t \in more : Shows(t, f)
  PROVE  AnswerFits(Call(p.tool, MergedFrom(p, u)), p, p.taken \cup taken, more)
<1> DEFINE m == MergedFrom(p, u)
           c == Call(p.tool, m)
           attrs == Attrs(Operation(p.args))
<1>1. c.tool = p.tool /\ c.args = m
  BY CallIs
<1>2. Operation(m) = Operation(p.args)
  BY MergedFromIs
<1>3. attrs # {} =>
        /\ \A f \in (attrs \cap DOMAIN p.args) \ p.missing : f \in DOMAIN m /\ m[f] = p.args[f]
        /\ \A f \in attrs \cap DOMAIN m : f \in DOMAIN p.args \/ f \in DOMAIN u \cap p.missing
  BY MergeKeeps
<1> HIDE DEF m, c, attrs
<1>4. ASSUME NEW f \in (attrs \cap DOMAIN m) \ (p.taken \cup taken)
      PROVE  \E t \in more : Shows(t, f)
  <2>1. CASE f \in DOMAIN p.args
    <3>1. Grounded(p.args, p.taken, heard)
      BY DEF CalculatorFits
    <3>2. \E t \in heard : Shows(t, f)
      BY <1>4, <2>1, <3>1 DEF Grounded, attrs
    <3> QED  BY <3>2
  <2>2. CASE f \in DOMAIN u \cap p.missing
    BY <1>4, <2>2 DEF attrs
  <2> QED  BY <1>3, <1>4, <2>1, <2>2
<1>5. Grounded(m, p.taken \cup taken, more)
  BY <1>2, <1>4 DEF Grounded, attrs
<1>6. \A f \in (attrs \cap DOMAIN p.args) \ p.missing : f \in DOMAIN m /\ m[f] = p.args[f]
  BY <1>3
<1>7. AnswerFits(c, p, p.taken \cup taken, more)
  BY <1>1, <1>2, <1>5, <1>6 DEF AnswerFits, attrs
<1> QED  BY <1>7 DEF c, m

(* TryFillPending *)
LEMMA FilledFits ==
  ASSUME TurnFits, pending # NoPending, turn.text \in Texts, TryFill(pending, turn.text) # NoCall
  PROVE  /\ IsCall(TryFill(pending, turn.text))
         /\ AnswerFits(TryFill(pending, turn.text), pending, pending.taken \cup {}, Heard \cup {turn.text})
<1> DEFINE p == pending
           reply == turn.text
           more == Heard \cup {reply}
           place == ParseLocation(reply) \o <<reply>>
           at == [location |-> place[1]]
           u == FillUpdate(p, reply)
           filled == TryFill(p, reply)
           By(update) == Call(p.tool, MergeArgs(p, update)[1])
<1>1. \/ p.tool = "weather" /\ filled = By(at)
      \/ p.tool = "calculator" /\ filled = By(u)
  <2> DEFINE fill(update) == IF DOMAIN update = {} THEN NoCall ELSE By(update)
  <2>1. p.tool = "calculator" \/ p.tool = "weather"
    BY PendingIs
  <2>2. filled = fill(CASE p.tool = "weather" /\ "location" \in p.missing /\ reply # << >> -> at
                        [] p.tool = "calculator" -> u
                        [] OTHER                 -> NoArgs)
    BY Zenon DEF TryFill
  <2> HIDE DEF at, u
  <2>3. fill(NoArgs) = NoCall
    BY DEF NoArgs
  <2>4. CASE p.tool = "calculator"
    <3>1. filled = fill(u)
      BY <2>2, <2>4
    <3> QED  BY <2>4, <3>1
  <2>5. CASE p.tool = "weather"
    <3>1. filled = fill(at) \/ filled = fill(NoArgs)
      <4> HIDE DEF fill
      <4> QED  BY <2>2, <2>5
    <3> QED  BY <2>3, <2>5, <3>1
  <2> QED  BY <2>1, <2>4, <2>5
<1>2. CASE p.tool = "weather" /\ filled = By(at)
  <2>1. WeatherFits(p.args, p)
    BY <1>2, PendingIs
  <2>2. MergeArgs(p, at) = <<at ++ p.args>>
    <3> HIDE DEF at
    <3> QED  BY <1>2, Zenon DEF MergeArgs
  <2>3. filled = Call("weather", at ++ p.args)
    BY <1>2, <2>2
  <2>4. WeatherFits(at ++ p.args, p)
    BY <2>1, PlaceKeeps DEF WeatherFits
  <2> HIDE DEF at
  <2>5. filled.tool = "weather" /\ filled.args = at ++ p.args /\ IsCall(filled)
    BY <2>3, CallIs
  <2> HIDE DEF filled
  <2>6. AnswerFits(filled, p, p.taken \cup {}, more)
    BY <1>2, <2>4, <2>5 DEF AnswerFits
  <2> QED  BY <2>5, <2>6 DEF filled
<1>3. CASE p.tool = "calculator" /\ filled = By(u)
  <2>1. CalculatorFits(p, Heard)
    BY <1>3, PendingIs
  <2>2. /\ Operation(u) = ""
        /\ Attrs(Operation(p.args)) # {} => \A f \in DOMAIN u \cap Person : Shows(reply, f)
    BY FillIs
  <2> HIDE DEF u
  <2>3. Operation(p.args) # ""
    BY <2>1 DEF CalculatorFits
  <2>4. MergeArgs(p, u) = <<MergedFrom(p, u)>>
    BY <1>3, <2>2, <2>3, MergeIs
  <2>5. filled = Call(p.tool, MergedFrom(p, u))
    BY <1>3, <2>4
  <2>6. \A f \in Attrs(Operation(p.args)) : f \in DOMAIN u \cap p.missing =>
          f \in {} \/ \E t \in more : Shows(t, f)
    BY <2>2, AttrsAre
  <2>7. AnswerFits(Call(p.tool, MergedFrom(p, u)), p, p.taken \cup {}, more)
    <3> DEFINE none == {}
               heard == Heard
    <3>1. heard \subseteq more
      OBVIOUS
    <3>2. p.tool = "calculator" /\ CalculatorFits(p, heard)
      BY <1>3, <2>1
    <3>3. \A f \in Attrs(Operation(p.args)) : f \in DOMAIN u \cap p.missing =>
            f \in none \/ \E t \in more : Shows(t, f)
      BY <2>6
    <3> HIDE DEF none, heard, more, p
    <3>4. AnswerFits(Call(p.tool, MergedFrom(p, u)), p, p.taken \cup none, more)
      BY <3>1, <3>2, <3>3, MergedFits
    <3> QED  BY <3>4 DEF none
  <2> QED  BY <2>5, <2>7, CallIs
<1> QED  BY <1>1, <1>2, <1>3

(* answered without the model, *)
LEMMA FillFromReplyFits ==
  ASSUME TurnFits, FillFromReply
  PROVE  TurnFits' /\ Right'
<1> DEFINE filled == TryFill(pending, turn.text)
<1>1. turn.at = "resume" /\ pending # NoPending /\ turn.text \in Texts
  BY DEF FillFromReply, At, TurnFits, StageFits
<1>2. Goes(IF filled # NoCall THEN Resumed(filled, {}) ELSE [turn EXCEPT !.at = "unanswered"])
  BY DEF FillFromReply
<1>3. /\ turn' = IF filled # NoCall THEN Resumed(filled, {}) ELSE [turn EXCEPT !.at = "unanswered"]
      /\ setting' = setting /\ messages' = messages /\ pending' = pending /\ outcome' = outcome
  BY <1>2, Zenon DEF Goes
<1>4. CASE filled # NoCall
  <2>1. IsCall(filled) /\ AnswerFits(filled, pending, pending.taken \cup {}, Heard \cup {turn.text})
    BY <1>1, <1>4, FilledFits
  <2>2. turn' = Resumed(filled, {})
    BY <1>3, <1>4
  <2> HIDE DEF filled
  <2> QED  BY <1>1, <1>3, <2>1, <2>2, ResumedFits
<1>5. CASE filled = NoCall
  <2>1. turn' = [turn EXCEPT !.at = "unanswered"]
    BY <1>3, <1>5
  <2> QED  BY <1>1, <1>3, <2>1, MovesFits
<1> QED  BY <1>4, <1>5

(* left for another request, *)
LEMMA InterruptFits ==
  ASSUME TurnFits, Interrupt
  PROVE  TurnFits' /\ Right'
<1>1. turn.at = "unanswered" /\ Fresh /\ outcome = Nothing /\ turn.text \in Texts
  BY DEF Interrupt, At, TurnFits, StageFits
<1>2. CASE /\ pending' = NoPending
           /\ turn' = [Executes(Shortcut) EXCEPT !.origin = turn.text]
           /\ UNCHANGED <<setting, messages, outcome, turns, vars>>
  <2>1. /\ IsTurn(Executes(Shortcut)) /\ Executes(Shortcut).at = "run" /\ Executes(Shortcut).text = turn.text
        /\ Executes(Shortcut).call = Shortcut /\ Executes(Shortcut).resumed = turn.resumed
        /\ Executes(Shortcut).texts = turn.texts /\ Executes(Shortcut).taken = turn.taken
        /\ Executes(Shortcut).lost = turn.lost
    BY TurnRuns DEF TurnFits
  <2>2. /\ turn'.at = "run" /\ turn'.text = turn.text /\ turn'.call = Shortcut /\ turn'.resumed = turn.resumed
        /\ turn'.origin = turn.text /\ turn'.texts = turn.texts /\ turn'.taken = turn.taken
        /\ turn'.lost = turn.lost /\ IsTurn(turn')
    BY <1>2, <2>1, TurnOf DEF TurnFits
  <2>3. Fresh' /\ outcome' = Nothing
    BY <1>1, <1>2, <2>2 DEF Fresh
  <2>4. IsCall(turn'.call) /\ CallFits(turn'.call, turn'.text)
    BY <2>2, InferredFits
  <2>5. StageFits'
    BY <1>1, <2>2, <2>3, <2>4 DEF StageFits, CallFits
  <2> QED  BY <1>2, <2>2, <2>3, <2>4, <2>5, GoesOn DEF TurnPlaces
<1>3. CASE Goes([turn EXCEPT !.at = "update"])
  BY <1>1, <1>3, MovesFits DEF Goes
<1> QED  BY <1>2, <1>3, Zenon DEF Interrupt

(* answered by the model, *)
LEMMA ResumeByModelFits ==
  ASSUME TurnFits, ResumeByModel
  PROVE  TurnFits' /\ Right'
<1>1. turn.at = "update" /\ pending # NoPending /\ pending.tool = "calculator"
  BY DEF ResumeByModel, At, TurnFits, StageFits
<1>9. PICK update : \E m \in Range(MergeArgs(pending, update)) :
        Goes(Resumed(Call(pending.tool, m), pending.missing))
  BY DEF ResumeByModel
<1>2. PICK merged \in Range(MergeArgs(pending, update)) :
        Goes(Resumed(Call(pending.tool, merged), pending.missing))
  BY <1>9
<1>3. CalculatorFits(pending, Heard) /\ Operation(pending.args) # ""
  BY <1>1, PendingIs DEF CalculatorFits
<1>4. PICK u : merged = MergedFrom(pending, u)
  BY <1>1, <1>2, <1>3, MergeIs
<1> DEFINE call == Call(pending.tool, MergedFrom(pending, u))
<1>5. AnswerFits(call, pending, pending.taken \cup pending.missing, Heard \cup {turn.text})
  <2> DEFINE p == pending
             heard == Heard
             more == Heard \cup {turn.text}
             taken == pending.missing
  <2>1. heard \subseteq more /\ p.tool = "calculator" /\ CalculatorFits(p, heard)
    BY <1>1, <1>3
  <2>2. \A f \in Attrs(Operation(p.args)) : f \in DOMAIN u \cap p.missing =>
          f \in taken \/ \E t \in more : Shows(t, f)
    OBVIOUS
  <2> HIDE DEF p, heard, more, taken
  <2>3. AnswerFits(Call(p.tool, MergedFrom(p, u)), p, p.taken \cup taken, more)
    BY <2>1, <2>2, MergedFits
  <2> QED  BY <2>3 DEF p, taken, more
<1>6. IsCall(call)
  BY CallIs
<1>7. /\ turn' = Resumed(call, pending.missing)
      /\ setting' = setting /\ messages' = messages /\ pending' = pending /\ outcome' = outcome
  BY <1>2, <1>4 DEF Goes
<1> HIDE DEF call
<1> QED  BY <1>1, <1>5, <1>6, <1>7, ResumedFits

(* or dropped, when the model has no answer. *)
LEMMA GiveUpFits ==
  ASSUME TurnFits, GiveUp
  PROVE  TurnFits' /\ Right'
<1>1. turn.at = "update" /\ Fresh /\ outcome = Nothing /\ turn.text \in Texts
  BY DEF GiveUp, At, TurnFits, StageFits
<1>2. /\ turn' = [turn EXCEPT !.at = "plan", !.origin = turn.text]
      /\ setting' = setting /\ messages' = messages /\ pending' = NoPending /\ outcome' = outcome
  BY DEF GiveUp
<1> DEFINE u == [turn EXCEPT !.at = "plan"]
<1>3. /\ u.at = "plan" /\ u.text = turn.text /\ u.call = turn.call /\ u.resumed = turn.resumed
      /\ u.texts = turn.texts /\ u.taken = turn.taken /\ u.lost = turn.lost /\ IsTurn(u)
  BY TurnAt DEF TurnFits
<1>4. turn' = [u EXCEPT !.origin = turn.text]
  BY <1>2
<1> HIDE DEF u
<1>5. /\ turn'.at = "plan" /\ turn'.text = turn.text /\ turn'.call = turn.call /\ turn'.resumed = turn.resumed
      /\ turn'.origin = turn.text /\ turn'.texts = turn.texts /\ turn'.taken = turn.taken
      /\ turn'.lost = turn.lost /\ IsTurn(turn')
  BY <1>3, <1>4, TurnOf DEF TurnFits
<1>6. Fresh' /\ outcome' = Nothing
  BY <1>1, <1>2, <1>5 DEF Fresh
<1>7. StageFits'
  BY <1>1, <1>5, <1>6 DEF StageFits
<1>8. IsCall(turn'.call)
  BY <1>5 DEF TurnFits
<1> QED  BY <1>2, <1>5, <1>6, <1>7, <1>8, GoesOn DEF TurnPlaces

---------------------------------------------------------------------------
(* A turn is planned                                                       *)

(* Nothing changes but the turn. *)
Steady == setting' = setting /\ messages' = messages /\ pending' = pending /\ outcome' = outcome

(* A call the model extracts runs. *)
LEMMA NameFits ==
  ASSUME TurnFits, turn.at \in {"choose", "extract"}, NEW tool, NEW ops, "" \notin ops,
         NEW call \in Extractions(tool, ops), turn' = Executes(call), Steady
  PROVE  TurnFits' /\ Right'
<1>1. IsCall(call) /\ CallFits(call, turn.text)
  BY ExtractedFits
<1> QED  BY <1>1, ExecutesFits DEF Steady

LEMMA RecogniseFits ==
  ASSUME TurnFits, Recognise
  PROVE  TurnFits' /\ Right'
<1> DEFINE place == IF Config.selector THEN "select" ELSE "extract"
<1>1. turn.at = "plan"
  BY DEF Recognise, At
<1>2. /\ turn' = IF Inferred # NoCall THEN Executes(Inferred) ELSE [turn EXCEPT !.at = place]
      /\ Steady
  BY Zenon DEF Recognise, Goes, Steady
<1>3. CASE Inferred # NoCall
  BY <1>1, <1>2, <1>3, InferredFits, ExecutesFits DEF Steady
<1>4. CASE Inferred = NoCall
  <2>1. turn' = [turn EXCEPT !.at = place] /\ place \in {"select", "extract"}
    BY <1>2, <1>4
  <2> HIDE DEF place
  <2> QED  BY <1>1, <1>2, <2>1, MovesFits DEF Steady
<1> QED  BY <1>3, <1>4

LEMMA AskSelectorFits ==
  ASSUME TurnFits, AskSelector
  PROVE  TurnFits' /\ Right'
BY MovesFits DEF AskSelector, At

LEMMA NoRoutesFits ==
  ASSUME TurnFits, NoRoutes
  PROVE  TurnFits' /\ Right'
BY MovesFits DEF NoRoutes, At

LEMMA DecideFits ==
  ASSUME TurnFits, Decide
  PROVE  TurnFits' /\ Right'
<1>1. PICK tool \in Supported : \E call \in Extractions(tool, Config.ops) : Goes(Executes(call))
  BY DEF Decide
<1>2. PICK call \in Extractions(tool, Config.ops) : Goes(Executes(call))
  BY <1>1
<1>3. turn' = Executes(call) /\ Steady /\ turn.at = "extract"
  BY <1>2 DEF Goes, Steady, Decide, At
<1>4. "" \notin Config.ops
  BY ConfigIs
<1> QED  BY <1>2, <1>3, <1>4, NameFits

LEMMA ModelFailsFits ==
  ASSUME TurnFits, ModelFails
  PROVE  TurnFits' /\ Right'
BY ErrsFits DEF ModelFails

LEMMA ChooseRouteFits ==
  ASSUME TurnFits, NEW route, ChooseRoute(route)
  PROVE  TurnFits' /\ Right'
<1> DEFINE ops == IF route.op = "" THEN Config.ops ELSE {route.op}
<1>1. turn.at = "choose" /\ turn.at # "idle"
  BY DEF ChooseRoute, At
<1>2. "" \notin ops
  BY ConfigIs
<1>3. \/ Errs
      \/ Offline
      \/ Ends("done", NoCall, << >>) /\ Replies(FALSE) /\ UNCHANGED pending
      \/ /\ route.target \in Immediate /\ turn' = Executes(Call(route.target, NoArgs))
         /\ UNCHANGED <<setting, messages, pending, outcome, turns>>
      \/ \E call \in Extractions(route.target, ops) :
            /\ turn' = Executes(call)
            /\ UNCHANGED <<setting, messages, pending, outcome, turns>>
  BY Zenon DEF ChooseRoute
<1>4. CASE Errs
  BY <1>4, ErrsFits
<1>5. CASE Offline
  <2>1. Replies(FALSE) /\ Ends("offline", NoCall, << >>) /\ pending' = pending
    BY <1>5 DEF Offline
  <2> QED  BY <1>1, <2>1, QuietReplyFits
<1>6. CASE Ends("done", NoCall, << >>) /\ Replies(FALSE) /\ UNCHANGED pending
  BY <1>1, <1>6, QuietReplyFits
<1>7. CASE /\ route.target \in Immediate /\ turn' = Executes(Call(route.target, NoArgs))
           /\ UNCHANGED <<setting, messages, pending, outcome, turns>>
  <2> DEFINE call == Call(route.target, NoArgs)
  <2>1. route.target \notin {"calculator", "weather"}
    BY <1>7 DEF Immediate
  <2>2. IsCall(call) /\ CallFits(call, turn.text)
    BY <2>1, OtherFits
  <2> HIDE DEF call
  <2> QED  BY <1>1, <1>7, <2>2, ExecutesFits DEF call
<1>8. CASE \E call \in Extractions(route.target, ops) :
             /\ turn' = Executes(call)
             /\ UNCHANGED <<setting, messages, pending, outcome, turns>>
  <2>1. PICK call \in Extractions(route.target, ops) :
          turn' = Executes(call) /\ UNCHANGED <<setting, messages, pending, outcome, turns>>
    BY <1>8
  <2> HIDE DEF ops
  <2> QED  BY <1>1, <1>2, <2>1, NameFits DEF Steady
<1> QED  BY <1>3, <1>4, <1>5, <1>6, <1>7, <1>8

(* Nothing of the session changes. *)
LEMMA SameFits ==
  ASSUME TurnFits, Right, UNCHANGED <<setting, messages, pending, turn, outcome>>
  PROVE  TurnFits' /\ Right'
<1>1. Heard' = Heard
  BY DEF Heard
<1>2. TurnFits'
  BY <1>1 DEF TurnFits, StageFits, Fresh, Answering
<1>3. Right'
  BY <1>1 DEF Right, StatedIsUsed, NothingInvented, QuestionKept, NotAskedAgain, WeatherAsTold
<1> QED  BY <1>2, <1>3

(* Every step keeps TurnFits and ends a turn right. *)
LEMMA NextFits ==
  ASSUME TurnFits, Right, [TurnNext]_allVars
  PROVE  TurnFits' /\ Right'
<1>1. CASE UNCHANGED allVars
  BY <1>1, SameFits DEF allVars, dialogue
<1>2. CASE \E text \in IF pending = NoPending THEN Config.openers ELSE Config.replies : Begin(text)
  BY <1>2, ConfigIs, BeginFits
<1>3. CASE Resume
  <2>1. CASE ResumeFails
    BY <2>1, ErrsFits DEF ResumeFails
  <2> QED
    BY <1>3, <2>1, CancelFits, FillFromReplyFits, InterruptFits, ResumeByModelFits, GiveUpFits DEF Resume
<1>4. CASE Plan
  BY <1>4, RecogniseFits, AskSelectorFits, NoRoutesFits, DecideFits, ModelFailsFits, ChooseRouteFits DEF Plan
<1>5. CASE Run
  BY <1>5, RunCalculatorFits, RunWeatherFits, RunOtherFits DEF Run
<1>6. CASE Beside
  BY <1>6, SameFits DEF Beside, dialogue
<1> QED  BY <1>1, <1>2, <1>3, <1>4, <1>5, <1>6 DEF TurnNext

---------------------------------------------------------------------------
(* The retrievals of the session and of the others                         *)

(* The session retrieves only while its turn chooses a route. *)
SessionIdle == turn.at # "choose" => calls[Me] = Idle

(* A turn forgets its retrieval when it is over. *)
LEMMA ForgetKeeps ==
  ASSUME IInv, SessionIdle, turn.at # "choose" \/ calls[Me].at \in {"done", "failed"}, Forget
  PROVE  IInv' /\ SessionIdle'
<1>1. Me \in Callers /\ Idle \in Stages /\ Idle.at = "idle" /\ calls[Me].at \notin Holding
  BY SessionIsACaller DEF SessionIdle, Idle, Stages, Places, Holding
<1>2. Typed /\ MutexHeld /\ StoredWhenCached
  BY DEF IInv
<1>3. calls' = [calls EXCEPT ![Me] = Idle] /\ UNCHANGED <<file, cache, mutex, docs, embs>>
  BY DEF Forget
<1>4. calls'[Me] = Idle
  BY <1>1, <1>2, <1>3 DEF Typed
<1>5. KeepsVersion(Me)' /\ LoadStored(Me)' /\ ProposesOwn(Me)'
  BY <1>1, <1>4 DEF KeepsVersion, LoadStored, ProposesOwn
<1>6. mutex # Me /\ Idle.at \notin Holding
  BY <1>1, <1>2 DEF MutexHeld, Holding
<1>7. StoredWhenCached'
  BY <1>2, <1>3 DEF StoredWhenCached
<1>8. IInv'
  BY <1>1, <1>2, <1>3, <1>5, <1>6, <1>7, OneMoves DEF Typed
<1> QED  BY <1>4, <1>8 DEF SessionIdle

LEMMA StillKeeps ==
  ASSUME IInv, SessionIdle, UNCHANGED vars, turn.at # "choose" \/ turn' = turn
  PROVE  IInv' /\ SessionIdle'
<1>1. IInv'
  BY NextIInv
<1> QED  BY <1>1 DEF SessionIdle, vars

(* The retrieval of another caller is not the session's. *)
LEMMA OthersLeave ==
  ASSUME IInv, NEW c \in Callers, c # Me, Retrieve(c)
  PROVE  calls'[Me] = calls[Me]
<1>1. calls \in [Callers -> Stages] /\ Me \in Callers
  BY SessionIsACaller DEF IInv, Typed
<1> QED
  BY <1>1 DEF Retrieve, ReadCatalog, Enter, SyncDocuments, SyncEmbeddings, EmbedCatalog, Fail, Rank, Move

LEMMA BesideKeeps ==
  ASSUME IInv, SessionIdle, TurnFits, Beside
  PROVE  IInv' /\ SessionIdle'
<1>1. turn' = turn
  BY DEF Beside, dialogue
<1>2. ASSUME NEW v \in Versions, Edit(v) PROVE IInv' /\ SessionIdle'
  <2>1. IInv'
    BY <1>2, NextIInv DEF Next
  <2> QED  BY <1>1, <1>2, <2>1 DEF Edit, SessionIdle
<1>3. ASSUME NEW c \in Config.others, Retrieve(c) PROVE IInv' /\ SessionIdle'
  <2>1. Config \in Range(Settings)
    BY DEF TurnFits, Config, Range
  <2>2. c \in Callers /\ c # Me
    BY <1>3, <2>1, SettingsAreSettings
  <2>3. IInv'
    BY <1>3, <2>2, NextIInv DEF Next
  <2>4. calls'[Me] = calls[Me]
    BY <1>3, <2>2, OthersLeave
  <2> QED  BY <1>1, <2>3, <2>4 DEF SessionIdle
<1>4. ASSUME turn.at = "choose", Retrieve(Me) PROVE IInv' /\ SessionIdle'
  <2>1. IInv'
    BY <1>4, SessionIsACaller, NextIInv DEF Next
  <2> QED  BY <1>1, <1>4, <2>1 DEF SessionIdle
<1> QED  BY <1>2, <1>3, <1>4 DEF Beside, Retrieve, At

(* Every step of a turn keeps the invariant of Routing. *)
LEMMA RoutingKeeps ==
  ASSUME IInv, SessionIdle, TurnFits, [TurnNext]_allVars
  PROVE  IInv' /\ SessionIdle'
<1>1. CASE UNCHANGED allVars
  BY <1>1, StillKeeps DEF allVars, dialogue
<1>2. CASE \E text \in IF pending = NoPending THEN Config.openers ELSE Config.replies : Begin(text)
  BY <1>2, StillKeeps DEF Begin, At
<1>3. CASE Resume
  <2>1. UNCHANGED vars /\ turn.at # "choose"
    BY <1>3 DEF Resume, Cancel, FillFromReply, Interrupt, ResumeByModel, ResumeFails, GiveUp, Goes, At
  <2> QED  BY <2>1, StillKeeps
<1>4. CASE Run
  <2>1. UNCHANGED vars /\ turn.at # "choose"
    BY <1>4 DEF Run, RunCalculator, RunWeather, RunOther, At
  <2> QED  BY <2>1, StillKeeps
<1>5. CASE Beside
  BY <1>5, BesideKeeps
<1>6. CASE Plan
  <2>1. CASE Recognise \/ Decide
    <3>1. UNCHANGED vars /\ turn.at # "choose"
      BY <2>1 DEF Recognise, Decide, Goes, At
    <3> QED  BY <3>1, StillKeeps
  <2>2. CASE AskSelector
    <3>1. Retrieve(Me) /\ turn'.at = "choose"
      BY <2>2, TurnAt DEF AskSelector, Retrieve, TurnFits
    <3>2. IInv'
      BY <3>1, SessionIsACaller, NextIInv DEF Next
    <3> QED  BY <3>1, <3>2 DEF SessionIdle
  <2>3. CASE NoRoutes
    BY <2>3, ForgetKeeps DEF NoRoutes
  <2>4. CASE ModelFails
    BY <2>4, ForgetKeeps DEF ModelFails, At
  <2>5. ASSUME NEW route, ChooseRoute(route) PROVE IInv' /\ SessionIdle'
    BY <2>5, ForgetKeeps DEF ChooseRoute
  <2> QED  BY <1>6, <2>1, <2>2, <2>3, <2>4, <2>5 DEF Plan
<1> QED  BY <1>1, <1>2, <1>3, <1>4, <1>5, <1>6 DEF TurnNext

---------------------------------------------------------------------------
(* The theorems of a turn                                                  *)

(* The inductive invariant. *)
TurnInvariant == IInv /\ SessionIdle /\ TurnFits /\ Right

LEMMA TurnInvariance == TurnSpec => []TurnInvariant
<1>1. TurnInit => TurnInvariant
  <2>1. ASSUME TurnInit PROVE SessionIdle
    BY <2>1, SessionIsACaller DEF TurnInit, Init, SessionIdle
  <2> QED  BY <2>1, InitFits, InitIInv DEF TurnInit, TurnInvariant
<1>2. TurnInvariant /\ [TurnNext]_allVars => TurnInvariant'
  BY NextFits, RoutingKeeps DEF TurnInvariant
<1> QED  BY <1>1, <1>2, PTL DEF TurnSpec

(* A number about a person is computed from what the latest message gives,  *)
(* whatever the model extracted or an earlier answer left in the call       *)
(* (ResolveCalculatorCall).                                                 *)
THEOREM StatedValues == TurnSpec => []StatedIsUsed
<1>1. TurnInvariant => StatedIsUsed
  BY DEF TurnInvariant, Right
<1> QED  BY <1>1, TurnInvariance, PTL

(* No number about a person rests on what the user never mentioned, unless  *)
(* the model made it up as the answer to a question (GroundCall).           *)
THEOREM EverythingMentioned == TurnSpec => []NothingInvented
<1>1. TurnInvariant => NothingInvented
  BY DEF TurnInvariant, Right
<1> QED  BY <1>1, TurnInvariance, PTL

(* The answer to a question keeps its operation and what was said before,   *)
(* over any number of replies (mergePendingArgs).                           *)
THEOREM AnswersTheQuestion == TurnSpec => []QuestionKept
<1>1. TurnInvariant => QuestionKept
  BY DEF TurnInvariant, Right
<1> QED  BY <1>1, TurnInvariance, PTL

(* Nobody is asked for what they have given since the request, in any order *)
(* of the replies.                                                          *)
THEOREM AskedOnce == TurnSpec => []NotAskedAgain
<1>1. TurnInvariant => NotAskedAgain
  BY DEF TurnInvariant, Right
<1> QED  BY <1>1, TurnInvariance, PTL

(* The weather that is reported is that of the day and the hour the request *)
(* named, however many replies later the place is found.                    *)
THEOREM TimeAsTold == TurnSpec => []WeatherAsTold
<1>1. TurnInvariant => WeatherAsTold
  BY DEF TurnInvariant, Right
<1> QED  BY <1>1, TurnInvariance, PTL

(* The routes a turn chooses from are of one version of the catalog, though *)
(* the file is edited and others retrieve during the turn.                  *)
THEOREM TurnOneVersion == TurnSpec => []RetrievalWhole
<1>1. TurnInvariant => RetrievalWhole
  BY WholeByIInv DEF TurnInvariant
<1> QED  BY <1>1, TurnInvariance, PTL
=============================================================================
