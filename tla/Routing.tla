------------------------------- MODULE Routing -------------------------------
(***************************************************************************)
(* The route selector (src/src/orchestrator/routing): concurrent callers   *)
(* retrieve candidate routes from a catalog file that may be edited at any *)
(* time.  What was read of the file is embedded once, kept behind a mutex, *)
(* and its routes are written to two tables of the database, each in a     *)
(* transaction of its own.                                                 *)
(*                                                                         *)
(* A content of the file is named by its version; 0 is no content, as in   *)
(* an empty cache.  Which domains and routes are nearest to a query is a   *)
(* choice.  The field began of a retrieval is history.                     *)
(***************************************************************************)
EXTENDS Integers, FiniteSets, Sequences

CONSTANTS
  Callers,     \* the calls of Retrieve that may be under way at a time
  Catalog,     \* the versions of the file: [domains, routes] each
  TopK,        \* most candidates
  DomainTopK,  \* most domains searched
  Nobody       \* holds the mutex when it is free

Versions == 1 .. Len(Catalog)

(* A route is [id, prefix, domain, target, op]; prefix is what its id has   *)
(* before the first dot, op the operation of its default arguments, and ""  *)
(* stands for a field that is not given.                                    *)
ASSUME CatalogIsOne ==
  Catalog \in Seq([domains : SUBSET STRING,
                   routes : SUBSET [id : STRING, prefix : STRING, domain : STRING,
                                    target : STRING, op : STRING]])
ASSUME LimitsAreNaturals == TopK \in Nat \ {0} /\ DomainTopK \in Nat \ {0}
ASSUME NobodyDiffers == Nobody \notin Callers

VARIABLES
  file,     \* the version in the file
  cache,    \* contentSig and what was computed from it
  mutex,    \* who holds mu
  docs,     \* ids with a row in route_documents
  embs,     \* ids with a row in route_embeddings
  calls     \* each call of Retrieve

vars == <<file, cache, mutex, docs, embs, calls>>

(* The smallest of n and the size of a set. *)
Least(n, S) == IF n <= Cardinality(S) THEN n ELSE Cardinality(S)

---------------------------------------------------------------------------
(* normalizeRoutes: a route needs an id and a target. *)
Complete(v) == {r \in Catalog[v].routes : r.id # "" /\ r.target # ""}

(* inferredDomainID: the domain given, the prefix of the id, the target. *)
InferredDomain(r) ==
  IF r.domain # "" THEN r.domain ELSE IF r.prefix # "" THEN r.prefix ELSE r.target

(* assignRouteDomains, normalizeDomains *)
Routes(v) == {[r EXCEPT !.domain = InferredDomain(r)] : r \in Complete(v)}
Domains(v) == (Catalog[v].domains \ {""}) \cup {InferredDomain(r) : r \in Complete(v)}

Ids(v) == {r.id : r \in Routes(v)}

Idle == [at |-> "idle", read |-> 0, began |-> 0, candidates |-> {}]

Init ==
  /\ file \in Versions
  /\ cache = 0 /\ mutex = Nobody /\ docs = {} /\ embs = {}
  /\ calls = [c \in Callers |-> Idle]

Places == {"idle", "waiting", "documents", "embeddings", "embed", "rank", "done", "failed"}
Holding == {"documents", "embeddings", "embed"}

Move(c, place) == calls' = [calls EXCEPT ![c].at = place]

---------------------------------------------------------------------------
(* Somebody edits the catalog. *)
Edit(v) == v # file /\ file' = v /\ UNCHANGED <<cache, mutex, docs, embs, calls>>

(* ensureLoaded reads the file before it takes the mutex; a file that can't *)
(* be read ends the call.                                                   *)
ReadCatalog(c) ==
  /\ calls[c].at \in {"idle", "done", "failed"}
  /\ \E place \in {"waiting", "failed"} :
       calls' = [calls EXCEPT ![c] = [Idle EXCEPT !.at = place, !.read = file, !.began = file]]
  /\ UNCHANGED <<file, cache, mutex, docs, embs>>

(* The mutex is free: what was read is cached, or has no routes, or is      *)
(* loaded with the mutex held.                                              *)
(* MUTANT of Enter: whatever is cached is used. *)
EnterCached(c) ==
  /\ calls[c].at = "waiting" /\ mutex = Nobody
  /\ calls' = [calls EXCEPT ![c].at = IF cache # 0 THEN "rank"
                                      ELSE IF Routes(calls[c].read) = {} THEN "failed" ELSE "documents",
                            ![c].read = IF cache # 0 THEN cache ELSE @]
  /\ mutex' = IF cache # 0 \/ Routes(calls[c].read) = {} THEN Nobody ELSE c
  /\ UNCHANGED <<file, cache, docs, embs>>

Enter(c) ==
  LET v == calls[c].read
      known == v = cache
      empty == Routes(v) = {}
  IN  /\ calls[c].at = "waiting" /\ mutex = Nobody
      /\ Move(c, IF known THEN "rank" ELSE IF empty THEN "failed" ELSE "documents")
      /\ mutex' = IF known \/ empty THEN Nobody ELSE c
      /\ UNCHANGED <<file, cache, docs, embs>>

(* existingRouteDocumentIDs and insertMissingRouteDocuments: a row for      *)
(* every route that has none, all of them or, when it fails, none.          *)
SyncDocuments(c) ==
  /\ calls[c].at = "documents"
  /\ docs' = docs \cup Ids(calls[c].read)
  /\ Move(c, "embeddings")
  /\ UNCHANGED <<file, cache, mutex, embs>>

(* insertMissingRouteEmbeddings: the same for the embeddings. *)
(* MUTANT of SyncEmbeddings: the first route alone is embedded. *)
SyncOneEmbedding(c) ==
  /\ calls[c].at = "embeddings"
  /\ embs' = embs \cup {CHOOSE i \in Ids(calls[c].read) : TRUE}
  /\ Move(c, "embed")
  /\ UNCHANGED <<file, cache, mutex, docs>>

SyncEmbeddings(c) ==
  /\ calls[c].at = "embeddings"
  /\ embs' = embs \cup Ids(calls[c].read)
  /\ Move(c, "embed")
  /\ UNCHANGED <<file, cache, mutex, docs>>

(* The domains and routes are embedded and everything is kept at once. *)
EmbedCatalog(c) ==
  /\ calls[c].at = "embed"
  /\ cache' = calls[c].read /\ mutex' = Nobody
  /\ Move(c, "rank")
  /\ UNCHANGED <<file, docs, embs>>

(* The database or the embedding service fails: the mutex is given back     *)
(* and the cache stays as it was.                                           *)
Fail(c) ==
  /\ calls[c].at \in Holding \cup {"rank"}
  /\ Move(c, "failed")
  /\ mutex' = IF mutex = c THEN Nobody ELSE mutex
  /\ UNCHANGED <<file, cache, docs, embs>>

(* rankedDomainIDs, rankRoutes: the nearest domains, and of their routes    *)
(* the nearest ones.                                                        *)
Rank(c) ==
  LET v == calls[c].read
  IN  /\ calls[c].at = "rank"
      /\ \E allowed \in SUBSET Domains(v) :
           LET near == {r \in Routes(v) : r.domain \in allowed}
           IN  /\ Cardinality(allowed) = Least(DomainTopK, Domains(v))
               /\ \E found \in SUBSET near :
                    /\ Cardinality(found) = Least(TopK, near)
                    /\ calls' = [calls EXCEPT ![c].at = "done", ![c].candidates = found]
      /\ UNCHANGED <<file, cache, mutex, docs, embs>>

Retrieve(c) ==
  ReadCatalog(c) \/ Enter(c) \/ SyncDocuments(c) \/ SyncEmbeddings(c)
    \/ EmbedCatalog(c) \/ Fail(c) \/ Rank(c)

Next == (\E v \in Versions : Edit(v)) \/ (\E c \in Callers : Retrieve(c))

Spec == Init /\ [][Next]_vars

---------------------------------------------------------------------------
(* What was cached has routes, and the mutex is held by who is loading.     *)
TypeOK ==
  /\ file \in Versions /\ cache \in Versions \cup {0}
  /\ mutex \in Callers \cup {Nobody}
  /\ docs \subseteq UNION {Ids(v) : v \in Versions}
  /\ embs \subseteq UNION {Ids(v) : v \in Versions}
  /\ \A c \in Callers :
       /\ calls[c].at \in Places
       /\ calls[c].at # "idle" => calls[c].read \in Versions /\ calls[c].began \in Versions

(* A retrieval proposes the routes of one version of the catalog, the one   *)
(* that was in the file when it began, however other callers load, fail and *)
(* replace the cache meanwhile.                                             *)
RetrievalWhole ==
  \A c \in Callers :
    calls[c].at = "done" =>
      /\ calls[c].candidates \subseteq Routes(calls[c].began)
      /\ \A r \in calls[c].candidates : r.domain \in Domains(calls[c].began)

(* A cached catalog is stored: whatever of earlier loads failed half way,   *)
(* every route of the version in the cache has a document and an embedding. *)
StoredWhenCached ==
  cache # 0 => Ids(cache) \subseteq docs /\ Ids(cache) \subseteq embs

(* One caller loads at a time, and holds the mutex exactly while it does. *)
MutexHeld ==
  \A c \in Callers : calls[c].at \in Holding <=> mutex = c
=============================================================================
