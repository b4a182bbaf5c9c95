---------------------------- MODULE ServingSystem ---------------------------
(***************************************************************************)
(* The serving side of the product: the publish and cleanup tasks of the   *)
(* DAG, which share the iceberg_writer slot, and API clients, which share  *)
(* nothing with them but the ClickHouse tables.                            *)
(***************************************************************************)
EXTENDS ServingRetention, ServingReader

CONSTANTS MaxDamage    \* bound on what the disposable copy loses by itself

ASSUME SystemConstants == MaxDamage \in Nat

VARIABLES
    everReady,   \* history: every marker that has ever been visible
    changed,     \* history: what others changed of the publication that the
                 \* publish task is about to reuse, since the task read it
    damage       \* losses so far

vars == <<storeVars, taskVars, pubVars, retVars, readerVars, everReady, changed,
          damage>>

Init ==
    /\ StoreInit
    /\ PublisherInit
    /\ RetentionInit
    /\ ReaderInit
    /\ everReady = {}
    /\ changed = {}
    /\ damage = 0

(* The copy is disposable: a published version may lose a row, its audit   *)
(* rows or its marker outside of the tasks' control.                       *)
Damage ==
    /\ damage < MaxDamage
    /\ damage' = damage + 1
    /\ \E m \in markers :
          \/ /\ \E d \in Datasets : \E r \in rows[m.id][d] :
                   rows' = [rows EXCEPT ![m.id][d] = @ \ {r}]
             /\ UNCHANGED <<summaries, markers>>
          \/ /\ summaries' = {s \in summaries : s.attempt # m.id}
             /\ SummariesOf(m.id) # {}
             /\ UNCHANGED <<rows, markers>>
          \/ /\ markers' = markers \ {m}
             /\ UNCHANGED <<rows, summaries>>
    /\ UNCHANGED <<inFlight, faults, taskVars, pubVars, retVars, readerVars>>

Tasks ==
    \/ PublisherNext /\ UNCHANGED retVars
    \/ RetentionNext
    \/ ApplyLate /\ UNCHANGED <<taskVars, pubVars, retVars>>

(* The publish task looks up a publication to reuse, then reads its two    *)
(* datasets back; a step that leaves the task alone is someone else's.     *)
Reusing == pubPc \in {"match", "audit"}
PiecesChanged ==
    {d \in Datasets : rows'[pubBase][d] # rows[pubBase][d]}
    \cup {x \in {"marker"} : \E m \in markers \ markers' : m.id = pubBase}

NoteChanged ==
    changed' = IF ~ (Reusing /\ Reusing') THEN {}
               ELSE IF UNCHANGED pubVars THEN changed \cup PiecesChanged
               ELSE changed \ {pubDataset}

Next ==
    /\ \/ Tasks /\ UNCHANGED <<readerVars, damage>>
       \/ ReaderNext /\ UNCHANGED <<taskVars, pubVars, retVars, damage>>
       \/ Damage
    /\ everReady' = everReady \cup markers'
    /\ NoteChanged

Spec == Init /\ [][Next]_vars

(* Airflow runs the started tasks to their end and retries failed ones;    *)
(* nothing obliges users, operators, faults or damage to act.              *)
Fairness ==
    /\ WF_vars(PublisherStep /\ UNCHANGED retVars /\ Next)
    /\ WF_vars(RetentionStep /\ Next)
    /\ WF_vars((\E r \in Runs : StartPublish(r)) /\ UNCHANGED retVars /\ Next)
    /\ WF_vars((\E r \in Runs : StartCleanup(r)) /\ Next)

FairSpec == Spec /\ Fairness

TypeOK ==
    /\ StoreTypeOK /\ PublisherTypeOK /\ RetentionTypeOK /\ ReaderTypeOK
    /\ everReady \subseteq Marker
    /\ changed \subseteq Datasets \cup {"marker"}
    /\ damage \in 0..MaxDamage

-----------------------------------------------------------------------------
(* Safety.                                                                 *)

(* A ready marker never points at rows, or at an audit, that are not       *)
(* exactly what was validated: partial loads, failed tasks and interrupted *)
(* cleanups all stay invisible (the final-marker rule of publish and the   *)
(* marker-first rule of cleanup).                                          *)
ReadyComplete ==
    \A m \in markers : Usable(m) /\ AuditComplete(m.id)

(* The newest Keep versions ever published stay ready whatever happens to  *)
(* later attempts, so a client may finish on the version it started with   *)
(* until Keep newer ones exist.                                            *)
NewestVersionsKept ==
    \A m \in everReady :
        Cardinality({n \in everReady : n.time > m.time}) < Keep => m \in markers

(* The incremental plan is exact: cloning the base, deleting the removed   *)
(* and updated keys and inserting the replacement rows gives the mart, so  *)
(* the validation after the load never has to reject a candidate.          *)
IncrementalLoadIsExact == pubPc = "validate" => CandidateMatches

(* The audit rows of a ready version account for every row of it and, as   *)
(* long as the base is still there, for every row of the base.             *)
AuditReconciles ==
    \A m \in markers : \A s \in SummariesOf(m.id) :
        /\ s.source = Cardinality(m.content[s.dataset])
        /\ s.source = s.inserted + s.updated + s.unchanged
        /\ s.base # m.id
        /\ \A b \in everReady :
               b.id = s.base =>
                 Cardinality(b.content[s.dataset]) =
                     s.updated + s.deleted + s.unchanged

(* Retrying a publication whose answer was lost does not publish the same  *)
(* tested mart of the same run a second time.                              *)
ExactRetryReuses ==
    \A m, n \in markers : m.run = n.run /\ m.content = n.content => m = n

(* A client never sees part of a version, nor rows of two versions: an     *)
(* answer holds all rows of the version it was resolved to.  It holds none *)
(* of them only once at least Keep newer versions were published.  And the *)
(* health check raises no false alarm.                                     *)
NeverPartial ==
    \A c \in Clients :
        /\ answer[c].kind \in {"rows", "not_found"} =>
             \E m \in everReady :
                /\ m.id = answer[c].version
                /\ \/ answer[c].rows = m.content[answer[c].dataset]
                   \/ /\ answer[c].rows = {}
                      /\ Cardinality({n \in everReady : n.time > m.time}) >= Keep
        /\ answer[c].kind # "row_count_mismatch"

(* What apps/api/README.md promises: a version that is missing is refused, *)
(* so that a successful answer holds the rows of the version it names.     *)
HiddenVersionIsRefused ==
    \A c \in Clients :
        answer[c].kind = "rows" =>
            \E m \in everReady :
                /\ m.id = answer[c].version
                /\ answer[c].rows = m.content[answer[c].dataset]

(* A client is refused its version, and the health check misses its        *)
(* version, only after at least Keep newer versions were published.        *)
OnlyOvertakenVersionsVanish ==
    \A c \in Clients :
        answer[c].kind \in {"version_unavailable", "integrity_check_failed"} =>
            \E m \in everReady :
                /\ m.id = answer[c].version
                /\ Cardinality({n \in everReady : n.time > m.time}) >= Keep

-----------------------------------------------------------------------------
(* Action properties.                                                      *)

(* Even over a damaged copy, the id a publish task reports names a version *)
(* of its own run whose stored rows are the certified marts as they stand. *)
(* Each piece is as it was when the task last read it: only what others    *)
(* change of a version to be reused, between the request that reads it and *)
(* the end of the task, may be missing.                                    *)
ReportedVersionIsTestedMart ==
    [][\A r \in Runs :
          xcom'[r] \notin {xcom[r], None} =>
             \E m \in everReady' :
                /\ m.id = xcom'[r] /\ m.run = r /\ m.content = mart
                /\ m \in markers' \/ "marker" \in changed
                /\ \A d \in Datasets :
                      rows'[m.id][d] = mart[d] \/ d \in changed]_vars

(* A cleanup that succeeds leaves at most Keep versions, the published one *)
(* among them, and no row or audit row of any other attempt.               *)
CleanupLeavesOnlyRetained ==
    [][\A r \in cleaned' \ cleaned :
          /\ Cardinality(markers') <= Keep
          /\ xcom[r] \in MarkerIds'
          /\ CandidateIds' \subseteq MarkerIds']_vars

(* The publisher and the cleanup implement the abstract versioned store,   *)
(* where a version's content is what its stored rows are, not what its     *)
(* marker says.                                                            *)
Versions == INSTANCE ServingVersions WITH
    Ids <- Attempts, Contents <- Content,
    versions <- {[id |-> m.id, time |-> m.time, content |-> rows[m.id]] :
                    m \in markers},
    issued <- {m.id : m \in everReady}

ImplementsVersions == Versions!Spec

-----------------------------------------------------------------------------
(* Liveness.                                                               *)

(* A version of run r is visible and its audit rows were lost: the retry   *)
(* recognises its own publication and fails on the missing audit, each     *)
(* time.                                                                   *)
AuditLost(r) == \E m \in markers : m.run = r /\ ~ AuditComplete(m.id)

(* Every tested run is eventually published, unless the build of a later   *)
(* run has superseded it, however many requests failed within the bound. Losing    *)
(* rows or a marker of the disposable copy delays it at most; only losing  *)
(* the audit rows of a version it would reuse stops it.                    *)
TestedRunIsPublished ==
    \A r \in Runs :
        Due(r) ~> (xcom[r] # None \/ ~ Due(r) \/ AuditLost(r))

(* Every published run is eventually cleaned up after, unless superseded   *)
(* or its own marker was lost.                                             *)
PublishedRunIsCleaned ==
    \A r \in Runs :
        (Due(r) /\ xcom[r] # None) ~>
            (r \in cleaned \/ ~ Due(r) \/ xcom[r] \notin MarkerIds)

-----------------------------------------------------------------------------
(* The inductive invariant behind ReadyComplete, for a server that does    *)
(* not apply abandoned writes later and a copy that loses nothing.         *)

CandidatePcs == {"base", "read_base", "clone", "delete_keys", "insert_rows",
                 "validate", "insert_summaries", "insert_marker"}

(* The task memory that each next request relies on.                       *)
PublishLocals ==
    /\ pubPc # "idle" => pubRun \in Runs
    /\ pubPc \in CandidatePcs => pubAttempt \in Attempts
    /\ pubPc \in {"read", "lookup", "match"} => lastAttempt < MaxAttempts
    /\ pubPc \in {"match", "audit", "read_base", "clone"} => pubBase \in Attempts
    /\ pubPc \in {"insert_summaries", "insert_marker"} => pubTime \in Attempts

CleanupLocals == retPc # "idle" => retRun \in Runs

LocalsTyped == PublishLocals /\ CleanupLocals

NothingAbandoned == inFlight = {} /\ damage = 0

(* The pool slot separates the two tasks.                                  *)
OneWriter ==
    /\ pubPc # "idle" <=> pool = "publish"
    /\ retPc # "idle" <=> pool = "cleanup"

(* Attempt ids are fresh: nothing is marked or audited under an id that    *)
(* has not been handed out, nor under the candidate's until its turn.      *)
FreshAttempts ==
    /\ \A m \in markers : m.id <= lastAttempt
    /\ \A s \in summaries : s.attempt <= lastAttempt
    /\ pubPc \in CandidatePcs =>
         /\ pubAttempt = lastAttempt
         /\ \A m \in markers : m.id # pubAttempt
    /\ pubPc \in CandidatePcs \ {"insert_marker"} =>
         \A s \in summaries : s.attempt # pubAttempt

(* What has been validated stays so until the marker is written.           *)
CandidateReady ==
    /\ pubPc \in {"insert_summaries", "insert_marker"} => CandidateMatches
    /\ pubPc = "insert_marker" =>
         SummariesOf(pubAttempt) = {ChangeSummary(d) : d \in Datasets}

(* The cleanup knows every ready version and deletes rows of none of them. *)
CleanupSafe ==
    /\ retPc \notin {"idle", "list_ready"} =>
         /\ MarkerIds \subseteq retReady
         /\ retRetained \subseteq retReady
         /\ retTargets \cap retRetained = {}
    /\ retPc \in {"idle", "list_ready"} => retTargets = {}
    /\ retPc = "delete_markers" => retTodo \cap retRetained = {}
    /\ retPc \notin {"delete_candidates", "relist_candidates"} => retBatch = {}
    /\ retPc = "delete_candidates" =>
         /\ MarkerIds \subseteq retRetained
         /\ retTodo \subseteq retTargets
         /\ retBatch \subseteq retTargets

ReadyInv ==
    /\ TypeOK /\ LocalsTyped
    /\ NothingAbandoned /\ OneWriter /\ FreshAttempts
    /\ CandidateReady /\ CleanupSafe /\ ReadyComplete

=============================================================================
