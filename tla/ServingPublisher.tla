-------------------------- MODULE ServingPublisher --------------------------
(***************************************************************************)
(* ServingPublisher.publish of ingestion/batch/pipeline/                   *)
(* clickhouse_publisher.py, one action per request it sends, run as the    *)
(* Airflow task publish_tested_dimensional_mart_to_clickhouse.  The task   *)
(* holds the only slot of the iceberg_writer pool while it runs; a failed  *)
(* attempt of the task gives the slot back and Airflow starts it again     *)
(* from the beginning.                                                     *)
(***************************************************************************)
EXTENDS ServingStore

CONSTANTS
    Marts,             \* what a dbt build may leave in the two certified marts
    InsertBatchSize,   \* PublisherConfig.insert_batch_size
    ClockSteps,        \* may the host clock be stepped back between attempts?
    OperatorClears     \* may an operator clear tasks of finished runs?

ASSUME PublisherConstants ==
    /\ Marts \subseteq Content
    /\ \A m \in Marts, d \in Datasets :
           \A r1, r2 \in m[d] : r1[1] = r2[1] => r1 = r2
    /\ InsertBatchSize \in Nat \ {0}
    /\ ClockSteps \in BOOLEAN /\ OperatorClears \in BOOLEAN

VARIABLES
    pool,         \* who holds the iceberg_writer slot: "free", "publish", "cleanup"
    tested,       \* number of DAG runs whose mart has been built and tested
    rebuilt,      \* the marts that the next DAG run has built and not yet tested
    mart,         \* the certified current and history marts
    xcom,         \* xcom[r]: publication the publish task of run r reported
    lastAttempt,  \* highest load attempt id handed out so far
    pubPc,        \* the next request of the publish task
    pubRun,       \* the DAG run it belongs to
    pubSource,    \* source_rows read from Trino
    pubAttempt,   \* load_attempt_id
    pubBase,      \* the publication being read back: the one to reuse, then
                  \* base_publication_id, None in full mode
    pubBaseRows,  \* the rows it promises, then base_rows; empty in full mode
    pubDataset,   \* the dataset of the loop's current iteration
    pubKeys,      \* keys still to be deleted from the clone
    pubRows,      \* replacement rows still to be inserted
    pubTime       \* publication_time

taskVars == <<pool, tested, rebuilt, mart, xcom>>
pubLocal == <<pubRun, pubSource, pubAttempt, pubBase, pubBaseRows,
              pubDataset, pubKeys, pubRows, pubTime>>
pubVars  == <<lastAttempt, pubPc, pubLocal>>

PubPcs == {"idle", "read", "lookup", "match", "audit", "base", "read_base",
           "clone", "delete_keys", "insert_rows", "validate",
           "insert_summaries", "insert_marker"}

PublisherTypeOK ==
    /\ pool \in {"free", "publish", "cleanup"}
    /\ tested \in 0..MaxRuns
    /\ rebuilt \subseteq Datasets
    /\ mart \in Content
    /\ xcom \in [Runs -> Attempts \cup {None}]
    /\ lastAttempt \in 0..MaxAttempts
    /\ pubPc \in PubPcs
    /\ pubRun \in Runs \cup {None}
    /\ pubSource \in Content
    /\ pubAttempt \in Attempts \cup {None}
    /\ pubBase \in Attempts \cup {None}
    /\ pubBaseRows \in Content
    /\ pubDataset \in Datasets
    /\ pubKeys \subseteq Keys
    /\ pubRows \subseteq Row
    /\ pubTime \in Attempts \cup {None}

NoLocals ==
    /\ pubRun = None /\ pubSource = Empty /\ pubAttempt = None
    /\ pubBase = None /\ pubBaseRows = Empty /\ pubDataset = "current"
    /\ pubKeys = {} /\ pubRows = {} /\ pubTime = None

PublisherInit ==
    /\ pool = "free"
    /\ tested = 0
    /\ rebuilt = {}
    /\ mart = Empty
    /\ xcom = [r \in Runs |-> None]
    /\ lastAttempt = 0
    /\ pubPc = "idle"
    /\ NoLocals

-----------------------------------------------------------------------------
(* The change plan of one dataset, DatasetChangePlan and                   *)
(* _plan_dataset_changes; with an empty base it is _plan_full_dataset.     *)

InsertedRows(src, base)  == {r \in src : r[1] \notin KeysOf(base)}
UpdatedRows(src, base)   == {r \in src \ base : r[1] \in KeysOf(base)}
DeletedKeys(src, base)   == KeysOf(base) \ KeysOf(src)
UnchangedRows(src, base) == src \cap base

ReplacementRows(src, base) == InsertedRows(src, base) \cup UpdatedRows(src, base)
KeysToRemoveKeepingUpdated(src, base) == DeletedKeys(src, base)   \* wrong
KeysToRemoveFromClone(src, base) ==
    DeletedKeys(src, base) \cup KeysOf(UpdatedRows(src, base))

(* The audit counts the keys that are gone, not every key removed from the *)
(* clone, which would count an update twice.                               *)
DeletedCountOfRemoved(src, base) ==                                \* wrong
    Cardinality(KeysToRemoveFromClone(src, base))
DeletedCount(src, base) == Cardinality(DeletedKeys(src, base))

ChangeSummary(d) ==
    LET src == pubSource[d]
        base == pubBaseRows[d]
    IN [attempt |-> pubAttempt, dataset |-> d, base |-> pubBase,
        source |-> Cardinality(src),
        inserted |-> Cardinality(InsertedRows(src, base)),
        updated |-> Cardinality(UpdatedRows(src, base)),
        deleted |-> DeletedCount(src, base),
        unchanged |-> Cardinality(UnchangedRows(src, base))]

(* _validate_change_summaries, before the audit is stored: what it compares *)
(* is the plan with the source, never with the base.                       *)
SummaryAddsUp(s) ==
    /\ s.source = s.inserted + s.updated + s.unchanged
    /\ s.base # s.attempt
    /\ s.base = None => s.updated + s.deleted + s.unchanged = 0

(* xcom_summary accepts the stored audit of a reused publication only if   *)
(* it is exactly one row per dataset.                                      *)
AuditComplete(a) ==
    \A d \in Datasets : Cardinality({s \in SummariesOf(a) : s.dataset = d}) = 1

(* find_ready_publication(source_fingerprint): the fingerprint covers the  *)
(* run's coverage and dbt identities and both dataset profiles.            *)
ReadySameAsReported == {m \in markers : m.id = xcom[pubRun]}   \* wrong
ReadySame == {m \in markers : m.run = pubRun /\ m.content = pubSource}

(* One round of _read_usable_base: the rows of one dataset of the          *)
(* publication at hand are read and compared with its marker; wrong when   *)
(* the marker alone is trusted.                                            *)
DatasetTrusted == TRUE
DatasetUsable == rows[pubBase][pubDataset] = pubBaseRows[pubDataset]

-----------------------------------------------------------------------------
(* The dbt checkpoints of the next DAG run, each of them holding the pool  *)
(* for itself: one builds the current fact, a later one the history fact,  *)
(* the last one tests them.  max_active_runs = 1 and retries end: a later  *)
(* run may start although an earlier one never published.                  *)
BuildCurrent ==
    /\ pool = "free" /\ tested < MaxRuns /\ rebuilt = {}
    /\ \E m \in Marts : mart' = [mart EXCEPT !["current"] = m["current"]]
    /\ rebuilt' = {"current"}
    /\ UNCHANGED <<pool, tested, xcom, pubVars, storeVars>>

BuildHistory ==
    /\ pool = "free" /\ rebuilt = {"current"}
    /\ mart' \in {m \in Marts : m["current"] = mart["current"]}
    /\ rebuilt' = Datasets
    /\ UNCHANGED <<pool, tested, xcom, pubVars, storeVars>>

TestMart ==
    /\ pool = "free" /\ tested < MaxRuns /\ rebuilt = Datasets
    /\ tested' = tested + 1
    /\ rebuilt' = {}
    /\ UNCHANGED <<pool, mart, xcom, pubVars, storeVars>>

(* The DAG run that Airflow executes is past its dbt checkpoints.          *)
Due(r) == r = tested /\ rebuilt = {}

(* Airflow starts or retries the publish task, or an operator clears it,   *)
(* if need be between two checkpoints of a later run; Airflow drops the    *)
(* task's earlier XCom when it starts.  A task starts only while an        *)
(* attempt id is left, the bound on attempts.                              *)
StartPublish(r) ==
    /\ pool = "free"
    /\ lastAttempt < MaxAttempts
    /\ r \in 1..tested
    /\ OperatorClears \/ (Due(r) /\ xcom[r] = None)
    /\ pool' = "publish"
    /\ pubPc' = "read"
    /\ pubRun' = r
    /\ xcom' = [xcom EXCEPT ![r] = None]
    /\ UNCHANGED <<tested, rebuilt, mart, lastAttempt, pubSource, pubAttempt,
                   pubBase, pubBaseRows, pubDataset, pubKeys, pubRows, pubTime,
                   storeVars>>

(* The task ends, in success or failure: its memory is gone.               *)
EndPublish ==
    /\ pool' = "free"
    /\ pubPc' = "idle"
    /\ pubRun' = None /\ pubSource' = Empty /\ pubAttempt' = None
    /\ pubBase' = None /\ pubBaseRows' = Empty /\ pubDataset' = "current"
    /\ pubKeys' = {} /\ pubRows' = {} /\ pubTime' = None

(* ensure_schema, then both marts are read and profiled.                   *)
ReadMart ==
    /\ pubPc = "read"
    /\ pubSource' = mart
    /\ pubPc' = "lookup"
    /\ UNCHANGED <<taskVars, lastAttempt, pubRun, pubAttempt, pubBase,
                   pubBaseRows, pubDataset, pubKeys, pubRows, pubTime, storeVars>>

(* find_ready_publication, the newest exact successful publication, or     *)
(* find_latest_ready_publication: its marker is kept in memory from here.  *)
Take(m) ==
    /\ pubBase' = m.id
    /\ pubBaseRows' = m.content
    /\ pubDataset' = "current"

FindReady ==
    /\ pubPc = "lookup"
    /\ ReadySame # {}
    /\ Take(Newest(ReadySame))
    /\ pubPc' = "match"
    /\ UNCHANGED <<taskVars, lastAttempt, pubRun, pubSource, pubAttempt,
                   pubKeys, pubRows, pubTime, storeVars>>

(* _stored_publication_matches, one request per dataset.                   *)
MatchStored ==
    /\ pubPc = "match"
    /\ DatasetUsable
    /\ IF pubDataset = "current"
       THEN pubDataset' = "history" /\ UNCHANGED pubPc
       ELSE pubPc' = "audit" /\ UNCHANGED pubDataset
    /\ UNCHANGED <<taskVars, lastAttempt, pubRun, pubSource, pubAttempt,
                   pubBase, pubBaseRows, pubKeys, pubRows, pubTime, storeVars>>

(* read_change_summaries: the publication is reused and reported.          *)
ReuseReady ==
    /\ pubPc = "audit"
    /\ AuditComplete(pubBase)
    /\ xcom' = [xcom EXCEPT ![pubRun] = pubBase]
    /\ EndPublish
    /\ UNCHANGED <<tested, rebuilt, mart, lastAttempt, storeVars>>

(* Its rows match but its audit rows do not: the task fails.               *)
RejectReusedAudit ==
    /\ pubPc = "audit"
    /\ ~ AuditComplete(pubBase)
    /\ EndPublish
    /\ UNCHANGED <<tested, rebuilt, mart, xcom, lastAttempt, storeVars>>

(* load_attempt_id = uuid4(); wrong if it were derived from the run.       *)
AttemptOfRun == pubRun
FreshAttempt == lastAttempt + 1

(* Nothing to reuse, or a copy that no longer matches: a fresh attempt.    *)
NothingToReuse ==
    \/ pubPc = "lookup" /\ ReadySame = {}
    \/ pubPc = "match" /\ ~ DatasetUsable

DrawAttempt ==
    /\ NothingToReuse
    /\ lastAttempt' = lastAttempt + 1
    /\ pubAttempt' = FreshAttempt
    /\ pubBase' = None /\ pubBaseRows' = Empty /\ pubDataset' = "current"
    /\ pubPc' = "base"
    /\ UNCHANGED <<taskVars, pubRun, pubSource, pubKeys, pubRows, pubTime,
                   storeVars>>

(* The latest ready publication is read back as the base.                  *)
FindBase ==
    /\ pubPc = "base"
    /\ markers # {}
    /\ Take(Newest(markers))
    /\ pubPc' = "read_base"
    /\ UNCHANGED <<taskVars, lastAttempt, pubRun, pubSource, pubAttempt,
                   pubKeys, pubRows, pubTime, storeVars>>

ReadBaseCurrent ==
    /\ pubPc = "read_base" /\ pubDataset = "current"
    /\ DatasetUsable
    /\ pubDataset' = "history"
    /\ UNCHANGED <<taskVars, lastAttempt, pubPc, pubRun, pubSource, pubAttempt,
                   pubBase, pubBaseRows, pubKeys, pubRows, pubTime, storeVars>>

(* Enter the loop body for dataset d: the plan is computed from memory and *)
(* the clone is requested only in incremental mode.                        *)
EnterDataset(d, base, baseRows) ==
    /\ pubDataset' = d
    /\ pubKeys' = KeysToRemoveFromClone(pubSource[d], baseRows[d])
    /\ pubRows' = ReplacementRows(pubSource[d], baseRows[d])
    /\ pubPc' = IF base # None THEN "clone" ELSE "insert_rows"

(* Both datasets of the base are usable: incremental mode.                 *)
LoadIncrementally ==
    /\ pubPc = "read_base" /\ pubDataset = "history"
    /\ DatasetUsable
    /\ EnterDataset("current", pubBase, pubBaseRows)
    /\ UNCHANGED <<taskVars, lastAttempt, pubRun, pubSource, pubAttempt,
                   pubBase, pubBaseRows, pubTime, storeVars>>

(* There is no base, or its stored rows are damaged: full mode.            *)
NoUsableBase ==
    \/ pubPc = "base" /\ markers = {}
    \/ pubPc = "read_base" /\ ~ DatasetUsable

LoadFully ==
    /\ NoUsableBase
    /\ pubBase' = None /\ pubBaseRows' = Empty
    /\ EnterDataset("current", None, Empty)
    /\ UNCHANGED <<taskVars, lastAttempt, pubRun, pubSource, pubAttempt,
                   pubTime, storeVars>>

-----------------------------------------------------------------------------
(* The write the task sends next; insert and delete go out in batches.     *)

PubWrites ==
    CASE pubPc = "clone" ->
           {[op |-> "clone", attempt |-> pubAttempt, dataset |-> pubDataset,
             base |-> pubBase]}
      [] pubPc = "delete_keys" ->
           {[op |-> "delete_keys", attempt |-> pubAttempt,
             dataset |-> pubDataset, keys |-> b] :
                b \in Batches(pubKeys, InsertBatchSize)}
      [] pubPc = "insert_rows" ->
           {[op |-> "insert_rows", attempt |-> pubAttempt,
             dataset |-> pubDataset, batch |-> b] :
                b \in Batches(pubRows, InsertBatchSize)}
      [] pubPc = "insert_summaries" ->
           {[op |-> "insert_summaries",
             records |-> {ChangeSummary(d) : d \in Datasets}]}
      [] pubPc = "insert_marker" ->
           {[op |-> "insert_marker",
             marker |-> [id |-> pubAttempt, run |-> pubRun,
                         content |-> pubSource, time |-> pubTime]]}
      [] OTHER -> {}

CloneBase ==
    /\ pubPc = "clone"
    /\ \E w \in PubWrites : Perform(w)
    /\ pubPc' = "delete_keys"
    /\ UNCHANGED <<taskVars, lastAttempt, pubLocal>>

DeleteKeys ==
    /\ pubPc = "delete_keys"
    /\ \E w \in PubWrites :
          /\ Perform(w)
          /\ pubKeys' = pubKeys \ w.keys
    /\ UNCHANGED <<taskVars, lastAttempt, pubPc, pubRun, pubSource, pubAttempt,
                   pubBase, pubBaseRows, pubDataset, pubRows, pubTime>>

(* All keys are gone from the clone (at once when there were none).        *)
KeysDeleted ==
    /\ pubPc = "delete_keys"
    /\ pubKeys = {}
    /\ pubPc' = "insert_rows"
    /\ UNCHANGED <<taskVars, lastAttempt, pubLocal, storeVars>>

InsertRows ==
    /\ pubPc = "insert_rows"
    /\ \E w \in PubWrites :
          /\ Perform(w)
          /\ pubRows' = pubRows \ w.batch
    /\ UNCHANGED <<taskVars, lastAttempt, pubPc, pubRun, pubSource, pubAttempt,
                   pubBase, pubBaseRows, pubDataset, pubKeys, pubTime>>

(* The dataset is complete: go to the next one, or to the validation; a    *)
(* wrong variant starts the loop over again.                               *)
RowsInsertedForever ==
    /\ pubPc = "insert_rows"
    /\ pubRows = {}
    /\ EnterDataset(IF pubDataset = "current" THEN "history" ELSE "current",
                    pubBase, pubBaseRows)
    /\ UNCHANGED <<taskVars, lastAttempt, pubRun, pubSource, pubAttempt,
                   pubBase, pubBaseRows, pubTime, storeVars>>

RowsInserted ==
    /\ pubPc = "insert_rows"
    /\ pubRows = {}
    /\ IF pubDataset = "current"
       THEN EnterDataset("history", pubBase, pubBaseRows)
       ELSE /\ pubPc' = "validate"
            /\ UNCHANGED <<pubDataset, pubKeys, pubRows>>
    /\ UNCHANGED <<taskVars, lastAttempt, pubRun, pubSource, pubAttempt,
                   pubBase, pubBaseRows, pubTime, storeVars>>

(* The candidate is read back and its profile compared with the source,    *)
(* the publication clock is read and the audit is checked before it goes   *)
(* out.                                                                    *)
ClockReadings ==
    IF ClockSteps THEN Attempts \ UsedTimes ELSE {pubAttempt}

CandidateMatches == rows[pubAttempt] = pubSource
CandidateAccepted ==
    CandidateMatches /\ \A d \in Datasets : SummaryAddsUp(ChangeSummary(d))

AcceptCandidate ==
    /\ pubPc = "validate"
    /\ CandidateAccepted
    /\ pubTime' \in ClockReadings
    /\ pubPc' = "insert_summaries"
    /\ UNCHANGED <<taskVars, lastAttempt, pubRun, pubSource, pubAttempt,
                   pubBase, pubBaseRows, pubDataset, pubKeys, pubRows, storeVars>>

RejectCandidate ==
    /\ pubPc = "validate"
    /\ ~ CandidateAccepted
    /\ EndPublish
    /\ UNCHANGED <<tested, rebuilt, mart, xcom, lastAttempt, storeVars>>

InsertSummaries ==
    /\ pubPc = "insert_summaries"
    /\ \E w \in PubWrites : Perform(w)
    /\ pubPc' = "insert_marker"
    /\ UNCHANGED <<taskVars, lastAttempt, pubLocal>>

(* The marker is the final write; the summary returned goes to XCom.       *)
InsertMarker ==
    /\ pubPc = "insert_marker"
    /\ \E w \in PubWrites : Perform(w)
    /\ xcom' = [xcom EXCEPT ![pubRun] = pubAttempt]
    /\ EndPublish
    /\ UNCHANGED <<tested, rebuilt, mart, lastAttempt>>

(* Any request fails, times out or the worker dies: the task attempt ends. *)
PublishFails ==
    /\ pubPc # "idle"
    /\ GiveUp(PubWrites)
    /\ EndPublish
    /\ UNCHANGED <<tested, rebuilt, mart, xcom, lastAttempt>>

PublisherStep ==
    \/ ReadMart \/ FindReady \/ MatchStored \/ ReuseReady \/ RejectReusedAudit
    \/ DrawAttempt \/ FindBase \/ ReadBaseCurrent \/ LoadIncrementally \/ LoadFully
    \/ CloneBase \/ DeleteKeys \/ KeysDeleted \/ InsertRows \/ RowsInserted
    \/ AcceptCandidate \/ RejectCandidate \/ InsertSummaries \/ InsertMarker

PublisherNext ==
    \/ BuildCurrent \/ BuildHistory \/ TestMart
    \/ \E r \in Runs : StartPublish(r)
    \/ PublisherStep
    \/ PublishFails

=============================================================================
