-------------------------- MODULE ServingRetention --------------------------
(***************************************************************************)
(* ServingRetentionManager.cleanup with apply = True, of ingestion/batch/  *)
(* pipeline/clickhouse_retention.py, one action per request, run as the    *)
(* Airflow task remove_old_clickhouse_serving_versions in the same         *)
(* one-slot pool as the publisher.                                         *)
(***************************************************************************)
EXTENDS ServingPublisher

CONSTANTS
    Keep,              \* keep_ready_versions
    DeleteBatchSize    \* DELETE_BATCH_SIZE

ASSUME RetentionConstants ==
    /\ Keep \in Nat /\ Keep >= 2     \* _validate_keep_ready_versions
    /\ DeleteBatchSize \in Nat \ {0}

VARIABLES
    cleaned,      \* runs whose cleanup task succeeded
    retPc,        \* the next request of the cleanup task
    retRun,       \* the DAG run it belongs to
    retReady,     \* ready publication ids listed by the plan
    retRetained,  \* the newest Keep of them
    retTargets,   \* candidate_attempt_ids_to_delete
    retTodo,      \* ids of the current loop that no batch has taken yet
    retBatch,     \* the batch whose rows are being deleted
    retTable      \* position of the next table in CandidateTables

retLocal == <<retRun, retReady, retRetained, retTargets, retTodo, retBatch,
              retTable>>
retVars  == <<cleaned, retPc, retLocal>>

RetPcs == {"idle", "list_ready", "list_candidates", "delete_markers",
           "relist_ready", "delete_candidates", "relist_candidates"}

RetentionTypeOK ==
    /\ cleaned \subseteq Runs
    /\ retPc \in RetPcs
    /\ retRun \in Runs \cup {None}
    /\ retReady \subseteq Attempts
    /\ retRetained \subseteq Attempts
    /\ retTargets \subseteq Attempts
    /\ retTodo \subseteq Attempts
    /\ retBatch \subseteq Attempts
    /\ retTable \in 1..3

RetentionInit ==
    /\ cleaned = {}
    /\ retPc = "idle"
    /\ retRun = None /\ retReady = {} /\ retRetained = {} /\ retTargets = {}
    /\ retTodo = {} /\ retBatch = {} /\ retTable = 1

RetiredIds == retReady \ retRetained

-----------------------------------------------------------------------------
(* The cleanup task of run r starts, or is retried, or is cleared by an    *)
(* operator, once that run has published; wrong outside the pool.          *)
StartCleanupOutsidePool(r) ==
    /\ xcom[r] # None
    /\ retPc = "idle"
    /\ pool' = "cleanup"
    /\ retPc' = "list_ready"
    /\ retRun' = r
    /\ cleaned' = cleaned \ {r}
    /\ UNCHANGED <<tested, rebuilt, mart, xcom, pubVars, retReady, retRetained,
                   retTargets, retTodo, retBatch, retTable, storeVars>>

StartCleanup(r) ==
    /\ pool = "free"
    /\ xcom[r] # None
    /\ OperatorClears \/ (Due(r) /\ r \notin cleaned)
    /\ pool' = "cleanup"
    /\ retPc' = "list_ready"
    /\ retRun' = r
    /\ cleaned' = cleaned \ {r}
    /\ UNCHANGED <<tested, rebuilt, mart, xcom, pubVars, retReady, retRetained,
                   retTargets, retTodo, retBatch, retTable, storeVars>>

EndCleanup ==
    /\ pool' = "free"
    /\ retPc' = "idle"
    /\ retRun' = None /\ retReady' = {} /\ retRetained' = {}
    /\ retTargets' = {} /\ retTodo' = {} /\ retBatch' = {} /\ retTable' = 1
    /\ UNCHANGED <<tested, rebuilt, mart, xcom, pubVars>>

CleanupSucceeds == EndCleanup /\ cleaned' = cleaned \cup {retRun}
CleanupAborts   == EndCleanup /\ UNCHANGED cleaned

(* plan(): first the ready ids in marker order ...                         *)
ListReady ==
    /\ retPc = "list_ready"
    /\ retReady' = MarkerIds
    /\ retRetained' = {m.id : m \in NewestFirst(markers, Keep)}
    /\ retPc' = "list_candidates"
    /\ UNCHANGED <<taskVars, pubVars, cleaned, retRun, retTargets, retTodo,
                   retBatch, retTable, storeVars>>

(* ... then the candidate ids; ids with rows but no marker are invisible.  *)
PlannedTargetsOfRetired == RetiredIds                   \* wrong
PlannedTargets == RetiredIds \cup (CandidateIds \ retReady)

RefuseUnprotected ==
    /\ retPc = "list_candidates"
    /\ xcom[retRun] \notin retRetained
    /\ CleanupAborts
    /\ UNCHANGED storeVars

NothingToRemove ==
    /\ retPc = "list_candidates"
    /\ xcom[retRun] \in retRetained
    /\ PlannedTargets = {}
    /\ CleanupSucceeds
    /\ UNCHANGED storeVars

PlanDeletion ==
    /\ retPc = "list_candidates"
    /\ xcom[retRun] \in retRetained
    /\ PlannedTargets # {}
    /\ retTargets' = PlannedTargets
    /\ retTodo' = RetiredIds
    /\ retPc' = "delete_markers"
    /\ UNCHANGED <<taskVars, pubVars, cleaned, retRun, retReady, retRetained,
                   retBatch, retTable, storeVars>>

-----------------------------------------------------------------------------
(* The write the task sends next.                                          *)
RetWrites ==
    CASE retPc = "delete_markers" ->
           {[op |-> "delete_markers", ids |-> b] :
                b \in Batches(retTodo, DeleteBatchSize)}
      [] retPc = "delete_candidates" /\ retBatch # {} ->
           {[op |-> "delete_candidates", ids |-> retBatch,
             table |-> CandidateTables[retTable]]}
      [] OTHER -> {}

DeleteMarkers ==
    /\ retPc = "delete_markers"
    /\ \E w \in RetWrites :
          /\ Perform(w)
          /\ retTodo' = retTodo \ w.ids
    /\ UNCHANGED <<taskVars, pubVars, cleaned, retPc, retRun, retReady,
                   retRetained, retTargets, retBatch, retTable>>

MarkersDeleted ==
    /\ retPc = "delete_markers"
    /\ retTodo = {}
    /\ retPc' = "relist_ready"
    /\ UNCHANGED <<taskVars, pubVars, cleaned, retLocal, storeVars>>

(* The ready ids are listed again before any row is touched.               *)
MarkersConfirmed ==
    /\ RetiredIds \cap MarkerIds = {}
    /\ retRetained \subseteq MarkerIds

ConfirmMarkers ==
    /\ retPc = "relist_ready"
    /\ MarkersConfirmed
    /\ retTodo' = retTargets
    /\ retPc' = "delete_candidates"
    /\ UNCHANGED <<taskVars, pubVars, cleaned, retRun, retReady, retRetained,
                   retTargets, retBatch, retTable, storeVars>>

RefuseMarkers ==
    /\ retPc = "relist_ready"
    /\ ~ MarkersConfirmed
    /\ CleanupAborts
    /\ UNCHANGED storeVars

(* delete_candidate_rows: every batch visits the three tables in order; a  *)
(* wrong variant never gets past the first batch.                          *)
NextDeleteBatchAgain ==
    /\ retPc = "delete_candidates"
    /\ retBatch = {}
    /\ retBatch' \in Batches(retTodo, DeleteBatchSize)
    /\ retTable' = 1
    /\ UNCHANGED <<taskVars, pubVars, cleaned, retPc, retRun, retReady,
                   retRetained, retTargets, retTodo, storeVars>>

NextDeleteBatch ==
    /\ retPc = "delete_candidates"
    /\ retBatch = {}
    /\ \E b \in Batches(retTodo, DeleteBatchSize) :
          /\ retBatch' = b
          /\ retTodo' = retTodo \ b
    /\ retTable' = 1
    /\ UNCHANGED <<taskVars, pubVars, cleaned, retPc, retRun, retReady,
                   retRetained, retTargets, storeVars>>

DeleteCandidates ==
    /\ retPc = "delete_candidates"
    /\ \E w \in RetWrites : Perform(w)
    /\ IF retTable < 3
       THEN retTable' = retTable + 1 /\ UNCHANGED retBatch
       ELSE retTable' = 1 /\ retBatch' = {}
    /\ UNCHANGED <<taskVars, pubVars, cleaned, retPc, retRun, retReady,
                   retRetained, retTargets, retTodo>>

CandidatesDeleted ==
    /\ retPc = "delete_candidates"
    /\ retBatch = {} /\ retTodo = {}
    /\ retPc' = "relist_candidates"
    /\ UNCHANGED <<taskVars, pubVars, cleaned, retLocal, storeVars>>

ConfirmRemoved ==
    /\ retPc = "relist_candidates"
    /\ retTargets \cap CandidateIds = {}
    /\ CleanupSucceeds
    /\ UNCHANGED storeVars

RefuseLeftovers ==
    /\ retPc = "relist_candidates"
    /\ retTargets \cap CandidateIds # {}
    /\ CleanupAborts
    /\ UNCHANGED storeVars

CleanupFails ==
    /\ retPc # "idle"
    /\ GiveUp(RetWrites)
    /\ CleanupAborts

RetentionStep ==
    \/ ListReady \/ RefuseUnprotected \/ NothingToRemove \/ PlanDeletion
    \/ DeleteMarkers \/ MarkersDeleted \/ ConfirmMarkers \/ RefuseMarkers
    \/ NextDeleteBatch \/ DeleteCandidates \/ CandidatesDeleted
    \/ ConfirmRemoved \/ RefuseLeftovers

RetentionNext ==
    \/ \E r \in Runs : StartCleanup(r)
    \/ RetentionStep
    \/ CleanupFails

=============================================================================
