----------------------------- MODULE RunCoverage ----------------------------
(***************************************************************************)
(* The tasks that close the ingestion of one DAG run: reconcile_run, and   *)
(* publish_batch_run_coverage with BatchRunCoveragePublisher.publish, one  *)
(* action per request.                                                     *)
(***************************************************************************)
EXTENDS SourceLoad

VARIABLES
    reconciled,   \* XCom results of the reconciliation tasks
    covered       \* DAG runs whose coverage task has succeeded

coverVars == <<reconciled, covered>>

Reconciled == [run : Runs, count : Int]

CoverageTypeOK ==
    /\ reconciled \subseteq Reconciled
    /\ covered \subseteq Runs

CoverageInit == reconciled = {} /\ covered = {}

-----------------------------------------------------------------------------
(* reconcile_run.  Raw, accepted, quarantined and duplicate counts are     *)
(* fixed by the bundle; the summary quotes what the load task counted, and *)
(* its key names the bundle and the DAG run.                               *)

SummaryKey == [kind |-> "summary", bundle |-> Bundle, run |-> active]
SummaryBody == [landed |-> 0, inserted |-> ResultOf(loaded).inserted,
                reused |-> ResultOf(loaded).reused]

ReadyToReconcile ==
    /\ pc = "idle" /\ active # 0 /\ ResultIn(loaded) /\ ~ ResultIn(reconciled)

BalancedAtAnyRate == TRUE       \* wrong: the counts are not compared
Balanced ==
    LET load == ResultOf(loaded)
    IN  load.conflicts = 0 /\ load.inserted + load.reused = Len(Lines)

Reconcile ==
    /\ ReadyToReconcile /\ Balanced
    /\ Perform(Put(SummaryKey, SummaryBody))
    /\ IF \E o \in ObjectAt(SummaryKey) : o.body # SummaryBody
       THEN Raise("summary_conflict") /\ UNCHANGED reconciled
       ELSE /\ reconciled' = reconciled \cup
                 {[run |-> active,
                   count |-> ResultOf(loaded).inserted + ResultOf(loaded).reused]}
            /\ UNCHANGED <<pc, raised>>
    /\ UNCHANGED <<planVars, landed, loaded, loadLocal, covered>>

RefuseReconciliation ==
    /\ ReadyToReconcile /\ ~ Balanced
    /\ Raise(IF ResultOf(loaded).conflicts # 0 THEN "conflicts" ELSE "count_mismatch")
    /\ UNCHANGED <<storeVars, planVars, landed, loaded, loadLocal, coverVars>>

-----------------------------------------------------------------------------
(* BatchRunCoveragePublisher.publish.                                      *)

StableRow == [bundle |-> Bundle, reconciled |-> ResultOf(reconciled).count,
              time |-> ResultOf(landed).evidence, copy |-> 0]

ReadyToCover ==
    /\ pc = "idle" /\ active # 0 /\ ResultIn(reconciled) /\ active \notin covered

(* _existing_hash and _require_same_payload, of a row that is there.       *)
SamePayload ==
    \E c \in CoverageOf(Bundle) :
        CoverageOf(Bundle) = {c} /\ [c EXCEPT !.copy = 0] = StableRow

AcceptCoverage ==
    /\ SamePayload
    /\ covered' = covered \cup {active}
    /\ pc' = "idle" /\ UNCHANGED raised

RefuseCoverage ==
    /\ ~ SamePayload
    /\ IF Cardinality(CoverageOf(Bundle)) > 1
       THEN Raise("duplicate_rows") ELSE Raise("coverage_conflict")
    /\ UNCHANGED covered

LookUpCoverage ==
    /\ ReadyToCover
    /\ \/ CoverageOf(Bundle) # {} /\ (AcceptCoverage \/ RefuseCoverage)
       \/ CoverageOf(Bundle) = {} /\ pc' = "cover_merge" /\ UNCHANGED <<covered, raised>>
    /\ UNCHANGED <<storeVars, planVars, landed, loaded, loadLocal, reconciled>>

MergeCoverage ==
    /\ pc = "cover_merge"
    /\ Perform([op |-> "cover", row |-> StableRow])
    /\ pc' = "cover_confirm"
    /\ UNCHANGED <<planVars, landed, loaded, loadLocal, raised, coverVars>>

ConfirmCoverage ==
    /\ pc = "cover_confirm"
    /\ AcceptCoverage \/ RefuseCoverage
    /\ UNCHANGED <<storeVars, planVars, landed, loaded, loadLocal, reconciled>>

CoverageWrites ==
    IF ReadyToReconcile /\ Balanced THEN {Put(SummaryKey, SummaryBody)}
    ELSE IF pc = "cover_merge" THEN {[op |-> "cover", row |-> StableRow]}
    ELSE {}

CoverageNext ==
    \/ Reconcile \/ RefuseReconciliation
    \/ LookUpCoverage \/ MergeCoverage \/ ConfirmCoverage

=============================================================================
