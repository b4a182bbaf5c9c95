--------------------------- MODULE IngestionSystem --------------------------
(***************************************************************************)
(* Ingestion as a whole: DAG runs triggered for bundles one after another, *)
(* their tasks failing and retried, requests applied long after their      *)
(* client gave up, and an operator who clears finished tasks.              *)
(***************************************************************************)
EXTENDS RunCoverage

CONSTANTS MaxClears    \* bound on the task clears of one behaviour

ASSUME SystemConstants == MaxClears \in Nat

VARIABLES clears       \* clears so far

vars == <<storeVars, loadVars, coverVars, clears>>

Init == StoreInit /\ LoadInit /\ CoverageInit /\ clears = 0

(* The next DAG run starts once the active one has ended, whether it       *)
(* reached its coverage or used up its retries.                            *)
Trigger(b) ==
    /\ pc = "idle" /\ Len(plan) < MaxRuns
    /\ plan' = Append(plan, b)
    /\ active' = Len(plan) + 1
    /\ UNCHANGED <<storeVars, landed, loaded, pc, loadLocal, raised,
                   coverVars, clears>>

Without(X, d) == {x \in X : x.run # d}

(* Clearing a task of run d with its downstream tasks makes Airflow run    *)
(* them again in the same DAG run.                                         *)
Clear(d) ==
    /\ pc = "idle" /\ clears < MaxClears
    /\ clears' = clears + 1
    /\ active' = d
    /\ reconciled' = Without(reconciled, d)
    /\ covered' = covered \ {d}
    /\ \/ UNCHANGED <<landed, loaded>>
       \/ loaded' = Without(loaded, d) /\ UNCHANGED landed
       \/ loaded' = Without(loaded, d) /\ landed' = Without(landed, d)
    /\ UNCHANGED <<storeVars, plan, pc, loadLocal, raised>>

(* The request of the running task fails and the task with it.             *)
TaskFails ==
    /\ active # 0
    /\ GiveUp(LoadWrites \cup CoverageWrites)
    /\ pc' = "idle" /\ ForgetProgress
    /\ UNCHANGED <<planVars, landed, loaded, raised, coverVars>>

Tasks ==
    \/ LoadNext /\ UNCHANGED coverVars
    \/ CoverageNext
    \/ TaskFails
    \/ ApplyLate /\ UNCHANGED <<loadVars, coverVars>>

Next ==
    \/ Tasks /\ UNCHANGED clears
    \/ \E b \in Bundles : Trigger(b)
    \/ \E d \in 1..Len(plan) : Clear(d)

Spec == Init /\ [][Next]_vars

(* Airflow starts the next task of the active run and starts a failed one  *)
(* again; it need not trigger, clear, fail, or apply an abandoned request. *)
Fairness == WF_vars(((LoadNext /\ UNCHANGED coverVars) \/ CoverageNext)
                    /\ UNCHANGED clears)

FairSpec == Spec /\ Fairness

TypeOK == StoreTypeOK /\ LoadTypeOK /\ CoverageTypeOK /\ clears \in 0..MaxClears

-----------------------------------------------------------------------------
(* Safety.                                                                 *)

RecordsOf(b) == {Accepted(b)[i] : i \in 1..Len(Accepted(b))}

(* No run so far, the one of bundle b included, contradicts bundle b.      *)
Compatible(b) ==
    \A d \in 1..Len(plan) : \A r \in RecordsOf(b), s \in RecordsOf(plan[d]) :
        r.id = s.id => r = s

(* A date range is declared complete only over tables that hold every      *)
(* accepted row of it, whatever failed, was retried or was applied late:   *)
(* dbt models a range as soon as its coverage row is there.                *)
CoverageImpliesLoaded ==
    \A c \in coverage : \A r \in RecordsOf(c.bundle) : Stored(r)

(* Two bundles that give one identity different contents are never both    *)
(* declared, though each is compared with the table at another time than   *)
(* the other is written.                                                   *)
CoveredBundlesAgree ==
    \A c, d \in coverage :
        \A r \in RecordsOf(c.bundle), s \in RecordsOf(d.bundle) :
            r.id = s.id => r = s

(* Retries and late requests leave one row per identity, although Iceberg  *)
(* enforces no key: the insert-only MERGE.                                 *)
OneRowPerIdentity == \A r, s \in table : r.record.id = s.record.id => r = s

(* An exact replay is never mistaken for a conflict and the defensive      *)
(* checks of the loader never fire: whatever was interrupted, a task only  *)
(* refuses a bundle when bundles so far contradict each other.             *)
ReplaysAreNotConflicts ==
    /\ raised \cap {"evidence_conflict", "duplicate_rows", "row_absent",
                    "bad_count", "count_mismatch", "summary_conflict",
                    "coverage_conflict"} = {}
    /\ "conflicts" \in raised => \E d \in 1..Len(plan) : ~ Compatible(plan[d])

(* The rows that a finished load reports as inserted are rows of the       *)
(* tables with records of its bundle, and no two loads report one row.     *)
InsertsClaimedOnce ==
    \E claim \in [loaded -> SUBSET table] :
        /\ \A x \in loaded :
              /\ Cardinality(claim[x]) = x.inserted
              /\ \A t \in claim[x] : t.record \in RecordsOf(plan[x.run])
        /\ \A x, y \in loaded : x # y => claim[x] \cap claim[y] = {}

(* What the pipeline document says of reconciliation evidence: every       *)
(* attempt has a key of its own, so an exact replay is safe.               *)
ReconciliationReplaysSafely == "summary_conflict" \notin raised

-----------------------------------------------------------------------------
(* Ingestion implements the append-only record of source revisions.        *)

Pairs(b) == {<<r.id, r.payload>> : r \in RecordsOf(b)}

Revisions == INSTANCE SourceRevisions WITH
    Contents <- [b \in Bundles |-> Pairs(b)],
    revisions <- {<<r.record.id, r.record.payload>> : r \in table},
    declared <- {c.bundle : c \in coverage}

ImplementsRevisions == Revisions!Spec

-----------------------------------------------------------------------------
(* Liveness.                                                               *)

(* A run whose rows contradict nothing ends with its coverage declared,    *)
(* wherever its tasks were interrupted within the bound on failures and    *)
(* however late the interrupted requests were applied, unless another run  *)
(* has taken over.                                                         *)
RunIsCovered ==
    \A d \in Runs :
        (active = d /\ Compatible(Bundle)) ~>
            (active # d \/ (d \in covered /\ CoverageOf(Bundle) # {}))

-----------------------------------------------------------------------------
(* The inductive invariant behind CoverageImpliesLoaded and                *)
(* CoveredBundlesAgree, for late and non-atomic writes and cleared tasks.  *)

(* The bundles whose coverage is declared or may still come to be.         *)
ClaimedBundles ==
    {b \in Bundles :
        \/ \E c \in coverage : c.bundle = b
        \/ \E w \in inFlight : w.op = "cover" /\ w.row.bundle = b
        \/ \E x \in reconciled : plan[x.run] = b
        \/ \E x \in loaded : x.conflicts = 0 /\ plan[x.run] = b}

(* What the load in progress has seen stored, as long as it has met no     *)
(* conflict; loadNew is empty between chunks.                              *)
Loading == pc \in {"check", "merge", "confirm"}
Settled == 1..(IF pc = "check" THEN loadDone ELSE ChunkEnd)
LoadClaims ==
    IF Loading /\ loadCon = 0 THEN {Lines[i] : i \in Settled} \ loadNew ELSE {}

ClaimedRecords == (UNION {RecordsOf(b) : b \in ClaimedBundles}) \cup LoadClaims

ClaimsStored == \A r \in ClaimedRecords : Stored(r)
ClaimsAgree == \A r, s \in ClaimedRecords : r.id = s.id => r = s

(* The task memory and the results that the next requests rely on.         *)
ClaimTypes ==
    /\ plan \in Seq(Bundles) /\ active \in 0..Len(plan)
    /\ \A x \in loaded \cup reconciled : x.run \in 1..Len(plan)
    /\ \A c \in coverage : c.bundle \in Bundles
    /\ \A t \in table : t.record \in Record
    /\ \A w \in inFlight :
          /\ w.op = "cover" => w.row.bundle \in Bundles
          /\ w.op = "merge" => \A t \in w.rows : t.record \in Record
    /\ loadDone \in Nat /\ loadCon \in Nat
    /\ IF Loading THEN active # 0 /\ loadDone <= Len(Lines) ELSE NoProgress
    /\ IF pc \in {"merge", "confirm"}
       THEN loadNew \subseteq {Lines[i] : i \in Chunk} ELSE loadNew = {}
    /\ pc \in {"cover_merge", "cover_confirm"} => ResultIn(reconciled)

CoverInv == ClaimTypes /\ ClaimsStored /\ ClaimsAgree

=============================================================================
