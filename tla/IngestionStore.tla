---------------------------- MODULE IngestionStore --------------------------
(***************************************************************************)
(* What ingestion keeps outside of a task: the validated source tables and *)
(* the coverage table in Iceberg, written through Trino, the immutable     *)
(* objects in R2, and the requests whose client has given up on them.      *)
(* Trino, Iceberg and R2 are external: what a request does is taken from   *)
(* the statement or the conditional PUT that the code sends.               *)
(*                                                                         *)
(* The nine tables are one: an identity includes its dataset.  A bundle is *)
(* a pipeline_run_id; its files are generated from its fixed inputs, so    *)
(* raw content is a constant of the bundle, and so is what the validation  *)
(* accepts of it.  Contents are compared as values, which assumes that     *)
(* SHA-256 does not collide.                                               *)
(***************************************************************************)
EXTENDS Integers, Sequences, FiniteSets

CONSTANTS
    Ids,           \* pipeline_identity_sha256
    Payloads,      \* pipeline_payload_sha256
    Raws,          \* contents of raw source files
    Bundles,       \* pipeline_run_id
    RawOf,         \* RawOf[b]: the raw content bundle b generates
    AcceptedOf,    \* AcceptedOf[w]: its accepted records, in the order of loading
    MaxRuns,       \* bound on the DAG runs of one behaviour
    MaxFaults,     \* bound on the requests that fail or lose their answer
    AtomicMerge    \* does a late MERGE see the rows committed since it was sent?

Record == [id : Ids, payload : Payloads]

ASSUME IngestionConstants ==
    /\ RawOf \in [Bundles -> Raws]
    /\ AcceptedOf \in [Raws -> Seq(Record)]
    /\ MaxRuns \in Nat /\ MaxFaults \in Nat
    /\ AtomicMerge \in BOOLEAN

VARIABLES
    table,       \* rows of the validated tables
    coverage,    \* rows of batch_run_coverage
    objects,     \* immutable R2 objects
    clock,       \* R2 time, advanced by every object it creates
    inFlight,    \* requests given up on that may still be applied
    faults       \* requests that have failed so far

storeVars == <<table, coverage, objects, clock, inFlight, faults>>

Runs == 1..MaxRuns
Absent == 0

(* A row keeps the run and the landing time of its first writer.  Iceberg  *)
(* enforces no unique constraint: copy tells equal rows apart.             *)
Row == [record : Record, bundle : Bundles, time : Nat, copy : Nat]

(* The stable payload of a coverage row: the reconciled count and the      *)
(* landing time of the bundle's evidence.                                  *)
CoverageRow == [bundle : Bundles, reconciled : Int, time : Nat, copy : Nat]

(* The raw file is keyed by its content, the evidence (envelope and source *)
(* manifest) by the bundle, a reconciliation summary by the bundle and the *)
(* DAG run.  Only the landing time in the envelope and the counts in the   *)
(* summary can differ between two writes of one key.                       *)
Key == [kind : {"raw"}, raw : Raws]
       \cup [kind : {"evidence"}, bundle : Bundles]
       \cup [kind : {"summary"}, bundle : Bundles, run : Runs]
Body == [landed : Nat, inserted : Nat, reused : Nat]
Object == [key : Key, body : Body, time : Nat]

Write == [op : {"merge"}, rows : SUBSET Row]
         \cup [op : {"cover"}, row : CoverageRow]
         \cup [op : {"put"}, key : Key, body : Body]

StoreTypeOK ==
    /\ table \subseteq Row
    /\ coverage \subseteq CoverageRow
    /\ objects \subseteq Object
    /\ clock \in Nat
    /\ inFlight \subseteq Write
    /\ faults \in 0..MaxFaults

StoreInit ==
    /\ table = {} /\ coverage = {} /\ objects = {}
    /\ clock = 0 /\ inFlight = {} /\ faults = 0

-----------------------------------------------------------------------------
(* What each request reads.                                                *)

Accepted(b) == AcceptedOf[RawOf[b]]

PayloadsStored(x) ==
    {r.record.payload : r \in {s \in table : s.record.id = x}}
Stored(c) == \E r \in table : r.record = c

(* _existing_payload_hashes raises when an identity shows one hash twice.  *)
DuplicateRows(S) ==
    \E r, s \in table : r # s /\ r.record = s.record
                        /\ \E c \in S : c.id = r.record.id

CoverageOf(b) == {c \in coverage : c.bundle = b}

ObjectAt(k) == {o \in objects : o.key = k}
TimeOf(k) == (CHOOSE o \in objects : o.key = k).time

-----------------------------------------------------------------------------
(* What each request does, whenever it is applied.                         *)

Insert(rows) ==
    table \cup {[record |-> r.record, bundle |-> r.bundle, time |-> r.time,
                 copy |-> Cardinality({s \in table : s.record = r.record})] :
                    r \in rows}
InsertCoverage(row) ==
    coverage \cup {[bundle |-> row.bundle, reconciled |-> row.reconciled,
                    time |-> row.time, copy |-> Cardinality(CoverageOf(row.bundle))]}

(* MERGE ... WHEN NOT MATCHED THEN INSERT.                                 *)
MergeAsInsert(rows) == Insert(rows)       \* wrong: a plain INSERT
Merge(rows) == Insert({r \in rows : PayloadsStored(r.record.id) = {}})
MergeCoverageRow(row) ==
    IF CoverageOf(row.bundle) = {} THEN InsertCoverage(row) ELSE coverage

(* put_object with IfNoneMatch = "*".                                      *)
PutOverwrites(k, body) ==                 \* wrong: an unconditional PUT
    /\ objects' = {o \in objects : o.key # k}
                  \cup {[key |-> k, body |-> body, time |-> clock + 1]}
    /\ clock' = clock + 1
PutIfAbsent(k, body) ==
    IF ObjectAt(k) = {}
    THEN /\ objects' = objects \cup {[key |-> k, body |-> body, time |-> clock + 1]}
         /\ clock' = clock + 1
    ELSE UNCHANGED <<objects, clock>>

TableAfter(w) == IF w.op = "merge" THEN Merge(w.rows) ELSE table
CoverageAfter(w) == IF w.op = "cover" THEN MergeCoverageRow(w.row) ELSE coverage

ApplyObjects(w) ==
    IF w.op = "put" THEN PutIfAbsent(w.key, w.body) ELSE UNCHANGED <<objects, clock>>

Apply(w) ==
    /\ table' = TableAfter(w)
    /\ coverage' = CoverageAfter(w)
    /\ ApplyObjects(w)

(* The client gets its answer.                                             *)
Perform(w) == Apply(w) /\ UNCHANGED <<inFlight, faults>>

(* It gets an error, a timeout, or dies: the request was not applied, was  *)
(* applied, or is still running, for TrinoHttpClient cannot cancel a query *)
(* whose first answer it never saw.  Each failure counts in MaxFaults.     *)
GiveUp(possible) ==
    /\ faults < MaxFaults
    /\ faults' = faults + 1
    /\ \/ UNCHANGED <<table, coverage, objects, clock, inFlight>>
       \/ \E w \in possible : Apply(w) /\ UNCHANGED inFlight
       \/ /\ \E w \in possible : inFlight' = inFlight \cup {w}
          /\ UNCHANGED <<table, coverage, objects, clock>>

(* A request given up on is applied after all.  Unless AtomicMerge, Trino  *)
(* commits the rows that were absent when the MERGE was planned.           *)
ApplyLate ==
    \E w \in inFlight :
        /\ inFlight' = inFlight \ {w}
        /\ \/ Apply(w)
           \/ /\ ~ AtomicMerge /\ w.op # "put"
              /\ table' = IF w.op = "merge" THEN Insert(w.rows) ELSE table
              /\ coverage' = IF w.op = "cover" THEN InsertCoverage(w.row) ELSE coverage
              /\ UNCHANGED <<objects, clock>>
        /\ UNCHANGED faults

=============================================================================
