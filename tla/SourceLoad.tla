------------------------------ MODULE SourceLoad ----------------------------
(***************************************************************************)
(* The tasks of one DAG run that save the original files and load the      *)
(* accepted rows: land_raw_bundle, validate_raw_bundle (a function of the  *)
(* bundle, in AcceptedOf) and load_validated_bundle with                   *)
(* TrinoIcebergLoader.load_records, one action per request.  A task that   *)
(* fails is started again from its beginning while it has no result.       *)
(***************************************************************************)
EXTENDS IngestionStore

CONSTANTS ChunkSize    \* IcebergLoaderConfig.chunk_size

ASSUME LoadConstants == ChunkSize \in Nat \ {0}

VARIABLES
    plan,        \* plan[d]: the bundle that the d-th DAG run processes
    active,      \* the DAG run that Airflow executes (max_active_runs = 1)
    landed,      \* XCom results of the landing tasks
    loaded,      \* XCom results of the load tasks
    pc,          \* the next request of the running task, "idle" between tasks
    loadDone,    \* records in the chunks that are finished
    loadNew,     \* new_records of the current chunk
    loadCount,   \* updateCount of its MERGE
    loadIns,     \* inserted_records so far
    loadReu,     \* skipped_exact_replays so far
    loadCon,     \* conflict_records so far
    raised       \* history: why tasks have failed

planVars == <<plan, active>>
loadLocal == <<loadDone, loadNew, loadCount, loadIns, loadReu, loadCon>>
loadVars == <<planVars, landed, loaded, pc, loadLocal, raised>>

Omitted == -1      \* Trino left updateCount out

Pcs == {"idle", "put_evidence", "check", "merge", "confirm",
        "cover_merge", "cover_confirm"}

Landed == [run : Runs, raw : Nat, evidence : Nat]
Loaded == [run : Runs, inserted : Nat, reused : Nat, conflicts : Nat]

Errors == {"evidence_conflict", "duplicate_rows", "row_absent", "bad_count",
           "conflicts", "count_mismatch", "summary_conflict",
           "coverage_conflict"}

LoadTypeOK ==
    /\ plan \in Seq(Bundles) /\ Len(plan) <= MaxRuns
    /\ active \in 0..Len(plan)
    /\ landed \subseteq Landed
    /\ loaded \subseteq Loaded
    /\ pc \in Pcs
    /\ loadDone \in Nat
    /\ loadNew \subseteq Record
    /\ loadCount \in Int
    /\ loadIns \in Nat /\ loadReu \in Nat /\ loadCon \in Nat
    /\ raised \subseteq Errors

(* The locals of load_records, outside of it.                              *)
NoProgress ==
    /\ loadDone = 0 /\ loadNew = {} /\ loadCount = 0
    /\ loadIns = 0 /\ loadReu = 0 /\ loadCon = 0
ForgetProgress ==
    /\ loadDone' = 0 /\ loadNew' = {} /\ loadCount' = 0
    /\ loadIns' = 0 /\ loadReu' = 0 /\ loadCon' = 0

LoadInit ==
    /\ plan = <<>> /\ active = 0
    /\ landed = {} /\ loaded = {}
    /\ pc = "idle" /\ NoProgress
    /\ raised = {}

Bundle == plan[active]
Lines == Accepted(Bundle)

ResultIn(X) == \E x \in X : x.run = active
ResultOf(X) == CHOOSE x \in X : x.run = active

Raise(error) ==
    /\ raised' = raised \cup {error}
    /\ pc' = "idle"

-----------------------------------------------------------------------------
(* land_raw_bundle: the raw file first, then the envelope that quotes the  *)
(* raw object's Last-Modified time, and the manifest.  put_immutable       *)
(* accepts an existing object of equal content, and the times reported are *)
(* those of the objects found in R2.                                       *)

RawKey == [kind |-> "raw", raw |-> RawOf[Bundle]]
EvidenceKey == [kind |-> "evidence", bundle |-> Bundle]
NoBody == [landed |-> 0, inserted |-> 0, reused |-> 0]
EnvelopeOfAttempt ==             \* wrong: a time of this attempt
    [NoBody EXCEPT !.landed = clock]
Envelope == [NoBody EXCEPT !.landed = TimeOf(RawKey)]

Put(k, body) == [op |-> "put", key |-> k, body |-> body]

PutRaw ==
    /\ pc = "idle" /\ active # 0 /\ ~ ResultIn(landed)
    /\ Perform(Put(RawKey, NoBody))
    /\ pc' = "put_evidence"
    /\ UNCHANGED <<planVars, landed, loaded, loadLocal, raised>>

PutEvidence ==
    /\ pc = "put_evidence"
    /\ Perform(Put(EvidenceKey, Envelope))
    /\ IF \E o \in ObjectAt(EvidenceKey) : o.body # Envelope
       THEN Raise("evidence_conflict") /\ UNCHANGED landed
       ELSE /\ landed' = landed \cup
                 {[run |-> active, raw |-> TimeOf(RawKey),
                   evidence |-> (CHOOSE o \in objects' : o.key = EvidenceKey).time]}
            /\ pc' = "idle" /\ UNCHANGED raised
    /\ UNCHANGED <<planVars, loaded, loadLocal>>

-----------------------------------------------------------------------------
(* One chunk of load_records.                                              *)

ChunkEnd ==
    IF loadDone + ChunkSize <= Len(Lines) THEN loadDone + ChunkSize ELSE Len(Lines)
Chunk == (loadDone + 1)..ChunkEnd

(* One identity with two contents in a chunk: all its lines are conflicts. *)
Contradicted ==
    {i \in Chunk : \E j \in Chunk : Lines[j].id = Lines[i].id /\ Lines[j] # Lines[i]}
Candidates == {Lines[i] : i \in Chunk \ Contradicted}
Occurrences(S) == Cardinality({i \in Chunk : Lines[i] \in S})

NewRecords == {c \in Candidates : PayloadsStored(c.id) = {}}
ReplaysAmongOthers(S) ==         \* wrong: contradicted rows are replays
    {c \in S : c.payload \in PayloadsStored(c.id)}
Replays(S) == {c \in S : PayloadsStored(c.id) = {c.payload}}
Conflicts(S) == {c \in S : PayloadsStored(c.id) # {}} \ Replays(S)

(* What the loader refuses to go on with: equal rows for one identity in   *)
(* either read, and a MERGE that reports what the second read denies.      *)
Refusal ==
    IF DuplicateRows(IF pc = "check" THEN Candidates ELSE loadNew)
    THEN {"duplicate_rows"}
    ELSE IF pc = "check" THEN {}
    ELSE IF \E c \in loadNew : PayloadsStored(c.id) = {} THEN {"row_absent"}
    ELSE IF loadCount > Cardinality(Replays(loadNew)) THEN {"bad_count"}
    ELSE {}

StartLoad ==
    /\ pc = "idle" /\ active # 0 /\ ResultIn(landed) /\ ~ ResultIn(loaded)
    /\ pc' = "check"
    /\ UNCHANGED <<storeVars, planVars, landed, loaded, loadLocal, raised>>

CheckChunk ==
    /\ pc = "check" /\ loadDone < Len(Lines) /\ Refusal = {}
    /\ loadReu' = loadReu + Occurrences(Replays(Candidates))
    /\ loadCon' = loadCon + Cardinality(Contradicted)
                          + Occurrences(Conflicts(Candidates))
    /\ IF NewRecords = {}
       THEN loadDone' = ChunkEnd /\ UNCHANGED <<loadNew, pc>>
       ELSE loadNew' = NewRecords /\ pc' = "merge" /\ UNCHANGED loadDone
    /\ UNCHANGED <<storeVars, planVars, landed, loaded, loadCount, loadIns, raised>>

RowsOf(S) ==
    {[record |-> c, bundle |-> Bundle, time |-> ResultOf(landed).raw, copy |-> 0] :
        c \in S}

MergeChunk ==
    /\ pc = "merge"
    /\ Perform([op |-> "merge", rows |-> RowsOf(loadNew)])
    /\ loadCount' \in {Cardinality(table' \ table), Omitted}
    /\ pc' = "confirm"
    /\ UNCHANGED <<planVars, landed, loaded, loadDone, loadNew,
                   loadIns, loadReu, loadCon, raised>>

(* The second read of the same identities decides what the MERGE achieved. *)
ConfirmedByMerge(S) == S         \* wrong: believes the MERGE
Confirmed(S) == Replays(S)
InsertedLines(exact) == Occurrences(exact)       \* wrong: lines, not rows
InsertedUnchecked(exact) == loadCount            \* wrong: no updateCount is no row
InsertedRows(exact) ==
    IF loadCount = Omitted THEN Cardinality(exact) ELSE loadCount

ConfirmChunk ==
    /\ pc = "confirm" /\ Refusal = {}
    /\ LET exact == Confirmed(loadNew)
       IN  /\ loadIns' = loadIns + InsertedRows(exact)
           /\ loadReu' = loadReu + Occurrences(exact) - InsertedRows(exact)
           /\ loadCon' = loadCon + Occurrences(loadNew \ exact)
    /\ loadDone' = ChunkEnd
    /\ loadNew' = {} /\ loadCount' = 0
    /\ pc' = "check"
    /\ UNCHANGED <<storeVars, planVars, landed, loaded, raised>>

RefuseChunk ==
    /\ pc \in {"check", "confirm"}
    /\ \E error \in Refusal : Raise(error)
    /\ ForgetProgress
    /\ UNCHANGED <<storeVars, planVars, landed, loaded>>

FinishLoad ==
    /\ pc = "check" /\ loadDone = Len(Lines)
    /\ loaded' = loaded \cup {[run |-> active, inserted |-> loadIns,
                               reused |-> loadReu, conflicts |-> loadCon]}
    /\ pc' = "idle"
    /\ ForgetProgress
    /\ UNCHANGED <<storeVars, planVars, landed, raised>>

LoadWrites ==
    IF pc = "idle" /\ active # 0 /\ ~ ResultIn(landed) THEN {Put(RawKey, NoBody)}
    ELSE IF pc = "put_evidence" THEN {Put(EvidenceKey, Envelope)}
    ELSE IF pc = "merge" THEN {[op |-> "merge", rows |-> RowsOf(loadNew)]}
    ELSE {}

LoadNext ==
    \/ PutRaw \/ PutEvidence
    \/ StartLoad \/ CheckChunk \/ MergeChunk \/ ConfirmChunk
    \/ RefuseChunk \/ FinishLoad

=============================================================================
