--------------------------- MODULE IngestionProofs --------------------------
(***************************************************************************)
(* Machine-checked proofs about IngestionSystem, for every family of       *)
(* bundles, chunk size, number of runs, failures and clears:               *)
(*  - what is declared covered is loaded, and covered bundles do not       *)
(*    contradict each other, even with late MERGEs that do not see each    *)
(*    other's rows (CoverInv);                                             *)
(*  - if a MERGE sees what was committed before it, no identity has two    *)
(*    rows, and the tasks implement the abstract SourceRevisions;          *)
(*  - everything keeps its type (TypeInv), the counts of a load add up     *)
(*    (CountsInv), conflicts are real (ConflictsInv) and no row is         *)
(*    reported as inserted twice (InsertInv), late MERGEs or not;          *)
(*  - if a MERGE sees what was committed before it, a replay finds what    *)
(*    it would write, so that the tasks refuse only bundles that           *)
(*    contradict each other and summaries of cleared runs (ReplayInv).     *)
(***************************************************************************)
EXTENDS IngestionSystem, FiniteSetTheorems, TLAPS

(* The accepted lines of a bundle are records, as the constants say.       *)
LEMMA AcceptedTyped == \A b \in Bundles : Accepted(b) \in Seq(Record)
BY IngestionConstants DEF Accepted

(* Two records with the same identity and content are the same record.     *)
LEMMA RecordExtensional ==
    \A r, s \in Record : r.id = s.id /\ r.payload = s.payload => r = s
BY DEF Record

(* So are the records that a claim about a bundle is about.                *)
LEMMA RecordsTyped == \A b \in Bundles : RecordsOf(b) \subseteq Record
BY AcceptedTyped DEF RecordsOf

(* The chunk in progress lies within the accepted lines.                   *)
LEMMA ChunkFacts ==
    ASSUME ClaimTypes, active # 0, loadDone <= Len(Lines)
    PROVE  /\ Bundle \in Bundles
           /\ Lines \in Seq(Record) /\ Len(Lines) \in Nat
           /\ ChunkEnd \in Nat /\ ChunkEnd <= Len(Lines) /\ loadDone <= ChunkEnd
           /\ Chunk \subseteq 1..Len(Lines)
           /\ IsFiniteSet(Chunk)
<1>1. Bundle \in Bundles
  BY DEF ClaimTypes, Bundle
<1>2. Lines \in Seq(Record) /\ Len(Lines) \in Nat
  BY <1>1, AcceptedTyped DEF Lines
<1>3. ChunkEnd \in Nat /\ ChunkEnd <= Len(Lines) /\ loadDone <= ChunkEnd
  BY <1>2, LoadConstants DEF ChunkEnd, ClaimTypes
<1>4. Chunk \subseteq 1..Len(Lines)
  BY <1>2, <1>3 DEF Chunk, ClaimTypes
<1>5. IsFiniteSet(Chunk)
  <2>1. loadDone + 1 \in Int /\ ChunkEnd \in Int
    BY <1>3 DEF ClaimTypes
  <2>. QED  BY <2>1, FS_Interval DEF Chunk
<1>. QED  BY <1>1, <1>2, <1>3, <1>4, <1>5

(* A count of lines is zero only if no line of the chunk is counted.       *)
LEMMA NoOccurrence ==
    ASSUME IsFiniteSet(Chunk), NEW S
    PROVE  /\ Occurrences(S) \in Nat
           /\ Occurrences(S) = 0 => \A i \in Chunk : Lines[i] \notin S
<1> DEFINE I == {i \in Chunk : Lines[i] \in S}
<1>1. IsFiniteSet(I)
  BY FS_Subset
<1>2. Cardinality(I) \in Nat /\ (Cardinality(I) = 0 <=> I = {})
  BY <1>1, FS_CardinalityType, FS_EmptySet
<1>3. Occurrences(S) = Cardinality(I)
  BY DEF Occurrences
<1>. QED  BY <1>2, <1>3

(* No contradicted line in the chunk: its records are new or stored.       *)
LEMMA NoContradiction ==
    ASSUME IsFiniteSet(Chunk)
    PROVE  /\ Cardinality(Contradicted) \in Nat
           /\ Cardinality(Contradicted) = 0 => Contradicted = {}
<1>1. IsFiniteSet(Contradicted)
  BY FS_Subset DEF Contradicted
<1>. QED  BY <1>1, FS_CardinalityType, FS_EmptySet

-----------------------------------------------------------------------------
(* The tables only grow, and only a coverage request adds coverage.        *)

(* An INSERT of rows adds their records and takes none away.               *)
LEMMA InsertGrows ==
    ASSUME NEW rows
    PROVE  /\ table \subseteq Insert(rows)
           /\ \A t \in Insert(rows) \ table : \E r \in rows : t.record = r.record
<1> DEFINE New(r) == [record |-> r.record, bundle |-> r.bundle, time |-> r.time,
                      copy |-> Cardinality({s \in table : s.record = r.record})]
<1>1. Insert(rows) = table \cup {New(r) : r \in rows}
  BY Zenon DEF Insert
<1>2. \A r : New(r).record = r.record
  OBVIOUS
<1>. HIDE DEF New
<1>. QED  BY <1>1, <1>2

(* A coverage INSERT adds a row of its bundle and takes none away.         *)
LEMMA InsertCoverageGrows ==
    ASSUME NEW row, NEW c \in InsertCoverage(row)
    PROVE  c \in coverage \/ c.bundle = row.bundle
BY DEF InsertCoverage

(* What one request changes, applied at once, later or not atomically.     *)
LEMMA ApplyGrows ==
    ASSUME NEW w,
           table' \in {table, Insert(w.rows), Merge(w.rows)},
           table' # table => w.op = "merge",
           coverage' \in {coverage, InsertCoverage(w.row)},
           coverage' # coverage => w.op = "cover"
    PROVE  /\ table \subseteq table'
           /\ \A t \in table' \ table :
                 w.op = "merge" /\ \E r \in w.rows : t.record = r.record
           /\ \A c \in coverage' : c \in coverage \/ (w.op = "cover" /\ c.bundle = w.row.bundle)
<1> DEFINE R == {r \in w.rows : PayloadsStored(r.record.id) = {}}
<1>1. Merge(w.rows) = Insert(R)
  BY DEF Merge
<1>2. /\ table \subseteq Insert(R)
      /\ \A t \in Insert(R) \ table : \E r \in R : t.record = r.record
  BY InsertGrows
<1>3. /\ table \subseteq Insert(w.rows)
      /\ \A t \in Insert(w.rows) \ table : \E r \in w.rows : t.record = r.record
  BY InsertGrows
<1>4. \A c \in InsertCoverage(w.row) : c \in coverage \/ c.bundle = w.row.bundle
  BY InsertCoverageGrows
<1>. QED  BY <1>1, <1>2, <1>3, <1>4

(* A record once stored stays stored while the tables grow.                *)
LEMMA StoredKept ==
    ASSUME table \subseteq table', NEW r, Stored(r)
    PROVE  Stored(r)'
BY DEF Stored

(* What a failing task may leave in flight: coverage only for its bundle,  *)
(* and only after reconciliation.                                          *)
LEMMA WritesOfTask ==
    ASSUME NEW w \in LoadWrites \cup CoverageWrites, w.op = "cover"
    PROVE  pc = "cover_merge" /\ w.row = StableRow
<1>1. ASSUME w \in LoadWrites PROVE FALSE
  BY <1>1 DEF LoadWrites, Put
<1>2. w \in CoverageWrites
  BY <1>1
<1>. QED  BY <1>2 DEF CoverageWrites, Put, ReadyToReconcile

-----------------------------------------------------------------------------
(* Claims that do not grow stay true while the tables grow.                *)
LEMMA ClaimsKept ==
    ASSUME ClaimsStored, ClaimsAgree, table \subseteq table',
           ClaimedRecords' \subseteq ClaimedRecords
    PROVE  ClaimsStored' /\ ClaimsAgree'
BY StoredKept DEF ClaimsStored, ClaimsAgree

(* So do they with records of which the table shows nothing else.          *)
LEMMA ClaimsExtended ==
    ASSUME ClaimsStored, ClaimsAgree, UNCHANGED table,
           \A t \in table : t.record \in Record,
           NEW X \in SUBSET Record,
           ClaimedRecords \subseteq Record,
           \A r \in X : PayloadsStored(r.id) = {r.payload},
           ClaimedRecords' \subseteq ClaimedRecords \cup X
    PROVE  ClaimsStored' /\ ClaimsAgree'
<1>1. ASSUME NEW r \in X, NEW s \in Record, Stored(s), r.id = s.id
      PROVE  r = s
  <2>1. s.payload \in PayloadsStored(r.id)
    BY <1>1 DEF Stored, PayloadsStored
  <2>. QED  BY <1>1, <2>1, RecordExtensional
<1>2. ASSUME NEW r \in X PROVE Stored(r)
  <2>1. r.payload \in PayloadsStored(r.id)
    OBVIOUS
  <2>2. PICK t \in table : t.record.id = r.id /\ t.record.payload = r.payload
    BY <2>1 DEF PayloadsStored
  <2>. QED  BY <2>2, RecordExtensional DEF Stored
<1>3. \A r \in ClaimedRecords \cup X : Stored(r)
  BY <1>2 DEF ClaimsStored
<1>4. \A r, s \in ClaimedRecords \cup X : r.id = s.id => r = s
  BY <1>1, <1>3 DEF ClaimsAgree
<1>5. \A r : Stored(r)' <=> Stored(r)
  BY DEF Stored
<1>. QED  BY <1>3, <1>4, <1>5 DEF ClaimsStored, ClaimsAgree

-----------------------------------------------------------------------------
(* A request of the expected kind, with typed rows.                        *)
Sound(w) ==
    /\ w.op = "cover" => w.row.bundle \in Bundles
    /\ w.op = "merge" => \A t \in w.rows : t.record \in Record

(* What any request of P, answered, given up on or late, does to the store.*)
LEMMA StoreStep ==
    ASSUME ClaimTypes, NEW P, \A w \in P : Sound(w),
           \/ \E w \in P : Perform(w)
           \/ GiveUp(P)
           \/ P = inFlight /\ ApplyLate
    PROVE  /\ table \subseteq table'
           /\ \A t \in table' : t.record \in Record
           /\ \A c \in coverage' :
                 c \in coverage \/ \E w \in P : w.op = "cover" /\ c.bundle = w.row.bundle
           /\ inFlight' \subseteq inFlight \cup P
<1>1. ASSUME NEW w \in P,
             table' \in {table, Insert(w.rows), Merge(w.rows)},
             table' # table => w.op = "merge",
             coverage' \in {coverage, InsertCoverage(w.row)},
             coverage' # coverage => w.op = "cover"
      PROVE  /\ table \subseteq table'
             /\ \A t \in table' : t.record \in Record
             /\ \A c \in coverage' :
                   c \in coverage \/ (w.op = "cover" /\ c.bundle = w.row.bundle)
  <2>1. /\ table \subseteq table'
        /\ \A t \in table' \ table :
              w.op = "merge" /\ \E r \in w.rows : t.record = r.record
        /\ \A c \in coverage' : c \in coverage \/ (w.op = "cover" /\ c.bundle = w.row.bundle)
    BY <1>1, ApplyGrows
  <2>2. ASSUME NEW t \in table' PROVE t.record \in Record
    BY <2>1 DEF ClaimTypes, Sound
  <2>. QED  BY <2>1, <2>2
<1>2. ASSUME NEW w \in P, Apply(w)
      PROVE  /\ table' \in {table, Insert(w.rows), Merge(w.rows)}
             /\ table' # table => w.op = "merge"
             /\ coverage' \in {coverage, InsertCoverage(w.row)}
             /\ coverage' # coverage => w.op = "cover"
  BY <1>2 DEF Apply, TableAfter, CoverageAfter, MergeCoverageRow
<1>3. CASE \E w \in P : Perform(w)
  BY <1>1, <1>2, <1>3 DEF Perform
<1>4. CASE GiveUp(P)
  <2>1. CASE \E w \in P : Apply(w) /\ UNCHANGED inFlight
    BY <1>1, <1>2, <2>1
  <2>2. CASE UNCHANGED <<table, coverage>> /\ inFlight' \subseteq inFlight \cup P
    BY <2>2 DEF ClaimTypes
  <2>3. (\E w \in P : inFlight' = inFlight \cup {w}) => inFlight' \subseteq inFlight \cup P
    OBVIOUS
  <2>. QED  BY <1>4, <2>1, <2>2, <2>3 DEF GiveUp
<1>5. CASE P = inFlight /\ ApplyLate
  <2>1. PICK w \in inFlight :
            /\ inFlight' = inFlight \ {w}
            /\ \/ Apply(w)
               \/ /\ ~ AtomicMerge /\ w.op # "put"
                  /\ table' = IF w.op = "merge" THEN Insert(w.rows) ELSE table
                  /\ coverage' = IF w.op = "cover" THEN InsertCoverage(w.row) ELSE coverage
    BY <1>5 DEF ApplyLate
  <2>. QED  BY <1>1, <1>2, <1>5, <2>1
<1>. QED  BY <1>3, <1>4, <1>5

(* A task of Next leaves in flight only coverage that is reconciled.       *)
LEMMA TaskWritesSound ==
    ASSUME ClaimTypes
    PROVE  /\ \A w \in LoadWrites \cup CoverageWrites :
                 /\ Sound(w)
                 /\ w.op = "cover" => w.row.bundle \in ClaimedBundles
<1> SUFFICES ASSUME NEW w \in LoadWrites \cup CoverageWrites
             PROVE  Sound(w) /\ (w.op = "cover" => w.row.bundle \in ClaimedBundles)
  OBVIOUS
<1>1. CASE w.op = "cover"
  <2>1. pc = "cover_merge" /\ w.row = StableRow
    BY <1>1, WritesOfTask
  <2>2. PICK x \in reconciled : x.run = active
    BY <2>1 DEF ClaimTypes, ResultIn
  <2>3. Bundle \in Bundles /\ plan[x.run] = Bundle
    BY <2>2 DEF ClaimTypes, Bundle
  <2>4. w.row.bundle = Bundle
    BY <2>1 DEF StableRow
  <2>. QED  BY <1>1, <2>2, <2>3, <2>4 DEF Sound, ClaimedBundles
<1>2. CASE w.op = "merge"
  <2>1. pc = "merge" /\ w.rows = RowsOf(loadNew)
    BY <1>2 DEF LoadWrites, CoverageWrites, Put
  <2>2. active # 0 /\ loadDone <= Len(Lines) /\ loadNew \subseteq {Lines[i] : i \in Chunk}
    BY <2>1 DEF ClaimTypes, Loading
  <2>3. \A i \in Chunk : Lines[i] \in Record
    BY <2>2, ChunkFacts
  <2>4. \A t \in w.rows : t.record \in loadNew
    BY <2>1 DEF RowsOf
  <2>. QED  BY <1>2, <2>2, <2>3, <2>4 DEF Sound
<1>. QED  BY <1>1, <1>2 DEF Sound

-----------------------------------------------------------------------------
(* How claims grow: by at most the bundles of E and the load in progress.  *)
LEMMA ClaimsGrow ==
    ASSUME NEW E \in SUBSET Bundles,
           \A c \in coverage' : c.bundle \in ClaimedBundles,
           \A w \in inFlight' : w.op = "cover" => w.row.bundle \in ClaimedBundles,
           \A x \in reconciled' : plan'[x.run] \in ClaimedBundles,
           \A x \in loaded' : x.conflicts = 0 => plan'[x.run] \in ClaimedBundles \cup E
    PROVE  ClaimedRecords' \subseteq
             ClaimedRecords \cup (UNION {RecordsOf(b) : b \in E}) \cup LoadClaims'
<1>1. ClaimedBundles' \subseteq ClaimedBundles \cup E
  BY DEF ClaimedBundles
<1>2. \A b : RecordsOf(b)' = RecordsOf(b)
  BY DEF RecordsOf, Accepted
<1>. HIDE DEF ClaimedBundles
<1>. QED  BY <1>1, <1>2 DEF ClaimedRecords

(* The claims that exist, seen from the variables.                         *)
LEMMA Claiming ==
    ASSUME ClaimTypes
    PROVE  /\ \A c \in coverage : c.bundle \in ClaimedBundles
           /\ \A w \in inFlight : w.op = "cover" => w.row.bundle \in ClaimedBundles
           /\ \A x \in reconciled : plan[x.run] \in ClaimedBundles
           /\ \A x \in loaded : x.conflicts = 0 => plan[x.run] \in ClaimedBundles
<1>1. \A x \in loaded \cup reconciled : plan[x.run] \in Bundles
  BY DEF ClaimTypes
<1>. QED  BY <1>1 DEF ClaimTypes, ClaimedBundles

(* What is claimed is claimed of records.                                  *)
LEMMA ClaimedRecordsTyped == ASSUME ClaimTypes PROVE ClaimedRecords \subseteq Record
<1>1. ASSUME NEW b \in ClaimedBundles PROVE RecordsOf(b) \subseteq Record
  BY RecordsTyped DEF ClaimedBundles
<1>2. LoadClaims \subseteq Record
  <2>1. CASE Loading
    <3>1. Settled \subseteq 1..Len(Lines) /\ Lines \in Seq(Record)
      BY <2>1, ChunkFacts DEF ClaimTypes, Settled
    <3>. QED  BY <3>1 DEF LoadClaims
  <2>2. CASE ~ Loading
    BY <2>2 DEF LoadClaims
  <2>. QED  BY <2>1, <2>2
<1>. QED  BY <1>1, <1>2 DEF ClaimedRecords

-----------------------------------------------------------------------------
(* What every step does to the store.                                      *)
LEMMA StoreOfNext ==
    ASSUME ClaimTypes, [Next]_vars
    PROVE  /\ table \subseteq table'
           /\ \A t \in table' : t.record \in Record
           /\ \A c \in coverage' : c.bundle \in ClaimedBundles
           /\ \A w \in inFlight' :
                 Sound(w) /\ (w.op = "cover" => w.row.bundle \in ClaimedBundles)
<1> DEFINE W == LoadWrites \cup CoverageWrites
<1>1. /\ \A w \in W : Sound(w) /\ (w.op = "cover" => w.row.bundle \in ClaimedBundles)
      /\ \A c \in coverage : c.bundle \in ClaimedBundles
      /\ \A w \in inFlight :
            Sound(w) /\ (w.op = "cover" => w.row.bundle \in ClaimedBundles)
      /\ \A t \in table : t.record \in Record
  BY TaskWritesSound, Claiming DEF ClaimTypes, Sound
<1>2. CASE (\E w \in W : Perform(w)) \/ GiveUp(W)
  <2>. HIDE DEF W
  <2>1. /\ table \subseteq table'
        /\ \A t \in table' : t.record \in Record
        /\ \A c \in coverage' :
              c \in coverage \/ \E w \in W : w.op = "cover" /\ c.bundle = w.row.bundle
        /\ inFlight' \subseteq inFlight \cup W
    BY <1>1, <1>2, StoreStep
  <2>. QED  BY <1>1, <2>1
<1>3. CASE ApplyLate
  <2>1. /\ table \subseteq table'
        /\ \A t \in table' : t.record \in Record
        /\ \A c \in coverage' :
              \/ c \in coverage
              \/ \E w \in inFlight : w.op = "cover" /\ c.bundle = w.row.bundle
        /\ inFlight' \subseteq inFlight \cup inFlight
    BY <1>1, <1>3, StoreStep
  <2>. QED  BY <1>1, <2>1
<1>4. CASE UNCHANGED <<table, coverage, inFlight>>
  BY <1>1, <1>4
<1>5. LoadNext => (\E w \in W : Perform(w)) \/ UNCHANGED <<table, coverage, inFlight>>
  <2>1. PutRaw => Put(RawKey, NoBody) \in W
    BY DEF PutRaw, LoadWrites
  <2>2. PutEvidence => Put(EvidenceKey, Envelope) \in W
    BY DEF PutEvidence, LoadWrites
  <2>3. MergeChunk => [op |-> "merge", rows |-> RowsOf(loadNew)] \in W
    BY DEF MergeChunk, LoadWrites
  <2>. HIDE DEF W
  <2>4. PutRaw \/ PutEvidence \/ MergeChunk => \E w \in W : Perform(w)
    BY <2>1, <2>2, <2>3 DEF PutRaw, PutEvidence, MergeChunk
  <2>5. StartLoad \/ CheckChunk \/ ConfirmChunk \/ RefuseChunk \/ FinishLoad
          => UNCHANGED <<table, coverage, inFlight>>
    BY DEF StartLoad, CheckChunk, ConfirmChunk, RefuseChunk, FinishLoad, storeVars
  <2>. QED  BY <2>4, <2>5 DEF LoadNext
<1>6. CoverageNext => (\E w \in W : Perform(w)) \/ UNCHANGED <<table, coverage, inFlight>>
  <2>1. Reconcile => Put(SummaryKey, SummaryBody) \in W
    BY DEF Reconcile, CoverageWrites
  <2>2. MergeCoverage => [op |-> "cover", row |-> StableRow] \in W
    BY DEF MergeCoverage, CoverageWrites, ReadyToReconcile
  <2>. HIDE DEF W
  <2>3. Reconcile \/ MergeCoverage => \E w \in W : Perform(w)
    BY <2>1, <2>2 DEF Reconcile, MergeCoverage
  <2>4. RefuseReconciliation \/ LookUpCoverage \/ ConfirmCoverage
          => UNCHANGED <<table, coverage, inFlight>>
    BY DEF RefuseReconciliation, LookUpCoverage, ConfirmCoverage, storeVars
  <2>. QED  BY <2>3, <2>4 DEF CoverageNext
<1>7. TaskFails => GiveUp(W)
  BY DEF TaskFails
<1>8. (\E b \in Bundles : Trigger(b)) \/ (\E d \in 1..Len(plan) : Clear(d)) \/ UNCHANGED vars
        => UNCHANGED <<table, coverage, inFlight>>
  BY DEF Trigger, Clear, vars, storeVars
<1>. HIDE DEF W
<1>. QED  BY <1>2, <1>3, <1>4, <1>5, <1>6, <1>7, <1>8 DEF Next, Tasks

(* What every step does to the runs and the results of their tasks.        *)
LEMMA ResultsOfNext ==
    ASSUME ClaimTypes, [Next]_vars
    PROVE  /\ plan' \in Seq(Bundles) /\ active' \in 0..Len(plan')
           /\ \A x \in loaded' \cup reconciled' : x.run \in 1..Len(plan')
           /\ \A x \in reconciled' : plan'[x.run] \in ClaimedBundles
           /\ \A x \in loaded' : x.conflicts = 0 =>
                 \/ plan'[x.run] \in ClaimedBundles
                 \/ FinishLoad /\ loadCon = 0 /\ plan'[x.run] = Bundle
<1>1. /\ \A x \in reconciled : plan[x.run] \in ClaimedBundles
      /\ \A x \in loaded : x.conflicts = 0 => plan[x.run] \in ClaimedBundles
  BY Claiming
<1>2. plan \in Seq(Bundles) /\ active \in 0..Len(plan) /\ Len(plan) \in Nat
      /\ \A x \in loaded \cup reconciled : x.run \in 1..Len(plan)
  BY DEF ClaimTypes
<1>3. CASE UNCHANGED <<plan, active, loaded, reconciled>>
  BY <1>1, <1>2, <1>3
<1>4. CASE FinishLoad /\ UNCHANGED coverVars
  <2>1. /\ UNCHANGED <<plan, active, reconciled>>
        /\ active # 0
        /\ loaded' = loaded \cup {[run |-> active, inserted |-> loadIns,
                                   reused |-> loadReu, conflicts |-> loadCon]}
    BY <1>4 DEF FinishLoad, coverVars, planVars, ClaimTypes, Loading
  <2>. QED  BY <1>1, <1>2, <1>4, <2>1 DEF Bundle
<1>5. CASE Reconcile
  <2>1. PICK x \in loaded : x.run = active /\ x.conflicts = 0
    BY <1>5 DEF Reconcile, ReadyToReconcile, Balanced, ResultIn, ResultOf
  <2>2. plan[active] \in ClaimedBundles
    BY <1>1, <2>1
  <2>3. /\ UNCHANGED <<plan, active, loaded>>
        /\ active # 0
        /\ \A y \in reconciled' : y \in reconciled \/ y.run = active
    BY <1>5 DEF Reconcile, ReadyToReconcile, planVars
  <2>. QED  BY <1>1, <1>2, <2>2, <2>3
<1>6. ASSUME NEW b \in Bundles, Trigger(b)
      PROVE  /\ plan' \in Seq(Bundles) /\ active' \in 0..Len(plan')
             /\ \A i \in 1..Len(plan) : i \in 1..Len(plan') /\ plan'[i] = plan[i]
             /\ UNCHANGED <<loaded, reconciled>>
  BY <1>2, <1>6 DEF Trigger, coverVars
<1>7. ASSUME NEW d \in 1..Len(plan), Clear(d)
      PROVE  /\ plan' = plan /\ active' = d
             /\ loaded' \subseteq loaded /\ reconciled' \subseteq reconciled
  BY <1>7 DEF Clear, Without
<1>8. (LoadNext /\ ~ FinishLoad /\ UNCHANGED coverVars)
        \/ (CoverageNext /\ ~ Reconcile) \/ TaskFails
        \/ (ApplyLate /\ UNCHANGED <<loadVars, coverVars>>) \/ UNCHANGED vars
      => UNCHANGED <<plan, active, loaded, reconciled>>
  BY DEF LoadNext, PutRaw, PutEvidence, StartLoad, CheckChunk, MergeChunk, ConfirmChunk,
         RefuseChunk, CoverageNext, RefuseReconciliation, LookUpCoverage, MergeCoverage,
         ConfirmCoverage, TaskFails, vars, loadVars, coverVars, planVars
<1>9. CASE \E b \in Bundles : Trigger(b)
  BY <1>1, <1>2, <1>6, <1>9
<1>10. CASE \E d \in 1..Len(plan) : Clear(d)
  <2>1. PICK d \in 1..Len(plan) : Clear(d)
    BY <1>10
  <2>2. /\ plan' = plan /\ active' = d
        /\ loaded' \subseteq loaded /\ reconciled' \subseteq reconciled
    BY <1>7, <2>1
  <2>. QED  BY <1>1, <1>2, <2>2
<1>. QED  BY <1>3, <1>4, <1>5, <1>8, <1>9, <1>10 DEF Next, Tasks

-----------------------------------------------------------------------------
(* What every step does to the memory of the running task.                 *)
TaskMemory ==
    /\ loadDone \in Nat /\ loadCon \in Nat
    /\ IF Loading THEN active # 0 /\ loadDone <= Len(Lines) ELSE NoProgress
    /\ IF pc \in {"merge", "confirm"}
       THEN loadNew \subseteq {Lines[i] : i \in Chunk} ELSE loadNew = {}
    /\ pc \in {"cover_merge", "cover_confirm"} => ResultIn(reconciled)

(* The plan of a running task fixes the lines it loads,                    *)
LEMMA SameLines ==
    ASSUME UNCHANGED planVars
    PROVE  Bundle' = Bundle /\ Lines' = Lines
BY DEF planVars, Bundle, Lines, Accepted

(* and the chunk it is working on.                                         *)
LEMMA SameChunk ==
    ASSUME UNCHANGED planVars, UNCHANGED loadDone
    PROVE  Lines' = Lines /\ ChunkEnd' = ChunkEnd /\ Chunk' = Chunk
BY SameLines DEF ChunkEnd, Chunk

(* What a chunk may insert are lines of the chunk.                         *)
LEMMA CandidatesInChunk == Candidates \subseteq {Lines[i] : i \in Chunk}
BY DEF Candidates

(* What every step does to the program counter and the task in progress.   *)
LEMMA TaskOfNext ==
    ASSUME ClaimTypes, [Next]_vars
    PROVE  TaskMemory'
<1>1. TaskMemory
  BY DEF ClaimTypes, TaskMemory
<1>2. ASSUME UNCHANGED <<planVars, loadLocal, pc, reconciled>>
      PROVE  TaskMemory'
  BY <1>1, <1>2, SameChunk DEF TaskMemory, Loading, ResultIn, planVars, loadLocal, NoProgress
<1>3. ASSUME ForgetProgress, pc' = "idle"
      PROVE  TaskMemory'
  BY <1>3 DEF ForgetProgress, TaskMemory, Loading, NoProgress
<1>4. ASSUME UNCHANGED loadLocal, ~ Loading, pc' \in {"idle", "put_evidence"}
      PROVE  TaskMemory'
  BY <1>1, <1>4 DEF TaskMemory, Loading, NoProgress, loadLocal
<1>5. CASE PutRaw \/ PutEvidence
  BY <1>4, <1>5 DEF PutRaw, PutEvidence, Raise, Loading
<1>6. CASE StartLoad
  <2>1. /\ UNCHANGED <<planVars, loadLocal>>
        /\ pc' = "check" /\ active # 0 /\ loadNew = {} /\ loadDone = 0
    BY <1>1, <1>6 DEF StartLoad, TaskMemory, Loading, NoProgress
  <2>2. Len(Lines) \in Nat /\ Lines' = Lines
    <3>1. Bundle \in Bundles
      BY <2>1 DEF ClaimTypes, Bundle
    <3>. QED  BY <2>1, <3>1, AcceptedTyped, SameLines DEF Lines
  <2>. QED  BY <1>1, <2>1, <2>2 DEF TaskMemory, Loading, loadLocal, planVars
<1>7. CASE CheckChunk
  <2>1. /\ Loading /\ active # 0 /\ loadDone <= Len(Lines)
        /\ loadNew = {} /\ UNCHANGED planVars
    BY <1>1, <1>7 DEF CheckChunk, TaskMemory, Loading
  <2>2. ChunkEnd \in Nat /\ ChunkEnd <= Len(Lines) /\ IsFiniteSet(Chunk)
    BY <2>1, ChunkFacts
  <2>3. loadCon' \in Nat
    <3>1. Occurrences(Conflicts(Candidates)) \in Nat
      BY <2>2, NoOccurrence
    <3>2. Cardinality(Contradicted) \in Nat
      BY <2>2, NoContradiction
    <3>. QED  BY <1>1, <1>7, <3>1, <3>2 DEF CheckChunk, TaskMemory
  <2>4. CASE NewRecords = {}
    <3>1. loadDone' = ChunkEnd /\ loadNew' = {} /\ pc' = "check" /\ active' = active
      BY <1>7, <2>1, <2>4 DEF CheckChunk, planVars
    <3>. QED  BY <2>1, <2>2, <2>3, <3>1, SameLines DEF TaskMemory, Loading
  <2>5. CASE NewRecords # {}
    <3>1. loadDone' = loadDone /\ loadNew' = NewRecords /\ pc' = "merge" /\ active' = active
      BY <1>7, <2>1, <2>5 DEF CheckChunk, planVars
    <3>2. NewRecords \subseteq {Lines[i] : i \in Chunk}
      BY CandidatesInChunk DEF NewRecords
    <3>3. Lines' = Lines /\ Chunk' = Chunk
      BY <2>1, <3>1, SameChunk
    <3>. QED  BY <1>1, <2>1, <2>3, <3>1, <3>2, <3>3 DEF TaskMemory, Loading
  <2>. QED  BY <2>4, <2>5
<1>8. CASE MergeChunk
  <2>1. /\ UNCHANGED <<planVars, loadDone, loadNew, loadCon>>
        /\ pc = "merge" /\ pc' = "confirm"
    BY <1>8 DEF MergeChunk
  <2>. QED  BY <1>1, <2>1, SameChunk DEF TaskMemory, Loading, planVars
<1>9. CASE ConfirmChunk
  <2>1. /\ UNCHANGED planVars /\ pc = "confirm" /\ pc' = "check"
        /\ loadDone' = ChunkEnd /\ loadNew' = {}
        /\ loadCon' = loadCon + Occurrences(loadNew \ Confirmed(loadNew))
    BY <1>9 DEF ConfirmChunk
  <2>2. active # 0 /\ loadDone <= Len(Lines)
    BY <1>1, <2>1 DEF TaskMemory, Loading
  <2>3. ChunkEnd \in Nat /\ ChunkEnd <= Len(Lines) /\ IsFiniteSet(Chunk)
    BY <2>2, ChunkFacts
  <2>4. Occurrences(loadNew \ Confirmed(loadNew)) \in Nat
    BY <2>3, NoOccurrence
  <2>5. loadCon' \in Nat
    BY <1>1, <2>1, <2>4 DEF TaskMemory
  <2>. QED  BY <2>1, <2>2, <2>3, <2>5, SameLines DEF TaskMemory, Loading, planVars
<1>10. CASE RefuseChunk \/ FinishLoad
  BY <1>3, <1>10 DEF RefuseChunk, FinishLoad, Raise
<1>11. CASE Reconcile \/ RefuseReconciliation
  BY <1>4, <1>11 DEF Reconcile, RefuseReconciliation, ReadyToReconcile, Raise, Loading
<1>12. CASE LookUpCoverage
  <2>1. /\ UNCHANGED <<planVars, loadLocal, reconciled>> /\ ~ Loading
        /\ pc' = "idle" \/ (pc' = "cover_merge" /\ ResultIn(reconciled))
    BY <1>12 DEF LookUpCoverage, ReadyToCover, AcceptCoverage, RefuseCoverage, Raise, Loading
  <2>. QED  BY <1>1, <2>1 DEF TaskMemory, Loading, NoProgress, loadLocal, planVars, ResultIn
<1>13. CASE MergeCoverage
  BY <1>1, <1>13 DEF MergeCoverage, TaskMemory, Loading, NoProgress, loadLocal, planVars,
                     ResultIn, coverVars
<1>14. CASE ConfirmCoverage
  BY <1>4, <1>14 DEF ConfirmCoverage, AcceptCoverage, RefuseCoverage, Raise, Loading
<1>15. CASE TaskFails
  BY <1>3, <1>15 DEF TaskFails
<1>16. CASE (ApplyLate /\ UNCHANGED <<loadVars, coverVars>>) \/ UNCHANGED vars
  BY <1>2, <1>16 DEF vars, loadVars, coverVars
<1>17. CASE (\E b \in Bundles : Trigger(b)) \/ (\E d \in 1..Len(plan) : Clear(d))
  BY <1>4, <1>17 DEF Trigger, Clear, Loading
<1>. QED
  BY <1>5, <1>6, <1>7, <1>8, <1>9, <1>10, <1>11, <1>12, <1>13, <1>14, <1>15, <1>16, <1>17
  DEF Next, Tasks, LoadNext, CoverageNext

(* Every step keeps the types that the claims depend on.                   *)
LEMMA TypesOfNext ==
    ASSUME ClaimTypes, [Next]_vars
    PROVE  ClaimTypes'
<1>1. ClaimedBundles \subseteq Bundles
  BY DEF ClaimedBundles
<1>2. /\ \A t \in table' : t.record \in Record
      /\ \A c \in coverage' : c.bundle \in ClaimedBundles
      /\ \A w \in inFlight' : Sound(w)
  BY StoreOfNext
<1>. QED
  BY <1>1, <1>2, ResultsOfNext, TaskOfNext DEF ClaimTypes, TaskMemory, Sound

-----------------------------------------------------------------------------
(* The load in progress claims, beyond what was claimed, only records of   *)
(* which its reads have just shown nothing else.                           *)

(* A task that is not loading a chunk claims nothing on its own.           *)
LEMMA NotLoading == ASSUME pc' \notin {"check", "merge", "confirm"} PROVE LoadClaims' = {}
BY DEF LoadClaims, Loading

(* CheckChunk claims the stored lines of its chunk, which agree.           *)
LEMMA CheckedClaims ==
    ASSUME ClaimTypes, CheckChunk
    PROVE  LoadClaims' \subseteq LoadClaims \cup Replays(Candidates)
<1>1. /\ pc = "check" /\ active # 0 /\ loadDone <= Len(Lines) /\ loadDone \in Nat
      /\ loadCon \in Nat /\ loadNew = {} /\ UNCHANGED planVars
  BY DEF ClaimTypes, CheckChunk, Loading
<1>2. ChunkEnd \in Nat /\ loadDone <= ChunkEnd /\ IsFiniteSet(Chunk)
  BY <1>1, ChunkFacts
<1>3. CASE loadCon' # 0
  BY <1>3 DEF LoadClaims
<1>4. CASE loadCon' = 0
  <2>1. Occurrences(Conflicts(Candidates)) \in Nat /\ Cardinality(Contradicted) \in Nat
    BY <1>2, NoOccurrence, NoContradiction
  <2>2. /\ loadCon = 0
        /\ Cardinality(Contradicted) = 0 /\ Occurrences(Conflicts(Candidates)) = 0
    BY <1>1, <1>4, <2>1 DEF CheckChunk
  <2>3. Contradicted = {} /\ \A i \in Chunk : Lines[i] \notin Conflicts(Candidates)
    BY <1>2, <2>2, NoOccurrence, NoContradiction
  <2>4. \A i \in Chunk : Lines[i] \in NewRecords \cup Replays(Candidates)
    BY <2>3 DEF Candidates, NewRecords, Conflicts
  <2>5. \A i \in 1..loadDone : Lines[i] \in LoadClaims
    BY <1>1, <2>2 DEF LoadClaims, Loading, Settled
  <2>6. \A i \in 1..ChunkEnd : i \in 1..loadDone \/ i \in Chunk
    BY <1>1, <1>2 DEF Chunk
  <2>7. \A i \in 1..ChunkEnd : Lines[i] \in LoadClaims \cup NewRecords \cup Replays(Candidates)
    BY <2>4, <2>5, <2>6
  <2>8. Lines' = Lines
    BY <1>1, SameLines
  <2>9. CASE NewRecords = {}
    <3>1. pc' = "check" /\ loadDone' = ChunkEnd
      BY <1>1, <2>9 DEF CheckChunk
    <3>2. LoadClaims' \subseteq {Lines[i] : i \in 1..ChunkEnd}
      BY <2>8, <3>1 DEF LoadClaims, Settled
    <3>. QED  BY <2>7, <2>9, <3>2
  <2>10. CASE NewRecords # {}
    <3>1. pc' = "merge" /\ loadNew' = NewRecords /\ loadDone' = loadDone
      BY <2>10 DEF CheckChunk
    <3>2. ChunkEnd' = ChunkEnd
      BY <1>1, <3>1, SameChunk
    <3>3. LoadClaims' \subseteq {Lines[i] : i \in 1..ChunkEnd} \ NewRecords
      BY <2>8, <3>1, <3>2 DEF LoadClaims, Settled
    <3>. QED  BY <2>7, <3>3
  <2>. QED  BY <2>9, <2>10
<1>. QED  BY <1>3, <1>4

(* ConfirmChunk claims the rows it has read back.                          *)
LEMMA ConfirmedClaims ==
    ASSUME ClaimTypes, ConfirmChunk
    PROVE  LoadClaims' \subseteq LoadClaims \cup Replays(loadNew)
<1>1. /\ pc = "confirm" /\ active # 0 /\ loadDone <= Len(Lines) /\ loadCon \in Nat
      /\ loadNew \subseteq {Lines[i] : i \in Chunk} /\ UNCHANGED planVars
      /\ pc' = "check" /\ loadDone' = ChunkEnd /\ loadNew' = {}
      /\ loadCon' = loadCon + Occurrences(loadNew \ Replays(loadNew))
  BY DEF ClaimTypes, ConfirmChunk, Confirmed, Loading
<1>2. IsFiniteSet(Chunk)
  BY <1>1, ChunkFacts
<1>3. CASE loadCon' # 0
  BY <1>3 DEF LoadClaims
<1>4. CASE loadCon' = 0
  <2>1. loadCon = 0 /\ Occurrences(loadNew \ Replays(loadNew)) = 0
    BY <1>1, <1>2, <1>4, NoOccurrence
  <2>2. loadNew \subseteq Replays(loadNew)
    BY <1>1, <1>2, <2>1, NoOccurrence
  <2>3. \A i \in 1..ChunkEnd : Lines[i] \in LoadClaims \cup loadNew
    BY <1>1, <2>1 DEF LoadClaims, Loading, Settled
  <2>4. LoadClaims' \subseteq {Lines[i] : i \in 1..ChunkEnd}
    BY <1>1, SameLines DEF LoadClaims, Settled
  <2>. QED  BY <2>2, <2>3, <2>4
<1>. QED  BY <1>3, <1>4

(* FinishLoad hands the claims of the load over to its bundle.             *)
LEMMA FinishedClaims ==
    ASSUME ClaimTypes, FinishLoad, loadCon = 0
    PROVE  RecordsOf(Bundle) \subseteq LoadClaims
<1>1. pc = "check" /\ loadNew = {} /\ loadDone = Len(Lines)
  BY DEF FinishLoad, ClaimTypes
<1>. QED  BY <1>1 DEF RecordsOf, LoadClaims, Loading, Settled, Lines

(* No other action extends the claims.                                     *)
LEMMA OtherClaims ==
    ASSUME ClaimTypes, [Next]_vars, ~ CheckChunk, ~ ConfirmChunk
    PROVE  LoadClaims' \subseteq LoadClaims
<1>1. CASE UNCHANGED <<planVars, loadLocal, pc>>
  BY <1>1, SameChunk DEF LoadClaims, Loading, Settled, loadLocal
<1>2. CASE StartLoad
  <2>1. loadDone' = 0 /\ pc' = "check"
    BY <1>2 DEF StartLoad, ClaimTypes, Loading, NoProgress, loadLocal
  <2>. QED  BY <2>1 DEF LoadClaims, Settled
<1>3. CASE MergeChunk
  <2>1. /\ UNCHANGED <<planVars, loadDone, loadNew, loadCon>>
        /\ pc = "merge" /\ pc' = "confirm"
    BY <1>3 DEF MergeChunk
  <2>. QED  BY <2>1, SameChunk DEF LoadClaims, Loading, Settled
<1>4. PutRaw \/ PutEvidence \/ RefuseChunk \/ FinishLoad \/ CoverageNext \/ TaskFails
        \/ (\E b \in Bundles : Trigger(b)) \/ (\E d \in 1..Len(plan) : Clear(d))
      => pc' \notin {"check", "merge", "confirm"}
  BY DEF PutRaw, PutEvidence, RefuseChunk, FinishLoad, Raise, CoverageNext, Reconcile,
         RefuseReconciliation, ReadyToReconcile, LookUpCoverage, ReadyToCover, MergeCoverage,
         ConfirmCoverage, AcceptCoverage, RefuseCoverage, TaskFails, Trigger, Clear
<1>5. (ApplyLate /\ UNCHANGED <<loadVars, coverVars>>) \/ UNCHANGED vars
        => UNCHANGED <<planVars, loadLocal, pc>>
  BY DEF vars, loadVars
<1>. QED  BY <1>1, <1>2, <1>3, <1>4, <1>5, NotLoading DEF Next, Tasks, LoadNext

-----------------------------------------------------------------------------
(* Every step extends the claims only by records of which its reads show nothing else. *)
LEMMA ClaimsOfNext ==
    ASSUME CoverInv, [Next]_vars
    PROVE  ClaimsStored' /\ ClaimsAgree'
<1>. USE DEF CoverInv
<1> DEFINE E == IF FinishLoad /\ loadCon = 0 THEN {Bundle} ELSE {}
<1>1. /\ table \subseteq table'
      /\ \A c \in coverage' : c.bundle \in ClaimedBundles
      /\ \A w \in inFlight' : w.op = "cover" => w.row.bundle \in ClaimedBundles
  BY StoreOfNext
<1>2. /\ \A x \in reconciled' : plan'[x.run] \in ClaimedBundles
      /\ \A x \in loaded' : x.conflicts = 0 => plan'[x.run] \in ClaimedBundles \cup E
  BY ResultsOfNext
<1>3. E \subseteq Bundles /\ (UNION {RecordsOf(b) : b \in E}) \subseteq LoadClaims
  <2>1. FinishLoad /\ loadCon = 0 => Bundle \in Bundles
    BY DEF FinishLoad, ClaimTypes, Loading, Bundle
  <2>. QED  BY <2>1, FinishedClaims
<1>4. ClaimedRecords' \subseteq ClaimedRecords \cup LoadClaims'
  <2>. HIDE DEF E
  <2>1. ClaimedRecords' \subseteq
          ClaimedRecords \cup (UNION {RecordsOf(b) : b \in E}) \cup LoadClaims'
    BY <1>1, <1>2, <1>3, ClaimsGrow
  <2>. QED  BY <1>3, <2>1 DEF ClaimedRecords
<1>5. ClaimedRecords \subseteq Record
  BY ClaimedRecordsTyped
<1>6. ASSUME NEW X \in SUBSET Record, UNCHANGED storeVars,
             LoadClaims' \subseteq LoadClaims \cup Replays(X)
      PROVE  ClaimsStored' /\ ClaimsAgree'
  <2>1. \A r \in Replays(X) : r \in Record /\ PayloadsStored(r.id) = {r.payload}
    BY DEF Replays
  <2>2. ClaimedRecords' \subseteq ClaimedRecords \cup Replays(X)
    BY <1>4, <1>6 DEF ClaimedRecords
  <2>3. UNCHANGED table /\ \A t \in table : t.record \in Record
    BY <1>6 DEF storeVars, ClaimTypes
  <2>. QED  BY <1>5, <2>1, <2>2, <2>3, ClaimsExtended
<1>7. (CheckChunk \/ ConfirmChunk) => \A i \in Chunk : Lines[i] \in Record
  BY ChunkFacts DEF CheckChunk, ConfirmChunk, ClaimTypes, Loading
<1>8. CASE CheckChunk
  <2>1. Candidates \subseteq Record
    BY <1>7, <1>8, CandidatesInChunk
  <2>. QED  BY <1>6, <1>8, <2>1, CheckedClaims DEF CheckChunk
<1>9. CASE ConfirmChunk
  <2>1. loadNew \subseteq Record
    BY <1>7, <1>9 DEF ConfirmChunk, ClaimTypes
  <2>. QED  BY <1>6, <1>9, <2>1, ConfirmedClaims DEF ConfirmChunk
<1>10. CASE ~ CheckChunk /\ ~ ConfirmChunk
  <2>1. ClaimedRecords' \subseteq ClaimedRecords
    BY <1>4, <1>10, OtherClaims DEF ClaimedRecords
  <2>. QED  BY <1>1, <2>1, ClaimsKept
<1>. QED  BY <1>8, <1>9, <1>10

(* Nothing is claimed initially.                                           *)
LEMMA CoverInvInit == Init => CoverInv
<1> SUFFICES ASSUME Init PROVE CoverInv
  OBVIOUS
<1>. USE DEF Init, StoreInit, LoadInit, CoverageInit, NoProgress
<1>1. ClaimTypes
  BY DEF ClaimTypes, Loading, NoProgress
<1>2. ClaimedBundles = {} /\ LoadClaims = {}
  BY DEF ClaimedBundles, LoadClaims, Loading
<1>3. ClaimedRecords = {}
  BY <1>2 DEF ClaimedRecords
<1>. QED  BY <1>1, <1>3 DEF CoverInv, ClaimsStored, ClaimsAgree

(* The invariant of ingestion holds in every reachable state.              *)
THEOREM IngestionInvariant == Spec => []CoverInv
<1>1. CoverInv /\ [Next]_vars => CoverInv'
  BY TypesOfNext, ClaimsOfNext DEF CoverInv
<1>. QED  BY CoverInvInit, <1>1, PTL DEF Spec

(* Covered bundles are claimed ones.                                       *)
LEMMA CoverageClaims ==
    ASSUME CoverInv, NEW c \in coverage
    PROVE  RecordsOf(c.bundle) \subseteq ClaimedRecords
BY Claiming DEF CoverInv, ClaimedRecords

(* dbt may trust a coverage row: every accepted row of the declared range  *)
(* is in the tables, however BatchRunCoveragePublisher.publish and the     *)
(* loader were interrupted, retried or overtaken by late requests.         *)
THEOREM CoverageIsHonest == Spec => []CoverageImpliesLoaded
<1>1. CoverInv => CoverageImpliesLoaded
  BY CoverageClaims DEF CoverageImpliesLoaded, CoverInv, ClaimsStored
<1>. QED  BY IngestionInvariant, <1>1, PTL

(* Bundles that contradict each other are never both declared, even if the *)
(* MERGE of _load_chunk does not see rows committed since it was sent.     *)
THEOREM CoverageIsConsistent == Spec => []CoveredBundlesAgree
<1>1. CoverInv => CoveredBundlesAgree
  BY CoverageClaims DEF CoveredBundlesAgree, CoverInv, ClaimsAgree
<1>. QED  BY IngestionInvariant, <1>1, PTL

-----------------------------------------------------------------------------
(* One row per identity, when a MERGE sees what was committed before it.   *)

OnePayload(S) == \A c, d \in S : c.id = d.id => c = d
RowsDistinct(R) == \A t, u \in R : t.record.id = u.record.id => t = u

(* No request brings two rows for one identity.                            *)
OneRowInv ==
    /\ OneRowPerIdentity
    /\ OnePayload(loadNew)
    /\ \A w \in inFlight : w.op = "merge" => RowsDistinct(w.rows)

(* The lines of a chunk that do not contradict each other have one content *)
(* per identity.                                                           *)
LEMMA CandidatesDistinct == OnePayload(Candidates)
<1> SUFFICES ASSUME NEW i \in Chunk \ Contradicted, NEW j \in Chunk \ Contradicted,
                    Lines[i].id = Lines[j].id
             PROVE  Lines[i] = Lines[j]
  BY DEF Candidates, OnePayload
<1>. QED  BY DEF Contradicted

(* Rows for absent identities, one each, keep one row per identity.        *)
LEMMA MergeKeepsOneRow ==
    ASSUME OneRowPerIdentity, NEW R, RowsDistinct(R), table' = Merge(R)
    PROVE  OneRowPerIdentity'
<1> DEFINE S == {r \in R : PayloadsStored(r.record.id) = {}}
           New(r) == [record |-> r.record, bundle |-> r.bundle, time |-> r.time,
                      copy |-> Cardinality({s \in table : s.record = r.record})]
<1>1. table' = table \cup {New(r) : r \in S}
  BY Zenon DEF Merge, Insert
<1>2. \A r : New(r).record = r.record
  OBVIOUS
<1> HIDE DEF New
<1>3. ASSUME NEW r \in S, NEW t \in table PROVE t.record.id # r.record.id
  BY DEF PayloadsStored
<1>4. \A r, s \in S : r.record.id = s.record.id => r = s
  BY DEF RowsDistinct
<1>. HIDE DEF S
<1>. QED  BY <1>1, <1>2, <1>3, <1>4 DEF OneRowPerIdentity

(* So does any request in flight or about to be sent.                      *)
LEMMA ApplyKeepsOneRow ==
    ASSUME OneRowPerIdentity, NEW w, w.op = "merge" => RowsDistinct(w.rows), Apply(w)
    PROVE  OneRowPerIdentity'
<1>1. CASE w.op = "merge"
  BY <1>1, MergeKeepsOneRow DEF Apply, TableAfter
<1>2. CASE w.op # "merge"
  BY <1>2 DEF Apply, TableAfter, OneRowPerIdentity
<1>. QED  BY <1>1, <1>2

LEMMA TaskRowsDistinct ==
    ASSUME OnePayload(loadNew), NEW w \in LoadWrites \cup CoverageWrites,
           w.op = "merge"
    PROVE  RowsDistinct(w.rows)
<1>1. w.rows = RowsOf(loadNew)
  BY DEF LoadWrites, CoverageWrites, Put
<1>. QED  BY <1>1 DEF RowsOf, RowsDistinct, OnePayload

(* How a step reaches the store.                                           *)
LEMMA StoreKinds ==
    ASSUME [Next]_vars
    PROVE  \/ \E w \in LoadWrites \cup CoverageWrites : Perform(w)
           \/ GiveUp(LoadWrites \cup CoverageWrites)
           \/ ApplyLate
           \/ UNCHANGED storeVars
<1>1. PutRaw \/ PutEvidence \/ MergeChunk => \E w \in LoadWrites : Perform(w)
  BY DEF PutRaw, PutEvidence, MergeChunk, LoadWrites
<1>2. Reconcile \/ MergeCoverage => \E w \in CoverageWrites : Perform(w)
  BY DEF Reconcile, MergeCoverage, CoverageWrites, ReadyToReconcile
<1>. QED  BY <1>1, <1>2 DEF Next, Tasks, LoadNext, CoverageNext, StartLoad,
     CheckChunk, ConfirmChunk, RefuseChunk, FinishLoad, RefuseReconciliation,
     LookUpCoverage, ConfirmCoverage, TaskFails, Trigger, Clear, vars

(* Every step; those of a task send at most the request of TaskFails.      *)
LEMMA OneRowStep ==
    ASSUME AtomicMerge, OneRowInv, [Next]_vars
    PROVE  OneRowInv'
<1> USE DEF OneRowInv
<1> DEFINE W == LoadWrites \cup CoverageWrites
<1>1. \A w \in W : w.op = "merge" => RowsDistinct(w.rows)
  BY TaskRowsDistinct
<1>2. OnePayload(loadNew')
  <2>1. loadNew' \in {loadNew, {}, NewRecords}
    BY DEF Next, Tasks, LoadNext, CoverageNext, PutRaw, PutEvidence, StartLoad,
       CheckChunk, MergeChunk, ConfirmChunk, RefuseChunk, FinishLoad, Reconcile,
       RefuseReconciliation, LookUpCoverage, MergeCoverage, ConfirmCoverage,
       TaskFails, ForgetProgress, Trigger, Clear, vars, loadVars, loadLocal
  <2>2. OnePayload(NewRecords)
    BY CandidatesDistinct DEF NewRecords, OnePayload
  <2>. QED  BY <2>1, <2>2 DEF OnePayload
<1>3. CASE \E w \in W : Perform(w)
  <2>. HIDE DEF W
  <2>. QED  BY <1>1, <1>2, <1>3, ApplyKeepsOneRow DEF Perform
<1>4. CASE GiveUp(W)
  <2>. HIDE DEF W
  <2>1. CASE \E w \in W : Apply(w) /\ UNCHANGED inFlight
    BY <1>1, <1>2, <2>1, ApplyKeepsOneRow
  <2>2. CASE table' = table /\ \E w \in W : inFlight' = inFlight \cup {w}
    BY <1>1, <1>2, <2>2 DEF OneRowPerIdentity
  <2>3. CASE table' = table /\ inFlight' = inFlight
    BY <1>2, <2>3 DEF OneRowPerIdentity
  <2>. QED  BY <1>4, <2>1, <2>2, <2>3 DEF GiveUp
<1>5. CASE ApplyLate
  <2>1. PICK w \in inFlight : inFlight' = inFlight \ {w} /\ Apply(w)
    BY <1>5 DEF ApplyLate
  <2>. QED  BY <1>2, <2>1, ApplyKeepsOneRow
<1>6. CASE UNCHANGED <<table, inFlight>>
  BY <1>2, <1>6 DEF OneRowPerIdentity
<1>. QED  BY <1>3, <1>4, <1>5, <1>6, StoreKinds DEF storeVars

(* Retries, cleared tasks and late requests leave one row per identity in  *)
(* tables that enforce no key, by the insert-only MERGE of _load_chunk and *)
(* the check of a chunk against itself.                                    *)
THEOREM NoDuplicateRows == ASSUME AtomicMerge PROVE Spec => []OneRowPerIdentity
<1>1. Init => OneRowInv
  BY DEF Init, StoreInit, LoadInit, NoProgress, OneRowInv, OneRowPerIdentity, OnePayload
<1>2. OneRowInv /\ [Next]_vars => OneRowInv'
  BY OneRowStep
<1>3. OneRowInv => OneRowPerIdentity
  BY DEF OneRowInv
<1>. QED  BY <1>1, <1>2, <1>3, PTL DEF Spec

-----------------------------------------------------------------------------
(* Ingestion implements the append-only record of source revisions.        *)

AllRecords == UNION {RecordsOf(b) : b \in Bundles}
Brings(w)  == w.op = "merge" => \A t \in w.rows : t.record \in AllRecords

(* What is in the tables, or on its way, some bundle has brought.          *)
BroughtInv ==
    /\ \A t \in table : t.record \in AllRecords
    /\ \A w \in inFlight : Brings(w)

RevisionInv == CoverInv /\ OneRowInv /\ BroughtInv

LEMMA TaskBrings ==
    ASSUME ClaimTypes, NEW w \in LoadWrites \cup CoverageWrites
    PROVE  Brings(w)
<1> SUFFICES ASSUME w.op = "merge" PROVE \A t \in w.rows : t.record \in AllRecords
  BY DEF Brings
<1>1. pc = "merge" /\ w.rows = RowsOf(loadNew)
  BY DEF LoadWrites, CoverageWrites, Put
<1>2. active # 0 /\ loadDone <= Len(Lines) /\ loadNew \subseteq {Lines[i] : i \in Chunk}
  BY <1>1 DEF ClaimTypes, Loading
<1>3. Bundle \in Bundles /\ Chunk \subseteq 1..Len(Lines)
  BY <1>2, ChunkFacts
<1>4. loadNew \subseteq RecordsOf(Bundle)
  BY <1>2, <1>3 DEF RecordsOf, Lines
<1>5. \A t \in w.rows : t.record \in loadNew
  BY <1>1 DEF RowsOf
<1>. QED  BY <1>3, <1>4, <1>5 DEF AllRecords

(* One request, applied at once or later.                                  *)
LEMMA ApplyBrings ==
    ASSUME \A t \in table : t.record \in AllRecords,
           NEW w, Brings(w), Apply(w)
    PROVE  \A t \in table' : t.record \in AllRecords
<1>1. CASE w.op = "merge"
  <2> DEFINE R == {r \in w.rows : PayloadsStored(r.record.id) = {}}
  <2>1. table' = Insert(R)
    BY <1>1 DEF Apply, TableAfter, Merge
  <2>2. \A t \in Insert(R) \ table : \E r \in R : t.record = r.record
    BY InsertGrows
  <2>. QED  BY <1>1, <2>1, <2>2 DEF Brings
<1>2. CASE w.op # "merge"
  BY <1>2 DEF Apply, TableAfter
<1>. QED  BY <1>1, <1>2

LEMMA BroughtStep ==
    ASSUME AtomicMerge, ClaimTypes, BroughtInv, [Next]_vars
    PROVE  BroughtInv'
<1> DEFINE W == LoadWrites \cup CoverageWrites
<1>1. \A w \in W : Brings(w)
  BY TaskBrings
<1>2. \A w : Brings(w)' <=> Brings(w)
  BY DEF Brings, AllRecords, RecordsOf, Accepted
<1>3. AllRecords' = AllRecords
  BY DEF AllRecords, RecordsOf, Accepted
<1>4. ASSUME \A t \in table' : t.record \in AllRecords,
             \A w \in inFlight' : Brings(w)
      PROVE  BroughtInv'
  BY <1>2, <1>3, <1>4 DEF BroughtInv
<1>5. CASE \E w \in W : Perform(w)
  <2>. HIDE DEF W
  <2>. QED  BY <1>1, <1>4, <1>5, ApplyBrings DEF Perform, BroughtInv
<1>6. CASE GiveUp(W)
  <2>. HIDE DEF W
  <2>1. CASE \E w \in W : Apply(w) /\ UNCHANGED inFlight
    BY <1>1, <1>4, <2>1, ApplyBrings DEF BroughtInv
  <2>2. CASE table' = table /\ inFlight' \subseteq inFlight \cup W
    BY <1>1, <1>4, <2>2 DEF BroughtInv
  <2>3. (\E w \in W : inFlight' = inFlight \cup {w}) => inFlight' \subseteq inFlight \cup W
    OBVIOUS
  <2>. QED  BY <1>6, <2>1, <2>2, <2>3 DEF GiveUp
<1>7. CASE ApplyLate
  <2>1. PICK w \in inFlight : inFlight' = inFlight \ {w} /\ Apply(w)
    BY <1>7 DEF ApplyLate
  <2>. QED  BY <1>4, <2>1, ApplyBrings DEF BroughtInv
<1>8. CASE UNCHANGED <<table, inFlight>>
  BY <1>4, <1>8 DEF BroughtInv
<1>. QED  BY <1>5, <1>6, <1>7, <1>8, StoreKinds DEF storeVars

Recorded == {<<r.record.id, r.record.payload>> : r \in table}
Declared == {c.bundle : c \in coverage}

(* The tables hold the accepted rows of every declared bundle.             *)
DeclaredIsRecorded == \A c \in coverage : Pairs(c.bundle) \subseteq Recorded

LEMMA DeclaredRecorded ==
    (CoverInv => DeclaredIsRecorded) /\ (CoverInv' => DeclaredIsRecorded')
<1>1. CoverInv => DeclaredIsRecorded
  <2> SUFFICES ASSUME CoverInv, NEW c \in coverage
               PROVE  Pairs(c.bundle) \subseteq Recorded
    BY DEF DeclaredIsRecorded
  <2>1. \A r \in RecordsOf(c.bundle) : \E t \in table : t.record = r
    BY CoverageClaims DEF CoverInv, ClaimsStored, Stored
  <2>. QED  BY <2>1 DEF Pairs, Recorded
<1>. QED  BY <1>1, PTL

LEMMA RecordingStep ==
    ASSUME RevisionInv', table \subseteq table', UNCHANGED coverage
    PROVE  [Revisions!Next]_<<Recorded, Declared>>
<1>1. Recorded \subseteq Recorded'
  BY DEF Recorded
<1>2. Declared' = Declared
  BY DEF Declared
<1>3. AllRecords' = AllRecords
  BY DEF AllRecords, RecordsOf, Accepted
<1>4. ASSUME NEW r \in Recorded'
      PROVE  /\ \E b \in Bundles : r \in [x \in Bundles |-> Pairs(x)][b]
             /\ \A s \in Recorded' : s[1] = r[1] => s = r
  <2>1. PICK t \in table' : r = <<t.record.id, t.record.payload>>
    BY DEF Recorded
  <2>2. t.record \in AllRecords
    BY <1>3 DEF RevisionInv, BroughtInv
  <2>3. PICK b \in Bundles : t.record \in RecordsOf(b)
    BY <2>2 DEF AllRecords
  <2>4. r \in Pairs(b)
    BY <2>1, <2>3 DEF Pairs
  <2>5. \A u \in table' : u.record.id = t.record.id => u = t
    BY DEF RevisionInv, OneRowInv, OneRowPerIdentity
  <2>6. \A s \in Recorded' : s[1] = r[1] => s = r
    BY <2>1, <2>5 DEF Recorded
  <2>. QED  BY <2>4, <2>6
<1>5. Revisions!Record
  BY <1>1, <1>2, <1>4 DEF Revisions!Record, Recorded, Declared
<1>. QED  BY <1>5 DEF Revisions!Next

LEMMA DeclaringStep ==
    ASSUME RevisionInv', UNCHANGED table, NEW row, row.bundle \in Bundles,
           coverage' = MergeCoverageRow(row)
    PROVE  [Revisions!Next]_<<Recorded, Declared>>
<1> DEFINE new == [bundle |-> row.bundle, reconciled |-> row.reconciled,
                   time |-> row.time, copy |-> Cardinality(CoverageOf(row.bundle))]
<1>1. Recorded' = Recorded
  BY DEF Recorded
<1>2. CASE coverage' = coverage
  BY <1>1, <1>2 DEF Declared
<1>3. CASE coverage' # coverage
  <2>1. coverage' = coverage \cup {new} /\ new.bundle = row.bundle
    BY <1>3 DEF MergeCoverageRow, InsertCoverage
  <2> HIDE DEF new
  <2>2. Declared' = Declared \cup {row.bundle}
    BY <2>1 DEF Declared
  <2>3. \A c \in coverage' : Pairs(c.bundle) \subseteq Recorded'
    <3>1. DeclaredIsRecorded'
      BY DeclaredRecorded DEF RevisionInv
    <3>2. \A b : Pairs(b)' = Pairs(b)
      BY DEF Pairs, RecordsOf, Accepted
    <3>. QED  BY <3>1, <3>2 DEF DeclaredIsRecorded
  <2>4. Pairs(row.bundle) \subseteq Recorded
    BY <1>1, <2>1, <2>3
  <2>5. [x \in Bundles |-> Pairs(x)][row.bundle] \subseteq Recorded
    BY <2>4
  <2>6. Revisions!Declare
    BY <1>1, <2>2, <2>5 DEF Revisions!Declare, Recorded, Declared
  <2>. QED  BY <2>6 DEF Revisions!Next
<1>. QED  BY <1>2, <1>3

(* Every request is recorded, declares a bundle, or leaves no trace here.  *)
LEMMA RequestStep ==
    ASSUME RevisionInv', NEW w, Sound(w), Apply(w)
    PROVE  [Revisions!Next]_<<Recorded, Declared>>
<1>1. CASE w.op = "merge"
  <2>1. table \subseteq Insert({r \in w.rows : PayloadsStored(r.record.id) = {}})
    BY InsertGrows
  <2>2. table \subseteq table' /\ UNCHANGED coverage
    BY <1>1, <2>1 DEF Apply, TableAfter, CoverageAfter, Merge
  <2>. QED  BY <2>2, RecordingStep
<1>2. CASE w.op = "cover"
  BY <1>2, DeclaringStep DEF Apply, TableAfter, CoverageAfter, Sound
<1>3. CASE w.op \notin {"merge", "cover"}
  <2>1. UNCHANGED <<table, coverage>>
    BY <1>3 DEF Apply, TableAfter, CoverageAfter
  <2>. QED  BY <2>1 DEF Recorded, Declared
<1>. QED  BY <1>1, <1>2, <1>3

LEMMA RevisionStep ==
    ASSUME AtomicMerge, RevisionInv, [Next]_vars
    PROVE  RevisionInv' /\ [Revisions!Next]_<<Recorded, Declared>>
<1> DEFINE W == LoadWrites \cup CoverageWrites
<1>1. RevisionInv'
  BY TypesOfNext, ClaimsOfNext, OneRowStep, BroughtStep DEF RevisionInv, CoverInv
<1>2. (\A w \in W : Sound(w)) /\ (\A w \in inFlight : Sound(w))
  BY TaskWritesSound DEF RevisionInv, CoverInv, ClaimTypes, Sound
<1>3. CASE UNCHANGED <<table, coverage>>
  BY <1>1, <1>3 DEF Recorded, Declared
<1>4. CASE \E w \in W : Perform(w)
  <2>. HIDE DEF W
  <2>. QED  BY <1>1, <1>2, <1>4, RequestStep DEF Perform
<1>5. CASE GiveUp(W)
  <2>. HIDE DEF W
  <2>1. (\E w \in W : Apply(w)) \/ UNCHANGED <<table, coverage>>
    BY <1>5 DEF GiveUp
  <2>. QED  BY <1>1, <1>2, <1>3, <2>1, RequestStep
<1>6. CASE ApplyLate
  <2>1. PICK w \in inFlight : Apply(w)
    BY <1>6 DEF ApplyLate
  <2>. QED  BY <1>1, <1>2, <2>1, RequestStep
<1>. QED  BY <1>3, <1>4, <1>5, <1>6, StoreKinds DEF storeVars

(* The tasks of any number of runs, failing, retried, cleared and answered *)
(* late, record source revisions once and for all and declare a bundle     *)
(* only over all of its revisions: load_validated_bundle and               *)
(* publish_batch_run_coverage.                                             *)
THEOREM RecordIsImplemented == ASSUME AtomicMerge PROVE Spec => ImplementsRevisions
<1>1. Init => RevisionInv
  BY CoverInvInit DEF Init, StoreInit, LoadInit, NoProgress, RevisionInv,
     OneRowInv, OneRowPerIdentity, OnePayload, BroughtInv
<1>2. RevisionInv /\ [Next]_vars => RevisionInv'
  BY RevisionStep
<1>3. Init => Revisions!Init
  BY DEF Init, StoreInit, Revisions!Init
<1>4. RevisionInv /\ [Next]_vars => [Revisions!Next]_<<Recorded, Declared>>
  BY RevisionStep
<1>. QED  BY <1>1, <1>2, <1>3, <1>4, PTL
          DEF Spec, ImplementsRevisions, Revisions!Spec, Recorded, Declared

-----------------------------------------------------------------------------
(* Everything keeps its type.                                              *)

TaskWrites == LoadWrites \cup CoverageWrites

(* A request that is applied, when it is sent or late.                     *)
Applied(w) ==
    \/ Apply(w)
    \/ /\ ~ AtomicMerge /\ w.op # "put"
       /\ table' = IF w.op = "merge" THEN Insert(w.rows) ELSE table
       /\ coverage' = IF w.op = "cover" THEN InsertCoverage(w.row) ELSE coverage
       /\ UNCHANGED <<objects, clock>>

(* A step applies at most one request, sent by the task or in flight, and  *)
(* leaves in flight at most requests of the task.                          *)
LEMMA StoreEffect ==
    ASSUME [Next]_vars
    PROVE  /\ inFlight' \subseteq inFlight \cup TaskWrites
           /\ \/ UNCHANGED <<table, coverage, objects, clock>>
              \/ \E w \in inFlight \cup TaskWrites : Applied(w)
           /\ faults' = faults \/ (faults < MaxFaults /\ faults' = faults + 1)
<1>1. CASE \E w \in TaskWrites : Perform(w)
  <2>. QED  BY <1>1 DEF Perform, Applied
<1>2. CASE GiveUp(TaskWrites)
  <2>1. (\E w \in TaskWrites : inFlight' = inFlight \cup {w})
          => inFlight' \subseteq inFlight \cup TaskWrites
    OBVIOUS
  <2>. HIDE DEF TaskWrites
  <2>. QED  BY <1>2, <2>1 DEF GiveUp, Applied
<1>3. CASE ApplyLate
  <2>1. PICK w \in inFlight : inFlight' = inFlight \ {w} /\ Applied(w) /\ UNCHANGED faults
    BY <1>3 DEF ApplyLate, Applied
  <2>. QED  BY <2>1
<1>4. CASE UNCHANGED storeVars
  BY <1>4 DEF storeVars
<1>. QED  BY <1>1, <1>2, <1>3, <1>4, StoreKinds DEF TaskWrites

(* What a request of each kind changes.                                    *)
LEMMA EffectOf ==
    ASSUME NEW w, Applied(w)
    PROVE  /\ w.op = "merge" =>
                 /\ \E R \in SUBSET w.rows : table' = Insert(R)
                 /\ UNCHANGED <<coverage, objects, clock>>
           /\ w.op = "cover" =>
                 /\ coverage' \in {coverage, InsertCoverage(w.row)}
                 /\ UNCHANGED <<table, objects, clock>>
           /\ w.op = "put" =>
                 /\ PutIfAbsent(w.key, w.body)
                 /\ UNCHANGED <<table, coverage>>
           /\ w.op \notin {"merge", "cover", "put"} =>
                 UNCHANGED <<table, coverage, objects, clock>>
<1> DEFINE New == {r \in w.rows : PayloadsStored(r.record.id) = {}}
<1>1. New \in SUBSET w.rows /\ Merge(w.rows) = Insert(New)
  BY DEF Merge
<1>. HIDE DEF New
<1>2. CASE Apply(w)
  BY <1>1, <1>2 DEF Apply, TableAfter, CoverageAfter, ApplyObjects, MergeCoverageRow
<1>3. CASE ~ Apply(w)
  BY <1>3 DEF Applied
<1>. QED  BY <1>2, <1>3

(* The values of a function on a finite set.                               *)
LEMMA ImageOfFinite ==
    ASSUME NEW S, IsFiniteSet(S), NEW f
    PROVE  /\ IsFiniteSet({f[x] : x \in S})
           /\ Cardinality({f[x] : x \in S}) \in Nat
           /\ Cardinality({f[x] : x \in S}) <= Cardinality(S)
<1> DEFINE T == {f[x] : x \in S}
           g == [x \in S |-> f[x]]
<1>1. g \in Surjection(S, T)
  BY DEF Surjection
<1>2. IsFiniteSet(T) /\ Cardinality(T) <= Cardinality(S)
  BY <1>1, FS_Surjection
<1>. QED  BY <1>2, FS_CardinalityType

(* A set of records of the chunk is at most as large as its lines are many.*)
LEMMA RecordsAndLines ==
    ASSUME IsFiniteSet(Chunk), NEW S \in SUBSET {Lines[i] : i \in Chunk}
    PROVE  /\ IsFiniteSet(S)
           /\ Cardinality(S) \in Nat /\ Occurrences(S) \in Nat
           /\ Cardinality(S) <= Occurrences(S)
<1> DEFINE I == {i \in Chunk : Lines[i] \in S}
<1>1. IsFiniteSet(I) /\ Cardinality(I) \in Nat
  BY FS_Subset, FS_CardinalityType
<1>2. S = {Lines[i] : i \in I}
  OBVIOUS
<1>3. Occurrences(S) = Cardinality(I)
  BY DEF Occurrences
<1>. HIDE DEF I
<1>. QED  BY <1>1, <1>2, <1>3, ImageOfFinite

-----------------------------------------------------------------------------
RequestTyped(w) == w \in Write /\ (w.op = "merge" => IsFiniteSet(w.rows))

StoreTyped ==
    /\ StoreTypeOK
    /\ IsFiniteSet(table) /\ IsFiniteSet(coverage)
    /\ \A w \in inFlight : RequestTyped(w)

LEMMA InsertTyped ==
    ASSUME table \subseteq Row, IsFiniteSet(table),
           NEW R \in SUBSET Row, IsFiniteSet(R)
    PROVE  Insert(R) \subseteq Row /\ IsFiniteSet(Insert(R))
<1> DEFINE Copies(r) == Cardinality({s \in table : s.record = r.record})
           New(r) == [record |-> r.record, bundle |-> r.bundle, time |-> r.time,
                      copy |-> Copies(r)]
           f == [r \in R |-> New(r)]
<1>1. Insert(R) = table \cup {New(r) : r \in R}
  BY Zenon DEF Insert
<1>2. ASSUME NEW r \in R PROVE New(r) \in Row
  <2>1. Copies(r) \in Nat
    BY FS_Subset, FS_CardinalityType
  <2>. HIDE DEF Copies
  <2>. QED  BY <2>1 DEF Row
<1>. HIDE DEF New
<1>3. {New(r) : r \in R} = {f[r] : r \in R}
  OBVIOUS
<1>. HIDE DEF f
<1>4. IsFiniteSet({New(r) : r \in R})
  BY <1>3, ImageOfFinite
<1>. QED  BY <1>1, <1>2, <1>4, FS_Union

LEMMA InsertCoverageTyped ==
    ASSUME coverage \subseteq CoverageRow, IsFiniteSet(coverage), NEW row \in CoverageRow
    PROVE  InsertCoverage(row) \subseteq CoverageRow /\ IsFiniteSet(InsertCoverage(row))
<1> DEFINE new == [bundle |-> row.bundle, reconciled |-> row.reconciled,
                   time |-> row.time, copy |-> Cardinality(CoverageOf(row.bundle))]
<1>1. Cardinality(CoverageOf(row.bundle)) \in Nat
  BY FS_Subset, FS_CardinalityType DEF CoverageOf
<1>2. new \in CoverageRow
  BY <1>1 DEF CoverageRow
<1>3. InsertCoverage(row) = coverage \cup {new}
  BY DEF InsertCoverage
<1>. HIDE DEF new
<1>. QED  BY <1>2, <1>3, FS_AddElement

(* A conditional PUT leaves an object at its key and takes none away.      *)
LEMMA PutTyped ==
    ASSUME objects \subseteq Object, clock \in Nat,
           NEW k \in Key, NEW body \in Body, PutIfAbsent(k, body)
    PROVE  objects' \subseteq Object /\ clock' \in Nat
BY DEF PutIfAbsent, Object

LEMMA AppliedTyped ==
    ASSUME StoreTyped, NEW w, RequestTyped(w), Applied(w)
    PROVE  /\ table' \subseteq Row /\ IsFiniteSet(table')
           /\ coverage' \subseteq CoverageRow /\ IsFiniteSet(coverage')
           /\ objects' \subseteq Object /\ clock' \in Nat
<1>. USE DEF StoreTyped, StoreTypeOK
<1>1. CASE w.op = "merge"
  <2>1. w.rows \in SUBSET Row /\ IsFiniteSet(w.rows)
    BY <1>1 DEF RequestTyped, Write
  <2>2. PICK R \in SUBSET w.rows : table' = Insert(R)
    BY <1>1, EffectOf
  <2>3. R \in SUBSET Row /\ IsFiniteSet(R)
    BY <2>1, <2>2, FS_Subset
  <2>4. table' \subseteq Row /\ IsFiniteSet(table')
    BY <2>2, <2>3, InsertTyped
  <2>. QED  BY <1>1, <2>4, EffectOf
<1>2. CASE w.op = "cover"
  <2>1. w.row \in CoverageRow
    BY <1>2 DEF RequestTyped, Write
  <2>. QED  BY <1>2, <2>1, EffectOf, InsertCoverageTyped
<1>3. CASE w.op = "put"
  <2>1. w.key \in Key /\ w.body \in Body
    BY <1>3 DEF RequestTyped, Write
  <2>. QED  BY <1>3, <2>1, EffectOf, PutTyped
<1>4. CASE w.op \notin {"merge", "cover", "put"}
  BY <1>4, EffectOf
<1>. QED  BY <1>1, <1>2, <1>3, <1>4

(* An object once in R2 stays there, and a PUT leaves one at its key.      *)
LEMMA ObjectsKept ==
    ASSUME [Next]_vars
    PROVE  objects \subseteq objects'
<1>1. ASSUME NEW w, Applied(w) PROVE objects \subseteq objects'
  BY <1>1, EffectOf DEF PutIfAbsent
<1>. QED  BY <1>1, StoreEffect

LEMMA PutLeavesObject ==
    ASSUME NEW k, NEW body, Perform(Put(k, body))
    PROVE  \E o \in objects' : o.key = k
<1>1. PutIfAbsent(k, body)
  BY DEF Perform, Apply, ApplyObjects, Put
<1>2. CASE ObjectAt(k) = {}
  <2>1. [key |-> k, body |-> body, time |-> clock + 1] \in objects'
    BY <1>1, <1>2 DEF PutIfAbsent
  <2>. QED  BY <2>1
<1>3. CASE ObjectAt(k) # {}
  BY <1>1, <1>3 DEF PutIfAbsent, ObjectAt
<1>. QED  BY <1>2, <1>3

ResultsTyped ==
    /\ Len(plan) <= MaxRuns
    /\ landed \subseteq Landed /\ loaded \subseteq Loaded
    /\ reconciled \subseteq Reconciled /\ covered \subseteq Runs
    /\ \A x \in landed : x.run \in 1..Len(plan)
    /\ \A x \in loaded : \E y \in landed : y.run = x.run
    /\ \A x \in reconciled : \E y \in loaded : y.run = x.run
    /\ clears \in 0..MaxClears

MemoryTyped ==
    /\ pc \in Pcs /\ raised \subseteq Errors
    /\ loadCount \in Nat \cup {Omitted} /\ loadIns \in Nat /\ loadReu \in Nat
    /\ pc = "put_evidence" => active # 0 /\ \E o \in objects : o.key = RawKey
    /\ Loading => ResultIn(landed) /\ ~ ResultIn(loaded)

TypeInv == ClaimTypes /\ StoreTyped /\ ResultsTyped /\ MemoryTyped

LEMMA ResultChosen ==
    ASSUME NEW X, ResultIn(X)
    PROVE  ResultOf(X) \in X /\ ResultOf(X).run = active
BY DEF ResultIn, ResultOf

LEMMA TimeTyped ==
    ASSUME objects \subseteq Object, NEW k, \E o \in objects : o.key = k
    PROVE  TimeOf(k) \in Nat
BY DEF TimeOf, Object

(* The results of the running task, as far as they exist.                  *)
LEMMA RunningTask ==
    ASSUME TypeInv, active # 0
    PROVE  /\ active \in Runs /\ Bundle \in Bundles
           /\ ResultIn(reconciled) => ResultIn(loaded)
           /\ ResultIn(loaded) => ResultIn(landed)
           /\ ResultIn(landed) => ResultOf(landed) \in Landed
           /\ ResultIn(loaded) => ResultOf(loaded) \in Loaded
           /\ ResultIn(reconciled) => ResultOf(reconciled) \in Reconciled
<1>1. active \in Runs /\ Bundle \in Bundles
  BY IngestionConstants DEF TypeInv, ClaimTypes, ResultsTyped, Runs, Bundle
<1>2. /\ ResultIn(reconciled) => ResultIn(loaded)
      /\ ResultIn(loaded) => ResultIn(landed)
  BY DEF TypeInv, ResultsTyped, ResultIn
<1>3. landed \subseteq Landed /\ loaded \subseteq Loaded /\ reconciled \subseteq Reconciled
  BY DEF TypeInv, ResultsTyped
<1>. QED  BY <1>1, <1>2, <1>3, ResultChosen

(* Every request of a task has the type of its kind.                       *)
LEMMA TaskWritesTyped ==
    ASSUME TypeInv, NEW w \in TaskWrites
    PROVE  RequestTyped(w)
<1>1. ASSUME NEW k \in Key, NEW body \in Body, w = Put(k, body)
      PROVE  RequestTyped(w)
  BY <1>1 DEF RequestTyped, Write, Put
<1>2. NoBody \in Body
  BY DEF NoBody, Body
<1>3. CASE w = Put(RawKey, NoBody) /\ active # 0
  <2>1. RawKey \in Key
    BY <1>3, RunningTask, IngestionConstants DEF RawKey, Key
  <2>. QED  BY <1>1, <1>2, <1>3, <2>1
<1>4. CASE pc = "put_evidence" /\ w = Put(EvidenceKey, Envelope)
  <2>1. active # 0 /\ \E o \in objects : o.key = RawKey
    BY <1>4 DEF TypeInv, MemoryTyped
  <2>2. TimeOf(RawKey) \in Nat
    BY <2>1, TimeTyped DEF TypeInv, StoreTyped, StoreTypeOK
  <2>3. EvidenceKey \in Key
    BY <2>1, RunningTask DEF EvidenceKey, Key
  <2>4. Envelope \in Body
    BY <2>2 DEF Envelope, NoBody, Body
  <2>. QED  BY <1>1, <1>4, <2>3, <2>4
<1>5. CASE pc = "merge" /\ w = [op |-> "merge", rows |-> RowsOf(loadNew)]
  <2>1. /\ active # 0 /\ loadDone <= Len(Lines) /\ ResultIn(landed)
        /\ loadNew \subseteq {Lines[i] : i \in Chunk}
    BY <1>5 DEF TypeInv, ClaimTypes, MemoryTyped, Loading
  <2>2. /\ IsFiniteSet(Chunk) /\ Lines \in Seq(Record)
        /\ Chunk \subseteq 1..Len(Lines) /\ Bundle \in Bundles
    BY <2>1, ChunkFacts DEF TypeInv
  <2>3. loadNew \subseteq Record /\ IsFiniteSet(loadNew)
    BY <2>1, <2>2, RecordsAndLines
  <2>4. ResultOf(landed).raw \in Nat
    BY <2>1, RunningTask DEF Landed
  <2> DEFINE RowOf(c) == [record |-> c, bundle |-> Bundle,
                          time |-> ResultOf(landed).raw, copy |-> 0]
             f == [c \in loadNew |-> RowOf(c)]
  <2>5. RowsOf(loadNew) = {RowOf(c) : c \in loadNew}
    BY DEF RowsOf
  <2>6. \A c \in loadNew : RowOf(c) \in Row
    BY <2>2, <2>3, <2>4 DEF Row
  <2> HIDE DEF RowOf
  <2>7. RowsOf(loadNew) = {f[c] : c \in loadNew}
    BY <2>5
  <2> HIDE DEF f
  <2>8. IsFiniteSet(RowsOf(loadNew))
    BY <2>3, <2>7, ImageOfFinite
  <2>9. RowsOf(loadNew) \subseteq Row
    BY <2>5, <2>6
  <2>. QED  BY <1>5, <2>8, <2>9 DEF RequestTyped, Write
<1>6. CASE ReadyToReconcile /\ w = Put(SummaryKey, SummaryBody)
  <2>1. active # 0 /\ ResultIn(loaded)
    BY <1>6 DEF ReadyToReconcile
  <2>2. SummaryKey \in Key
    BY <2>1, RunningTask DEF SummaryKey, Key
  <2>3. SummaryBody \in Body
    BY <2>1, RunningTask DEF SummaryBody, Body, Loaded
  <2>. QED  BY <1>1, <1>6, <2>2, <2>3
<1>7. CASE pc = "cover_merge" /\ w = [op |-> "cover", row |-> StableRow]
  <2>1. ResultIn(reconciled) /\ active # 0
    BY <1>7 DEF TypeInv, ClaimTypes, ResultIn
  <2>2. StableRow \in CoverageRow
    BY <2>1, RunningTask DEF StableRow, CoverageRow, Reconciled, Landed
  <2>. QED  BY <1>7, <2>2 DEF RequestTyped, Write
<1>8. \/ w = Put(RawKey, NoBody) /\ active # 0
      \/ pc = "put_evidence" /\ w = Put(EvidenceKey, Envelope)
      \/ pc = "merge" /\ w = [op |-> "merge", rows |-> RowsOf(loadNew)]
      \/ ReadyToReconcile /\ w = Put(SummaryKey, SummaryBody)
      \/ pc = "cover_merge" /\ w = [op |-> "cover", row |-> StableRow]
  BY DEF TaskWrites, LoadWrites, CoverageWrites
<1>. QED  BY <1>3, <1>4, <1>5, <1>6, <1>7, <1>8

(* Every step keeps the types of the store.                                *)
LEMMA StoreTypedStep ==
    ASSUME TypeInv, [Next]_vars
    PROVE  StoreTyped'
<1>1. \A w \in inFlight \cup TaskWrites : RequestTyped(w)
  BY TaskWritesTyped DEF TypeInv, StoreTyped
<1>2. StoreTyped /\ faults \in 0..MaxFaults /\ MaxFaults \in Nat
  BY IngestionConstants DEF TypeInv, StoreTyped, StoreTypeOK
<1>3. /\ table' \subseteq Row /\ IsFiniteSet(table')
      /\ coverage' \subseteq CoverageRow /\ IsFiniteSet(coverage')
      /\ objects' \subseteq Object /\ clock' \in Nat
  <2>1. CASE UNCHANGED <<table, coverage, objects, clock>>
    BY <1>2, <2>1 DEF StoreTyped, StoreTypeOK
  <2>2. CASE \E w \in inFlight \cup TaskWrites : Applied(w)
    <3>1. PICK w \in inFlight \cup TaskWrites : Applied(w)
      BY <2>2
    <3>2. RequestTyped(w)
      BY <1>1
    <3>. QED  BY <1>2, <3>1, <3>2, AppliedTyped
  <2>. QED  BY <2>1, <2>2, StoreEffect
<1>4. \A w \in inFlight' : RequestTyped(w)
  BY <1>1, StoreEffect
<1>5. inFlight' \subseteq Write /\ faults' \in 0..MaxFaults
  BY <1>2, <1>4, StoreEffect DEF RequestTyped
<1>6. \A w : RequestTyped(w)' <=> RequestTyped(w)
  BY DEF RequestTyped
<1>. QED  BY <1>3, <1>4, <1>5, <1>6 DEF StoreTyped, StoreTypeOK

-----------------------------------------------------------------------------
(* How each step moves the running task on.                                *)
Waits == UNCHANGED <<loadVars, coverVars, clears>>

LEMMA PhaseOfNext ==
    ASSUME [Next]_vars
    PROVE  /\ pc' = "put_evidence" => PutRaw \/ Waits
           /\ pc' = "check" => StartLoad \/ CheckChunk \/ ConfirmChunk \/ Waits
           /\ pc' = "merge" => CheckChunk \/ Waits
           /\ pc' = "confirm" => MergeChunk \/ Waits
           /\ pc' = "cover_merge" => LookUpCoverage \/ Waits
           /\ pc' = "cover_confirm" => MergeCoverage \/ Waits
           /\ pc' # "idle" => UNCHANGED <<planVars, landed, loaded, reconciled>>
<1>1. PutRaw => pc' = "put_evidence" /\ UNCHANGED <<planVars, landed, loaded>>
  BY DEF PutRaw
<1>2. PutEvidence \/ RefuseChunk \/ FinishLoad => pc' = "idle"
  BY DEF PutEvidence, RefuseChunk, FinishLoad, Raise
<1>3. StartLoad => pc' = "check" /\ UNCHANGED <<planVars, landed, loaded>>
  BY DEF StartLoad
<1>4. CheckChunk => pc' \in {"check", "merge"} /\ UNCHANGED <<planVars, landed, loaded>>
  BY DEF CheckChunk
<1>5. MergeChunk => pc' = "confirm" /\ UNCHANGED <<planVars, landed, loaded>>
  BY DEF MergeChunk
<1>6. ConfirmChunk => pc' = "check" /\ UNCHANGED <<planVars, landed, loaded>>
  BY DEF ConfirmChunk
<1>7. Reconcile \/ RefuseReconciliation => pc' = "idle"
  BY DEF Reconcile, RefuseReconciliation, ReadyToReconcile, Raise
<1>8. LookUpCoverage => /\ pc' \in {"idle", "cover_merge"}
                        /\ UNCHANGED <<planVars, landed, loaded, reconciled>>
  BY DEF LookUpCoverage, AcceptCoverage, RefuseCoverage, Raise
<1>9. MergeCoverage => /\ pc' = "cover_confirm"
                       /\ UNCHANGED <<planVars, landed, loaded, reconciled>>
  BY DEF MergeCoverage, coverVars
<1>10. ConfirmCoverage => pc' = "idle"
  BY DEF ConfirmCoverage, AcceptCoverage, RefuseCoverage, Raise
<1>11. TaskFails \/ (\E b \in Bundles : Trigger(b)) \/ (\E d \in 1..Len(plan) : Clear(d))
         => pc' = "idle"
  BY DEF TaskFails, Trigger, Clear
<1>12. UNCHANGED vars => Waits
  BY DEF vars, Waits
<1>13. Waits => UNCHANGED <<planVars, landed, loaded, reconciled>>
  BY DEF Waits, loadVars, coverVars
<1>14. UNCHANGED coverVars => UNCHANGED reconciled
  BY DEF coverVars
<1>. QED
  BY <1>1, <1>2, <1>3, <1>4, <1>5, <1>6, <1>7, <1>8, <1>9, <1>10, <1>11, <1>12, <1>13, <1>14
  DEF Next, Tasks, LoadNext, CoverageNext, Waits

(* How each step extends the plan and the results of the tasks.  Clearing  *)
(* a task clears those that depend on it.                                  *)
LEMMA ResultsFrame ==
    ASSUME [Next]_vars
    PROVE  /\ plan' = plan \/ \E b \in Bundles : Trigger(b)
           /\ landed' \subseteq landed \/ PutEvidence
           /\ loaded' \subseteq loaded \/ FinishLoad
           /\ reconciled' \subseteq reconciled \/ Reconcile
           /\ covered' \subseteq covered
                \/ (covered' = covered \cup {active} /\ (ReadyToCover \/ pc = "cover_confirm"))
           /\ \A x \in loaded \cap loaded', y \in landed : y.run = x.run => y \in landed'
           /\ \A x \in reconciled \cap reconciled', y \in loaded : y.run = x.run => y \in loaded'
           /\ clears' = clears \/ (clears < MaxClears /\ clears' = clears + 1)
<1>1. CASE /\ UNCHANGED <<plan, landed, loaded, reconciled, clears>>
           /\ \/ covered' = covered
              \/ covered' = covered \cup {active} /\ (ReadyToCover \/ pc = "cover_confirm")
  BY <1>1
<1>2. CASE PutEvidence /\ UNCHANGED <<coverVars, clears>>
  <2>1. UNCHANGED <<plan, loaded, reconciled, covered, clears>> /\ landed \subseteq landed'
    BY <1>2 DEF PutEvidence, planVars, coverVars
  <2>. QED  BY <1>2, <2>1
<1>3. CASE FinishLoad /\ UNCHANGED <<coverVars, clears>>
  <2>1. UNCHANGED <<plan, landed, reconciled, covered, clears>> /\ loaded \subseteq loaded'
    BY <1>3 DEF FinishLoad, planVars, coverVars
  <2>. QED  BY <1>3, <2>1
<1>4. CASE Reconcile /\ UNCHANGED clears
  BY <1>4 DEF Reconcile, planVars
<1>5. CASE \E b \in Bundles : Trigger(b)
  BY <1>5 DEF Trigger, coverVars
<1>6. ASSUME NEW d \in 1..Len(plan), Clear(d)
      PROVE  /\ plan' = plan
             /\ landed' \subseteq landed /\ loaded' \subseteq loaded
             /\ reconciled' \subseteq reconciled /\ covered' \subseteq covered
             /\ \A x \in loaded', y \in landed : y.run = x.run => y \in landed'
             /\ \A x \in reconciled', y \in loaded : y.run = x.run => y \in loaded'
             /\ clears < MaxClears /\ clears' = clears + 1
  BY <1>6 DEF Clear, Without
<1>7. CASE \E d \in 1..Len(plan) : Clear(d)
  BY <1>6, <1>7
<1>8. \/ (LoadNext /\ ~ PutEvidence /\ ~ FinishLoad /\ UNCHANGED <<coverVars, clears>>)
      \/ (CoverageNext /\ ~ Reconcile /\ UNCHANGED clears)
      \/ (TaskFails /\ UNCHANGED clears)
      \/ (ApplyLate /\ UNCHANGED <<loadVars, coverVars, clears>>) \/ UNCHANGED vars
      => /\ UNCHANGED <<plan, landed, loaded, reconciled, clears>>
         /\ \/ covered' = covered
            \/ covered' = covered \cup {active} /\ (ReadyToCover \/ pc = "cover_confirm")
  BY DEF LoadNext, PutRaw, StartLoad, CheckChunk, MergeChunk, ConfirmChunk, RefuseChunk,
         CoverageNext, RefuseReconciliation, LookUpCoverage, MergeCoverage, ConfirmCoverage,
         AcceptCoverage, RefuseCoverage, TaskFails, vars, loadVars, coverVars, planVars
<1>. QED  BY <1>1, <1>2, <1>3, <1>4, <1>5, <1>7, <1>8 DEF Next, Tasks

(* The bundle of a run stays what it was.                                  *)
LEMMA PlanKept ==
    ASSUME ClaimTypes, [Next]_vars, NEW d \in 1..Len(plan)
    PROVE  d \in 1..Len(plan') /\ plan'[d] = plan[d]
<1>1. plan \in Seq(Bundles) /\ Len(plan) \in Nat
  BY DEF ClaimTypes
<1>2. ASSUME NEW b \in Bundles, Trigger(b)
      PROVE  d \in 1..Len(plan') /\ plan'[d] = plan[d]
  BY <1>1, <1>2 DEF Trigger
<1>. QED  BY <1>2, ResultsFrame

LEMMA PlanBounded ==
    ASSUME ClaimTypes, Len(plan) <= MaxRuns, [Next]_vars
    PROVE  Len(plan') <= MaxRuns
<1>1. plan \in Seq(Bundles) /\ Len(plan) \in Nat /\ MaxRuns \in Nat
  BY IngestionConstants DEF ClaimTypes
<1>2. ASSUME NEW b \in Bundles, Trigger(b)
      PROVE  Len(plan') <= MaxRuns
  BY <1>1, <1>2 DEF Trigger
<1>. QED  BY <1>2, ResultsFrame

(* Every step keeps the types of the results, and their order.             *)
LEMMA ResultsTypedStep ==
    ASSUME TypeInv, [Next]_vars
    PROVE  ResultsTyped'
<1>. USE DEF ResultsTyped
<1>1. /\ ClaimTypes /\ ClaimTypes' /\ StoreTyped /\ StoreTyped'
      /\ ResultsTyped /\ MemoryTyped
  BY TypesOfNext, StoreTypedStep DEF TypeInv
<1>2. Len(plan') <= MaxRuns /\ Len(plan) <= Len(plan')
  <2>1. Len(plan) \in Nat /\ Len(plan') \in Nat
    BY <1>1 DEF ClaimTypes
  <2>2. Len(plan) <= Len(plan')
    <3>1. CASE Len(plan) = 0
      BY <2>1, <3>1
    <3>2. CASE Len(plan) # 0
      <4>1. Len(plan) \in 1..Len(plan)
        BY <2>1, <3>2
      <4>. QED  BY <1>1, <2>1, <4>1, PlanKept
    <3>. QED  BY <3>1, <3>2
  <2>. QED  BY <1>1, <2>2, PlanBounded
<1>3. PutEvidence =>
        /\ \A x \in landed' : x \in landed \/ (x \in Landed /\ x.run = active)
        /\ active # 0
  <2> SUFFICES ASSUME PutEvidence
               PROVE  /\ \A x \in landed' : x \in landed \/ (x \in Landed /\ x.run = active)
                      /\ active # 0
    OBVIOUS
  <2>1. active # 0 /\ \E o \in objects : o.key = RawKey
    BY <1>1 DEF PutEvidence, MemoryTyped
  <2>2. \E o \in objects' : o.key = EvidenceKey
    BY PutLeavesObject DEF PutEvidence
  <2>3. TimeOf(RawKey) \in Nat
    BY <1>1, <2>1, TimeTyped DEF StoreTyped, StoreTypeOK
  <2>4. (CHOOSE o \in objects' : o.key = EvidenceKey).time \in Nat
    BY <1>1, <2>2 DEF StoreTyped, StoreTypeOK, Object
  <2>5. active \in Runs
    BY <2>1, RunningTask
  <2> DEFINE time == (CHOOSE o \in objects' : o.key = EvidenceKey).time
             new == [run |-> active, raw |-> TimeOf(RawKey), evidence |-> time]
  <2>6. new \in Landed /\ new.run = active
    <3> HIDE DEF time
    <3>. QED  BY <2>3, <2>4, <2>5 DEF Landed, time
  <2>7. landed' = landed \/ landed' = landed \cup {new}
    BY DEF PutEvidence
  <2>. HIDE DEF new
  <2>. QED  BY <2>1, <2>6, <2>7
<1>4. FinishLoad =>
        /\ \A x \in loaded' : x \in loaded \/ (x \in Loaded /\ x.run = active)
        /\ active # 0 /\ ResultIn(landed) /\ UNCHANGED landed
  <2> SUFFICES ASSUME FinishLoad
               PROVE  /\ \A x \in loaded' : x \in loaded \/ (x \in Loaded /\ x.run = active)
                      /\ active # 0 /\ ResultIn(landed) /\ UNCHANGED landed
    OBVIOUS
  <2>1. active # 0 /\ ResultIn(landed) /\ loadCon \in Nat
    BY <1>1 DEF FinishLoad, ClaimTypes, MemoryTyped, Loading
  <2>2. active \in Runs
    BY <2>1, RunningTask
  <2>. QED  BY <1>1, <2>1, <2>2 DEF FinishLoad, Loaded, MemoryTyped
<1>5. Reconcile =>
        /\ \A x \in reconciled' : x \in reconciled \/ (x \in Reconciled /\ x.run = active)
        /\ ResultIn(loaded) /\ UNCHANGED loaded
  <2> SUFFICES ASSUME Reconcile
               PROVE  /\ \A x \in reconciled' :
                            x \in reconciled \/ (x \in Reconciled /\ x.run = active)
                      /\ ResultIn(loaded) /\ UNCHANGED loaded
    OBVIOUS
  <2>1. active # 0 /\ ResultIn(loaded)
    BY DEF Reconcile, ReadyToReconcile
  <2>2. active \in Runs /\ ResultOf(loaded) \in Loaded
    BY <2>1, RunningTask
  <2>. QED  BY <2>1, <2>2 DEF Reconcile, Loaded, Reconciled
<1>6. active # 0 => active \in Runs
  BY RunningTask
<1>7. landed' \subseteq Landed /\ \A x \in landed' : x.run \in 1..Len(plan')
  <2>1. active # 0 => active \in 1..Len(plan)
    BY <1>1 DEF ClaimTypes
  <2>2. \A x \in landed' : x \in landed \/ (x \in Landed /\ x.run \in 1..Len(plan))
    BY <1>3, <2>1, ResultsFrame
  <2>. QED  BY <1>1, <2>2, PlanKept
<1>8. loaded' \subseteq Loaded /\ \A x \in loaded' : \E y \in landed' : y.run = x.run
  <2>1. \A x \in loaded' : x \in loaded
          \/ (x \in Loaded /\ \E y \in landed' : y.run = x.run)
    BY <1>4, ResultsFrame DEF ResultIn
  <2>2. \A x \in loaded \cap loaded' : \E y \in landed' : y.run = x.run
    BY <1>1, ResultsFrame
  <2>. QED  BY <1>1, <2>1, <2>2
<1>9. reconciled' \subseteq Reconciled /\ \A x \in reconciled' : \E y \in loaded' : y.run = x.run
  <2>1. \A x \in reconciled' : x \in reconciled
          \/ (x \in Reconciled /\ \E y \in loaded' : y.run = x.run)
    BY <1>5, ResultsFrame DEF ResultIn
  <2>2. \A x \in reconciled \cap reconciled' : \E y \in loaded' : y.run = x.run
    BY <1>1, ResultsFrame
  <2>. QED  BY <1>1, <2>1, <2>2
<1>10. covered' \subseteq Runs
  <2>1. ReadyToCover \/ pc = "cover_confirm" => active # 0
    BY <1>1 DEF ReadyToCover, ClaimTypes, ResultIn
  <2>. QED  BY <1>1, <1>6, <2>1, ResultsFrame
<1>11. clears' \in 0..MaxClears
  BY <1>1, SystemConstants, ResultsFrame
<1>. QED  BY <1>2, <1>7, <1>8, <1>9, <1>10, <1>11

(* The second read never counts more rows than the lines it found stored.  *)
LEMMA ConfirmedRows ==
    ASSUME TypeInv, ConfirmChunk
    PROVE  /\ InsertedRows(Confirmed(loadNew)) \in Nat
           /\ Occurrences(Confirmed(loadNew)) \in Nat
           /\ InsertedRows(Confirmed(loadNew)) <= Occurrences(Confirmed(loadNew))
<1> DEFINE exact == Confirmed(loadNew)
<1>1. /\ pc = "confirm" /\ active # 0 /\ loadDone <= Len(Lines)
      /\ loadNew \subseteq {Lines[i] : i \in Chunk}
      /\ loadCount \in Nat \cup {Omitted}
  BY DEF ConfirmChunk, TypeInv, ClaimTypes, MemoryTyped, Loading
<1>2. IsFiniteSet(Chunk)
  BY <1>1, ChunkFacts DEF TypeInv
<1>3. exact \subseteq {Lines[i] : i \in Chunk}
  BY <1>1 DEF Confirmed, Replays
<1>4. /\ Cardinality(exact) \in Nat /\ Occurrences(exact) \in Nat
      /\ Cardinality(exact) <= Occurrences(exact)
  BY <1>2, <1>3, RecordsAndLines
<1>5. ~ (loadCount > Cardinality(exact))
  BY <1>1 DEF ConfirmChunk, Refusal, Confirmed
<1>. HIDE DEF exact
<1>6. InsertedRows(exact) \in Nat /\ InsertedRows(exact) <= Cardinality(exact)
  BY <1>1, <1>4, <1>5 DEF InsertedRows, Omitted
<1>7. InsertedRows(exact) <= Occurrences(exact)
  BY <1>4, <1>6
<1>. QED  BY <1>4, <1>6, <1>7 DEF exact

(* Only the steps of a chunk count.                                        *)
LEMMA CountersFrame ==
    ASSUME [Next]_vars
    PROVE  \/ UNCHANGED loadLocal
           \/ ForgetProgress
           \/ CheckChunk \/ MergeChunk \/ ConfirmChunk
BY DEF Next, Tasks, LoadNext, CoverageNext, PutRaw, PutEvidence, StartLoad, RefuseChunk,
       FinishLoad, Reconcile, RefuseReconciliation, LookUpCoverage, MergeCoverage,
       ConfirmCoverage, TaskFails, Trigger, Clear, vars, loadVars

(* Every error is one of those the tasks raise.                            *)
LEMMA ErrorsOfNext ==
    ASSUME [Next]_vars, pc \in Pcs
    PROVE  pc' \in Pcs /\ raised' \subseteq raised \cup Errors
<1>1. Refusal \subseteq Errors
  BY DEF Refusal, Errors
<1>2. PutRaw \/ PutEvidence \/ StartLoad \/ CheckChunk \/ MergeChunk \/ ConfirmChunk
        => pc' \in Pcs /\ raised' \subseteq raised \cup Errors
  BY DEF PutRaw, PutEvidence, StartLoad, CheckChunk, MergeChunk, ConfirmChunk, Raise, Pcs, Errors
<1>3. RefuseChunk \/ FinishLoad => pc' \in Pcs /\ raised' \subseteq raised \cup Errors
  BY <1>1 DEF RefuseChunk, FinishLoad, Raise, Pcs
<1>4. CoverageNext => pc' \in Pcs /\ raised' \subseteq raised \cup Errors
  BY DEF CoverageNext, Reconcile, RefuseReconciliation, LookUpCoverage, MergeCoverage,
         ConfirmCoverage, AcceptCoverage, RefuseCoverage, Raise, Pcs, Errors
<1>5. TaskFails \/ (\E b \in Bundles : Trigger(b)) \/ (\E d \in 1..Len(plan) : Clear(d))
        \/ UNCHANGED loadVars
      => pc' \in Pcs /\ raised' \subseteq raised \cup Errors
  BY DEF TaskFails, Trigger, Clear, loadVars, Pcs
<1>. QED  BY <1>2, <1>3, <1>4, <1>5 DEF Next, Tasks, LoadNext, vars

LEMMA CountersTyped ==
    ASSUME TypeInv, [Next]_vars
    PROVE  loadCount' \in Nat \cup {Omitted} /\ loadIns' \in Nat /\ loadReu' \in Nat
<1>1. loadCount \in Nat \cup {Omitted} /\ loadIns \in Nat /\ loadReu \in Nat
  BY DEF TypeInv, MemoryTyped
<1>2. CASE UNCHANGED loadLocal
  BY <1>1, <1>2 DEF loadLocal
<1>3. CASE ForgetProgress
  BY <1>3 DEF ForgetProgress
<1>4. CASE CheckChunk
  <2>1. active # 0 /\ loadDone <= Len(Lines)
    BY <1>4 DEF CheckChunk, TypeInv, ClaimTypes, Loading
  <2>2. Occurrences(Replays(Candidates)) \in Nat
    BY <2>1, ChunkFacts, NoOccurrence DEF TypeInv
  <2>. QED  BY <1>1, <1>4, <2>2 DEF CheckChunk
<1>5. CASE MergeChunk
  <2>1. IsFiniteSet(table' \ table)
    BY StoreTypedStep, FS_Subset DEF StoreTyped
  <2>2. Cardinality(table' \ table) \in Nat
    BY <2>1, FS_CardinalityType
  <2>. QED  BY <1>1, <1>5, <2>2 DEF MergeChunk
<1>6. CASE ConfirmChunk
  <2>1. loadCount' = 0
        /\ loadIns' = loadIns + InsertedRows(Confirmed(loadNew))
        /\ loadReu' = loadReu + Occurrences(Confirmed(loadNew))
                              - InsertedRows(Confirmed(loadNew))
    BY <1>6 DEF ConfirmChunk
  <2>. QED  BY <1>1, <1>6, <2>1, ConfirmedRows
<1>. QED  BY <1>2, <1>3, <1>4, <1>5, <1>6, CountersFrame

LEMMA MemoryTypedStep ==
    ASSUME TypeInv, [Next]_vars
    PROVE  MemoryTyped'
<1>1. MemoryTyped /\ ClaimTypes
  BY DEF TypeInv
<1>2. pc' \in Pcs /\ raised' \subseteq Errors
  BY <1>1, ErrorsOfNext DEF MemoryTyped
<1>3. pc' = "put_evidence" => active' # 0 /\ \E o \in objects' : o.key = RawKey'
  <2>1. CASE PutRaw
    <3>1. \E o \in objects' : o.key = RawKey
      BY <2>1, PutLeavesObject DEF PutRaw
    <3>2. active' = active /\ active # 0 /\ RawKey' = RawKey
      BY <2>1, SameLines DEF PutRaw, RawKey, planVars
    <3>. QED  BY <3>1, <3>2
  <2>2. CASE Waits /\ pc' = "put_evidence"
    <3>1. pc = "put_evidence" /\ active' = active /\ RawKey' = RawKey
      BY <2>2, SameLines DEF Waits, loadVars, planVars, RawKey
    <3>2. objects \subseteq objects'
      BY ObjectsKept
    <3>. QED  BY <1>1, <3>1, <3>2 DEF MemoryTyped
  <2>. QED  BY <2>1, <2>2, PhaseOfNext
<1>4. Loading' => (ResultIn(landed) /\ ~ ResultIn(loaded))'
  <2> SUFFICES ASSUME Loading' PROVE (ResultIn(landed) /\ ~ ResultIn(loaded))'
    OBVIOUS
  <2>1. ResultIn(landed) /\ ~ ResultIn(loaded)
    <3>1. StartLoad \/ CheckChunk \/ ConfirmChunk \/ MergeChunk \/ (Waits /\ Loading)
      <4>1. Waits => Loading
        BY DEF Waits, loadVars, Loading
      <4>. QED  BY <4>1, PhaseOfNext DEF Loading
    <3>. QED  BY <1>1, <3>1 DEF StartLoad, CheckChunk, ConfirmChunk, MergeChunk,
              MemoryTyped, Loading
  <2>2. UNCHANGED <<planVars, landed, loaded>>
    BY PhaseOfNext DEF Loading
  <2>. QED  BY <2>1, <2>2 DEF ResultIn, planVars
<1>. QED  BY <1>2, <1>3, <1>4, CountersTyped DEF MemoryTyped

LEMMA TypeInvInit == Init => TypeInv
<1> SUFFICES ASSUME Init PROVE TypeInv
  OBVIOUS
<1>. USE DEF Init, StoreInit, LoadInit, CoverageInit, NoProgress
<1>1. StoreTyped
  BY FS_EmptySet, IngestionConstants DEF StoreTyped, StoreTypeOK
<1>2. ResultsTyped
  BY IngestionConstants, SystemConstants DEF ResultsTyped
<1>3. MemoryTyped
  BY DEF MemoryTyped, Loading, Pcs
<1>. QED  BY <1>1, <1>2, <1>3, CoverInvInit DEF TypeInv, CoverInv

LEMMA TypeInvStep == TypeInv /\ [Next]_vars => TypeInv'
BY TypesOfNext, StoreTypedStep, ResultsTypedStep, MemoryTypedStep DEF TypeInv

LEMMA TypeInvTypes == TypeInv => TypeOK
<1> SUFFICES ASSUME TypeInv PROVE TypeOK
  OBVIOUS
<1>1. loadNew \subseteq Record
  <2>1. CASE pc \in {"merge", "confirm"}
    <3>1. active # 0 /\ loadDone <= Len(Lines) /\ loadNew \subseteq {Lines[i] : i \in Chunk}
      BY <2>1 DEF TypeInv, ClaimTypes, Loading
    <3>2. Lines \in Seq(Record) /\ Chunk \subseteq 1..Len(Lines)
      BY <3>1, ChunkFacts DEF TypeInv
    <3>. QED  BY <3>1, <3>2
  <2>2. CASE pc \notin {"merge", "confirm"}
    BY <2>2 DEF TypeInv, ClaimTypes
  <2>. QED  BY <2>1, <2>2
<1>2. StoreTypeOK
  BY DEF TypeInv, StoreTyped
<1>3. LoadTypeOK
  BY <1>1 DEF TypeInv, ClaimTypes, ResultsTyped, MemoryTyped, LoadTypeOK, Omitted
<1>4. CoverageTypeOK /\ clears \in 0..MaxClears
  BY DEF TypeInv, ResultsTyped, CoverageTypeOK
<1>. QED  BY <1>2, <1>3, <1>4 DEF TypeOK

(* The inductive form of the types: a finished task has the results it     *)
(* depends on, and a request of a task is one that its kind allows.        *)
THEOREM IngestionTypesInductive == Spec => []TypeInv
BY TypeInvInit, TypeInvStep, PTL DEF Spec

(* Whatever fails, is retried, comes late or is cleared, the tables, the   *)
(* objects, the task memory and the results keep their types: no counter   *)
(* of load_records goes below zero, every request of a task names the      *)
(* result it quotes, and a finished task has the results it depends on.    *)
THEOREM IngestionTypes == Spec => []TypeOK
BY IngestionTypesInductive, TypeInvTypes, PTL

-----------------------------------------------------------------------------
(* Every accepted line is counted once.                                    *)

Counted == loadIns + loadReu + loadCon

CountsInv ==
    /\ \A x, y \in loaded : x.run = y.run => x = y
    /\ \A x \in loaded :
          x.inserted + x.reused + x.conflicts = Len(Accepted(plan[x.run]))
    /\ pc = "check" => Counted = loadDone
    /\ pc \in {"merge", "confirm"} => Counted + Occurrences(loadNew) = ChunkEnd

LEMMA DisjointParts ==
    ASSUME NEW S, IsFiniteSet(S), NEW A, NEW B, A \cup B = S, A \cap B = {}
    PROVE  /\ Cardinality(A) \in Nat /\ Cardinality(B) \in Nat
           /\ Cardinality(S) = Cardinality(A) + Cardinality(B)
<1>1. IsFiniteSet(A) /\ IsFiniteSet(B)
  BY FS_Subset
<1>2. Cardinality(A) \in Nat /\ Cardinality(B) \in Nat
  BY <1>1, FS_CardinalityType
<1>3. Cardinality(A \cap B) = 0
  BY FS_EmptySet
<1>4. Cardinality(A \cup B) = Cardinality(A) + Cardinality(B) - Cardinality(A \cap B)
  BY <1>1, FS_Union
<1>5. Cardinality(A \cup B) = Cardinality(S)
  BY Zenon
<1>. QED  BY <1>2, <1>3, <1>4, <1>5

(* Lines of different records are different lines.                         *)
LEMMA OccurrencesAdd ==
    ASSUME IsFiniteSet(Chunk), NEW S, NEW T, S \cap T = {}
    PROVE  Occurrences(S \cup T) = Occurrences(S) + Occurrences(T)
<1> DEFINE A == {i \in Chunk : Lines[i] \in S}
           B == {i \in Chunk : Lines[i] \in T}
           C == {i \in Chunk : Lines[i] \in S \cup T}
<1>1. A \cup B = C /\ A \cap B = {}
  OBVIOUS
<1>2. IsFiniteSet(C)
  BY FS_Subset
<1>3. /\ Occurrences(S) = Cardinality(A) /\ Occurrences(T) = Cardinality(B)
      /\ Occurrences(S \cup T) = Cardinality(C)
  BY Zenon DEF Occurrences
<1>. HIDE DEF A, B, C
<1>4. Cardinality(C) = Cardinality(A) + Cardinality(B)
  BY <1>1, <1>2, DisjointParts
<1>. QED  BY <1>3, <1>4

(* A line of the chunk is contradicted, or it is a candidate.              *)
LEMMA ContradictedApart ==
    \A i \in Chunk : Lines[i] \in Candidates <=> i \notin Contradicted
<1>1. ASSUME NEW i \in Contradicted, NEW j \in Chunk, Lines[i] = Lines[j]
      PROVE  j \in Contradicted
  BY <1>1 DEF Contradicted
<1>. QED  BY <1>1 DEF Candidates

(* CheckChunk sorts the lines of its chunk into four kinds.                *)
LEMMA ChunkSorted ==
    ASSUME ClaimTypes, active # 0, loadDone <= Len(Lines)
    PROVE  /\ Cardinality(Contradicted) \in Nat
           /\ Occurrences(NewRecords) \in Nat
           /\ Occurrences(Replays(Candidates)) \in Nat
           /\ Occurrences(Conflicts(Candidates)) \in Nat
           /\ Cardinality(Contradicted) + Occurrences(NewRecords)
                + Occurrences(Replays(Candidates)) + Occurrences(Conflicts(Candidates))
              = ChunkEnd - loadDone
<1>1. /\ IsFiniteSet(Chunk) /\ ChunkEnd \in Nat /\ loadDone \in Nat
      /\ loadDone <= ChunkEnd
  BY ChunkFacts DEF ClaimTypes
<1>2. Cardinality(Chunk) = ChunkEnd - loadDone
  <2>1. loadDone + 1 \in Int /\ ChunkEnd \in Int
    BY <1>1
  <2>2. Cardinality(Chunk) = IF loadDone + 1 > ChunkEnd THEN 0 ELSE ChunkEnd - (loadDone + 1) + 1
    BY <2>1, FS_Interval DEF Chunk
  <2>. QED  BY <1>1, <2>2
<1>3. \A S : Occurrences(S) \in Nat
  BY <1>1, NoOccurrence
<1>4. Cardinality(Chunk) = Cardinality(Contradicted) + Occurrences(Candidates)
      /\ Cardinality(Contradicted) \in Nat
  <2> DEFINE I == {i \in Chunk : Lines[i] \in Candidates}
  <2>1. Contradicted \cup I = Chunk /\ Contradicted \cap I = {}
    <3>1. Contradicted \subseteq Chunk
      BY DEF Contradicted
    <3>. QED  BY <3>1, ContradictedApart
  <2>2. Occurrences(Candidates) = Cardinality(I)
    BY DEF Occurrences
  <2>. HIDE DEF I
  <2>. QED  BY <1>1, <2>1, <2>2, DisjointParts
<1> DEFINE Old == Replays(Candidates) \cup Conflicts(Candidates)
<1>5. Candidates = NewRecords \cup Old /\ NewRecords \cap Old = {}
  BY DEF NewRecords, Conflicts, Replays
<1>6. Replays(Candidates) \cap Conflicts(Candidates) = {}
  BY DEF Conflicts
<1>7. Occurrences(Old) = Occurrences(Replays(Candidates)) + Occurrences(Conflicts(Candidates))
  BY <1>1, <1>6, OccurrencesAdd
<1>. HIDE DEF Old
<1>8. Occurrences(Candidates) = Occurrences(NewRecords) + Occurrences(Old)
  BY <1>1, <1>5, OccurrencesAdd
<1>. QED  BY <1>1, <1>2, <1>3, <1>4, <1>7, <1>8

LEMMA SameOccurrences ==
    ASSUME UNCHANGED planVars, UNCHANGED loadDone, UNCHANGED loadNew
    PROVE  Occurrences(loadNew)' = Occurrences(loadNew)
BY SameChunk DEF Occurrences

(* A chunk leaves each of its lines counted.                               *)
LEMMA ChunkCounted ==
    ASSUME TypeInv, CountsInv, CheckChunk \/ ConfirmChunk \/ MergeChunk \/ StartLoad
    PROVE  /\ pc' = "check" => Counted' = loadDone'
           /\ pc' \in {"merge", "confirm"} => (Counted + Occurrences(loadNew) = ChunkEnd)'
<1>1. /\ ClaimTypes /\ loadIns \in Nat /\ loadReu \in Nat /\ loadCon \in Nat
      /\ loadDone \in Nat
      /\ Loading => active # 0 /\ loadDone <= Len(Lines)
  BY DEF TypeInv, ClaimTypes, MemoryTyped
<1>2. UNCHANGED planVars
  BY DEF CheckChunk, ConfirmChunk, MergeChunk, StartLoad
<1>3. CASE StartLoad
  BY <1>1, <1>3 DEF StartLoad, ClaimTypes, Loading, NoProgress, Counted, loadLocal
<1>4. CASE MergeChunk
  <2>1. /\ UNCHANGED <<loadDone, loadNew, loadIns, loadReu, loadCon>>
        /\ pc = "merge" /\ pc' = "confirm"
    BY <1>4 DEF MergeChunk
  <2>2. Occurrences(loadNew)' = Occurrences(loadNew) /\ ChunkEnd' = ChunkEnd
    BY <1>2, <2>1, SameOccurrences, SameChunk
  <2>. QED  BY <2>1, <2>2 DEF CountsInv, Counted
<1>5. CASE CheckChunk
  <2>1. /\ pc = "check" /\ active # 0 /\ loadDone <= Len(Lines) /\ Counted = loadDone
        /\ loadIns' = loadIns
        /\ loadReu' = loadReu + Occurrences(Replays(Candidates))
        /\ loadCon' = loadCon + Cardinality(Contradicted)
                              + Occurrences(Conflicts(Candidates))
    BY <1>1, <1>5 DEF CheckChunk, Loading, CountsInv
  <2>2. Counted' + Occurrences(NewRecords) = ChunkEnd /\ Counted' \in Nat /\ ChunkEnd \in Nat
    <3>1. ChunkEnd \in Nat
      BY <1>1, <2>1, ChunkFacts
    <3> DEFINE a == Cardinality(Contradicted)
               b == Occurrences(NewRecords)
               c == Occurrences(Replays(Candidates))
               d == Occurrences(Conflicts(Candidates))
    <3>2. /\ a \in Nat /\ b \in Nat /\ c \in Nat /\ d \in Nat
          /\ a + b + c + d = ChunkEnd - loadDone
      BY <1>1, <2>1, ChunkSorted
    <3>3. Counted' = loadIns + (loadReu + c) + (loadCon + a + d)
      BY <2>1 DEF Counted
    <3>4. loadIns + loadReu + loadCon = loadDone
      BY <2>1 DEF Counted
    <3>. HIDE DEF a, b, c, d
    <3>5. Counted' + b = ChunkEnd /\ Counted' \in Nat
      BY <1>1, <3>1, <3>2, <3>3, <3>4
    <3>. QED  BY <3>1, <3>5 DEF b
  <2>3. CASE NewRecords = {}
    <3>1. Occurrences(NewRecords) = 0
      <4>1. {i \in Chunk : Lines[i] \in NewRecords} = {}
        BY <2>3
      <4>. QED  BY <4>1, FS_EmptySet DEF Occurrences
    <3>. QED  BY <1>5, <2>1, <2>2, <2>3, <3>1 DEF CheckChunk
  <2>4. CASE NewRecords # {}
    <3>1. loadNew' = NewRecords /\ pc' = "merge" /\ loadDone' = loadDone
      BY <1>5, <2>4 DEF CheckChunk
    <3>2. Lines' = Lines /\ ChunkEnd' = ChunkEnd /\ Chunk' = Chunk
      BY <1>2, <3>1, SameChunk
    <3>3. Occurrences(loadNew)' = Occurrences(NewRecords)
      BY <3>1, <3>2 DEF Occurrences
    <3>. QED  BY <2>2, <3>1, <3>2, <3>3
  <2>. QED  BY <2>3, <2>4
<1>6. CASE ConfirmChunk
  <2> DEFINE exact == Confirmed(loadNew)
  <2>1. /\ pc = "confirm" /\ pc' = "check" /\ loadDone' = ChunkEnd
        /\ active # 0 /\ loadDone <= Len(Lines)
        /\ Counted + Occurrences(loadNew) = ChunkEnd
        /\ loadIns' = loadIns + InsertedRows(exact)
        /\ loadReu' = loadReu + Occurrences(exact) - InsertedRows(exact)
        /\ loadCon' = loadCon + Occurrences(loadNew \ exact)
    BY <1>1, <1>6 DEF ConfirmChunk, CountsInv, Loading
  <2>2. /\ InsertedRows(exact) \in Nat
        /\ Occurrences(exact) \in Nat
    BY <1>6, ConfirmedRows
  <2>3. IsFiniteSet(Chunk)
    BY <1>1, <2>1, ChunkFacts
  <2>4. exact \cup (loadNew \ exact) = loadNew /\ exact \cap (loadNew \ exact) = {}
    BY DEF Confirmed, Replays
  <2>. HIDE DEF exact
  <2>5. Occurrences(exact \cup (loadNew \ exact))
          = Occurrences(exact) + Occurrences(loadNew \ exact)
    BY <2>3, <2>4, OccurrencesAdd
  <2>6. Occurrences(loadNew) = Occurrences(exact) + Occurrences(loadNew \ exact)
    BY <2>4, <2>5
  <2>7. Occurrences(loadNew \ exact) \in Nat
    BY <2>3, NoOccurrence
  <2> DEFINE a == InsertedRows(exact)
             b == Occurrences(exact)
             c == Occurrences(loadNew \ exact)
  <2>8. /\ Counted' = (loadIns + a) + (loadReu + b - a) + (loadCon + c)
        /\ loadIns + loadReu + loadCon + (b + c) = ChunkEnd
        /\ a \in Nat /\ b \in Nat /\ c \in Nat
    BY <2>1, <2>2, <2>6, <2>7 DEF Counted
  <2>. HIDE DEF a, b, c
  <2>9. Counted' = ChunkEnd
    BY <1>1, <2>8
  <2>. QED  BY <2>1, <2>9
<1>. QED  BY <1>3, <1>4, <1>5, <1>6

LEMMA CountsStep ==
    ASSUME TypeInv, CountsInv, [Next]_vars
    PROVE  CountsInv'
<1>1. /\ pc' = "check" => Counted' = loadDone'
      /\ pc' \in {"merge", "confirm"} => (Counted + Occurrences(loadNew) = ChunkEnd)'
  <2>1. CASE Waits
    <3>1. UNCHANGED <<planVars, pc, loadDone, loadNew, loadIns, loadReu, loadCon>>
      BY <2>1 DEF Waits, loadVars, loadLocal
    <3>2. Occurrences(loadNew)' = Occurrences(loadNew) /\ ChunkEnd' = ChunkEnd
      BY <3>1, SameOccurrences, SameChunk
    <3>. QED  BY <3>1, <3>2 DEF CountsInv, Counted
  <2>. QED  BY <2>1, ChunkCounted, PhaseOfNext
<1>2. \A x \in loaded' :
         x \in loaded \/ (/\ FinishLoad /\ x.run = active /\ ~ ResultIn(loaded)
                          /\ active \in 1..Len(plan)
                          /\ x.inserted + x.reused + x.conflicts = Len(Lines))
  <2>1. CASE FinishLoad
    <3>1. /\ loadDone = Len(Lines) /\ Counted = loadDone /\ ~ ResultIn(loaded)
          /\ active \in 1..Len(plan)
      BY <2>1 DEF FinishLoad, CountsInv, TypeInv, MemoryTyped, ClaimTypes, Loading
    <3>2. loaded' = loaded \cup {[run |-> active, inserted |-> loadIns,
                                  reused |-> loadReu, conflicts |-> loadCon]}
      BY <2>1 DEF FinishLoad
    <3>. QED  BY <2>1, <3>1, <3>2 DEF Counted
  <2>2. CASE ~ FinishLoad
    BY <2>2, ResultsFrame
  <2>. QED  BY <2>1, <2>2
<1>3. \A x, y \in loaded' : x.run = y.run => x = y
  <2>1. \A x, y \in loaded' : x \notin loaded /\ y \notin loaded /\ FinishLoad => x = y
    BY DEF FinishLoad
  <2>2. ~ ResultIn(loaded) => \A x \in loaded : x.run # active
    BY DEF ResultIn
  <2>. QED  BY <1>2, <2>1, <2>2 DEF CountsInv
<1>4. ASSUME NEW x \in loaded'
      PROVE  x.inserted + x.reused + x.conflicts = Len(Accepted(plan'[x.run]))
  <2>1. CASE x \in loaded
    <3>1. x.run \in 1..Len(plan)
      BY <2>1 DEF TypeInv, ClaimTypes
    <3>. QED  BY <2>1, <3>1, PlanKept DEF CountsInv, TypeInv
  <2>2. CASE x \notin loaded
    <3>1. plan'[active] = plan[active]
      BY <1>2, <2>2, PlanKept DEF TypeInv
    <3>. QED  BY <1>2, <2>2, <3>1 DEF Lines, Bundle
  <2>. QED  BY <2>1, <2>2
<1>5. \A x : Len(Accepted(plan'[x.run])) = Len(Accepted(plan[x.run]))'
  BY DEF Accepted
<1>. QED  BY <1>1, <1>3, <1>4, <1>5 DEF CountsInv

LEMMA CountsInit == Init => CountsInv
BY DEF Init, LoadInit, CountsInv

(* The counts of load_records are exact: what a finished load inserted,    *)
(* found replayed and found in conflict adds up to the accepted rows of    *)
(* its bundle, whatever was stored, repeated or contradicted before it.    *)
THEOREM LoadCountsAddUp == Spec => []CountsInv
<1>1. TypeInv /\ CountsInv /\ [Next]_vars => (TypeInv /\ CountsInv)'
  BY TypeInvStep, CountsStep
<1>. QED  BY TypeInvInit, CountsInit, <1>1, PTL DEF Spec

-----------------------------------------------------------------------------
(* Conflicts are real.                                                     *)

Known == UNION {RecordsOf(plan[d]) : d \in 1..Len(plan)}
Contradiction == \E d \in 1..Len(plan) : ~ Compatible(plan[d])
BringsKnown(w) == w.op = "merge" => \A t \in w.rows : t.record \in Known

ConflictsInv ==
    /\ \A t \in table : t.record \in Known
    /\ \A w \in inFlight : BringsKnown(w)
    /\ loadCon # 0 => Contradiction
    /\ \A x \in loaded : x.conflicts # 0 => Contradiction
    /\ "conflicts" \in raised => Contradiction

(* Why each task raises what it raises.                                    *)
LEMMA RaisedOfNext ==
    ASSUME [Next]_vars
    PROVE  \/ raised' = raised
           \/ /\ PutEvidence /\ raised' = raised \cup {"evidence_conflict"}
              /\ \E o \in ObjectAt(EvidenceKey) : o.body # Envelope
           \/ RefuseChunk /\ \E error \in Refusal : raised' = raised \cup {error}
           \/ /\ Reconcile /\ raised' = raised \cup {"summary_conflict"}
              /\ \E o \in ObjectAt(SummaryKey) : o.body # SummaryBody
           \/ /\ RefuseReconciliation
              /\ IF ResultOf(loaded).conflicts # 0
                 THEN raised' = raised \cup {"conflicts"}
                 ELSE raised' = raised \cup {"count_mismatch"}
           \/ /\ (LookUpCoverage /\ CoverageOf(Bundle) # {}) \/ ConfirmCoverage
              /\ RefuseCoverage
              /\ raised' \in {raised \cup {"duplicate_rows"},
                              raised \cup {"coverage_conflict"}}
<1>1. StartLoad \/ PutRaw \/ CheckChunk \/ MergeChunk \/ ConfirmChunk \/ FinishLoad
        \/ MergeCoverage \/ TaskFails \/ UNCHANGED vars
        \/ (ApplyLate /\ UNCHANGED <<loadVars, coverVars>>)
        \/ (\E b \in Bundles : Trigger(b)) \/ (\E d \in 1..Len(plan) : Clear(d))
      => raised' = raised
  BY DEF StartLoad, PutRaw, CheckChunk, MergeChunk, ConfirmChunk, FinishLoad, MergeCoverage,
         TaskFails, vars, loadVars, Trigger, Clear
<1>2. PutEvidence =>
        \/ raised' = raised
        \/ /\ raised' = raised \cup {"evidence_conflict"}
           /\ \E o \in ObjectAt(EvidenceKey) : o.body # Envelope
  BY DEF PutEvidence, Raise
<1>3. RefuseChunk => \E error \in Refusal : raised' = raised \cup {error}
  BY DEF RefuseChunk, Raise
<1>4. Reconcile =>
        \/ raised' = raised
        \/ /\ raised' = raised \cup {"summary_conflict"}
           /\ \E o \in ObjectAt(SummaryKey) : o.body # SummaryBody
  BY DEF Reconcile, Raise
<1>5. RefuseReconciliation =>
        IF ResultOf(loaded).conflicts # 0
        THEN raised' = raised \cup {"conflicts"}
        ELSE raised' = raised \cup {"count_mismatch"}
  BY DEF RefuseReconciliation, Raise
<1>6. RefuseCoverage => raised' \in {raised \cup {"duplicate_rows"},
                                     raised \cup {"coverage_conflict"}}
  BY DEF RefuseCoverage, Raise
<1>7. LookUpCoverage => raised' = raised \/ (CoverageOf(Bundle) # {} /\ RefuseCoverage)
  BY DEF LookUpCoverage, AcceptCoverage
<1>8. ConfirmCoverage => raised' = raised \/ RefuseCoverage
  BY DEF ConfirmCoverage, AcceptCoverage
<1>. QED
  BY <1>1, <1>2, <1>3, <1>4, <1>5, <1>6, <1>7, <1>8 DEF Next, Tasks, LoadNext, CoverageNext

(* A record of a run's bundle that differs from one of another run's.      *)
LEMMA Contradicts ==
    ASSUME NEW d \in 1..Len(plan), NEW e \in 1..Len(plan),
           NEW r \in RecordsOf(plan[d]), NEW s \in RecordsOf(plan[e]),
           r.id = s.id, r # s
    PROVE  Contradiction
BY DEF Contradiction, Compatible

LEMMA KnownKept ==
    ASSUME ClaimTypes, [Next]_vars
    PROVE  /\ Known \subseteq Known'
           /\ Contradiction => Contradiction'
<1>1. \A b : RecordsOf(b)' = RecordsOf(b)
  BY DEF RecordsOf, Accepted
<1>2. \A d \in 1..Len(plan) : d \in 1..Len(plan') /\ plan'[d] = plan[d]
  BY PlanKept
<1>3. Known \subseteq Known'
  BY <1>1, <1>2 DEF Known
<1>4. ASSUME Contradiction PROVE Contradiction'
  <2>1. PICK d \in 1..Len(plan), e \in 1..Len(plan) :
            \E r \in RecordsOf(plan[d]), s \in RecordsOf(plan[e]) : r.id = s.id /\ r # s
    BY <1>4 DEF Contradiction, Compatible
  <2>2. /\ d \in 1..Len(plan') /\ plan'[d] = plan[d]
        /\ e \in 1..Len(plan') /\ plan'[e] = plan[e]
    BY <1>2
  <2>. QED  BY <1>1, <2>1, <2>2 DEF Contradiction, Compatible
<1>. QED  BY <1>3, <1>4

(* The lines in the chunk are known.                                       *)
LEMMA LinesKnown ==
    ASSUME ClaimTypes, active # 0, loadDone <= Len(Lines)
    PROVE  /\ active \in 1..Len(plan)
           /\ \A i \in Chunk : Lines[i] \in RecordsOf(plan[active])
<1>1. active \in 1..Len(plan)
  BY DEF ClaimTypes
<1>2. Chunk \subseteq 1..Len(Lines)
  BY ChunkFacts
<1>. QED  BY <1>1, <1>2 DEF RecordsOf, Lines, Bundle

LEMMA TaskBringsKnown ==
    ASSUME ClaimTypes, NEW w \in TaskWrites
    PROVE  BringsKnown(w)
<1> SUFFICES ASSUME w.op = "merge" PROVE \A t \in w.rows : t.record \in Known
  BY DEF BringsKnown
<1>1. pc = "merge" /\ w.rows = RowsOf(loadNew)
  BY DEF TaskWrites, LoadWrites, CoverageWrites, Put
<1>2. active # 0 /\ loadDone <= Len(Lines) /\ loadNew \subseteq {Lines[i] : i \in Chunk}
  BY <1>1 DEF ClaimTypes, Loading
<1>3. loadNew \subseteq Known
  BY <1>2, LinesKnown DEF Known
<1>4. \A t \in w.rows : t.record \in loadNew
  BY <1>1 DEF RowsOf
<1>. QED  BY <1>3, <1>4

(* What is stored or on its way, a run so far has brought.                 *)
LEMMA KnownStep ==
    ASSUME ClaimTypes, ConflictsInv, [Next]_vars
    PROVE  /\ \A t \in table' : t.record \in Known'
           /\ \A w \in inFlight' : BringsKnown(w)'
<1>1. \A w \in inFlight \cup TaskWrites : BringsKnown(w)
  BY TaskBringsKnown DEF ConflictsInv
<1>2. Known \subseteq Known'
  BY KnownKept
<1>3. \A t \in table' : t.record \in Known
  <2>1. ASSUME NEW w \in inFlight \cup TaskWrites, Applied(w)
        PROVE  \A t \in table' : t.record \in Known
    <3>1. CASE w.op = "merge"
      <4>1. PICK R \in SUBSET w.rows : table' = Insert(R)
        BY <2>1, <3>1, EffectOf
      <4>2. \A t \in Insert(R) \ table : \E r \in R : t.record = r.record
        BY InsertGrows
      <4>3. \A r \in R : r.record \in Known
        BY <1>1, <3>1 DEF BringsKnown
      <4>. QED  BY <4>1, <4>2, <4>3 DEF ConflictsInv
    <3>2. CASE w.op # "merge"
      BY <2>1, <3>2, EffectOf DEF ConflictsInv
    <3>. QED  BY <3>1, <3>2
  <2>. QED  BY <2>1, StoreEffect DEF ConflictsInv
<1>4. \A w \in inFlight' : BringsKnown(w)
  BY <1>1, StoreEffect
<1>5. \A w : BringsKnown(w) => BringsKnown(w)'
  BY <1>2 DEF BringsKnown
<1>. QED  BY <1>2, <1>3, <1>4, <1>5

(* A candidate that the tables hold with other contents contradicts them.  *)
LEMMA StoredContradicts ==
    ASSUME ClaimTypes, ConflictsInv, active # 0, loadDone <= Len(Lines),
           NEW i \in Chunk, PayloadsStored(Lines[i].id) # {},
           PayloadsStored(Lines[i].id) # {Lines[i].payload}
    PROVE  Contradiction
<1>1. PICK x \in PayloadsStored(Lines[i].id) : x # Lines[i].payload
  OBVIOUS
<1>2. PICK t \in table : t.record.id = Lines[i].id /\ t.record.payload = x
  BY <1>1 DEF PayloadsStored
<1>3. PICK d \in 1..Len(plan) : t.record \in RecordsOf(plan[d])
  BY DEF ConflictsInv, Known
<1>4. active \in 1..Len(plan) /\ Lines[i] \in RecordsOf(plan[active])
  BY LinesKnown
<1>5. t.record # Lines[i]
  BY <1>1, <1>2
<1>. QED  BY <1>2, <1>3, <1>4, <1>5, Contradicts

LEMMA SomeOccurrence ==
    ASSUME NEW S, Occurrences(S) # 0
    PROVE  \E i \in Chunk : Lines[i] \in S
<1>1. {i \in Chunk : Lines[i] \in S} = {} => Occurrences(S) = 0
  BY FS_EmptySet DEF Occurrences
<1>. QED  BY <1>1

(* A load counts a conflict only where bundles contradict each other.      *)
LEMMA LoadConflicts ==
    ASSUME TypeInv, ConflictsInv, [Next]_vars, loadCon' # 0
    PROVE  Contradiction
<1>1. ClaimTypes /\ loadCon \in Nat
  BY DEF TypeInv, ClaimTypes
<1>2. CASE UNCHANGED loadLocal \/ ForgetProgress \/ MergeChunk
  BY <1>2 DEF loadLocal, ForgetProgress, MergeChunk, ConflictsInv
<1>3. CASE CheckChunk
  <2>1. active # 0 /\ loadDone <= Len(Lines)
    BY <1>1, <1>3 DEF CheckChunk, ClaimTypes, Loading
  <2>2. loadCon # 0 \/ Cardinality(Contradicted) # 0 \/ Occurrences(Conflicts(Candidates)) # 0
    BY <1>3 DEF CheckChunk
  <2>3. ASSUME Cardinality(Contradicted) # 0 PROVE Contradiction
    <3>1. Contradicted # {}
      BY <2>3, FS_EmptySet
    <3>2. PICK i \in Chunk, j \in Chunk : Lines[j].id = Lines[i].id /\ Lines[j] # Lines[i]
      BY <3>1 DEF Contradicted
    <3>. QED  BY <1>1, <2>1, <3>2, LinesKnown, Contradicts
  <2>4. ASSUME Occurrences(Conflicts(Candidates)) # 0 PROVE Contradiction
    <3>1. PICK i \in Chunk : Lines[i] \in Conflicts(Candidates)
      BY <2>4, SomeOccurrence
    <3>2. /\ PayloadsStored(Lines[i].id) # {}
          /\ PayloadsStored(Lines[i].id) # {Lines[i].payload}
      BY <3>1 DEF Conflicts, Replays
    <3>. QED  BY <1>1, <2>1, <3>2, StoredContradicts
  <2>. QED  BY <2>2, <2>3, <2>4 DEF ConflictsInv
<1>4. CASE ConfirmChunk
  <2>1. /\ pc = "confirm" /\ active # 0 /\ loadDone <= Len(Lines)
        /\ loadNew \subseteq {Lines[i] : i \in Chunk}
    BY <1>1, <1>4 DEF ConfirmChunk, ClaimTypes, Loading
  <2>2. loadCon # 0 \/ Occurrences(loadNew \ Confirmed(loadNew)) # 0
    BY <1>4 DEF ConfirmChunk
  <2>3. ASSUME Occurrences(loadNew \ Confirmed(loadNew)) # 0 PROVE Contradiction
    <3>1. PICK i \in Chunk : Lines[i] \in loadNew \ Confirmed(loadNew)
      BY <2>3, SomeOccurrence
    <3>2. PayloadsStored(Lines[i].id) # {Lines[i].payload}
      BY <3>1 DEF Confirmed, Replays
    <3>3. PayloadsStored(Lines[i].id) # {}
      BY <1>4, <2>1, <3>1 DEF ConfirmChunk, Refusal
    <3>. QED  BY <1>1, <2>1, <3>2, <3>3, StoredContradicts
  <2>. QED  BY <2>2, <2>3 DEF ConflictsInv
<1>. QED  BY <1>2, <1>3, <1>4, CountersFrame

LEMMA ConflictsStep ==
    ASSUME TypeInv, ConflictsInv, [Next]_vars
    PROVE  ConflictsInv'
<1>1. ClaimTypes
  BY DEF TypeInv
<1>2. Contradiction => Contradiction'
  BY <1>1, KnownKept
<1>3. loadCon' # 0 => Contradiction'
  BY <1>2, LoadConflicts
<1>4. ASSUME NEW x \in loaded', x.conflicts # 0 PROVE Contradiction'
  <2>1. x \in loaded \/ (FinishLoad /\ loadCon # 0)
    BY <1>4, ResultsFrame DEF FinishLoad
  <2>. QED  BY <1>2, <1>4, <2>1 DEF ConflictsInv
<1>5. ASSUME "conflicts" \in raised' PROVE Contradiction'
  <2>1. CASE "conflicts" \in raised
    BY <1>2, <2>1 DEF ConflictsInv
  <2>2. CASE "conflicts" \notin raised
    <3>1. "conflicts" \notin Refusal
      BY DEF Refusal
    <3>2. RefuseReconciliation /\ ResultOf(loaded).conflicts # 0
      BY <1>5, <2>2, <3>1, RaisedOfNext
    <3>3. ResultOf(loaded) \in loaded
      BY <3>2, ResultChosen DEF RefuseReconciliation, ReadyToReconcile
    <3>. QED  BY <1>2, <3>2, <3>3 DEF ConflictsInv
  <2>. QED  BY <2>1, <2>2
<1>. QED  BY <1>1, <1>3, <1>4, <1>5, KnownStep DEF ConflictsInv

LEMMA ConflictsInit == Init => ConflictsInv
BY DEF Init, StoreInit, LoadInit, NoProgress, ConflictsInv

(* A load counts a conflict, and reconcile_run refuses its bundle for one, *)
(* only if two of the runs so far contradict each other, in one bundle or  *)
(* in two: an exact replay, a retry or a late MERGE is never the cause.    *)
ConflictsAreReal ==
    (\E x \in loaded : x.conflicts # 0) \/ "conflicts" \in raised => Contradiction

THEOREM OnlyContradictionsConflict == Spec => []ConflictsAreReal
<1>1. TypeInv /\ ConflictsInv /\ [Next]_vars => (TypeInv /\ ConflictsInv)'
  BY TypeInvStep, ConflictsStep
<1>2. ConflictsInv => ConflictsAreReal
  BY DEF ConflictsInv, ConflictsAreReal
<1>. QED  BY TypeInvInit, ConflictsInit, <1>1, <1>2, PTL DEF Spec

-----------------------------------------------------------------------------
(* Every row is reported as inserted once.                                 *)

(* claim[x] are the rows that the finished load x reports as inserted, cur *)
(* those of the load in progress.  What its chunk may insert is not among  *)
(* them: it was absent when the chunk was read.                            *)
Claims(claim, cur) ==
    /\ \A x \in loaded :
          /\ Cardinality(claim[x]) = x.inserted
          /\ \A t \in claim[x] : t.record \in RecordsOf(plan[x.run])
          /\ claim[x] \cap cur = {}
    /\ \A x, y \in loaded : x # y => claim[x] \cap claim[y] = {}
    /\ Cardinality(cur) = loadIns
    /\ \A t \in cur : t.record \in RecordsOf(Bundle)
    /\ pc \in {"merge", "confirm"} =>
          \A c \in loadNew :
             /\ \A t \in cur : t.record.id # c.id
             /\ \A x \in loaded : \A t \in claim[x] : t.record.id # c.id

ClaimsExist ==
    \E claim \in [loaded -> SUBSET table], cur \in SUBSET table : Claims(claim, cur)

(* The count a MERGE has answered is the number of some rows it may claim. *)
MergeCounted ==
    pc = "confirm" =>
       \/ loadCount = Omitted
       \/ \E D \in SUBSET table :
             Cardinality(D) = loadCount /\ \A t \in D : t.record \in loadNew

InsertInv == ClaimsExist /\ MergeCounted

(* What MergeChunk adds to the table are rows of its records.              *)
LEMMA MergeCountedStep ==
    ASSUME TypeInv, InsertInv, [Next]_vars
    PROVE  MergeCounted'
<1> SUFFICES ASSUME pc' = "confirm", loadCount' # Omitted
             PROVE  \E D \in SUBSET table' :
                       Cardinality(D) = loadCount' /\ \A t \in D : t.record \in loadNew'
  BY DEF MergeCounted, Omitted
<1>1. CASE MergeChunk
  <2>1. loadNew' = loadNew /\ loadCount' = Cardinality(table' \ table)
    BY <1>1 DEF MergeChunk
  <2>2. table' = Merge(RowsOf(loadNew))
    BY <1>1 DEF MergeChunk, Perform, Apply, TableAfter
  <2> DEFINE R == {r \in RowsOf(loadNew) : PayloadsStored(r.record.id) = {}}
  <2>3. table' = Insert(R)
    BY <2>2 DEF Merge
  <2>4. \A r \in R : r.record \in loadNew
    BY DEF RowsOf
  <2>. HIDE DEF R
  <2>5. \A t \in table' \ table : t.record \in loadNew
    BY <2>3, <2>4, InsertGrows
  <2>. QED  BY <2>1, <2>5
<1>2. CASE Waits
  <2>1. pc = "confirm" /\ UNCHANGED <<loadCount, loadNew>>
    BY <1>2 DEF Waits, loadVars, loadLocal
  <2>2. table \subseteq table'
    BY StoreOfNext DEF TypeInv
  <2>3. PICK D \in SUBSET table : Cardinality(D) = loadCount /\ \A t \in D : t.record \in loadNew
    BY <2>1 DEF InsertInv, MergeCounted
  <2>. QED  BY <2>1, <2>2, <2>3
<1>. QED  BY <1>1, <1>2, PhaseOfNext

(* The rows that ConfirmChunk counts as inserted.                          *)
LEMMA ConfirmedClaim ==
    ASSUME TypeInv, MergeCounted, ConfirmChunk
    PROVE  \E D \in SUBSET table :
              /\ Cardinality(D) = InsertedRows(Confirmed(loadNew))
              /\ \A t \in D : t.record \in loadNew
<1>1. CASE loadCount # Omitted
  BY <1>1 DEF MergeCounted, ConfirmChunk, InsertedRows
<1>2. CASE loadCount = Omitted
  <2> DEFINE exact == Confirmed(loadNew)
             g == [c \in exact |-> CHOOSE t \in table : t.record = c]
             D == {g[c] : c \in exact}
             h == [t \in D |-> t.record]
  <2>1. InsertedRows(exact) = Cardinality(exact)
    BY <1>2 DEF InsertedRows
  <2>2. /\ active # 0 /\ loadDone <= Len(Lines)
        /\ loadNew \subseteq {Lines[i] : i \in Chunk}
    BY DEF ConfirmChunk, TypeInv, ClaimTypes, Loading
  <2>3. /\ IsFiniteSet(Chunk) /\ Lines \in Seq(Record) /\ Chunk \subseteq 1..Len(Lines)
    BY <2>2, ChunkFacts DEF TypeInv
  <2>4. exact \subseteq loadNew /\ exact \subseteq Record
    BY <2>2, <2>3 DEF Confirmed, Replays
  <2>5. IsFiniteSet(exact) /\ Cardinality(exact) \in Nat
    BY <2>2, <2>3, <2>4, RecordsAndLines
  <2>6. ASSUME NEW c \in exact PROVE \E t \in table : t.record = c
    <3>1. c.payload \in PayloadsStored(c.id)
      BY DEF Confirmed, Replays
    <3>2. PICK t \in table : t.record.id = c.id /\ t.record.payload = c.payload
      BY <3>1 DEF PayloadsStored
    <3>3. t.record \in Record
      BY DEF TypeInv, ClaimTypes
    <3>. QED  BY <2>4, <3>2, <3>3, RecordExtensional
  <2>7. \A c \in exact : g[c] \in table /\ g[c].record = c
    BY <2>6
  <2>. HIDE DEF exact, g
  <2>8. /\ IsFiniteSet(D) /\ Cardinality(D) \in Nat
        /\ Cardinality(D) <= Cardinality(exact)
    BY <2>5, ImageOfFinite
  <2>9. {h[t] : t \in D} = exact
    BY <2>7
  <2>10. Cardinality({h[t] : t \in D}) <= Cardinality(D)
    <3>. HIDE DEF D, h
    <3>. QED  BY <2>8, ImageOfFinite
  <2>11. Cardinality({h[t] : t \in D}) = Cardinality(exact)
    BY <2>9, Zenon
  <2>12. Cardinality(D) = Cardinality(exact)
    <3>. HIDE DEF D, h
    <3>. QED  BY <2>5, <2>8, <2>10, <2>11
  <2>13. D \subseteq table /\ \A t \in D : t.record \in loadNew
    BY <2>4, <2>7
  <2>. HIDE DEF D
  <2>. QED  BY <2>1, <2>12, <2>13 DEF exact
<1>. QED  BY <1>1, <1>2

(* A chunk that is confirmed adds its rows to the claims of the load.      *)
LEMMA ConfirmClaims ==
    ASSUME TypeInv, InsertInv, ConfirmChunk
    PROVE  ClaimsExist'
<1>1. PICK claim \in [loaded -> SUBSET table], cur \in SUBSET table : Claims(claim, cur)
  BY DEF InsertInv, ClaimsExist
<1>2. PICK D \in SUBSET table :
          /\ Cardinality(D) = InsertedRows(Confirmed(loadNew))
          /\ \A t \in D : t.record \in loadNew
  BY ConfirmedClaim DEF InsertInv
<1>3. /\ pc = "confirm" /\ pc' = "check"
      /\ loadIns' = loadIns + InsertedRows(Confirmed(loadNew))
      /\ UNCHANGED <<planVars, loaded, table>>
  BY DEF ConfirmChunk, storeVars
<1>4. /\ active # 0 /\ loadDone <= Len(Lines)
      /\ loadNew \subseteq {Lines[i] : i \in Chunk}
  BY <1>3 DEF TypeInv, ClaimTypes, Loading
<1>5. loadNew \subseteq RecordsOf(Bundle)
  BY <1>4, LinesKnown DEF TypeInv, Bundle
<1>6. cur \cap D = {} /\ \A x \in loaded : claim[x] \cap D = {}
  BY <1>1, <1>2, <1>3 DEF Claims
<1>7. Cardinality(cur \cup D) = loadIns'
  <2> DEFINE both == cur \cup D
  <2>1. IsFiniteSet(both)
    BY FS_Subset DEF TypeInv, StoreTyped
  <2>2. cur \cup D = both
    OBVIOUS
  <2> HIDE DEF both
  <2>3. Cardinality(both) = Cardinality(cur) + Cardinality(D)
    BY <1>6, <2>1, <2>2, DisjointParts
  <2>. QED  BY <1>1, <1>2, <1>3, <2>3 DEF Claims, both
<1>8. \A b : RecordsOf(b)' = RecordsOf(b)
  BY DEF RecordsOf, Accepted
<1>9. plan' = plan /\ Bundle' = Bundle
  BY <1>3, SameLines DEF planVars
<1>10. Claims(claim, cur \cup D)'
  <2>1. \A x \in loaded' :
          /\ Cardinality(claim[x]) = x.inserted
          /\ \A t \in claim[x] : t.record \in RecordsOf(plan[x.run])'
          /\ claim[x] \cap (cur \cup D) = {}
    BY <1>1, <1>3, <1>6, <1>8, <1>9 DEF Claims
  <2>2. \A t \in cur \cup D : t.record \in RecordsOf(Bundle)'
    BY <1>1, <1>2, <1>5, <1>8, <1>9 DEF Claims
  <2>3. \A x, y \in loaded' : x # y => claim[x] \cap claim[y] = {}
    BY <1>1, <1>3 DEF Claims
  <2>. QED  BY <1>3, <1>7, <2>1, <2>2, <2>3 DEF Claims
<1>. QED  BY <1>3, <1>10 DEF ClaimsExist

(* A load that finishes hands its claims to its result.                    *)
LEMMA FinishClaims ==
    ASSUME TypeInv, InsertInv, FinishLoad
    PROVE  ClaimsExist'
<1>1. PICK claim \in [loaded -> SUBSET table], cur \in SUBSET table : Claims(claim, cur)
  BY DEF InsertInv, ClaimsExist
<1> DEFINE new == [run |-> active, inserted |-> loadIns,
                   reused |-> loadReu, conflicts |-> loadCon]
<1>0. PICK claims : claims = [x \in loaded' |-> IF x \in loaded THEN claim[x] ELSE cur]
  OBVIOUS
<1>2. /\ loaded' = loaded \cup {new} /\ new.run = active /\ new.inserted = loadIns
      /\ pc' = "idle" /\ loadIns' = 0 /\ UNCHANGED <<planVars, table>>
  BY DEF FinishLoad, ForgetProgress, storeVars
<1>. HIDE DEF new
<1>3. plan' = plan /\ plan[active] = Bundle
  BY <1>2 DEF planVars, Bundle
<1>4. \A b : RecordsOf(b)' = RecordsOf(b)
  BY DEF RecordsOf, Accepted
<1>5. \A x \in loaded' : x \in loaded \/ x = new
  BY <1>2
<1>6. ASSUME NEW x \in loaded'
      PROVE  /\ claims[x] \in SUBSET table
             /\ Cardinality(claims[x]) = x.inserted
             /\ \A t \in claims[x] : t.record \in RecordsOf(plan[x.run])
  <2>1. CASE x \in loaded
    BY <1>0, <1>1, <2>1 DEF Claims
  <2>2. CASE x \notin loaded
    <3>1. x = new /\ claims[x] = cur
      BY <1>0, <1>5, <2>2
    <3>. QED  BY <1>1, <1>2, <1>3, <3>1 DEF Claims
  <2>. QED  BY <2>1, <2>2
<1>7. \A x, y \in loaded' : x # y => claims[x] \cap claims[y] = {}
  BY <1>0, <1>1, <1>5 DEF Claims
<1>8. claims \in [loaded' -> SUBSET table']
  BY <1>0, <1>2, <1>6
<1>9. Cardinality({}) = 0
  BY FS_EmptySet
<1>10. Claims(claims, {})'
  <2>1. \A x \in loaded' :
          /\ Cardinality(claims[x]) = x.inserted
          /\ \A t \in claims[x] : t.record \in RecordsOf(plan[x.run])'
          /\ claims[x] \cap {} = {}
    BY <1>3, <1>4, <1>6
  <2>. QED  BY <1>2, <1>7, <1>9, <2>1 DEF Claims
<1>. QED  BY <1>8, <1>10 DEF ClaimsExist

(* The chunk after a step can insert nothing that is claimed.              *)
LEMMA ClaimsApart ==
    ASSUME TypeInv, [Next]_vars, NEW claim \in [loaded -> SUBSET table],
           NEW cur \in SUBSET table, Claims(claim, cur),
           pc' \in {"merge", "confirm"}, NEW c \in loadNew'
    PROVE  /\ \A t \in cur : t.record.id # c.id
           /\ \A x \in loaded : \A t \in claim[x] : t.record.id # c.id
<1>1. CASE CheckChunk
  <2>1. pc = "check" /\ loadNew = {}
    BY <1>1 DEF CheckChunk, TypeInv, ClaimTypes
  <2>2. PayloadsStored(c.id) = {}
    BY <1>1, <2>1 DEF CheckChunk, NewRecords
  <2>3. \A t \in table : t.record.id # c.id
    BY <2>2 DEF PayloadsStored
  <2>. QED  BY <2>3
<1>2. CASE MergeChunk \/ Waits
  <2>1. pc \in {"merge", "confirm"} /\ loadNew' = loadNew
    BY <1>2 DEF MergeChunk, Waits, loadVars, loadLocal
  <2>. QED  BY <2>1 DEF Claims
<1>. QED  BY <1>1, <1>2, PhaseOfNext

(* No other step claims a row; a task that fails gives its claims up.      *)
LEMMA OtherInserts ==
    ASSUME TypeInv, InsertInv, [Next]_vars, ~ ConfirmChunk, ~ FinishLoad
    PROVE  ClaimsExist'
<1>1. PICK claim \in [loaded -> SUBSET table], cur \in SUBSET table : Claims(claim, cur)
  BY DEF InsertInv, ClaimsExist
<1>0. PICK claims, rest : /\ claims = [x \in loaded' |-> claim[x]]
                          /\ rest = IF loadIns' = 0 THEN {} ELSE cur
  OBVIOUS
<1>2. loaded' \subseteq loaded /\ table \subseteq table'
  BY ResultsFrame, StoreOfNext DEF TypeInv
<1>3. loadIns' \in {loadIns, 0}
  <2>1. UNCHANGED loadLocal \/ ForgetProgress \/ CheckChunk \/ MergeChunk
    BY CountersFrame
  <2>. QED  BY <2>1 DEF loadLocal, ForgetProgress, CheckChunk, MergeChunk
<1>4. loadIns' # 0 => UNCHANGED planVars
  <2>1. TypeInv'
    BY TypeInvStep
  <2>2. loadIns' # 0 => pc' # "idle"
    BY <2>1 DEF TypeInv, ClaimTypes, Loading, NoProgress
  <2>. QED  BY <2>2, PhaseOfNext
<1>5. \A b : RecordsOf(b)' = RecordsOf(b)
  BY DEF RecordsOf, Accepted
<1>6. claims \in [loaded' -> SUBSET table'] /\ rest \in SUBSET table' /\ rest \subseteq cur
  BY <1>0, <1>2
<1>7. Cardinality(rest) = loadIns'
  <2>1. CASE loadIns' = 0
    BY <1>0, <2>1, FS_EmptySet
  <2>2. CASE loadIns' # 0
    BY <1>0, <1>1, <1>3, <2>2 DEF Claims
  <2>. QED  BY <2>1, <2>2
<1>8. \A t \in rest : t.record \in RecordsOf(Bundle)'
  <2>1. CASE loadIns' = 0
    BY <1>0, <2>1
  <2>2. CASE loadIns' # 0
    <3>1. Bundle' = Bundle
      BY <1>4, <2>2, SameLines
    <3>. QED  BY <1>1, <1>5, <1>6, <3>1 DEF Claims
  <2>. QED  BY <2>1, <2>2
<1>9. ASSUME NEW x \in loaded'
      PROVE  /\ Cardinality(claims[x]) = x.inserted
             /\ \A t \in claims[x] : t.record \in RecordsOf(plan[x.run])'
             /\ claims[x] \cap rest = {}
  <2>1. x \in loaded /\ claims[x] = claim[x]
    BY <1>0, <1>2
  <2>2. plan'[x.run] = plan[x.run]
    BY <2>1, PlanKept DEF TypeInv, ClaimTypes
  <2>. QED  BY <1>1, <1>5, <1>6, <2>1, <2>2 DEF Claims
<1>10. \A x, y \in loaded' : x # y => claims[x] \cap claims[y] = {}
  BY <1>0, <1>1, <1>2 DEF Claims
<1>11. ASSUME pc' \in {"merge", "confirm"}, NEW c \in loadNew'
       PROVE  /\ \A t \in rest : t.record.id # c.id
              /\ \A x \in loaded' : \A t \in claims[x] : t.record.id # c.id
  BY <1>0, <1>1, <1>2, <1>6, <1>11, ClaimsApart
<1>12. Claims(claims, rest)'
  BY <1>7, <1>8, <1>9, <1>10, <1>11 DEF Claims
<1>. QED  BY <1>6, <1>12 DEF ClaimsExist

LEMMA InsertStep ==
    ASSUME TypeInv, InsertInv, [Next]_vars
    PROVE  InsertInv'
BY MergeCountedStep, ConfirmClaims, FinishClaims, OtherInserts DEF InsertInv

LEMMA InsertInit == Init => InsertInv
<1> SUFFICES ASSUME Init PROVE InsertInv
  OBVIOUS
<1>1. loaded = {} /\ table = {} /\ loadIns = 0 /\ pc = "idle"
  BY DEF Init, StoreInit, LoadInit, NoProgress
<1> DEFINE none == [x \in {} |-> {}]
<1>2. none \in [loaded -> SUBSET table] /\ {} \in SUBSET table
  BY <1>1
<1>. HIDE DEF none
<1>3. Claims(none, {})
  BY <1>1, FS_EmptySet DEF Claims
<1>. QED  BY <1>1, <1>2, <1>3 DEF InsertInv, ClaimsExist, MergeCounted

(* The inserted counts that load_validated_bundle reports are honest: each *)
(* counts rows of its own bundle that are in the tables, and no row is     *)
(* reported by two loads, though a load counts what it reads back rather   *)
(* than what it wrote when Trino leaves updateCount out, and its MERGE may *)
(* race with late ones that do not see its rows.                           *)
THEOREM InsertsAreClaimedOnce == Spec => []InsertsClaimedOnce
<1>1. TypeInv /\ InsertInv /\ [Next]_vars => (TypeInv /\ InsertInv)'
  BY TypeInvStep, InsertStep
<1>2. InsertInv => InsertsClaimedOnce
  <2> SUFFICES ASSUME InsertInv PROVE InsertsClaimedOnce
    OBVIOUS
  <2>1. PICK claim \in [loaded -> SUBSET table], cur \in SUBSET table : Claims(claim, cur)
    BY DEF InsertInv, ClaimsExist
  <2>2. /\ \A x \in loaded :
              /\ Cardinality(claim[x]) = x.inserted
              /\ \A t \in claim[x] : t.record \in RecordsOf(plan[x.run])
        /\ \A x, y \in loaded : x # y => claim[x] \cap claim[y] = {}
    BY <2>1 DEF Claims
  <2>. QED  BY <2>2 DEF InsertsClaimedOnce
<1>. QED  BY TypeInvInit, InsertInit, <1>1, <1>2, PTL DEF Spec

-----------------------------------------------------------------------------
(* A replay finds what it wrote before, when a MERGE sees what was         *)
(* committed before it.                                                    *)

RawAt(b)      == [kind |-> "raw", raw |-> RawOf[b]]
EvidenceAt(b) == [kind |-> "evidence", bundle |-> b]
TimedAs(k, time) == \E o \in objects : o.key = k /\ o.time = time

(* An envelope quotes the time of its raw object, a coverage row the time  *)
(* of the evidence and the count of its bundle: any attempt writes these.  *)
EvidenceHolds(k, body) ==
    k.kind = "evidence" =>
       /\ TimedAs(RawAt(k.bundle), body.landed)
       /\ body.inserted = 0 /\ body.reused = 0
CoverHolds(c) ==
    /\ c.copy = 0 /\ c.reconciled = Len(Accepted(c.bundle))
    /\ TimedAs(EvidenceAt(c.bundle), c.time)
RequestHolds(w) ==
    /\ w.op = "put" => EvidenceHolds(w.key, w.body)
    /\ w.op = "cover" => CoverHolds(w.row)

StoreReplays ==
    /\ \A o, u \in objects : o.key = u.key => o = u
    /\ \A o \in objects : EvidenceHolds(o.key, o.body)
    /\ \A c \in coverage : CoverHolds(c)
    /\ \A w \in inFlight : RequestHolds(w)

ResultsReplay ==
    /\ \A x \in landed : TimedAs(EvidenceAt(plan[x.run]), x.evidence)
    /\ \A x \in reconciled : x.count = Len(Accepted(plan[x.run]))

(* A request that was answered has left its rows.                          *)
AnsweredIsStored ==
    /\ pc = "confirm" => \A c \in loadNew : PayloadsStored(c.id) # {}
    /\ pc = "cover_confirm" => CoverageOf(Bundle) # {}

FewErrors == raised \subseteq {"conflicts", "summary_conflict"}

ReplayInv == StoreReplays /\ ResultsReplay /\ AnsweredIsStored /\ FewErrors
LoadInv == TypeInv /\ CountsInv /\ InsertInv /\ OneRowInv

LEMMA TimedKept ==
    ASSUME objects \subseteq objects', NEW k, NEW time, TimedAs(k, time)
    PROVE  TimedAs(k, time)'
BY DEF TimedAs

LEMMA HoldsKept ==
    ASSUME [Next]_vars
    PROVE  /\ \A k, body : EvidenceHolds(k, body) => EvidenceHolds(k, body)'
           /\ \A c : CoverHolds(c) => CoverHolds(c)'
           /\ \A w : RequestHolds(w) => RequestHolds(w)'
<1>1. \A k, time : TimedAs(k, time) => TimedAs(k, time)'
  BY ObjectsKept, TimedKept
<1>2. \A b : EvidenceAt(b)' = EvidenceAt(b) /\ RawAt(b)' = RawAt(b)
             /\ Len(Accepted(b))' = Len(Accepted(b))
  BY DEF EvidenceAt, RawAt, Accepted
<1>3. \A k, body : EvidenceHolds(k, body) => EvidenceHolds(k, body)'
  BY <1>1, <1>2 DEF EvidenceHolds
<1>4. \A c : CoverHolds(c) => CoverHolds(c)'
  BY <1>1, <1>2 DEF CoverHolds
<1>. QED  BY <1>3, <1>4 DEF RequestHolds

(* The coverage row that a reconciled run is about to write.               *)
LEMMA StableRowHolds ==
    ASSUME TypeInv, ReplayInv, active # 0, ResultIn(reconciled)
    PROVE  StableRow \in CoverageRow /\ CoverHolds(StableRow) /\ StableRow.bundle = Bundle
<1>1. /\ ResultIn(landed) /\ Bundle \in Bundles
      /\ ResultOf(landed) \in Landed /\ ResultOf(reconciled) \in Reconciled
  BY RunningTask
<1>2. /\ ResultOf(landed) \in landed /\ ResultOf(landed).run = active
      /\ ResultOf(reconciled) \in reconciled /\ ResultOf(reconciled).run = active
  BY <1>1, ResultChosen
<1>3. StableRow \in CoverageRow
  BY <1>1 DEF StableRow, CoverageRow, Landed, Reconciled
<1>4. /\ ResultOf(reconciled).count = Len(Accepted(Bundle))
      /\ TimedAs(EvidenceAt(Bundle), ResultOf(landed).evidence)
  BY <1>2 DEF ReplayInv, ResultsReplay, Bundle
<1>. QED  BY <1>3, <1>4 DEF StableRow, CoverHolds

(* Each key has one object, so its time is the one that is quoted.         *)
LEMMA TimeIsUnique ==
    ASSUME StoreReplays, NEW k, NEW time, TimedAs(k, time)
    PROVE  TimeOf(k) = time
<1>1. PICK o \in objects : o.key = k /\ o.time = time
  BY DEF TimedAs
<1>2. \A u \in objects : u.key = k => u = o
  BY <1>1 DEF StoreReplays
<1>. QED  BY <1>1, <1>2 DEF TimeOf

LEMMA TimeIsTimed ==
    ASSUME NEW k, \E o \in objects : o.key = k
    PROVE  TimedAs(k, TimeOf(k))
BY DEF TimedAs, TimeOf

LEMMA TaskWritesHold ==
    ASSUME TypeInv, ReplayInv, NEW w \in TaskWrites
    PROVE  RequestHolds(w)
<1>1. CASE w = Put(RawKey, NoBody)
  BY <1>1 DEF Put, RawKey, RequestHolds, EvidenceHolds
<1>2. CASE pc = "put_evidence" /\ w = Put(EvidenceKey, Envelope)
  <2>1. TimedAs(RawKey, TimeOf(RawKey))
    BY <1>2, TimeIsTimed DEF TypeInv, MemoryTyped
  <2>2. RawKey = RawAt(Bundle) /\ EvidenceKey.bundle = Bundle
    BY DEF RawKey, RawAt, EvidenceKey
  <2>3. /\ Envelope.landed = TimeOf(RawKey)
        /\ Envelope.inserted = 0 /\ Envelope.reused = 0
    BY DEF Envelope, NoBody
  <2>4. EvidenceHolds(EvidenceKey, Envelope)
    BY <2>1, <2>2, <2>3 DEF EvidenceHolds
  <2>. QED  BY <1>2, <2>4 DEF Put, RequestHolds
<1>3. CASE w = [op |-> "merge", rows |-> RowsOf(loadNew)]
  BY <1>3 DEF RequestHolds
<1>4. CASE w = Put(SummaryKey, SummaryBody)
  BY <1>4 DEF Put, SummaryKey, RequestHolds, EvidenceHolds
<1>5. CASE pc = "cover_merge" /\ w = [op |-> "cover", row |-> StableRow]
  <2>1. ResultIn(reconciled) /\ active # 0
    BY <1>5 DEF TypeInv, ClaimTypes, ResultIn
  <2>. QED  BY <1>5, <2>1, StableRowHolds DEF RequestHolds
<1>6. \/ w = Put(RawKey, NoBody)
      \/ pc = "put_evidence" /\ w = Put(EvidenceKey, Envelope)
      \/ w = [op |-> "merge", rows |-> RowsOf(loadNew)]
      \/ w = Put(SummaryKey, SummaryBody)
      \/ pc = "cover_merge" /\ w = [op |-> "cover", row |-> StableRow]
  BY DEF TaskWrites, LoadWrites, CoverageWrites
<1>. QED  BY <1>1, <1>2, <1>3, <1>4, <1>5, <1>6

(* One request, applied at once or late.                                   *)
LEMMA AppliedReplays ==
    ASSUME StoreReplays, NEW w, RequestHolds(w), Apply(w)
    PROVE  /\ \A o, u \in objects' : o.key = u.key => o = u
           /\ \A o \in objects' : EvidenceHolds(o.key, o.body)
           /\ \A c \in coverage' : CoverHolds(c)
<1>. USE DEF StoreReplays
<1>1. CASE w.op = "put"
  <2> DEFINE new == [key |-> w.key, body |-> w.body, time |-> clock + 1]
  <2>1. /\ coverage' = coverage
        /\ \/ objects' = objects
           \/ ObjectAt(w.key) = {} /\ objects' = objects \cup {new}
    BY <1>1 DEF Apply, CoverageAfter, ApplyObjects, PutIfAbsent
  <2>2. new.key = w.key /\ new.body = w.body
    OBVIOUS
  <2>. HIDE DEF new
  <2>3. EvidenceHolds(new.key, new.body)
    BY <1>1, <2>2 DEF RequestHolds
  <2>. QED  BY <2>1, <2>2, <2>3 DEF ObjectAt
<1>2. CASE w.op = "cover"
  <2> DEFINE row == w.row
             new == [bundle |-> row.bundle, reconciled |-> row.reconciled,
                     time |-> row.time, copy |-> Cardinality(CoverageOf(row.bundle))]
  <2>1. /\ objects' = objects
        /\ \/ coverage' = coverage
           \/ CoverageOf(row.bundle) = {} /\ coverage' = coverage \cup {new}
    BY <1>2 DEF Apply, CoverageAfter, ApplyObjects, MergeCoverageRow, InsertCoverage
  <2>2. CoverHolds(row)
    BY <1>2 DEF RequestHolds
  <2>3. ASSUME CoverageOf(row.bundle) = {} PROVE CoverHolds(new)
    <3>1. Cardinality(CoverageOf(row.bundle)) = 0
      BY <2>3, FS_EmptySet
    <3>. HIDE DEF row
    <3>. QED  BY <2>2, <3>1 DEF CoverHolds
  <2>. HIDE DEF row, new
  <2>. QED  BY <2>1, <2>3
<1>3. CASE w.op \notin {"put", "cover"}
  BY <1>3 DEF Apply, CoverageAfter, ApplyObjects
<1>. QED  BY <1>1, <1>2, <1>3

LEMMA StoreReplaysStep ==
    ASSUME AtomicMerge, TypeInv, ReplayInv, [Next]_vars
    PROVE  StoreReplays'
<1>1. StoreReplays /\ \A w \in inFlight \cup TaskWrites : RequestHolds(w)
  BY TaskWritesHold DEF ReplayInv, StoreReplays
<1>2. /\ \A o, u \in objects' : o.key = u.key => o = u
      /\ \A o \in objects' : EvidenceHolds(o.key, o.body)
      /\ \A c \in coverage' : CoverHolds(c)
  <2>1. CASE UNCHANGED <<table, coverage, objects, clock>>
    BY <1>1, <2>1 DEF StoreReplays
  <2>2. CASE \E w \in inFlight \cup TaskWrites : Applied(w)
    <3>1. PICK w \in inFlight \cup TaskWrites : Apply(w)
      BY <2>2 DEF Applied
    <3>2. RequestHolds(w)
      BY <1>1
    <3>. QED  BY <1>1, <3>1, <3>2, AppliedReplays
  <2>. QED  BY <2>1, <2>2, StoreEffect
<1>3. \A w \in inFlight' : RequestHolds(w)
  BY <1>1, StoreEffect
<1>. QED  BY <1>2, <1>3, HoldsKept DEF StoreReplays

LEMMA ResultsReplayStep ==
    ASSUME TypeInv, ReplayInv, [Next]_vars
    PROVE  ResultsReplay'
<1>1. ResultsReplay /\ ClaimTypes /\ ResultsTyped
  BY DEF ReplayInv, TypeInv
<1>2. \A d \in 1..Len(plan) : plan'[d] = plan[d]
  BY <1>1, PlanKept
<1>3. \A k, time : TimedAs(k, time) => TimedAs(k, time)'
  BY ObjectsKept, TimedKept
<1>4. \A b : EvidenceAt(b)' = EvidenceAt(b) /\ Len(Accepted(b))' = Len(Accepted(b))
  BY DEF EvidenceAt, Accepted
<1>5. ASSUME NEW x \in landed'
      PROVE  TimedAs(EvidenceAt(plan[x.run]), x.evidence)'
  <2>1. CASE x \in landed
    <3>1. x.run \in 1..Len(plan) /\ TimedAs(EvidenceAt(plan[x.run]), x.evidence)
      BY <1>1, <2>1 DEF ResultsReplay, ResultsTyped
    <3>2. TimedAs(EvidenceAt(plan[x.run]), x.evidence)
            => \E o \in objects' : o.key = EvidenceAt(plan[x.run]) /\ o.time = x.evidence
      BY ObjectsKept DEF TimedAs
    <3>. QED  BY <1>2, <3>1, <3>2 DEF TimedAs, EvidenceAt
  <2>2. CASE x \notin landed
    <3>1. PutEvidence
      BY <2>2, ResultsFrame
    <3>2. active \in 1..Len(plan) /\ plan' = plan
      BY <1>1, <3>1 DEF PutEvidence, planVars, TypeInv, MemoryTyped, ClaimTypes
    <3>3. x.run = active /\ x.evidence = (CHOOSE o \in objects' : o.key = EvidenceKey).time
      BY <2>2, <3>1 DEF PutEvidence
    <3>4. \E o \in objects' : o.key = EvidenceKey
      BY <3>1, PutLeavesObject DEF PutEvidence
    <3>5. \E o \in objects' : o.key = EvidenceKey /\ o.time = x.evidence
      BY <3>3, <3>4
    <3>6. EvidenceAt(plan[x.run])' = EvidenceKey
      BY <3>2, <3>3 DEF EvidenceAt, EvidenceKey, Bundle
    <3>. QED  BY <3>5, <3>6 DEF TimedAs
  <2>. QED  BY <2>1, <2>2
<1>6. ASSUME NEW x \in reconciled'
      PROVE  x.count = Len(Accepted(plan[x.run]))'
  <2>1. CASE x \in reconciled
    <3>1. x.run \in 1..Len(plan) /\ x.count = Len(Accepted(plan[x.run]))
      BY <1>1, <2>1 DEF ResultsReplay, ClaimTypes
    <3>. QED  BY <1>2, <3>1 DEF Accepted
  <2>2. CASE x \notin reconciled
    <3>1. Reconcile
      BY <2>2, ResultsFrame
    <3>2. active \in 1..Len(plan) /\ plan' = plan
      BY <1>1, <3>1 DEF Reconcile, ReadyToReconcile, planVars, ClaimTypes
    <3>3. x.run = active /\ x.count = ResultOf(loaded).inserted + ResultOf(loaded).reused
      BY <2>2, <3>1 DEF Reconcile
    <3>4. x.count = Len(Lines)
      BY <3>1, <3>3 DEF Reconcile, Balanced
    <3>. QED  BY <3>2, <3>3, <3>4 DEF Lines, Bundle, Accepted
  <2>. QED  BY <2>1, <2>2
<1>. QED  BY <1>5, <1>6 DEF ResultsReplay

LEMMA PayloadsKept ==
    ASSUME table \subseteq table', NEW id, PayloadsStored(id) # {}
    PROVE  PayloadsStored(id)' # {}
BY DEF PayloadsStored

(* An INSERT leaves a row of each record, and the coverage MERGE one of    *)
(* its bundle.                                                             *)
LEMMA InsertLeaves ==
    ASSUME NEW R, NEW r \in R
    PROVE  \E t \in Insert(R) : t.record = r.record
<1> DEFINE New(u) == [record |-> u.record, bundle |-> u.bundle, time |-> u.time,
                      copy |-> Cardinality({s \in table : s.record = u.record})]
<1>1. Insert(R) = table \cup {New(u) : u \in R}
  BY Zenon DEF Insert
<1>2. New(r).record = r.record
  OBVIOUS
<1>. HIDE DEF New
<1>. QED  BY <1>1, <1>2

LEMMA CoverageMergeLeaves ==
    ASSUME NEW row
    PROVE  \E c \in MergeCoverageRow(row) : c.bundle = row.bundle
<1>1. CASE CoverageOf(row.bundle) # {}
  BY <1>1 DEF MergeCoverageRow, CoverageOf
<1>2. CASE CoverageOf(row.bundle) = {}
  <2> DEFINE new == [bundle |-> row.bundle, reconciled |-> row.reconciled,
                     time |-> row.time, copy |-> Cardinality(CoverageOf(row.bundle))]
  <2>1. MergeCoverageRow(row) = coverage \cup {new} /\ new.bundle = row.bundle
    BY <1>2 DEF MergeCoverageRow, InsertCoverage
  <2>. HIDE DEF new
  <2>. QED  BY <2>1
<1>. QED  BY <1>1, <1>2

LEMMA AnsweredStep ==
    ASSUME AtomicMerge, TypeInv, ReplayInv, [Next]_vars
    PROVE  AnsweredIsStored'
<1>1. AnsweredIsStored /\ ClaimTypes
  BY DEF ReplayInv, TypeInv
<1>2. ASSUME pc' = "confirm", NEW c \in loadNew' PROVE PayloadsStored(c.id)' # {}
  <2>1. CASE MergeChunk
    <3>1. table' = Merge(RowsOf(loadNew)) /\ loadNew' = loadNew
      BY <2>1 DEF MergeChunk, Perform, Apply, TableAfter
    <3>2. CASE PayloadsStored(c.id) # {}
      <4>1. table \subseteq table'
        BY <1>1, StoreOfNext
      <4>. QED  BY <3>2, <4>1, PayloadsKept
    <3>3. CASE PayloadsStored(c.id) = {}
      <4> DEFINE r == [record |-> c, bundle |-> Bundle,
                       time |-> ResultOf(landed).raw, copy |-> 0]
      <4>1. r \in RowsOf(loadNew) /\ r.record = c
        BY <3>1 DEF RowsOf
      <4> HIDE DEF r
      <4>2. r \in {u \in RowsOf(loadNew) : PayloadsStored(u.record.id) = {}}
        BY <3>3, <4>1
      <4>3. \E t \in table' : t.record = c
        BY <3>1, <4>1, <4>2, InsertLeaves DEF Merge
      <4>. QED  BY <4>3 DEF PayloadsStored
    <3>. QED  BY <3>2, <3>3
  <2>2. CASE Waits
    <3>1. pc = "confirm" /\ loadNew' = loadNew
      BY <1>2, <2>2 DEF Waits, loadVars, loadLocal
    <3>2. table \subseteq table'
      BY <1>1, StoreOfNext
    <3>. QED  BY <1>1, <1>2, <3>1, <3>2, PayloadsKept DEF AnsweredIsStored
  <2>. QED  BY <1>2, <2>1, <2>2, PhaseOfNext
<1>3. ASSUME pc' = "cover_confirm" PROVE CoverageOf(Bundle)' # {}
  <2>1. Bundle' = Bundle
    BY <1>3, PhaseOfNext, SameLines
  <2>2. CASE MergeCoverage
    <3>1. coverage' = MergeCoverageRow(StableRow) /\ StableRow.bundle = Bundle
      BY <2>2 DEF MergeCoverage, Perform, Apply, CoverageAfter, StableRow
    <3>2. \E c \in coverage' : c.bundle = Bundle
      BY <3>1, CoverageMergeLeaves
    <3>. QED  BY <2>1, <3>2 DEF CoverageOf
  <2>3. CASE Waits
    <3>1. pc = "cover_confirm"
      BY <1>3, <2>3 DEF Waits, loadVars
    <3>2. coverage \subseteq coverage'
      <4>1. ASSUME NEW w, Apply(w) PROVE coverage \subseteq coverage'
        BY <4>1 DEF Apply, CoverageAfter, MergeCoverageRow, InsertCoverage
      <4>. QED  BY <4>1, StoreEffect DEF Applied
    <3>. QED  BY <1>1, <2>1, <3>1, <3>2 DEF AnsweredIsStored, CoverageOf
  <2>. QED  BY <1>3, <2>2, <2>3, PhaseOfNext
<1>. QED  BY <1>2, <1>3 DEF AnsweredIsStored

-----------------------------------------------------------------------------
(* Two coverage rows of one bundle that hold are the same row.             *)
LEMMA OneCoverageRow ==
    ASSUME StoreReplays, NEW c \in CoverageRow, NEW d \in CoverageRow,
           c.bundle = d.bundle, CoverHolds(c), CoverHolds(d)
    PROVE  c = d
<1>1. TimeOf(EvidenceAt(c.bundle)) = c.time /\ TimeOf(EvidenceAt(d.bundle)) = d.time
  BY TimeIsUnique DEF CoverHolds
<1>2. c.time = d.time /\ c.copy = d.copy /\ c.reconciled = d.reconciled
  BY <1>1 DEF CoverHolds
<1>. QED  BY <1>2 DEF CoverageRow

LEMMA NoEvidenceConflict ==
    ASSUME TypeInv, ReplayInv, NEW o \in ObjectAt(EvidenceKey)
    PROVE  o.body = Envelope
<1>1. o \in objects /\ o.key = EvidenceKey /\ StoreReplays
  BY DEF ObjectAt, ReplayInv
<1>2. EvidenceHolds(EvidenceKey, o.body)
  BY <1>1 DEF StoreReplays
<1>3. /\ TimedAs(RawAt(Bundle), o.body.landed)
      /\ o.body.inserted = 0 /\ o.body.reused = 0
  BY <1>2 DEF EvidenceHolds, EvidenceKey
<1>4. TimeOf(RawKey) = o.body.landed
  <2>1. RawKey = RawAt(Bundle)
    BY DEF RawKey, RawAt
  <2>. QED  BY <1>1, <1>3, <2>1, TimeIsUnique
<1>5. o.body \in Body
  BY <1>1 DEF TypeInv, StoreTyped, StoreTypeOK, Object
<1>. QED  BY <1>3, <1>4, <1>5 DEF Envelope, NoBody, Body

LEMMA NoCoverageConflict ==
    ASSUME TypeInv, ReplayInv, active # 0, ResultIn(reconciled), CoverageOf(Bundle) # {}
    PROVE  SamePayload
<1>1. PICK c \in CoverageOf(Bundle) : TRUE
  OBVIOUS
<1>2. ASSUME NEW d \in CoverageOf(Bundle)
      PROVE  d \in CoverageRow /\ d.bundle = Bundle /\ CoverHolds(d)
  BY DEF CoverageOf, TypeInv, StoreTyped, StoreTypeOK, ReplayInv, StoreReplays
<1>3. StoreReplays
  BY DEF ReplayInv
<1>4. StableRow \in CoverageRow /\ CoverHolds(StableRow) /\ StableRow.bundle = Bundle
  BY StableRowHolds
<1>5. c = StableRow /\ \A d \in CoverageOf(Bundle) : d = c
  BY <1>2, <1>3, <1>4, OneCoverageRow
<1>6. [c EXCEPT !.copy = 0] = c
  BY <1>2 DEF CoverageRow, CoverHolds
<1>. QED  BY <1>5, <1>6 DEF SamePayload

(* The rows a MERGE reports are read back, as one row per identity is.     *)
LEMMA NoRefusal ==
    ASSUME LoadInv, ReplayInv, RefuseChunk
    PROVE  Refusal = {}
<1>1. OneRowPerIdentity
  BY DEF LoadInv, OneRowInv
<1>2. \A S : ~ DuplicateRows(S)
  BY <1>1 DEF DuplicateRows, OneRowPerIdentity
<1>3. CASE pc = "check"
  BY <1>2, <1>3 DEF Refusal
<1>4. CASE pc = "confirm"
  <2>1. \A c \in loadNew : PayloadsStored(c.id) # {}
    BY <1>4 DEF ReplayInv, AnsweredIsStored
  <2>2. ~ (loadCount > Cardinality(Replays(loadNew)))
    <3>1. active # 0 /\ loadDone <= Len(Lines) /\ loadNew \subseteq {Lines[i] : i \in Chunk}
      BY <1>4 DEF LoadInv, TypeInv, ClaimTypes, Loading
    <3>2. IsFiniteSet(Chunk)
      BY <3>1, ChunkFacts DEF LoadInv, TypeInv
    <3>3. Replays(loadNew) \subseteq {Lines[i] : i \in Chunk}
      BY <3>1 DEF Replays
    <3>4. IsFiniteSet(Replays(loadNew)) /\ Cardinality(Replays(loadNew)) \in Nat
      BY <3>2, <3>3, RecordsAndLines
    <3>5. CASE loadCount = Omitted
      BY <3>4, <3>5 DEF Omitted
    <3>6. CASE loadCount # Omitted
      <4>1. PICK D \in SUBSET table :
                Cardinality(D) = loadCount /\ \A t \in D : t.record \in loadNew
        BY <1>4, <3>6 DEF LoadInv, InsertInv, MergeCounted
      <4> DEFINE T == Replays(loadNew)
                 row == [c \in T |-> CHOOSE t \in table : t.record = c]
                 all == {row[c] : c \in T}
      <4>2. ASSUME NEW t \in D PROVE t.record \in T /\ t = row[t.record]
        <5>1. t \in table /\ t.record \in loadNew
          BY <4>1
        <5>2. \A u \in table : u.record.id = t.record.id => u = t
          BY <1>1, <5>1 DEF OneRowPerIdentity
        <5>3. PayloadsStored(t.record.id) = {t.record.payload}
          BY <5>1, <5>2 DEF PayloadsStored
        <5>4. t.record \in T
          BY <5>1, <5>3 DEF Replays
        <5>5. (CHOOSE u \in table : u.record = t.record) = t
          BY <5>1, <5>2
        <5>. QED  BY <5>4, <5>5
      <4>3. D \subseteq all
        BY <4>2
      <4>. HIDE DEF row, T
      <4>4. IsFiniteSet(all) /\ Cardinality(all) \in Nat /\ Cardinality(all) <= Cardinality(T)
        BY <3>4, ImageOfFinite DEF T
      <4>. HIDE DEF all
      <4>5. Cardinality(D) <= Cardinality(all) /\ Cardinality(D) \in Nat
        BY <4>3, <4>4, FS_Subset, FS_CardinalityType
      <4>. QED  BY <3>4, <4>1, <4>4, <4>5 DEF T
    <3>. QED  BY <3>5, <3>6
  <2>. QED  BY <1>2, <1>4, <2>1, <2>2 DEF Refusal
<1>. QED  BY <1>3, <1>4 DEF RefuseChunk

LEMMA FewErrorsStep ==
    ASSUME LoadInv, ReplayInv, [Next]_vars
    PROVE  FewErrors'
<1>1. FewErrors /\ TypeInv /\ ClaimTypes
  BY DEF ReplayInv, LoadInv, TypeInv
<1>2. ~ (\E o \in ObjectAt(EvidenceKey) : o.body # Envelope)
  BY <1>1, NoEvidenceConflict
<1>3. ~ (RefuseChunk /\ \E error \in Refusal : raised' = raised \cup {error})
  BY NoRefusal
<1>4. RefuseReconciliation => ResultOf(loaded).conflicts # 0
  <2> SUFFICES ASSUME RefuseReconciliation, ResultOf(loaded).conflicts = 0 PROVE FALSE
    OBVIOUS
  <2>1. active # 0 /\ ResultIn(loaded)
    BY DEF RefuseReconciliation, ReadyToReconcile
  <2> DEFINE x == ResultOf(loaded)
  <2>2. x \in loaded /\ x.run = active /\ x \in Loaded
    BY <1>1, <2>1, ResultChosen, RunningTask
  <2>3. x.inserted + x.reused + x.conflicts = Len(Lines)
    BY <2>2 DEF LoadInv, CountsInv, Lines, Bundle
  <2>4. x.inserted + x.reused # Len(Lines)
    BY DEF RefuseReconciliation, Balanced
  <2>5. x.inserted \in Nat /\ x.reused \in Nat /\ x.conflicts = 0
    BY <2>2 DEF Loaded
  <2>. HIDE DEF x
  <2>. QED  BY <2>3, <2>4, <2>5
<1>5. ~ (((LookUpCoverage /\ CoverageOf(Bundle) # {}) \/ ConfirmCoverage) /\ RefuseCoverage)
  <2>1. ASSUME (LookUpCoverage /\ CoverageOf(Bundle) # {}) \/ ConfirmCoverage
        PROVE  active # 0 /\ ResultIn(reconciled) /\ CoverageOf(Bundle) # {}
    <3>1. CASE LookUpCoverage /\ CoverageOf(Bundle) # {}
      BY <3>1 DEF LookUpCoverage, ReadyToCover
    <3>2. CASE ConfirmCoverage
      BY <1>1, <3>2 DEF ConfirmCoverage, ClaimTypes, ResultIn, ReplayInv, AnsweredIsStored
    <3>. QED  BY <2>1, <3>1, <3>2
  <2>. QED  BY <1>1, <2>1, NoCoverageConflict DEF RefuseCoverage
<1>. QED  BY <1>1, <1>2, <1>3, <1>4, <1>5, RaisedOfNext DEF FewErrors

LEMMA LoadInvStep ==
    ASSUME AtomicMerge, LoadInv, [Next]_vars
    PROVE  LoadInv'
BY TypeInvStep, CountsStep, InsertStep, OneRowStep DEF LoadInv

LEMMA LoadInvInit == Init => LoadInv /\ ReplayInv
<1> SUFFICES ASSUME Init PROVE LoadInv /\ ReplayInv
  OBVIOUS
<1>. USE DEF Init, StoreInit, LoadInit, CoverageInit, NoProgress
<1>1. OneRowInv
  BY DEF OneRowInv, OneRowPerIdentity, OnePayload
<1>2. ReplayInv
  BY DEF ReplayInv, StoreReplays, ResultsReplay, AnsweredIsStored, FewErrors
<1>. QED  BY <1>1, <1>2, TypeInvInit, CountsInit, InsertInit DEF LoadInv

LEMMA ReplayStep ==
    ASSUME AtomicMerge, LoadInv, ReplayInv, [Next]_vars
    PROVE  ReplayInv'
BY StoreReplaysStep, ResultsReplayStep, AnsweredStep, FewErrorsStep DEF LoadInv, ReplayInv

(* What every attempt of a task would write again is what is there.        *)
THEOREM ReplayInvariant == ASSUME AtomicMerge PROVE Spec => [](LoadInv /\ ReplayInv)
<1>1. LoadInv /\ ReplayInv /\ [Next]_vars => (LoadInv /\ ReplayInv)'
  BY LoadInvStep, ReplayStep
<1>. QED  BY LoadInvInit, <1>1, PTL DEF Spec

(* However tasks fail, are retried or cleared: put_immutable never finds   *)
(* other evidence than it would write, load_records never meets duplicate  *)
(* or missing rows nor an updateCount it cannot explain, its counts never  *)
(* fail to balance, and the coverage publisher never finds another row     *)
(* than its own.  What is left is a contradiction between bundles, and the *)
(* reconciliation summary of a cleared run.                                *)
RefusalsAreFew == raised \subseteq {"conflicts", "summary_conflict"}

THEOREM RetriesAreAccepted == ASSUME AtomicMerge PROVE Spec => []RefusalsAreFew
<1>1. ReplayInv => RefusalsAreFew
  BY DEF ReplayInv, FewErrors, RefusalsAreFew
<1>. QED  BY ReplayInvariant, <1>1, PTL

(* A bundle has one coverage row, though batch_run_coverage has no key, a  *)
(* cleared run publishes again and a late MERGE may follow the next one.   *)
CoverageDeclaredOnce == \A c, d \in coverage : c.bundle = d.bundle => c = d

THEOREM OneCoverageRowPerBundle == ASSUME AtomicMerge PROVE Spec => []CoverageDeclaredOnce
<1>1. LoadInv /\ ReplayInv => CoverageDeclaredOnce
  <2> SUFFICES ASSUME LoadInv, ReplayInv, NEW c \in coverage, NEW d \in coverage,
                      c.bundle = d.bundle
               PROVE  c = d
    BY DEF CoverageDeclaredOnce
  <2>1. StoreReplays /\ c \in CoverageRow /\ d \in CoverageRow
    BY DEF LoadInv, TypeInv, StoreTyped, StoreTypeOK, ReplayInv
  <2>2. CoverHolds(c) /\ CoverHolds(d)
    BY <2>1 DEF StoreReplays
  <2>. QED  BY <2>1, <2>2, OneCoverageRow
<1>. QED  BY ReplayInvariant, <1>1, PTL

-----------------------------------------------------------------------------
(* Without cleared tasks, a run quotes the counts of its one load.         *)

SummaryHolds(k, body) ==
    k.kind = "summary" =>
       \E x \in loaded : /\ x.run = k.run
                         /\ body = [landed |-> 0, inserted |-> x.inserted,
                                    reused |-> x.reused]

SummaryInv ==
    /\ \A o \in objects : SummaryHolds(o.key, o.body)
    /\ \A w \in inFlight : w.op = "put" => SummaryHolds(w.key, w.body)
    /\ "summary_conflict" \notin raised

LEMMA LoadedKept ==
    ASSUME MaxClears = 0, TypeInv, [Next]_vars
    PROVE  loaded \subseteq loaded'
<1>1. \A d \in 1..Len(plan) : ~ Clear(d)
  BY DEF Clear, TypeInv, ResultsTyped
<1>2. FinishLoad => loaded \subseteq loaded'
  BY DEF FinishLoad
<1>3. (LoadNext /\ ~ FinishLoad) \/ CoverageNext \/ TaskFails \/ UNCHANGED loadVars
        \/ (\E b \in Bundles : Trigger(b))
      => loaded' = loaded
  BY DEF LoadNext, PutRaw, PutEvidence, StartLoad, CheckChunk, MergeChunk, ConfirmChunk,
         RefuseChunk, CoverageNext, Reconcile, RefuseReconciliation, LookUpCoverage,
         MergeCoverage, ConfirmCoverage, TaskFails, loadVars, Trigger
<1>. QED  BY <1>1, <1>2, <1>3 DEF Next, Tasks, vars

LEMMA TaskSummaries ==
    ASSUME TypeInv, NEW w \in TaskWrites, w.op = "put"
    PROVE  SummaryHolds(w.key, w.body)
<1>1. CASE w = Put(RawKey, NoBody) \/ w = Put(EvidenceKey, Envelope)
  BY <1>1 DEF Put, RawKey, EvidenceKey, SummaryHolds
<1>2. CASE ReadyToReconcile /\ w = Put(SummaryKey, SummaryBody)
  <2>1. ResultOf(loaded) \in loaded /\ ResultOf(loaded).run = active
    BY <1>2, ResultChosen DEF ReadyToReconcile
  <2>2. SummaryHolds(SummaryKey, SummaryBody)
    BY <2>1 DEF SummaryHolds, SummaryKey, SummaryBody
  <2>. QED  BY <1>2, <2>2 DEF Put
<1>3. \/ w = Put(RawKey, NoBody) \/ w = Put(EvidenceKey, Envelope)
      \/ w = [op |-> "merge", rows |-> RowsOf(loadNew)]
      \/ ReadyToReconcile /\ w = Put(SummaryKey, SummaryBody)
      \/ w = [op |-> "cover", row |-> StableRow]
  BY DEF TaskWrites, LoadWrites, CoverageWrites
<1>. QED  BY <1>1, <1>2, <1>3

LEMMA SummaryStep ==
    ASSUME MaxClears = 0, TypeInv, CountsInv, SummaryInv, [Next]_vars
    PROVE  SummaryInv'
<1>1. \A w \in inFlight \cup TaskWrites : w.op = "put" => SummaryHolds(w.key, w.body)
  BY TaskSummaries DEF SummaryInv
<1>2. \A k, body : SummaryHolds(k, body) => SummaryHolds(k, body)'
  BY LoadedKept DEF SummaryHolds
<1>3. \A o \in objects' : SummaryHolds(o.key, o.body)
  <2>1. ASSUME NEW w \in inFlight \cup TaskWrites, Applied(w), NEW o \in objects'
        PROVE  o \in objects \/ (w.op = "put" /\ o.key = w.key /\ o.body = w.body)
    <3>1. CASE w.op = "put"
      BY <2>1, <3>1, EffectOf DEF PutIfAbsent
    <3>2. CASE w.op # "put"
      BY <2>1, <3>2, EffectOf
    <3>. QED  BY <3>1, <3>2
  <2>. QED  BY <1>1, <2>1, StoreEffect DEF SummaryInv
<1>4. \A w \in inFlight' : w.op = "put" => SummaryHolds(w.key, w.body)
  BY <1>1, StoreEffect
<1>5. "summary_conflict" \notin raised'
  <2>1. ASSUME Reconcile, NEW o \in ObjectAt(SummaryKey) PROVE o.body = SummaryBody
    <3>1. o \in objects /\ o.key = SummaryKey
      BY DEF ObjectAt
    <3>2. PICK x \in loaded : /\ x.run = active
                              /\ o.body = [landed |-> 0, inserted |-> x.inserted,
                                           reused |-> x.reused]
      BY <3>1 DEF SummaryInv, SummaryHolds, SummaryKey
    <3>3. ResultOf(loaded) \in loaded /\ ResultOf(loaded).run = active
      BY <2>1, ResultChosen DEF Reconcile, ReadyToReconcile
    <3>4. x = ResultOf(loaded)
      BY <3>2, <3>3 DEF CountsInv
    <3>. QED  BY <3>2, <3>4 DEF SummaryBody
  <2>2. "summary_conflict" \notin Refusal
    BY DEF Refusal
  <2>. QED  BY <2>1, <2>2, RaisedOfNext DEF SummaryInv
<1>. QED  BY <1>2, <1>3, <1>4, <1>5 DEF SummaryInv

LEMMA SummaryInit == Init => SummaryInv
BY DEF Init, StoreInit, LoadInit, SummaryInv

(* The summary of reconcile_run agrees with what an earlier attempt of the *)
(* run has written, as long as no finished task is cleared: its counts are *)
(* those of the load, and a load is repeated only when cleared.            *)
THEOREM SummariesAgree ==
    ASSUME MaxClears = 0 PROVE Spec => []ReconciliationReplaysSafely
<1>1. TypeInv /\ CountsInv /\ SummaryInv /\ [Next]_vars
        => (TypeInv /\ CountsInv /\ SummaryInv)'
  BY TypeInvStep, CountsStep, SummaryStep
<1>2. SummaryInv => ReconciliationReplaysSafely
  BY DEF SummaryInv, ReconciliationReplaysSafely
<1>. QED  BY TypeInvInit, CountsInit, SummaryInit, <1>1, <1>2, PTL DEF Spec

(* Whatever was interrupted, repeated by its retry and applied late, the   *)
(* tasks of ingestion refuse a bundle only when bundles contradict each    *)
(* other: none of their defensive checks takes a replay for a conflict.    *)
THEOREM ReplaysAreAccepted ==
    ASSUME AtomicMerge, MaxClears = 0 PROVE Spec => []ReplaysAreNotConflicts
<1>1. /\ RefusalsAreFew /\ ConflictsAreReal /\ ReconciliationReplaysSafely
      => ReplaysAreNotConflicts
  BY DEF RefusalsAreFew, ConflictsAreReal, ReconciliationReplaysSafely,
         ReplaysAreNotConflicts, Contradiction
<1>. QED  BY RetriesAreAccepted, OnlyContradictionsConflict, SummariesAgree, <1>1, PTL
=============================================================================
