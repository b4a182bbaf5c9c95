---------------------------- MODULE ServingProofs ---------------------------
(***************************************************************************)
(* Machine-checked proofs about ServingSystem.  With damage and late       *)
(* writes: types, the id a task reports (CertifiedInv), and how versions   *)
(* become visible (WholeInv).  With damage only: what changes a version    *)
(* (ApartInv).  Without both: every visible version is complete (ReadyInv).*)
(***************************************************************************)
EXTENDS ServingSystem, FiniteSetTheorems, WellFoundedInduction, TLAPS

(* The instance is finite: two key sets and contents.                      *)
LEMMA RowFinite == IsFiniteSet(Row) /\ \A S \in SUBSET Row : IsFiniteSet(S) /\ Cardinality(S) \in Nat
<1>1. IsFiniteSet(Row)
  BY ServingConstants, FS_Product DEF Row
<1>2. ASSUME NEW S \in SUBSET Row PROVE IsFiniteSet(S) /\ Cardinality(S) \in Nat
  BY <1>1, FS_Subset, FS_CardinalityType
<1>. QED  BY <1>1, <1>2

(* Any set of keys is finite, so its size is a number.                     *)
LEMMA KeysFinite == \A S \in SUBSET Keys : IsFiniteSet(S) /\ Cardinality(S) \in Nat
BY ServingConstants, FS_Subset, FS_CardinalityType

(* The plan of a load: its parts are sets of keys of the source or base.   *)
LEMMA PlanTypes ==
    ASSUME NEW src \in SUBSET Row, NEW base \in SUBSET Row
    PROVE  /\ InsertedRows(src, base) \in SUBSET Row
           /\ UpdatedRows(src, base) \in SUBSET Row
           /\ UnchangedRows(src, base) \in SUBSET Row
           /\ ReplacementRows(src, base) \in SUBSET Row
           /\ DeletedKeys(src, base) \in SUBSET Keys
           /\ KeysToRemoveFromClone(src, base) \in SUBSET Keys
<1>1. \A S \in SUBSET Row : KeysOf(S) \in SUBSET Keys
  BY DEF KeysOf, Row
<1>2. InsertedRows(src, base) \in SUBSET Row
  BY DEF InsertedRows
<1>3. UpdatedRows(src, base) \in SUBSET Row
  BY DEF UpdatedRows
<1>4. UnchangedRows(src, base) \in SUBSET Row
  BY DEF UnchangedRows
<1>. QED  BY <1>1, <1>2, <1>3, <1>4 DEF ReplacementRows, DeletedKeys, KeysToRemoveFromClone

-----------------------------------------------------------------------------
(* Applying a write keeps the tables well typed.                           *)
LEMMA ApplyTyped ==
    ASSUME NEW w \in Write, Apply(w), rows \in [Attempts -> Content],
           summaries \subseteq Summary, markers \subseteq Marker
    PROVE  /\ rows' \in [Attempts -> Content]
           /\ summaries' \subseteq Summary
           /\ markers' \subseteq Marker
<1>1. CASE w.op = "clone"
  BY <1>1 DEF Write, Apply, RowsAfter, SummariesAfter, MarkersAfter, Content
<1>2. CASE w.op = "delete_keys"
  BY <1>2 DEF Write, Apply, RowsAfter, SummariesAfter, MarkersAfter, Content
<1>3. CASE w.op = "insert_rows"
  BY <1>3 DEF Write, Apply, RowsAfter, SummariesAfter, MarkersAfter, Content
<1>4. CASE w.op = "insert_summaries"
  BY <1>4 DEF Write, Apply, RowsAfter, SummariesAfter, MarkersAfter
<1>5. CASE w.op = "insert_marker"
  BY <1>5 DEF Write, Apply, RowsAfter, SummariesAfter, MarkersAfter
<1>6. CASE w.op = "delete_markers"
  BY <1>6 DEF Write, Apply, RowsAfter, SummariesAfter, MarkersAfter
<1>7. CASE w.op = "delete_candidates"
  <2>1. rows' \in [Attempts -> Content]
    BY <1>7 DEF Apply, RowsAfter, Content
  <2>. QED  BY <2>1, <1>7 DEF Apply, SummariesAfter, MarkersAfter
<1>. QED
  BY <1>1, <1>2, <1>3, <1>4, <1>5, <1>6, <1>7 DEF Write

(* A batch of a set is a subset of it.                                     *)
LEMMA BatchesTyped ==
    ASSUME NEW S, NEW n, NEW b \in Batches(S, n)
    PROVE  b \subseteq S
BY DEF Batches

(* The audit row of a plan has numbers for its counts.                     *)
LEMMA ChangeSummaryTyped ==
    ASSUME NEW d \in Datasets, pubSource \in Content, pubBaseRows \in Content,
           pubAttempt \in Attempts, pubBase \in Attempts \cup {None}
    PROVE  ChangeSummary(d) \in Summary
<1> DEFINE src == pubSource[d]
           base == pubBaseRows[d]
<1>1. src \in SUBSET Row /\ base \in SUBSET Row
  BY DEF Content
<1>2. /\ Cardinality(src) \in Nat
      /\ Cardinality(InsertedRows(src, base)) \in Nat
      /\ Cardinality(UpdatedRows(src, base)) \in Nat
      /\ Cardinality(UnchangedRows(src, base)) \in Nat
  BY <1>1, RowFinite, PlanTypes
<1>3. Cardinality(DeletedKeys(src, base)) \in Nat
  BY <1>1, KeysFinite, PlanTypes
<1>. QED  BY <1>2, <1>3 DEF ChangeSummary, DeletedCount, Summary

(* Every write the two tasks can have outstanding is a well-formed write.  *)
LEMMA PubWritesTyped ==
    ASSUME TypeOK, LocalsTyped
    PROVE  PubWrites \subseteq Write
<1> USE DEF TypeOK, PublisherTypeOK, LocalsTyped, PublishLocals, CandidatePcs
<1>1. CASE pubPc = "clone"
  BY <1>1 DEF PubWrites, Write
<1>2. CASE pubPc = "delete_keys"
  BY <1>2, BatchesTyped DEF PubWrites, Write
<1>3. CASE pubPc = "insert_rows"
  BY <1>3, BatchesTyped DEF PubWrites, Write
<1>4. CASE pubPc = "insert_summaries"
  BY <1>4, ChangeSummaryTyped DEF PubWrites, Write
<1>5. CASE pubPc = "insert_marker"
  BY <1>5 DEF PubWrites, Write, Marker
<1>6. CASE pubPc \in {"idle", "read", "lookup", "match", "audit", "base", "read_base",
                      "validate"}
  BY <1>6 DEF PubWrites
<1>. QED  BY <1>1, <1>2, <1>3, <1>4, <1>5, <1>6 DEF PubPcs

(* The deletes of a cleanup are write requests.                            *)
LEMMA RetWritesTyped ==
    ASSUME TypeOK
    PROVE  RetWrites \subseteq Write
<1> USE DEF TypeOK, RetentionTypeOK
<1>1. CASE retPc = "delete_markers"
  BY <1>1, BatchesTyped DEF RetWrites, Write
<1>2. CASE retPc = "delete_candidates" /\ retBatch # {}
  BY <1>2 DEF RetWrites, Write, CandidateTables
<1>3. CASE ~ (retPc = "delete_markers") /\ ~ (retPc = "delete_candidates" /\ retBatch # {})
  BY <1>3 DEF RetWrites
<1>. QED  BY <1>1, <1>2, <1>3

(* Giving up on a request keeps the types.                                 *)
LEMMA GiveUpTyped ==
    ASSUME NEW possible \in SUBSET Write, GiveUp(possible), StoreTypeOK
    PROVE  StoreTypeOK'
<1>1. faults' \in 0..MaxFaults
  BY ServingConstants DEF GiveUp, StoreTypeOK
<1>2. CASE UNCHANGED <<rows, summaries, markers, inFlight>>
  BY <1>1, <1>2 DEF StoreTypeOK
<1>3. CASE \E w \in possible : Apply(w) /\ UNCHANGED inFlight
  <2>1. PICK w \in Write : Apply(w) /\ UNCHANGED inFlight
    BY <1>3
  <2>. QED  BY <1>1, <2>1, ApplyTyped DEF StoreTypeOK
<1>4. CASE (\E w \in possible : inFlight' = inFlight \cup {w})
           /\ UNCHANGED <<rows, summaries, markers>>
  BY <1>1, <1>4 DEF StoreTypeOK
<1>. QED  BY <1>2, <1>3, <1>4 DEF GiveUp

-----------------------------------------------------------------------------
(* ORDER BY ... LIMIT 1 finds a marker: publication times are naturals.    *)
LEMMA LessThan == \A u, v \in Nat : u < v => <<u, v>> \in OpToRel(<, Nat)
BY DEF OpToRel

(* A non-empty set of numbers has a least one.                             *)
LEMMA LeastNatural ==
    ASSUME NEW T \in SUBSET Nat, T # {}
    PROVE  \E t \in T : \A u \in T : t <= u
<1>1. PICK t \in T : \A u \in T : ~ (<<u, t>> \in OpToRel(<, Nat))
  BY WFMin, NatLessThanWellFounded
<1>2. ASSUME NEW u \in T PROVE t <= u
  <2>1. ~ (<<u, t>> \in OpToRel(<, Nat))
    BY <1>1
  <2>2. ~ (u < t)
    BY <2>1, LessThan
  <2>. QED  BY <2>2
<1>. QED  BY <1>2

(* A non-empty set of versions has a newest one.                           *)
LEMMA NewestIn ==
    ASSUME NEW S \in SUBSET Marker, S # {}
    PROVE  /\ Newest(S) \in S
           /\ \A n \in S : n.time <= Newest(S).time
<1> DEFINE T == {MaxAttempts - m.time : m \in S}
<1>1. T \subseteq Nat /\ T # {}
  BY ServingConstants DEF Marker, Attempts
<1>2. PICK t \in T : \A u \in T : t <= u
  BY <1>1, LeastNatural
<1>3. PICK m \in S : t = MaxAttempts - m.time
  OBVIOUS
<1>4. ASSUME NEW n \in S PROVE n.time <= m.time
  <2>1. MaxAttempts - m.time <= MaxAttempts - n.time
    BY <1>2, <1>3
  <2>2. m.time \in Nat /\ n.time \in Nat /\ MaxAttempts \in Nat
    BY ServingConstants DEF Marker, Attempts
  <2>. QED  BY <2>1, <2>2
<1>. QED  BY <1>3, <1>4 DEF Newest

-----------------------------------------------------------------------------
(* Type correctness.                                                       *)

TypeInv == TypeOK /\ LocalsTyped

(* The initial states have the types.                                      *)
LEMMA InitTyped == Init => TypeInv
<1> SUFFICES ASSUME Init PROVE TypeInv
  OBVIOUS
<1> USE ServingConstants, PublisherConstants, RetentionConstants, SystemConstants
<1>1. StoreTypeOK
  BY DEF Init, StoreInit, StoreTypeOK, Content, Empty
<1>2. PublisherTypeOK
  BY DEF Init, PublisherInit, NoLocals, PublisherTypeOK, PubPcs, Content, Empty, Datasets, None
<1>3. RetentionTypeOK
  BY DEF Init, RetentionInit, RetentionTypeOK, RetPcs, None
<1>4. ReaderTypeOK
  BY DEF Init, ReaderInit, ReaderTypeOK, Answer, NoAnswer, Requests, Datasets, None
<1>5. LocalsTyped
  BY DEF Init, PublisherInit, RetentionInit, LocalsTyped, PublishLocals,
         CleanupLocals, CandidatePcs
<1>. QED  BY <1>1, <1>2, <1>3, <1>4, <1>5 DEF Init, TypeInv, TypeOK

(* Applying a request to the store keeps the types.                        *)
LEMMA PerformTyped ==
    ASSUME NEW w \in Write, Perform(w), StoreTypeOK
    PROVE  StoreTypeOK'
BY ApplyTyped DEF Perform, StoreTypeOK

(* A task that starts or ends leaves well-typed memory behind.             *)
LEMMA EndPublishTyped ==
    ASSUME EndPublish, PublisherTypeOK, UNCHANGED <<tested, rebuilt, mart, lastAttempt>>,
           xcom' \in [Runs -> Attempts \cup {None}]
    PROVE  PublisherTypeOK' /\ PublishLocals'
BY DEF EndPublish, PublisherTypeOK, PublishLocals, PubPcs, CandidatePcs, Content,
       Empty, Datasets, None

(* Starting with the next dataset keeps the types.                         *)
LEMMA EnterDatasetTyped ==
    ASSUME NEW d \in Datasets, NEW base \in Attempts \cup {None},
           NEW baseRows \in Content, pubSource \in Content,
           EnterDataset(d, base, baseRows)
    PROVE  /\ pubDataset' \in Datasets
           /\ pubKeys' \subseteq Keys
           /\ pubRows' \subseteq Row
           /\ pubPc' \in {"clone", "insert_rows"}
           /\ pubPc' = "clone" => base \in Attempts
<1>1. pubSource[d] \in SUBSET Row /\ baseRows[d] \in SUBSET Row
  BY DEF Content
<1>. QED  BY <1>1, PlanTypes DEF EnterDataset

(* Every step of the publish task keeps the tables and its own memory      *)
(* well typed.                                                             *)
LEMMA PublisherTyped ==
    ASSUME TypeInv, PublisherNext
    PROVE  StoreTypeOK' /\ PublisherTypeOK' /\ PublishLocals'
<1> USE ServingConstants DEF TypeInv, TypeOK, LocalsTyped
<1> USE DEF taskVars, pubVars, pubLocal
<1>a. StoreTypeOK' /\ markers \subseteq Marker
  <2>1. CASE UNCHANGED storeVars
    BY <2>1 DEF storeVars, StoreTypeOK
  <2>2. CASE \E w \in PubWrites : Perform(w)
    BY <2>2, PubWritesTyped, PerformTyped DEF StoreTypeOK
  <2>3. CASE PublishFails
    BY <2>3, PubWritesTyped, GiveUpTyped DEF PublishFails, StoreTypeOK
  <2>4. \/ UNCHANGED storeVars
        \/ \E w \in PubWrites : Perform(w)
        \/ PublishFails
    BY DEF PublisherNext, PublisherStep, BuildCurrent, BuildHistory, TestMart,
       StartPublish, ReadMart, FindReady, MatchStored, ReuseReady,
       RejectReusedAudit, DrawAttempt, NothingToReuse, FindBase,
       ReadBaseCurrent, LoadIncrementally, LoadFully, NoUsableBase, CloneBase,
       DeleteKeys, KeysDeleted, InsertRows, RowsInserted, AcceptCandidate,
       RejectCandidate, InsertSummaries, InsertMarker
  <2>. QED  BY <2>1, <2>2, <2>3, <2>4
<1>1. CASE BuildCurrent \/ BuildHistory \/ TestMart
  <2>1. mart' \in Content
    BY <1>1, PublisherConstants DEF BuildCurrent, BuildHistory, TestMart,
       PublisherTypeOK, Datasets, Content
  <2>2. tested' \in 0..MaxRuns /\ rebuilt' \subseteq Datasets
    BY <1>1 DEF BuildCurrent, BuildHistory, TestMart, PublisherTypeOK, Datasets
  <2>. QED  BY <1>1, <1>a, <2>1, <2>2 DEF BuildCurrent, BuildHistory, TestMart,
            PublisherTypeOK, PublishLocals
<1>2. CASE \E r \in Runs : StartPublish(r)
  BY <1>2, <1>a DEF StartPublish, PublisherTypeOK, PublishLocals, PubPcs, CandidatePcs
<1>3. CASE ReadMart
  BY <1>3, <1>a DEF ReadMart, PublisherTypeOK, PublishLocals, PubPcs, CandidatePcs
<1>4. CASE ReuseReady
  <2>1. xcom' \in [Runs -> Attempts \cup {None}]
    BY <1>4 DEF ReuseReady, PublisherTypeOK
  <2>. QED  BY <1>4, <1>a, <2>1, EndPublishTyped DEF ReuseReady
<1>5. CASE RejectReusedAudit
  BY <1>5, <1>a, EndPublishTyped DEF RejectReusedAudit, PublisherTypeOK
<1>6. CASE FindReady \/ FindBase
  <2>1. \A S \in SUBSET markers : S # {} =>
           Newest(S).id \in Attempts /\ Newest(S).content \in Content
    BY <1>a, NewestIn DEF Marker
  <2>2. ReadySame \in SUBSET markers
    BY DEF ReadySame
  <2>3. pubBase' \in Attempts /\ pubBaseRows' \in Content /\ pubDataset' \in Datasets
    BY <1>6, <2>1, <2>2 DEF FindReady, FindBase, Take, Datasets
  <2>. QED  BY <1>6, <1>a, <2>3 DEF FindReady, FindBase, PublisherTypeOK, PublishLocals,
            PubPcs, CandidatePcs
<1>13. CASE MatchStored \/ ReadBaseCurrent
  BY <1>13, <1>a DEF MatchStored, ReadBaseCurrent, PublisherTypeOK, PublishLocals,
     PubPcs, CandidatePcs, Datasets
<1>14. CASE DrawAttempt
  <2>1. lastAttempt + 1 \in Attempts /\ lastAttempt' \in 0..MaxAttempts
    BY <1>14 DEF DrawAttempt, NothingToReuse, PublisherTypeOK, PublishLocals, Attempts
  <2>2. Empty \in Content
    BY DEF Content, Empty
  <2>3. PublisherTypeOK'
    BY <1>14, <2>1, <2>2 DEF DrawAttempt, FreshAttempt, PublisherTypeOK, PubPcs, Datasets
  <2>4. PublishLocals'
    BY <1>14, <2>1 DEF DrawAttempt, NothingToReuse, FreshAttempt, PublisherTypeOK,
       PublishLocals, CandidatePcs
  <2>. QED  BY <1>a, <2>3, <2>4
<1>15. CASE LoadIncrementally \/ LoadFully
  <2> DEFINE base == IF LoadFully THEN None ELSE pubBase
             baseRows == IF LoadFully THEN Empty ELSE pubBaseRows
  <2>1. base \in Attempts \cup {None} /\ baseRows \in Content
    BY DEF PublisherTypeOK, Content, Empty
  <2>2. /\ pubBase' = base /\ pubBaseRows' = baseRows
        /\ EnterDataset("current", base, baseRows)
    BY <1>15 DEF LoadIncrementally, LoadFully, NoUsableBase
  <2>3. pubPc \in {"base", "read_base"}
    BY <1>15 DEF LoadIncrementally, LoadFully, NoUsableBase
  <2>5. UNCHANGED <<taskVars, lastAttempt, pubRun, pubSource, pubAttempt, pubTime>>
    BY <1>15 DEF LoadIncrementally, LoadFully
  <2>. HIDE DEF base, baseRows
  <2>4. /\ pubDataset' \in Datasets /\ pubKeys' \subseteq Keys
        /\ pubRows' \subseteq Row /\ pubPc' \in {"clone", "insert_rows"}
        /\ pubPc' = "clone" => base \in Attempts
    BY <2>1, <2>2, EnterDatasetTyped DEF PublisherTypeOK, Datasets
  <2>. QED  BY <1>a, <2>1, <2>2, <2>3, <2>4, <2>5 DEF PublisherTypeOK, PublishLocals,
            PubPcs, CandidatePcs
<1>7. CASE CloneBase \/ DeleteKeys \/ KeysDeleted \/ InsertRows \/ InsertSummaries
  BY <1>7, <1>a DEF CloneBase, DeleteKeys, KeysDeleted, InsertRows, InsertSummaries,
     PublisherTypeOK, PublishLocals, PubPcs, CandidatePcs
<1>8. CASE RowsInserted
  <2>1. CASE pubDataset = "current"
    <3>1. EnterDataset("history", pubBase, pubBaseRows)
      BY <1>8, <2>1 DEF RowsInserted
    <3>2. /\ pubDataset' \in Datasets /\ pubKeys' \subseteq Keys
          /\ pubRows' \subseteq Row /\ pubPc' \in {"clone", "insert_rows"}
          /\ pubPc' = "clone" => pubBase \in Attempts
      BY <3>1, EnterDatasetTyped DEF PublisherTypeOK, Datasets
    <3>. QED  BY <1>8, <1>a, <3>2 DEF RowsInserted, PublisherTypeOK, PublishLocals,
              PubPcs, CandidatePcs
  <2>2. CASE pubDataset # "current"
    BY <1>8, <1>a, <2>2 DEF RowsInserted, PublisherTypeOK, PublishLocals, PubPcs, CandidatePcs
  <2>. QED  BY <2>1, <2>2
<1>9. CASE AcceptCandidate
  <2>1. pubTime' \in Attempts
    BY <1>9 DEF AcceptCandidate, ClockReadings, PublishLocals, CandidatePcs
  <2>. QED  BY <1>9, <1>a, <2>1 DEF AcceptCandidate, PublisherTypeOK, PublishLocals,
            PubPcs, CandidatePcs
<1>10. CASE RejectCandidate
  BY <1>10, <1>a, EndPublishTyped DEF RejectCandidate, PublisherTypeOK
<1>11. CASE InsertMarker
  <2>1. xcom' \in [Runs -> Attempts \cup {None}]
    BY <1>11 DEF InsertMarker, PublisherTypeOK
  <2>. QED  BY <1>11, <1>a, <2>1, EndPublishTyped DEF InsertMarker
<1>12. CASE PublishFails
  BY <1>12, <1>a, EndPublishTyped DEF PublishFails, PublisherTypeOK
<1>. QED  BY <1>1, <1>2, <1>3, <1>4, <1>5, <1>6, <1>7, <1>8, <1>9, <1>10, <1>11, <1>12,
             <1>13, <1>14, <1>15
          DEF PublisherNext, PublisherStep

(* Every step of the cleanup task keeps the tables and its own memory well *)
(* typed.                                                                  *)
LEMMA RetentionTyped ==
    ASSUME TypeInv, RetentionNext
    PROVE  /\ StoreTypeOK' /\ RetentionTypeOK' /\ CleanupLocals'
           /\ pool' \in {"free", "publish", "cleanup"}
           /\ UNCHANGED <<tested, rebuilt, mart, xcom, pubVars>>
<1> USE DEF TypeInv, TypeOK, LocalsTyped, taskVars, retLocal
<1>1. StoreTypeOK' /\ markers \subseteq Marker
  <2>1. CASE UNCHANGED storeVars
    BY <2>1 DEF storeVars, StoreTypeOK
  <2>2. CASE \E w \in RetWrites : Perform(w)
    BY <2>2, RetWritesTyped, PerformTyped DEF StoreTypeOK
  <2>3. CASE CleanupFails
    BY <2>3, RetWritesTyped, GiveUpTyped DEF CleanupFails, StoreTypeOK
  <2>4. \/ UNCHANGED storeVars
        \/ \E w \in RetWrites : Perform(w)
        \/ CleanupFails
    BY DEF RetentionNext, RetentionStep, StartCleanup, ListReady,
           RefuseUnprotected, NothingToRemove, PlanDeletion, DeleteMarkers,
           MarkersDeleted, ConfirmMarkers, RefuseMarkers, NextDeleteBatch,
           DeleteCandidates, CandidatesDeleted, ConfirmRemoved, RefuseLeftovers
  <2>. QED  BY <2>1, <2>2, <2>3, <2>4
<1>2. ASSUME EndCleanup, cleaned' \subseteq Runs
      PROVE  /\ RetentionTypeOK' /\ CleanupLocals'
             /\ pool' \in {"free", "publish", "cleanup"}
             /\ UNCHANGED <<tested, rebuilt, mart, xcom, pubVars>>
  BY <1>2 DEF EndCleanup, RetentionTypeOK, CleanupLocals, RetPcs, None
<1>3. CASE \E r \in Runs : StartCleanup(r)
  BY <1>1, <1>3 DEF StartCleanup, RetentionTypeOK, CleanupLocals, RetPcs
<1>4. CASE ListReady
  <2>1. MarkerIds \subseteq Attempts /\ {m.id : m \in NewestFirst(markers, Keep)} \subseteq Attempts
    BY <1>1 DEF MarkerIds, NewestFirst, Marker
  <2>. QED  BY <1>1, <1>4, <2>1 DEF ListReady, RetentionTypeOK, CleanupLocals, RetPcs, PublisherTypeOK
<1>5. CASE NothingToRemove \/ ConfirmRemoved
  <2>1. cleaned' \subseteq Runs
    BY <1>5 DEF NothingToRemove, ConfirmRemoved, CleanupSucceeds, RetentionTypeOK, CleanupLocals
  <2>. QED  BY <1>1, <1>2, <1>5, <2>1 DEF NothingToRemove, ConfirmRemoved, CleanupSucceeds
<1>6. CASE RefuseUnprotected \/ RefuseMarkers \/ RefuseLeftovers \/ CleanupFails
  BY <1>1, <1>2, <1>6 DEF RefuseUnprotected, RefuseMarkers, RefuseLeftovers, CleanupFails,
     CleanupAborts, RetentionTypeOK
<1>7. CASE PlanDeletion
  <2>1. RetiredIds \subseteq Attempts /\ PlannedTargets \subseteq Attempts
    BY DEF RetiredIds, PlannedTargets, CandidateIds, RetentionTypeOK
  <2>. QED  BY <1>1, <1>7, <2>1 DEF PlanDeletion, RetentionTypeOK, CleanupLocals, RetPcs, PublisherTypeOK
<1>8. CASE DeleteMarkers \/ MarkersDeleted \/ ConfirmMarkers \/ CandidatesDeleted
  BY <1>1, <1>8 DEF DeleteMarkers, MarkersDeleted, ConfirmMarkers, CandidatesDeleted,
     RetentionTypeOK, CleanupLocals, RetPcs, PublisherTypeOK
<1>9. CASE NextDeleteBatch
  <2>1. retBatch' \subseteq Attempts /\ retTodo' \subseteq Attempts
    BY <1>9, BatchesTyped DEF NextDeleteBatch, RetentionTypeOK
  <2>. QED  BY <1>1, <1>9, <2>1 DEF NextDeleteBatch, RetentionTypeOK, CleanupLocals, PublisherTypeOK
<1>10. CASE DeleteCandidates
  BY <1>1, <1>10 DEF DeleteCandidates, RetentionTypeOK, CleanupLocals, PublisherTypeOK
<1>. QED  BY <1>3, <1>4, <1>5, <1>6, <1>7, <1>8, <1>9, <1>10 DEF RetentionNext, RetentionStep

(* Every step of the API keeps its answers well typed.                     *)
LEMMA ReaderTyped ==
    ASSUME TypeInv, ReaderNext
    PROVE  ReaderTypeOK' /\ UNCHANGED storeVars
<1> USE DEF TypeInv, TypeOK, ReaderTypeOK, StoreTypeOK
<1>1. PICK c \in Clients :
        \/ \E kind \in Requests : ResolveLatest(c, kind) \/ ResolvePinned(c, kind)
        \/ QueryRows(c)
        \/ QueryCounts(c)
  BY DEF ReaderNext
<1>2. /\ NoAnswer \in Answer
      /\ \A k \in {"none", "version_unavailable", "unavailable", "ready",
                   "row_count_mismatch", "integrity_check_failed"},
            v \in Attempts \cup {None} :
            /\ [NoAnswer EXCEPT !.kind = k] \in Answer
            /\ [NoAnswer EXCEPT !.kind = k, !.version = v] \in Answer
  BY DEF NoAnswer, Answer, Datasets
<1>3. CASE \E kind \in Requests : ResolveLatest(c, kind)
  <2>1. markers # {} => Newest(markers).id \in Attempts
    BY NewestIn DEF Marker
  <2>2. answer' \in [Clients -> Answer]
    BY <1>2, <1>3 DEF ResolveLatest
  <2>. QED  BY <1>3, <2>1, <2>2 DEF ResolveLatest, Requests
<1>4. CASE \E kind \in Requests : ResolvePinned(c, kind)
  <2>1. [NoAnswer EXCEPT !.kind = "version_unavailable", !.version = pin[c]] \in Answer
    BY <1>2
  <2>2. answer' \in [Clients -> Answer]
    <3>. HIDE DEF NoAnswer
    <3>. QED  BY <1>2, <1>4, <2>1 DEF ResolvePinned
  <2>. QED  BY <1>4, <2>2 DEF ResolvePinned, Requests
<1>5. CASE QueryRows(c)
  <2> DEFINE d == IF request[c] = "history" THEN "history" ELSE "current"
  <2>1. target[c] \in Attempts \cup {None} /\ d \in Datasets
    BY DEF Datasets
  <2>2. target[c] \in MarkerIds => target[c] \in Attempts
    BY DEF MarkerIds, Marker
  <2>3. VisibleRows(target[c], d) \subseteq Row
    BY <2>1, <2>2 DEF VisibleRows, Content
  <2> DEFINE kind == IF d = "history" /\ VisibleRows(target[c], d) = {}
                      THEN "not_found" ELSE "rows"
  <2>4. [kind |-> kind, version |-> target[c], dataset |-> d,
         rows |-> VisibleRows(target[c], d)] \in Answer
    BY <2>1, <2>3 DEF Answer
  <2>5. answer' = [answer EXCEPT ![c] =
                     [kind |-> kind, version |-> target[c], dataset |-> d,
                      rows |-> VisibleRows(target[c], d)]]
    BY <1>5 DEF QueryRows
  <2>6. answer' \in [Clients -> Answer]
    BY <2>4, <2>5
  <2>. QED  BY <1>5, <2>1, <2>6 DEF QueryRows, Requests
<1>6. CASE QueryCounts(c)
  <2>1. Readiness(target[c]) \in {"ready", "row_count_mismatch", "integrity_check_failed"}
    BY DEF Readiness
  <2>2. answer' \in [Clients -> Answer]
    BY <1>2, <1>6, <2>1 DEF QueryCounts
  <2>. QED  BY <1>6, <2>2 DEF QueryCounts, Requests
<1>. QED  BY <1>1, <1>3, <1>4, <1>5, <1>6

(* Losing rows behind the back of the code keeps the types.                *)
LEMMA DamageTyped ==
    ASSUME TypeInv, Damage
    PROVE  StoreTypeOK' /\ damage' \in 0..MaxDamage
<1> USE DEF TypeInv, TypeOK, StoreTypeOK
<1>1. damage' \in 0..MaxDamage
  BY SystemConstants DEF Damage
<1>2. PICK m \in markers :
        \/ /\ \E d \in Datasets : \E r \in rows[m.id][d] :
                 rows' = [rows EXCEPT ![m.id][d] = @ \ {r}]
           /\ UNCHANGED <<summaries, markers>>
        \/ summaries' \subseteq summaries /\ UNCHANGED <<rows, markers>>
        \/ markers' \subseteq markers /\ UNCHANGED <<rows, summaries>>
  BY DEF Damage
<1>3. rows' \in [Attempts -> Content]
  <2>1. CASE UNCHANGED rows
    BY <2>1
  <2>2. CASE \E d \in Datasets : \E r \in rows[m.id][d] :
               rows' = [rows EXCEPT ![m.id][d] = @ \ {r}]
    <3>1. PICK d \in Datasets : \E r \in rows[m.id][d] :
             rows' = [rows EXCEPT ![m.id][d] = @ \ {r}]
      BY <2>2
    <3>2. PICK r \in rows[m.id][d] : rows' = [rows EXCEPT ![m.id][d] = @ \ {r}]
      BY <3>1
    <3>3. m.id \in Attempts
      BY DEF Marker
    <3>. QED  BY <3>2, <3>3 DEF Content
  <2>. QED  BY <1>2, <2>1, <2>2
<1>4. summaries' \subseteq Summary /\ markers' \subseteq Marker
  BY <1>2
<1>. QED  BY <1>1, <1>3, <1>4 DEF Damage

(* A request applied late keeps the types.                                 *)
LEMMA ApplyLateTyped ==
    ASSUME TypeInv, ApplyLate
    PROVE  StoreTypeOK'
BY ApplyTyped DEF TypeInv, TypeOK, StoreTypeOK, ApplyLate

(* Every step keeps the types.                                             *)
LEMMA NextTyped == TypeInv /\ [Next]_vars => TypeInv'
<1> SUFFICES ASSUME TypeInv, [Next]_vars PROVE TypeInv'
  OBVIOUS
<1> USE DEF TypeInv, TypeOK, LocalsTyped
<1>0. ASSUME markers' \subseteq Marker, everReady' = everReady \cup markers'
      PROVE  everReady' \subseteq Marker
  BY <1>0
<1>c. changed' \subseteq Datasets \cup {"marker"}
  BY DEF Next, NoteChanged, PiecesChanged, vars
<1>r. UNCHANGED readerVars => ReaderTypeOK'
  BY DEF readerVars, ReaderTypeOK
<1>p. UNCHANGED <<taskVars, pubVars>> => PublisherTypeOK' /\ PublishLocals'
  BY DEF taskVars, pubVars, pubLocal, PublisherTypeOK, PublishLocals
<1>t. UNCHANGED retVars => RetentionTypeOK' /\ CleanupLocals'
  BY DEF retVars, retLocal, RetentionTypeOK, CleanupLocals
<1>1. CASE PublisherNext /\ UNCHANGED retVars /\ UNCHANGED <<readerVars, damage>>
           /\ everReady' = everReady \cup markers'
  BY <1>1, <1>0, <1>c, <1>r, <1>t, PublisherTyped DEF StoreTypeOK
<1>2. CASE RetentionNext /\ UNCHANGED <<readerVars, damage>>
           /\ everReady' = everReady \cup markers'
  <2>1. /\ StoreTypeOK' /\ RetentionTypeOK' /\ CleanupLocals'
        /\ pool' \in {"free", "publish", "cleanup"}
        /\ UNCHANGED <<tested, rebuilt, mart, xcom, pubVars>>
    BY <1>2, RetentionTyped
  <2>2. PublisherTypeOK' /\ PublishLocals'
    BY <2>1 DEF pubVars, pubLocal, PublisherTypeOK, PublishLocals
  <2>. QED  BY <1>2, <1>0, <1>c, <1>r, <2>1, <2>2 DEF StoreTypeOK
<1>3. CASE ApplyLate /\ UNCHANGED <<taskVars, pubVars, retVars>>
           /\ UNCHANGED <<readerVars, damage>> /\ everReady' = everReady \cup markers'
  BY <1>3, <1>0, <1>c, <1>r, <1>p, <1>t, ApplyLateTyped DEF StoreTypeOK
<1>4. CASE ReaderNext /\ UNCHANGED <<taskVars, pubVars, retVars, damage>>
           /\ everReady' = everReady \cup markers'
  <2>1. ReaderTypeOK' /\ StoreTypeOK'
    BY <1>4, ReaderTyped DEF storeVars, StoreTypeOK
  <2>. QED  BY <1>4, <1>0, <1>c, <1>p, <1>t, <2>1 DEF StoreTypeOK
<1>5. CASE Damage /\ everReady' = everReady \cup markers'
  <2>1. StoreTypeOK' /\ damage' \in 0..MaxDamage
    BY <1>5, DamageTyped
  <2>2. UNCHANGED <<taskVars, pubVars, retVars, readerVars>>
    BY <1>5 DEF Damage
  <2>. QED  BY <1>5, <1>0, <1>c, <1>r, <1>p, <1>t, <2>1, <2>2 DEF StoreTypeOK
<1>6. CASE UNCHANGED vars
  <2>1. UNCHANGED storeVars /\ UNCHANGED <<taskVars, pubVars>> /\ UNCHANGED retVars
        /\ UNCHANGED readerVars /\ everReady' = everReady /\ damage' = damage
    BY <1>6 DEF vars
  <2>2. StoreTypeOK'
    BY <2>1 DEF storeVars, StoreTypeOK
  <2>. QED  BY <1>c, <1>r, <1>p, <1>t, <2>1, <2>2
<1>. QED  BY <1>1, <1>2, <1>3, <1>4, <1>5, <1>6 DEF Next, Tasks

(* For every choice of the constants, with late writes, clock steps and    *)
(* damage allowed, the tables and the memory of both tasks and of the API  *)
(* stay well typed, and a task's next request always finds the memory it   *)
(* needs.                                                                  *)
THEOREM TypeCorrect == Spec => []TypeOK
<1>1. TypeInv => TypeOK
  BY DEF TypeInv
<1>. QED  BY <1>1, InitTyped, NextTyped, PTL DEF Spec

-----------------------------------------------------------------------------
(* Ready versions are complete, on a server that applies no abandoned      *)
(* write later and loses nothing by itself.                                *)

Quiet == LateWrites = FALSE /\ MaxDamage = 0

(* Initially no version is visible.                                        *)
LEMMA InitReady == Init => ReadyInv
<1> SUFFICES ASSUME Init PROVE ReadyInv
  OBVIOUS
<1>1. TypeOK /\ LocalsTyped
  BY InitTyped DEF TypeInv
<1>2. NothingAbandoned /\ OneWriter /\ FreshAttempts /\ CandidateReady /\ CleanupSafe /\ ReadyComplete
  BY DEF Init, StoreInit, PublisherInit, RetentionInit, NothingAbandoned, OneWriter,
         FreshAttempts, CandidateReady, CleanupSafe, ReadyComplete, CandidatePcs, MarkerIds
<1>. QED  BY <1>1, <1>2 DEF ReadyInv

(* A version is still complete after a step that leaves its rows and audit *)
(* rows alone.                                                             *)
LEMMA CompleteStays ==
    ASSUME ReadyComplete,
           \A m \in markers' : /\ m \in markers
                               /\ rows'[m.id] = rows[m.id]
                               /\ SummariesOf(m.id)' = SummariesOf(m.id)
    PROVE  ReadyComplete'
BY DEF ReadyComplete, Usable, AuditComplete

(* Until the marker, the publish task writes under its candidate id only.  *)
LEMMA CandidateWrite ==
    ASSUME TypeInv, FreshAttempts, NEW w \in PubWrites, Apply(w),
           pubPc # "insert_marker"
    PROVE  /\ markers' = markers
           /\ \A a \in Attempts \ {pubAttempt} : rows'[a] = rows[a]
           /\ summaries' = IF pubPc = "insert_summaries"
                           THEN summaries \cup {ChangeSummary(d) : d \in Datasets}
                           ELSE summaries
           /\ pubPc = "insert_summaries" => rows' = rows
           /\ pubPc \in CandidatePcs
<1> USE DEF TypeInv, TypeOK, StoreTypeOK, CandidatePcs
<1>1. CASE pubPc = "clone"
  BY <1>1 DEF PubWrites, Apply, RowsAfter, SummariesAfter, MarkersAfter
<1>2. CASE pubPc = "delete_keys"
  BY <1>2 DEF PubWrites, Apply, RowsAfter, SummariesAfter, MarkersAfter
<1>3. CASE pubPc = "insert_rows"
  BY <1>3 DEF PubWrites, Apply, RowsAfter, SummariesAfter, MarkersAfter
<1>4. CASE pubPc = "insert_summaries"
  BY <1>4 DEF PubWrites, Apply, RowsAfter, SummariesAfter, MarkersAfter
<1>5. CASE pubPc \in {"idle", "read", "lookup", "match", "audit", "base", "read_base",
                      "validate"}
  BY <1>5 DEF PubWrites
<1>. QED  BY <1>1, <1>2, <1>3, <1>4, <1>5 DEF PublisherTypeOK, PubPcs

(* So it disturbs no ready version and no other attempt's audit.           *)
LEMMA CandidateWriteSafe ==
    ASSUME ReadyInv, NEW w \in PubWrites, Apply(w), pubPc # "insert_marker"
    PROVE  /\ ReadyComplete'
           /\ markers' = markers
           /\ \A s \in summaries' : s.attempt <= lastAttempt
<1> USE DEF ReadyInv, TypeInv
<1>1. /\ markers' = markers
      /\ \A a \in Attempts \ {pubAttempt} : rows'[a] = rows[a]
      /\ \A s \in summaries' : s \in summaries \/ s.attempt = pubAttempt
      /\ summaries \subseteq summaries'
      /\ pubPc \in CandidatePcs
  BY CandidateWrite DEF ChangeSummary
<1>2. \A m \in markers : m.id \in Attempts \ {pubAttempt}
  BY <1>1 DEF FreshAttempts, TypeOK, StoreTypeOK, Marker
<1>3. \A a : a # pubAttempt => SummariesOf(a)' = SummariesOf(a)
  BY <1>1 DEF SummariesOf
<1>4. pubAttempt = lastAttempt /\ lastAttempt \in Nat
  BY <1>1 DEF FreshAttempts, TypeOK, PublisherTypeOK
<1>5. \A s \in summaries' : s.attempt <= lastAttempt
  BY <1>1, <1>4 DEF FreshAttempts
<1>. QED  BY <1>1, <1>2, <1>3, <1>5, CompleteStays

(* The marker appears over a validated candidate with its two audit rows.  *)
LEMMA MarkerWriteSafe ==
    ASSUME ReadyInv, NEW w \in PubWrites, Apply(w), pubPc = "insert_marker"
    PROVE  /\ ReadyComplete'
           /\ \A m \in markers' : m.id <= lastAttempt
           /\ UNCHANGED <<rows, summaries>>
<1> USE DEF ReadyInv
<1> DEFINE m0 == [id |-> pubAttempt, run |-> pubRun, content |-> pubSource, time |-> pubTime]
<1>1. UNCHANGED <<rows, summaries>> /\ markers' = markers \cup {m0}
  BY DEF PubWrites, Apply, RowsAfter, SummariesAfter, MarkersAfter
<1>2. Usable(m0)
  BY DEF CandidateReady, CandidateMatches, Usable
<1>3. AuditComplete(pubAttempt)
  <2>1. ASSUME NEW d \in Datasets
        PROVE  {s \in SummariesOf(pubAttempt) : s.dataset = d} = {ChangeSummary(d)}
    BY DEF CandidateReady, ChangeSummary
  <2>. QED  BY <2>1, FS_Singleton DEF AuditComplete
<1>4. \A a : AuditComplete(a)' <=> AuditComplete(a)
  BY <1>1 DEF AuditComplete, SummariesOf
<1>5. \A m : Usable(m)' <=> Usable(m)
  BY <1>1 DEF Usable
<1>6. ReadyComplete'
  BY <1>1, <1>2, <1>3, <1>4, <1>5 DEF ReadyComplete
<1>7. pubAttempt = lastAttempt /\ lastAttempt \in Nat
  BY DEF FreshAttempts, TypeOK, PublisherTypeOK, CandidatePcs
<1>. QED  BY <1>1, <1>6, <1>7 DEF FreshAttempts

(* What the steps of the publish task preserve.                            *)
LEMMA PublisherReady ==
    ASSUME Quiet, ReadyInv, PublisherNext, UNCHANGED retVars, UNCHANGED damage
    PROVE  /\ NothingAbandoned' /\ OneWriter' /\ FreshAttempts'
           /\ CandidateReady' /\ CleanupSafe' /\ ReadyComplete'
<1> USE DEF ReadyInv, taskVars, pubVars, pubLocal, retVars, retLocal
<1>0. lastAttempt \in Nat
  BY DEF TypeOK, PublisherTypeOK
<1>1. retPc = "idle" /\ CleanupSafe'
  BY DEF OneWriter, CleanupSafe, PublisherNext, PublisherStep, BuildCurrent,
     BuildHistory, TestMart, StartPublish, ReadMart, FindReady, MatchStored,
     ReuseReady, RejectReusedAudit, DrawAttempt, NothingToReuse, FindBase,
     ReadBaseCurrent, LoadIncrementally, LoadFully, NoUsableBase, CloneBase,
     DeleteKeys, KeysDeleted, InsertRows, RowsInserted, AcceptCandidate,
     RejectCandidate, InsertSummaries, InsertMarker, PublishFails
<1>2. ASSUME UNCHANGED storeVars PROVE ReadyComplete' /\ NothingAbandoned'
  BY <1>2, CompleteStays DEF storeVars, SummariesOf, NothingAbandoned
<1>3. ASSUME EndPublish
      PROVE  OneWriter' /\ CandidateReady'
  BY <1>1, <1>3 DEF EndPublish, OneWriter, CandidateReady, CandidatePcs
<1>4. CASE BuildCurrent \/ BuildHistory \/ TestMart \/ \E r \in Runs : StartPublish(r)
  BY <1>1, <1>2, <1>4 DEF BuildCurrent, BuildHistory, TestMart, StartPublish,
     storeVars, OneWriter, FreshAttempts, CandidateReady, CandidatePcs,
     CandidateMatches, SummariesOf, ChangeSummary
<1>5. CASE ReadMart \/ FindReady \/ MatchStored
  BY <1>1, <1>2, <1>5 DEF ReadMart, FindReady, MatchStored, storeVars, OneWriter, FreshAttempts, CandidateReady, CandidatePcs
<1>6. CASE ReuseReady \/ RejectReusedAudit \/ RejectCandidate
  <2>1. EndPublish /\ UNCHANGED lastAttempt /\ UNCHANGED storeVars
    BY <1>6 DEF ReuseReady, RejectReusedAudit, RejectCandidate
  <2>. QED  BY <1>1, <1>2, <1>3, <2>1 DEF EndPublish, storeVars, FreshAttempts, CandidatePcs
<1>7. CASE DrawAttempt
  <2>1. /\ pubPc' = "base" /\ UNCHANGED storeVars /\ UNCHANGED pool
        /\ lastAttempt' = lastAttempt + 1 /\ pubAttempt' = lastAttempt + 1
        /\ pubPc \in {"lookup", "match"}
    BY <1>7 DEF DrawAttempt, NothingToReuse, FreshAttempt
  <2>2. FreshAttempts'
    <3>1. \A m \in markers : m.id \in Nat /\ m.id <= lastAttempt
      BY DEF FreshAttempts, TypeOK, StoreTypeOK, Marker, Attempts
    <3>2. \A s \in summaries : s.attempt \in Nat /\ s.attempt <= lastAttempt
      BY DEF FreshAttempts, TypeOK, StoreTypeOK, Summary, Attempts
    <3>. QED  BY <1>0, <2>1, <3>1, <3>2 DEF FreshAttempts, CandidatePcs, storeVars
  <2>. QED  BY <1>1, <1>2, <2>1, <2>2 DEF OneWriter, CandidateReady
<1>15. CASE FindBase \/ ReadBaseCurrent \/ LoadIncrementally \/ LoadFully
  <2>1. /\ pubPc \in {"base", "read_base"} /\ pubPc' \in {"read_base", "clone", "insert_rows"}
        /\ UNCHANGED storeVars /\ UNCHANGED <<pool, lastAttempt, pubAttempt>>
    BY <1>15 DEF FindBase, ReadBaseCurrent, LoadIncrementally, LoadFully,
       NoUsableBase, EnterDataset
  <2>. QED  BY <1>1, <1>2, <2>1 DEF storeVars, OneWriter, FreshAttempts, CandidateReady, CandidatePcs
<1>8. CASE CloneBase \/ DeleteKeys \/ InsertRows
  <2>1. PICK w \in PubWrites : Apply(w) /\ UNCHANGED <<inFlight, faults>>
    BY <1>8 DEF CloneBase, DeleteKeys, InsertRows, Perform
  <2>2. pubPc \in {"clone", "delete_keys", "insert_rows"} /\ pubPc' \in {"clone", "delete_keys", "insert_rows"}
        /\ UNCHANGED <<pool, lastAttempt, pubAttempt>>
    BY <1>8 DEF CloneBase, DeleteKeys, InsertRows
  <2>3. ReadyComplete' /\ markers' = markers /\ summaries' = summaries
    BY <2>1, <2>2, CandidateWriteSafe, CandidateWrite DEF TypeInv
  <2>. QED  BY <1>1, <2>1, <2>2, <2>3 DEF NothingAbandoned, OneWriter, FreshAttempts,
            CandidateReady, CandidatePcs
<1>9. CASE KeysDeleted
  BY <1>1, <1>2, <1>9 DEF KeysDeleted, storeVars, OneWriter, FreshAttempts, CandidateReady, CandidatePcs
<1>10. CASE RowsInserted
  <2>1. /\ pubPc' \in {"clone", "insert_rows", "validate"} /\ pubPc = "insert_rows"
        /\ UNCHANGED storeVars /\ UNCHANGED <<pool, lastAttempt, pubAttempt>>
    BY <1>10 DEF RowsInserted, EnterDataset
  <2>. QED  BY <1>1, <1>2, <2>1 DEF storeVars, OneWriter, FreshAttempts, CandidateReady, CandidatePcs
<1>11. CASE AcceptCandidate
  BY <1>1, <1>2, <1>11 DEF AcceptCandidate, CandidateAccepted, storeVars, OneWriter,
     FreshAttempts, CandidateReady, CandidatePcs, CandidateMatches
<1>12. CASE InsertSummaries
  <2>1. PICK w \in PubWrites : Apply(w) /\ UNCHANGED <<inFlight, faults>>
    BY <1>12 DEF InsertSummaries, Perform
  <2>2. /\ pubPc = "insert_summaries" /\ pubPc' = "insert_marker" /\ UNCHANGED pool
        /\ UNCHANGED <<lastAttempt, pubLocal>>
    BY <1>12 DEF InsertSummaries
  <2>3. /\ ReadyComplete' /\ markers' = markers /\ rows' = rows
        /\ summaries' = summaries \cup {ChangeSummary(d) : d \in Datasets}
        /\ \A s \in summaries' : s.attempt <= lastAttempt
    BY <2>1, <2>2, CandidateWriteSafe, CandidateWrite DEF TypeInv
  <2>4. CandidateMatches'
    BY <2>2, <2>3 DEF CandidateReady, CandidateMatches
  <2>5. SummariesOf(pubAttempt)' = {ChangeSummary(d) : d \in Datasets}'
    <3>1. \A s \in summaries : s.attempt # pubAttempt
      BY <2>2 DEF FreshAttempts, CandidatePcs
    <3>2. \A d \in Datasets : ChangeSummary(d)' = ChangeSummary(d) /\ ChangeSummary(d).attempt = pubAttempt
      BY <2>2 DEF ChangeSummary
    <3>. QED  BY <2>2, <2>3, <3>1, <3>2 DEF SummariesOf
  <2>6. CandidateReady'
    BY <2>2, <2>4, <2>5 DEF CandidateReady
  <2>. QED  BY <1>1, <2>1, <2>2, <2>3, <2>6 DEF NothingAbandoned, OneWriter, FreshAttempts, CandidatePcs
<1>13. CASE InsertMarker
  <2>1. PICK w \in PubWrites : Apply(w) /\ UNCHANGED <<inFlight, faults>>
    BY <1>13 DEF InsertMarker, Perform
  <2>2. ReadyComplete' /\ \A m \in markers' : m.id <= lastAttempt
    BY <1>13, <2>1, MarkerWriteSafe DEF InsertMarker
  <2>3. UNCHANGED <<summaries, lastAttempt>>
    BY <1>13, <2>1, MarkerWriteSafe DEF InsertMarker
  <2>4. EndPublish
    BY <1>13 DEF InsertMarker
  <2>. QED  BY <1>1, <1>3, <2>1, <2>2, <2>3, <2>4 DEF NothingAbandoned, FreshAttempts, EndPublish, CandidatePcs
<1>14. CASE PublishFails
  <2>1. EndPublish /\ UNCHANGED lastAttempt
    BY <1>14 DEF PublishFails
  <2>2. \/ UNCHANGED <<rows, summaries, markers, inFlight>>
        \/ \E w \in PubWrites : Apply(w) /\ UNCHANGED inFlight
    BY <1>14 DEF PublishFails, GiveUp, Quiet
  <2>3. /\ ReadyComplete' /\ UNCHANGED inFlight
        /\ \A m \in markers' : m.id <= lastAttempt
        /\ \A s \in summaries' : s.attempt <= lastAttempt
    <3>1. CASE UNCHANGED <<rows, summaries, markers, inFlight>>
      BY <3>1, CompleteStays DEF SummariesOf, FreshAttempts
    <3>2. CASE \E w \in PubWrites : Apply(w) /\ UNCHANGED inFlight
      <4>1. PICK w \in PubWrites : Apply(w) /\ UNCHANGED inFlight
        BY <3>2
      <4>2. CASE pubPc = "insert_marker"
        BY <4>1, <4>2, MarkerWriteSafe DEF FreshAttempts
      <4>3. CASE pubPc # "insert_marker"
        BY <4>1, <4>3, CandidateWriteSafe DEF FreshAttempts
      <4>. QED  BY <4>2, <4>3
    <3>. QED  BY <2>2, <3>1, <3>2
  <2>. QED  BY <1>1, <1>3, <2>1, <2>3 DEF NothingAbandoned, FreshAttempts, EndPublish, CandidatePcs
<1>. QED  BY <1>4, <1>5, <1>6, <1>7, <1>8, <1>9, <1>10, <1>11, <1>12, <1>13, <1>14, <1>15
          DEF PublisherNext, PublisherStep

(* The cleanup's writes touch only markers it retires and the rows of      *)
(* attempts that no longer have a marker.                                  *)
LEMMA CleanupWriteSafe ==
    ASSUME ReadyInv, NEW w \in RetWrites, Apply(w)
    PROVE  /\ ReadyComplete'
           /\ markers' \subseteq markers
           /\ summaries' \subseteq summaries
<1> USE DEF ReadyInv
<1>1. CASE retPc = "delete_markers"
  <2>1. rows' = rows /\ summaries' = summaries /\ markers' \subseteq markers
    BY <1>1 DEF RetWrites, Apply, RowsAfter, SummariesAfter, MarkersAfter
  <2>. QED  BY <2>1, CompleteStays DEF SummariesOf
<1>2. CASE retPc = "delete_candidates" /\ retBatch # {}
  <2>1. \A m \in markers : m.id \in Attempts /\ m.id \notin retBatch
    BY <1>2 DEF CleanupSafe, MarkerIds, TypeOK, StoreTypeOK, Marker
  <2>2. w.op = "delete_candidates" /\ w.ids = retBatch
    BY <1>2 DEF RetWrites
  <2>3. /\ markers' = markers /\ summaries' \subseteq summaries
        /\ \A a \in Attempts \ retBatch : rows'[a] = rows[a]
        /\ \A s \in summaries : s.attempt \notin retBatch => s \in summaries'
    BY <2>2 DEF Apply, RowsAfter, SummariesAfter, MarkersAfter, TypeOK, StoreTypeOK
  <2>. QED  BY <2>1, <2>3, CompleteStays DEF SummariesOf
<1>3. CASE retPc # "delete_markers" /\ ~ (retPc = "delete_candidates" /\ retBatch # {})
  BY <1>3 DEF RetWrites
<1>. QED  BY <1>1, <1>2, <1>3

(* What the steps of the cleanup task preserve.                            *)
LEMMA RetentionReady ==
    ASSUME Quiet, ReadyInv, RetentionNext, UNCHANGED damage
    PROVE  /\ NothingAbandoned' /\ OneWriter' /\ FreshAttempts'
           /\ CandidateReady' /\ CleanupSafe' /\ ReadyComplete'
<1> USE DEF ReadyInv, taskVars, pubVars, pubLocal, retLocal
<1>1. pubPc = "idle" /\ UNCHANGED pubVars
  BY DEF OneWriter, RetentionNext, RetentionStep, StartCleanup, ListReady,
         RefuseUnprotected, NothingToRemove, PlanDeletion, DeleteMarkers,
         MarkersDeleted, ConfirmMarkers, RefuseMarkers, NextDeleteBatch,
         DeleteCandidates, CandidatesDeleted, ConfirmRemoved, RefuseLeftovers,
         CleanupFails, CleanupSucceeds, CleanupAborts, EndCleanup
<1>2. ReadyComplete' /\ NothingAbandoned' /\ markers' \subseteq markers /\ summaries' \subseteq summaries
  <2>1. CASE UNCHANGED storeVars
    BY <2>1, CompleteStays DEF storeVars, SummariesOf, NothingAbandoned
  <2>2. CASE \E w \in RetWrites : Apply(w) /\ UNCHANGED inFlight
    BY <2>2, CleanupWriteSafe DEF NothingAbandoned
  <2>3. CASE UNCHANGED <<rows, summaries, markers, inFlight>>
    BY <2>3, CompleteStays DEF SummariesOf, NothingAbandoned
  <2>4. \/ UNCHANGED storeVars
        \/ \E w \in RetWrites : Apply(w) /\ UNCHANGED inFlight
        \/ UNCHANGED <<rows, summaries, markers, inFlight>>
    BY DEF RetentionNext, RetentionStep, StartCleanup, ListReady,
           RefuseUnprotected, NothingToRemove, PlanDeletion, DeleteMarkers,
           MarkersDeleted, ConfirmMarkers, RefuseMarkers, NextDeleteBatch,
           DeleteCandidates, CandidatesDeleted, ConfirmRemoved, RefuseLeftovers,
           CleanupFails, GiveUp, Perform, Quiet
  <2>. QED  BY <2>1, <2>2, <2>3, <2>4
<1>3. FreshAttempts' /\ CandidateReady'
  BY <1>1, <1>2 DEF FreshAttempts, CandidateReady, CandidatePcs
<1>4. MarkerIds' \subseteq MarkerIds
  BY <1>2 DEF MarkerIds
<1>5. ASSUME EndCleanup PROVE OneWriter' /\ CleanupSafe'
  BY <1>1, <1>5 DEF EndCleanup, OneWriter, CleanupSafe
<1>6. CASE \E r \in Runs : StartCleanup(r)
  BY <1>1, <1>2, <1>3, <1>6 DEF StartCleanup, OneWriter, CleanupSafe
<1>7. CASE ListReady
  <2>1. retRetained' \subseteq MarkerIds
    BY <1>7 DEF ListReady, NewestFirst, MarkerIds
  <2>2. markers' = markers
    BY <1>7 DEF ListReady, storeVars
  <2>. QED  BY <1>1, <1>2, <1>3, <1>7, <2>1, <2>2 DEF ListReady, OneWriter, CleanupSafe, MarkerIds
<1>8. CASE RefuseUnprotected \/ NothingToRemove \/ RefuseMarkers \/ ConfirmRemoved
           \/ RefuseLeftovers \/ CleanupFails
  <2>1. EndCleanup
    BY <1>8 DEF RefuseUnprotected, NothingToRemove, RefuseMarkers, ConfirmRemoved,
       RefuseLeftovers, CleanupFails, CleanupSucceeds, CleanupAborts
  <2>. QED  BY <1>2, <1>3, <1>5, <2>1
<1>9. CASE PlanDeletion
  BY <1>1, <1>2, <1>3, <1>4, <1>9
     DEF PlanDeletion, OneWriter, CleanupSafe, PlannedTargets, RetiredIds
<1>10. CASE DeleteMarkers \/ MarkersDeleted
  BY <1>1, <1>2, <1>3, <1>4, <1>10 DEF DeleteMarkers, MarkersDeleted, OneWriter, CleanupSafe
<1>11. CASE ConfirmMarkers
  <2>1. MarkerIds \subseteq retRetained
    BY <1>11 DEF ConfirmMarkers, MarkersConfirmed, RetiredIds, CleanupSafe
  <2>. QED  BY <1>1, <1>2, <1>3, <1>4, <1>11, <2>1 DEF ConfirmMarkers, OneWriter, CleanupSafe
<1>12. CASE NextDeleteBatch
  <2>1. retBatch' \subseteq retTargets /\ retTodo' \subseteq retTargets
    BY <1>12, BatchesTyped DEF NextDeleteBatch, CleanupSafe
  <2>. QED  BY <1>1, <1>2, <1>3, <1>4, <1>12, <2>1 DEF NextDeleteBatch, OneWriter, CleanupSafe
<1>13. CASE DeleteCandidates \/ CandidatesDeleted
  BY <1>1, <1>2, <1>3, <1>4, <1>13 DEF DeleteCandidates, CandidatesDeleted, OneWriter, CleanupSafe
<1>. QED  BY <1>2, <1>3, <1>6, <1>7, <1>8, <1>9, <1>10, <1>11, <1>12, <1>13
          DEF RetentionNext, RetentionStep

(* Every step keeps visible versions complete.                             *)
LEMMA NextReady == Quiet => (ReadyInv /\ [Next]_vars => ReadyInv')
<1> SUFFICES ASSUME Quiet, ReadyInv, [Next]_vars PROVE ReadyInv'
  OBVIOUS
<1>1. TypeOK' /\ LocalsTyped'
  BY NextTyped DEF ReadyInv, TypeInv
<1>2. ASSUME UNCHANGED <<storeVars, taskVars, pubVars, retVars, damage>>
      PROVE  /\ NothingAbandoned' /\ OneWriter' /\ FreshAttempts'
             /\ CandidateReady' /\ CleanupSafe' /\ ReadyComplete'
  <2>1. ReadyComplete'
    BY <1>2, CompleteStays DEF ReadyInv, storeVars, SummariesOf
  <2>2. CandidateReady'
    BY <1>2 DEF ReadyInv, storeVars, pubVars, pubLocal, CandidateReady, CandidateMatches,
       SummariesOf, ChangeSummary
  <2>. QED  BY <1>2, <2>1, <2>2 DEF ReadyInv, storeVars, taskVars, pubVars, pubLocal, retVars, retLocal,
            NothingAbandoned, OneWriter, FreshAttempts, CleanupSafe, MarkerIds
<1>3. CASE PublisherNext /\ UNCHANGED retVars /\ UNCHANGED damage
  BY <1>1, <1>3, PublisherReady DEF ReadyInv
<1>4. CASE RetentionNext /\ UNCHANGED damage
  BY <1>1, <1>4, RetentionReady DEF ReadyInv
<1>5. CASE ApplyLate
  BY <1>5 DEF ApplyLate, ReadyInv, NothingAbandoned
<1>6. CASE ReaderNext /\ UNCHANGED <<taskVars, pubVars, retVars, damage>>
  <2>1. UNCHANGED storeVars
    BY <1>6, ReaderTyped DEF ReadyInv, TypeInv
  <2>. QED  BY <1>1, <1>2, <1>6, <2>1 DEF ReadyInv
<1>7. CASE Damage
  BY <1>7 DEF Damage, Quiet, ReadyInv, NothingAbandoned
<1>8. CASE UNCHANGED vars
  BY <1>1, <1>2, <1>8 DEF vars, ReadyInv
<1>. QED  BY <1>3, <1>4, <1>5, <1>6, <1>7, <1>8 DEF Next, Tasks

(* The inductive invariant itself: the pool slot keeps publisher and       *)
(* cleanup apart, the memory of either agrees with the tables it was read  *)
(* from, and every visible version is complete.                            *)
THEOREM ReadyInvariant == Quiet => (Spec => []ReadyInv)
<1> SUFFICES ASSUME Quiet PROVE Spec => []ReadyInv
  OBVIOUS
<1>1. ReadyInv /\ [Next]_vars => ReadyInv'
  BY NextReady
<1>. QED  BY <1>1, InitReady, PTL DEF Spec

(* For every number of keys, runs, attempts and faults, every mart, batch  *)
(* size, Keep >= 2 and clock, a ready marker never points at rows or audit *)
(* rows that are not exactly what the publisher validated, provided that   *)
(* the server applies no abandoned write later and loses nothing itself.   *)
THEOREM ReadyCorrect == Quiet => (Spec => []ReadyComplete)
<1> SUFFICES ASSUME Quiet PROVE Spec => []ReadyComplete
  OBVIOUS
<1>1. ReadyInv => ReadyComplete
  BY DEF ReadyInv
<1>. QED  BY <1>1, ReadyInvariant, PTL

-----------------------------------------------------------------------------
(* The reported version is the tested mart, with late writes and damage:   *)
(* every write names an attempt that was handed out before the candidate's.*)

(* The attempts whose rows, audit rows or marker a write may change or add.*)
Touched(w) ==
    CASE w.op \in {"clone", "delete_keys", "insert_rows"} -> {w.attempt}
      [] w.op = "insert_summaries"  -> {s.attempt : s \in w.records}
      [] w.op = "insert_marker"     -> {w.marker.id}
      [] w.op = "delete_candidates" -> w.ids
      [] OTHER -> {}

HandedOut == 1..lastAttempt

StoreKnown ==
    /\ MarkerIds \subseteq HandedOut /\ CandidateIds \subseteq HandedOut
    /\ \A w \in inFlight : Touched(w) \subseteq HandedOut
CleanupKnown ==
    /\ retReady \subseteq HandedOut /\ retTargets \subseteq HandedOut
    /\ retTodo \subseteq HandedOut /\ retBatch \subseteq HandedOut

(* Nothing else in the store or on its way names the candidate.            *)
CandidateApart ==
    pubPc \in CandidatePcs =>
        /\ pubAttempt = lastAttempt
        /\ pubAttempt \notin MarkerIds
        /\ \A w \in inFlight : pubAttempt \notin Touched(w)

SourceCertified ==
    /\ pubPc \notin {"idle", "read"} => pubSource = mart
    /\ pubPc \in {"insert_summaries", "insert_marker"} => CandidateMatches

CertifiedInv ==
    /\ TypeInv /\ OneWriter /\ StoreKnown /\ CleanupKnown
    /\ CandidateApart /\ SourceCertified

LEMMA WriteTouches ==
    ASSUME TypeInv, NEW w \in Write, Apply(w)
    PROVE  /\ \A a \in Attempts \ Touched(w) : rows'[a] = rows[a]
           /\ MarkerIds' \subseteq MarkerIds \cup Touched(w)
           /\ CandidateIds' \subseteq CandidateIds \cup Touched(w)
<1>0. rows \in [Attempts -> Content]
  BY DEF TypeInv, TypeOK, StoreTypeOK
<1>1. \A a \in Attempts \ Touched(w) : rows'[a] = rows[a]
  <2>1. CASE w.op \in {"clone", "delete_keys", "insert_rows"}
    BY <1>0, <2>1 DEF Apply, RowsAfter, Touched, Write
  <2>2. CASE w.op = "delete_candidates"
    BY <1>0, <2>2 DEF Apply, RowsAfter, Touched, Write
  <2>3. CASE w.op \in {"insert_summaries", "insert_marker", "delete_markers"}
    BY <2>3 DEF Apply, RowsAfter, Write
  <2>. QED  BY <2>1, <2>2, <2>3 DEF Write
<1>2. \A s \in summaries' : s \in summaries \/ s.attempt \in Touched(w)
  BY DEF Apply, SummariesAfter, Touched
<1>3. \A m \in markers' : m \in markers \/ m.id \in Touched(w)
  BY DEF Apply, MarkersAfter, Touched
<1>4. MarkerIds' \subseteq MarkerIds \cup Touched(w)
  BY <1>3 DEF MarkerIds
<1>5. CandidateIds' \subseteq CandidateIds \cup Touched(w)
  BY <1>1, <1>2 DEF CandidateIds, SummariesOf
<1>. QED  BY <1>1, <1>4, <1>5

LEMMA PubTouches ==
    ASSUME TypeInv, NEW w \in PubWrites
    PROVE  /\ w \in Write /\ Touched(w) \subseteq {pubAttempt}
           /\ pubPc \in CandidatePcs
<1>1. w \in Write
  BY PubWritesTyped DEF TypeInv
<1>2. CASE pubPc \in {"clone", "delete_keys", "insert_rows"}
  <2>1. w.op \in {"clone", "delete_keys", "insert_rows"} /\ w.attempt = pubAttempt
    BY <1>2 DEF PubWrites
  <2>2. Touched(w) = {w.attempt}
    BY <2>1 DEF Touched
  <2>. QED  BY <1>1, <1>2, <2>1, <2>2 DEF CandidatePcs
<1>3. CASE pubPc = "insert_summaries"
  <2>1. /\ w.op = "insert_summaries"
        /\ w.records = {ChangeSummary(d) : d \in Datasets}
    BY <1>3 DEF PubWrites
  <2>2. \A d \in Datasets : ChangeSummary(d).attempt = pubAttempt
    BY DEF ChangeSummary
  <2>3. Touched(w) = {s.attempt : s \in w.records}
    BY <2>1 DEF Touched
  <2>. QED  BY <1>1, <1>3, <2>1, <2>2, <2>3 DEF CandidatePcs
<1>4. CASE pubPc = "insert_marker"
  <2>1. w.op = "insert_marker" /\ w.marker.id = pubAttempt
    BY <1>4 DEF PubWrites
  <2>2. Touched(w) = {w.marker.id}
    BY <2>1 DEF Touched
  <2>. QED  BY <1>1, <1>4, <2>1, <2>2 DEF CandidatePcs
<1>5. CASE pubPc \in {"idle", "read", "lookup", "match", "audit", "base", "read_base",
                      "validate"}
  BY <1>5 DEF PubWrites
<1>. QED
  BY <1>1, <1>2, <1>3, <1>4, <1>5 DEF TypeInv, TypeOK, PublisherTypeOK, PubPcs

LEMMA RetTouches ==
    ASSUME TypeInv, NEW w \in RetWrites
    PROVE  w \in Write /\ Touched(w) \subseteq retBatch
<1>1. w \in Write
  BY RetWritesTyped DEF TypeInv
<1>2. CASE retPc = "delete_markers"
  <2>1. w.op = "delete_markers"
    BY <1>2 DEF RetWrites
  <2>. QED  BY <1>1, <2>1 DEF Touched
<1>3. CASE retPc = "delete_candidates" /\ retBatch # {}
  <2>1. w.op = "delete_candidates" /\ w.ids = retBatch
    BY <1>3 DEF RetWrites
  <2>. QED  BY <1>1, <2>1 DEF Touched
<1>4. CASE retPc # "delete_markers" /\ ~ (retPc = "delete_candidates" /\ retBatch # {})
  BY <1>4 DEF RetWrites
<1>. QED  BY <1>1, <1>2, <1>3, <1>4

(* One of the writes W is applied, or given up on, or none is.             *)
StoreMoves(W) ==
    \/ UNCHANGED <<rows, summaries, markers, inFlight>>
    \/ \E w \in W : Apply(w) /\ inFlight' \subseteq inFlight
    \/ \E w \in W : /\ inFlight' = inFlight \cup {w}
                    /\ UNCHANGED <<rows, summaries, markers>>

LEMMA KnownGrows ==
    ASSUME TypeInv, StoreKnown, NEW W \in SUBSET Write, StoreMoves(W),
           \A w \in W : Touched(w) \subseteq HandedOut,
           HandedOut \subseteq HandedOut'
    PROVE  StoreKnown'
<1>1. CASE UNCHANGED <<rows, summaries, markers, inFlight>>
  BY <1>1 DEF StoreKnown, MarkerIds, CandidateIds, SummariesOf
<1>2. CASE \E w \in W : Apply(w) /\ inFlight' \subseteq inFlight
  <2>1. PICK w \in W : Apply(w) /\ inFlight' \subseteq inFlight
    BY <1>2
  <2>2. /\ MarkerIds' \subseteq MarkerIds \cup Touched(w)
        /\ CandidateIds' \subseteq CandidateIds \cup Touched(w)
    BY <2>1, WriteTouches
  <2>. QED  BY <2>1, <2>2 DEF StoreKnown
<1>3. CASE \E w \in W : /\ inFlight' = inFlight \cup {w}
                        /\ UNCHANGED <<rows, summaries, markers>>
  BY <1>3 DEF StoreKnown, MarkerIds, CandidateIds, SummariesOf
<1>. QED  BY <1>1, <1>2, <1>3 DEF StoreMoves

LEMMA PublisherMoves ==
    ASSUME PublisherNext
    PROVE  StoreMoves(PubWrites)
BY DEF StoreMoves, PublisherNext, PublisherStep, BuildCurrent, BuildHistory,
   TestMart, StartPublish, ReadMart, FindReady, MatchStored, ReuseReady,
   RejectReusedAudit, DrawAttempt, NothingToReuse, FindBase, ReadBaseCurrent,
   LoadIncrementally, LoadFully, NoUsableBase, CloneBase, DeleteKeys,
   KeysDeleted, InsertRows, RowsInserted, AcceptCandidate, RejectCandidate,
   InsertSummaries, InsertMarker, PublishFails, Perform, GiveUp, storeVars

LEMMA RetentionMoves ==
    ASSUME RetentionNext
    PROVE  StoreMoves(RetWrites)
BY DEF StoreMoves, RetentionNext, RetentionStep, StartCleanup, ListReady,
       RefuseUnprotected, NothingToRemove, PlanDeletion, DeleteMarkers,
       MarkersDeleted, ConfirmMarkers, RefuseMarkers, NextDeleteBatch,
       DeleteCandidates, CandidatesDeleted, ConfirmRemoved, RefuseLeftovers,
       CleanupFails, Perform, GiveUp, storeVars

(* What one step of the publish task does to its own memory.               *)
LEMMA PublisherCertifies ==
    ASSUME CertifiedInv, PublisherNext, UNCHANGED retVars
    PROVE  /\ OneWriter' /\ StoreKnown' /\ CleanupKnown'
           /\ CandidateApart' /\ SourceCertified'
<1> USE DEF taskVars, pubVars, pubLocal
<1>0. TypeInv /\ OneWriter /\ StoreKnown /\ CleanupKnown /\ lastAttempt \in Nat
  BY DEF CertifiedInv, TypeInv, TypeOK, PublisherTypeOK
<1>1. /\ retPc = "idle" /\ retPc' = "idle"
      /\ OneWriter'
  BY <1>0 DEF OneWriter, retVars, PublisherNext, PublisherStep, BuildCurrent,
     BuildHistory, TestMart, StartPublish, EndPublish, EnterDataset, ReadMart,
     FindReady, MatchStored, ReuseReady, RejectReusedAudit, DrawAttempt,
     NothingToReuse, FindBase, ReadBaseCurrent, LoadIncrementally, LoadFully,
     NoUsableBase, CloneBase, DeleteKeys, KeysDeleted, InsertRows,
     RowsInserted, AcceptCandidate, RejectCandidate, InsertSummaries,
     InsertMarker, PublishFails
<1>2. lastAttempt' \in {lastAttempt, lastAttempt + 1}
  BY DEF PublisherNext, PublisherStep, BuildCurrent, BuildHistory, TestMart,
     StartPublish, ReadMart, FindReady, MatchStored, ReuseReady,
     RejectReusedAudit, DrawAttempt, NothingToReuse, FindBase,
     ReadBaseCurrent, LoadIncrementally, LoadFully, NoUsableBase, CloneBase,
     DeleteKeys, KeysDeleted, InsertRows, RowsInserted, AcceptCandidate,
     RejectCandidate, InsertSummaries, InsertMarker, PublishFails
<1>3. HandedOut \subseteq HandedOut' /\ CleanupKnown'
  <2>1. HandedOut \subseteq HandedOut'
    BY <1>0, <1>2 DEF HandedOut
  <2>. QED  BY <1>0, <2>1 DEF CleanupKnown, retVars, retLocal
<1>4. StoreKnown'
  <2>1. \A w \in PubWrites : w \in Write /\ Touched(w) \subseteq HandedOut
    <3>1. pubPc \in CandidatePcs => pubAttempt \in HandedOut
      BY <1>0 DEF CertifiedInv, CandidateApart, HandedOut, TypeInv, LocalsTyped,
                  PublishLocals, Attempts
    <3>. QED  BY <1>0, <3>1, PubTouches
  <2>. QED  BY <1>0, <1>3, <2>1, PublisherMoves, KnownGrows
<1>5. ASSUME EndPublish PROVE CandidateApart' /\ SourceCertified'
  BY <1>5 DEF EndPublish, CandidateApart, SourceCertified, CandidatePcs
<1>6. CASE BuildCurrent \/ BuildHistory \/ TestMart
  <2>1. pubPc = "idle" /\ pubPc' = "idle"
    BY <1>0, <1>6 DEF BuildCurrent, BuildHistory, TestMart, OneWriter
  <2>. QED  BY <1>1, <1>3, <1>4, <2>1 DEF CandidateApart, SourceCertified, CandidatePcs
<1>7. CASE \E r \in Runs : StartPublish(r)
  BY <1>1, <1>3, <1>4, <1>7
     DEF StartPublish, CandidateApart, SourceCertified, CandidatePcs
<1>8. CASE ReadMart
  BY <1>1, <1>3, <1>4, <1>8
     DEF ReadMart, CandidateApart, SourceCertified, CandidatePcs
<1>9. CASE ReuseReady \/ RejectReusedAudit \/ RejectCandidate \/ InsertMarker
           \/ PublishFails
  BY <1>1, <1>3, <1>4, <1>5, <1>9
     DEF ReuseReady, RejectReusedAudit, RejectCandidate, InsertMarker, PublishFails
<1>15. CASE FindReady \/ MatchStored
  <2>1. /\ pubPc \in {"lookup", "match"} /\ pubPc' \in {"match", "audit"}
        /\ UNCHANGED <<mart, pubSource>>
    BY <1>15 DEF FindReady, MatchStored
  <2>. QED  BY <1>0, <1>1, <1>3, <1>4, <2>1 DEF CandidateApart, SourceCertified,
            CandidatePcs, CertifiedInv
<1>10. CASE DrawAttempt
  <2>1. /\ pubPc \in {"lookup", "match"} /\ pubPc' = "base"
        /\ UNCHANGED storeVars /\ UNCHANGED <<mart, pubSource>>
        /\ lastAttempt' = lastAttempt + 1 /\ pubAttempt' = lastAttempt + 1
    BY <1>10 DEF DrawAttempt, NothingToReuse, FreshAttempt
  <2>2. lastAttempt + 1 \notin HandedOut
    BY <1>0 DEF HandedOut
  <2>3. CandidateApart'
    BY <1>0, <2>1, <2>2 DEF CandidateApart, StoreKnown, MarkerIds, storeVars
  <2>4. SourceCertified'
    BY <2>1 DEF SourceCertified, CertifiedInv
  <2>. QED  BY <1>1, <1>3, <1>4, <2>3, <2>4
<1>11. ASSUME pubPc \in CandidatePcs, pubPc' \in CandidatePcs,
              UNCHANGED <<lastAttempt, pubAttempt, pubSource, mart, inFlight>>,
              markers' = markers,
              pubPc' \in {"insert_summaries", "insert_marker"}
                  => rows' = rows /\ CandidateMatches
       PROVE  CandidateApart' /\ SourceCertified'
  <2>1. CandidateApart'
    BY <1>11 DEF CertifiedInv, CandidateApart, MarkerIds
  <2>2. SourceCertified'
    BY <1>11 DEF CertifiedInv, SourceCertified, CandidateMatches, CandidatePcs
  <2>. QED  BY <2>1, <2>2
<1>12. CASE CloneBase \/ DeleteKeys \/ InsertRows \/ InsertSummaries
  <2>1. PICK w \in PubWrites : Apply(w) /\ UNCHANGED <<inFlight, faults>>
    BY <1>12 DEF CloneBase, DeleteKeys, InsertRows, InsertSummaries, Perform
  <2>2. /\ pubPc \in {"clone", "delete_keys", "insert_rows", "insert_summaries"}
        /\ pubPc' \in {"clone", "delete_keys", "insert_rows", "insert_marker"}
        /\ pubPc' = "insert_marker" => pubPc = "insert_summaries"
        /\ UNCHANGED <<mart, lastAttempt, pubAttempt, pubSource>>
    BY <1>12 DEF CloneBase, DeleteKeys, InsertRows, InsertSummaries
  <2>3. markers' = markers /\ (pubPc = "insert_summaries" => rows' = rows)
    BY <2>1, <2>2 DEF PubWrites, Apply, RowsAfter, MarkersAfter
  <2>4. pubPc = "insert_summaries" => CandidateMatches
    BY DEF CertifiedInv, SourceCertified
  <2>. QED  BY <1>1, <1>3, <1>4, <1>11, <2>1, <2>2, <2>3, <2>4 DEF CandidatePcs
<1>13. CASE \/ FindBase \/ ReadBaseCurrent \/ LoadIncrementally \/ LoadFully
            \/ KeysDeleted \/ RowsInserted
  <2>1. /\ pubPc \in {"base", "read_base", "delete_keys", "insert_rows"}
        /\ pubPc' \in {"read_base", "clone", "insert_rows", "validate"}
        /\ UNCHANGED storeVars /\ UNCHANGED <<mart, lastAttempt, pubAttempt, pubSource>>
    BY <1>13 DEF FindBase, ReadBaseCurrent, LoadIncrementally, LoadFully, NoUsableBase,
       KeysDeleted, RowsInserted, EnterDataset
  <2>. QED  BY <1>1, <1>3, <1>4, <1>11, <2>1 DEF CandidatePcs, storeVars
<1>14. CASE AcceptCandidate
  <2>1. /\ pubPc = "validate" /\ pubPc' = "insert_summaries" /\ CandidateMatches
        /\ UNCHANGED storeVars /\ UNCHANGED <<mart, lastAttempt, pubAttempt, pubSource>>
    BY <1>14 DEF AcceptCandidate, CandidateAccepted
  <2>. QED  BY <1>1, <1>3, <1>4, <1>11, <2>1 DEF CandidatePcs, storeVars
<1>. QED
  BY <1>1, <1>3, <1>4, <1>6, <1>7, <1>8, <1>9, <1>10, <1>12, <1>13, <1>14, <1>15
     DEF PublisherNext, PublisherStep

LEMMA RetentionCertifies ==
    ASSUME CertifiedInv, RetentionNext
    PROVE  /\ OneWriter' /\ StoreKnown' /\ CleanupKnown'
           /\ CandidateApart' /\ SourceCertified'
<1> USE DEF taskVars, pubVars, pubLocal, retLocal
<1>0. TypeInv /\ OneWriter /\ StoreKnown /\ CleanupKnown
  BY DEF CertifiedInv
<1>1. /\ pubPc = "idle" /\ UNCHANGED <<pubPc, lastAttempt>> /\ OneWriter'
  BY <1>0 DEF OneWriter, RetentionNext, RetentionStep, StartCleanup, ListReady,
         RefuseUnprotected, NothingToRemove, PlanDeletion, DeleteMarkers,
         MarkersDeleted, ConfirmMarkers, RefuseMarkers, NextDeleteBatch,
         DeleteCandidates, CandidatesDeleted, ConfirmRemoved, RefuseLeftovers,
         CleanupFails, CleanupSucceeds, CleanupAborts, EndCleanup
<1>2. HandedOut' = HandedOut /\ CandidateApart' /\ SourceCertified'
  BY <1>1 DEF HandedOut, CandidateApart, SourceCertified, CandidatePcs
<1>3. StoreKnown'
  <2>1. \A w \in RetWrites : w \in Write /\ Touched(w) \subseteq HandedOut
    BY <1>0, RetTouches DEF CleanupKnown
  <2>. QED  BY <1>0, <1>2, <2>1, RetentionMoves, KnownGrows
<1>4. CleanupKnown'
  <2>1. CASE NextDeleteBatch
    <3>1. retBatch' \subseteq retTodo /\ retTodo' \subseteq retTodo
          /\ UNCHANGED <<retReady, retTargets>>
      BY <2>1, BatchesTyped DEF NextDeleteBatch
    <3>. QED  BY <1>0, <1>2, <3>1 DEF CleanupKnown
  <2>2. CASE PlanDeletion
    BY <1>0, <1>2, <2>2
       DEF PlanDeletion, PlannedTargets, RetiredIds, CleanupKnown, StoreKnown
  <2>3. CASE ListReady
    BY <1>0, <1>2, <2>3 DEF ListReady, CleanupKnown, StoreKnown
  <2>4. CASE \/ \E r \in Runs : StartCleanup(r)
             \/ DeleteMarkers \/ MarkersDeleted \/ ConfirmMarkers
             \/ DeleteCandidates \/ CandidatesDeleted
    BY <1>0, <1>2, <2>4
       DEF StartCleanup, DeleteMarkers, MarkersDeleted, ConfirmMarkers,
           DeleteCandidates, CandidatesDeleted, CleanupKnown
  <2>5. CASE EndCleanup
    BY <2>5 DEF EndCleanup, CleanupKnown
  <2>. QED
    BY <2>1, <2>2, <2>3, <2>4, <2>5
       DEF RetentionNext, RetentionStep, RefuseUnprotected, NothingToRemove,
           RefuseMarkers, ConfirmRemoved, RefuseLeftovers, CleanupFails,
           CleanupSucceeds, CleanupAborts
<1>. QED  BY <1>1, <1>2, <1>3, <1>4

(* Others do not touch the candidate.                                      *)
LEMMA OthersCertify ==
    ASSUME CertifiedInv, UNCHANGED <<taskVars, pubVars, retVars>>, StoreKnown',
           inFlight' \subseteq inFlight,
           pubPc \in CandidatePcs => /\ pubAttempt \notin MarkerIds'
                                     /\ rows'[pubAttempt] = rows[pubAttempt]
    PROVE  /\ OneWriter' /\ CleanupKnown' /\ CandidateApart' /\ SourceCertified'
<1> USE DEF CertifiedInv, taskVars, pubVars, pubLocal, retVars, retLocal
<1>1. OneWriter' /\ CleanupKnown'
  BY DEF OneWriter, CleanupKnown, HandedOut
<1>2. CandidateApart'
  BY DEF CandidateApart
<1>3. SourceCertified'
  BY DEF SourceCertified, CandidateMatches, CandidatePcs
<1>. QED  BY <1>1, <1>2, <1>3

LEMMA LateCertifies ==
    ASSUME CertifiedInv, ApplyLate, UNCHANGED <<taskVars, pubVars, retVars>>
    PROVE  /\ OneWriter' /\ StoreKnown' /\ CleanupKnown'
           /\ CandidateApart' /\ SourceCertified'
<1>0. TypeInv /\ StoreKnown /\ inFlight \subseteq Write
      /\ (pubPc \in CandidatePcs => pubAttempt \in Attempts)
  BY DEF CertifiedInv, TypeInv, TypeOK, StoreTypeOK, LocalsTyped, PublishLocals
<1>1. PICK w \in inFlight : Apply(w) /\ inFlight' \subseteq inFlight
  BY DEF ApplyLate
<1>2. StoreKnown'
  <2>1. StoreMoves(inFlight) /\ HandedOut' = HandedOut
    BY <1>1 DEF StoreMoves, HandedOut, pubVars
  <2>. QED  BY <1>0, <2>1, KnownGrows DEF StoreKnown
<1>3. ASSUME pubPc \in CandidatePcs
      PROVE  pubAttempt \notin MarkerIds' /\ rows'[pubAttempt] = rows[pubAttempt]
  <2>1. pubAttempt \notin Touched(w) /\ pubAttempt \notin MarkerIds
    BY <1>1, <1>3 DEF CertifiedInv, CandidateApart
  <2>. QED  BY <1>0, <1>1, <1>3, <2>1, WriteTouches
<1>. QED  BY <1>1, <1>2, <1>3, OthersCertify

LEMMA DamageCertifies ==
    ASSUME CertifiedInv, Damage
    PROVE  /\ OneWriter' /\ StoreKnown' /\ CleanupKnown'
           /\ CandidateApart' /\ SourceCertified'
<1>0. /\ rows \in [Attempts -> Content] /\ StoreKnown
      /\ (pubPc \in CandidatePcs => pubAttempt \in Attempts)
      /\ markers \subseteq Marker
  BY DEF CertifiedInv, TypeInv, TypeOK, StoreTypeOK, LocalsTyped, PublishLocals
<1>1. PICK m \in markers :
        \/ /\ \E d \in Datasets : \E r \in rows[m.id][d] :
                 rows' = [rows EXCEPT ![m.id][d] = @ \ {r}]
           /\ UNCHANGED <<summaries, markers>>
        \/ summaries' \subseteq summaries /\ UNCHANGED <<rows, markers>>
        \/ markers' \subseteq markers /\ UNCHANGED <<rows, summaries>>
  BY DEF Damage
<1>2. UNCHANGED <<inFlight, taskVars, pubVars, retVars>>
  BY DEF Damage
<1>3. /\ markers' \subseteq markers /\ summaries' \subseteq summaries
      /\ \A a \in Attempts \ {m.id} : rows'[a] = rows[a]
  BY <1>0, <1>1
<1>4. MarkerIds' \subseteq MarkerIds /\ m.id \in MarkerIds
  BY <1>3 DEF MarkerIds
<1>5. CandidateIds' \subseteq CandidateIds \cup {m.id}
  BY <1>3 DEF CandidateIds, SummariesOf
<1>6. StoreKnown'
  BY <1>0, <1>2, <1>4, <1>5 DEF StoreKnown, HandedOut, pubVars
<1>7. ASSUME pubPc \in CandidatePcs
      PROVE  pubAttempt \notin MarkerIds' /\ rows'[pubAttempt] = rows[pubAttempt]
  <2>1. pubAttempt \notin MarkerIds
    BY <1>7 DEF CertifiedInv, CandidateApart
  <2>. QED  BY <1>0, <1>3, <1>4, <1>7, <2>1
<1>. QED  BY <1>2, <1>6, <1>7, OthersCertify

LEMMA InitCertified == Init => CertifiedInv
<1> SUFFICES ASSUME Init PROVE CertifiedInv
  OBVIOUS
<1>1. TypeInv
  BY InitTyped
<1>2. OneWriter /\ StoreKnown
  BY DEF Init, StoreInit, PublisherInit, RetentionInit, OneWriter, StoreKnown,
         MarkerIds, CandidateIds, SummariesOf
<1>3. CleanupKnown /\ CandidateApart /\ SourceCertified
  BY DEF Init, PublisherInit, RetentionInit, CleanupKnown, CandidateApart,
         SourceCertified, CandidatePcs
<1>. QED  BY <1>1, <1>2, <1>3 DEF CertifiedInv

LEMMA NextCertified == CertifiedInv /\ [Next]_vars => CertifiedInv'
<1> SUFFICES ASSUME CertifiedInv, [Next]_vars PROVE CertifiedInv'
  OBVIOUS
<1>1. TypeInv'
  BY NextTyped DEF CertifiedInv
<1>2. CASE PublisherNext /\ UNCHANGED retVars
  BY <1>1, <1>2, PublisherCertifies DEF CertifiedInv
<1>3. CASE RetentionNext
  BY <1>1, <1>3, RetentionCertifies DEF CertifiedInv
<1>4. CASE ApplyLate /\ UNCHANGED <<taskVars, pubVars, retVars>>
  BY <1>1, <1>4, LateCertifies DEF CertifiedInv
<1>5. CASE UNCHANGED <<storeVars, taskVars, pubVars, retVars>>
  <2>1. StoreKnown'
    BY <1>5 DEF CertifiedInv, StoreKnown, storeVars, MarkerIds, CandidateIds,
                SummariesOf, HandedOut, pubVars
  <2>2. pubPc \in CandidatePcs => pubAttempt \notin MarkerIds'
    BY <1>5 DEF CertifiedInv, CandidateApart, storeVars, MarkerIds
  <2>. QED  BY <1>1, <1>5, <2>1, <2>2, OthersCertify DEF CertifiedInv, storeVars
<1>6. CASE ReaderNext /\ UNCHANGED <<taskVars, pubVars, retVars, damage>>
  BY <1>5, <1>6, ReaderTyped DEF CertifiedInv
<1>7. CASE Damage
  BY <1>1, <1>7, DamageCertifies DEF CertifiedInv
<1>8. CASE UNCHANGED vars
  BY <1>5, <1>8 DEF vars
<1>. QED  BY <1>2, <1>3, <1>4, <1>6, <1>7, <1>8 DEF Next, Tasks

(* What the publish task has read of the version it is about to reuse      *)
(* still holds, but for what others have changed since.                    *)
ReuseRead ==
    /\ markers \subseteq everReady
    /\ Reusing =>
         /\ pubBaseRows = pubSource
         /\ \E m \in everReady : /\ m.id = pubBase /\ m.run = pubRun
                                 /\ m.content = pubSource
                                 /\ m \in markers \/ "marker" \in changed
    /\ pubPc = "match" => pubDataset \in Datasets
    /\ \A d \in Datasets :
          pubPc = "audit" \/ (pubPc = "match" /\ pubDataset = "history" /\ d = "current")
             => rows[pubBase][d] = pubSource[d] \/ d \in changed

ReportInv == CertifiedInv /\ ReuseRead

LEMMA InitReport == Init => ReportInv
BY InitCertified DEF ReportInv, ReuseRead, Reusing, Init, StoreInit, PublisherInit

(* The steps of the publish task between the lookup and the report.        *)
LEMMA PublisherReads ==
    ASSUME ReportInv, PublisherNext, everReady' = everReady \cup markers', NoteChanged
    PROVE  ReuseRead'
<1>0. /\ markers \subseteq Marker /\ CertifiedInv /\ ReuseRead
      /\ markers' \subseteq everReady' /\ everReady \subseteq everReady'
  BY DEF ReportInv, CertifiedInv, TypeInv, TypeOK, StoreTypeOK
<1>1. CASE ~ Reusing'
  BY <1>0, <1>1 DEF ReuseRead, Reusing
<1>2. CASE FindReady
  <2> DEFINE m == Newest(ReadySame)
  <2>1. m \in markers /\ m.run = pubRun /\ m.content = pubSource
    <3>1. ReadySame \in SUBSET Marker /\ ReadySame # {}
      BY <1>0, <1>2 DEF FindReady, ReadySame
    <3>2. m \in ReadySame
      BY <3>1, NewestIn
    <3>. QED  BY <3>2 DEF ReadySame
  <2>2. /\ pubBase' = m.id /\ pubBaseRows' = m.content /\ pubDataset' = "current"
        /\ pubPc' = "match" /\ UNCHANGED <<pubRun, pubSource>> /\ markers' = markers
    BY <1>2 DEF FindReady, Take, storeVars
  <2>. HIDE DEF m
  <2>. QED  BY <1>0, <2>1, <2>2 DEF ReuseRead, Datasets
<1>3. CASE MatchStored
  <2>1. /\ pubPc = "match" /\ DatasetUsable /\ pubDataset \in Datasets
        /\ UNCHANGED <<rows, markers, pubBase, pubBaseRows, pubRun, pubSource>>
        /\ \/ pubDataset = "current" /\ pubDataset' = "history" /\ pubPc' = "match"
           \/ pubDataset = "history" /\ pubDataset' = "history" /\ pubPc' = "audit"
    BY <1>0, <1>3 DEF MatchStored, storeVars, ReuseRead, Datasets
  <2>2. changed' = changed \ {pubDataset}
    BY <1>3, <2>1 DEF NoteChanged, Reusing, pubVars, pubLocal, MatchStored
  <2>3. rows[pubBase][pubDataset] = pubSource[pubDataset]
    BY <1>0, <2>1 DEF DatasetUsable, ReuseRead, Reusing
  <2>4. pubDataset \notin {"marker"} /\ ("marker" \in changed => "marker" \in changed')
    BY <2>1, <2>2 DEF Datasets
  <2>5. \A d \in Datasets :
           pubPc' = "audit" \/ (pubPc' = "match" /\ pubDataset' = "history" /\ d = "current")
             => rows[pubBase][d] = pubSource[d] \/ d \in changed'
    BY <1>0, <2>1, <2>2, <2>3 DEF ReuseRead, Datasets
  <2>6. \E m \in everReady' : /\ m.id = pubBase /\ m.run = pubRun
                              /\ m.content = pubSource
                              /\ m \in markers \/ "marker" \in changed'
    BY <1>0, <2>1, <2>4 DEF ReuseRead, Reusing
  <2>7. pubBaseRows = pubSource
    BY <1>0, <2>1 DEF ReuseRead, Reusing
  <2>. QED  BY <1>0, <2>1, <2>5, <2>6, <2>7 DEF ReuseRead, Datasets
<1>4. PublisherNext => FindReady \/ MatchStored \/ ~ Reusing'
  <2>1. OneWriter
    BY <1>0 DEF CertifiedInv
  <2>2. BuildCurrent \/ BuildHistory \/ TestMart => pubPc' = "idle"
    BY <2>1 DEF BuildCurrent, BuildHistory, TestMart, OneWriter, pubVars
  <2>3. LoadIncrementally \/ LoadFully \/ RowsInserted => ~ Reusing'
    BY DEF LoadIncrementally, LoadFully, RowsInserted, EnterDataset, Reusing
  <2>4. ReuseReady \/ RejectReusedAudit \/ RejectCandidate \/ InsertMarker \/ PublishFails
           => ~ Reusing'
    BY DEF ReuseReady, RejectReusedAudit, RejectCandidate, InsertMarker, PublishFails,
           EndPublish, Reusing
  <2>. QED
    BY <2>2, <2>3, <2>4
       DEF PublisherNext, PublisherStep, StartPublish, ReadMart, DrawAttempt, FindBase,
           ReadBaseCurrent, CloneBase, DeleteKeys, KeysDeleted, InsertRows,
           AcceptCandidate, InsertSummaries, Reusing
<1>. QED  BY <1>1, <1>2, <1>3, <1>4

(* What anybody else changes of that version is noted.                     *)
LEMMA OthersRead ==
    ASSUME ReuseRead, UNCHANGED pubVars, everReady' = everReady \cup markers', NoteChanged
    PROVE  ReuseRead'
<1> USE DEF pubVars, pubLocal
<1>1. CASE ~ Reusing
  BY <1>1 DEF ReuseRead, Reusing
<1>2. CASE Reusing
  <2>1. changed' = changed \cup PiecesChanged
    BY <1>2 DEF NoteChanged, Reusing
  <2>2. \A d \in Datasets : rows'[pubBase][d] = rows[pubBase][d] \/ d \in changed'
    BY <2>1 DEF PiecesChanged
  <2>3. \A m \in markers : m.id = pubBase => m \in markers' \/ "marker" \in changed'
    BY <2>1 DEF PiecesChanged
  <2>4. \E m \in everReady' : /\ m.id = pubBase' /\ m.run = pubRun'
                              /\ m.content = pubSource'
                              /\ m \in markers' \/ "marker" \in changed'
    BY <1>2, <2>1, <2>3 DEF ReuseRead
  <2>5. \A d \in Datasets : d \in changed => d \in changed'
    BY <2>1
  <2>. QED  BY <1>2, <2>2, <2>4, <2>5 DEF ReuseRead, Reusing
<1>. QED  BY <1>1, <1>2

LEMMA NextReport == ReportInv /\ [Next]_vars => ReportInv'
<1> SUFFICES ASSUME ReportInv, [Next]_vars PROVE ReuseRead'
  BY NextCertified DEF ReportInv
<1>1. CASE UNCHANGED vars
  BY <1>1 DEF vars, storeVars, pubVars, pubLocal, ReportInv, ReuseRead, Reusing
<1>2. CASE Next
  <2>1. everReady' = everReady \cup markers' /\ NoteChanged
    BY <1>2 DEF Next
  <2>2. PublisherNext \/ UNCHANGED pubVars
    <3>1. RetentionNext => UNCHANGED pubVars
      BY RetentionTyped DEF ReportInv, CertifiedInv
    <3>. QED  BY <1>2, <3>1 DEF Next, Tasks, Damage
  <2>. QED  BY <2>1, <2>2, PublisherReads, OthersRead DEF ReportInv
<1>. QED  BY <1>1, <1>2

LEMMA ReportsAreCertified ==
    ASSUME ReportInv, Next, NEW r \in Runs, xcom'[r] \notin {xcom[r], None}
    PROVE  \E m \in everReady' :
              /\ m.id = xcom'[r] /\ m.run = r /\ m.content = mart
              /\ m \in markers' \/ "marker" \in changed
              /\ \A d \in Datasets : rows'[m.id][d] = mart[d] \/ d \in changed
<1>0. TypeInv /\ SourceCertified /\ xcom \in [Runs -> Attempts \cup {None}]
      /\ ReuseRead /\ everReady' = everReady \cup markers'
  BY DEF ReportInv, CertifiedInv, TypeInv, TypeOK, PublisherTypeOK, Next
<1>1. ReuseReady \/ InsertMarker
  <2>1. xcom' # xcom
    OBVIOUS
  <2>2. \A s \in Runs : StartPublish(s) => xcom'[r] \in {xcom[r], None}
    BY <1>0 DEF StartPublish
  <2>3. ~ RetentionNext
    BY <2>1, <1>0, RetentionTyped
  <2>4. PublisherNext
    BY <2>1, <2>3 DEF Next, Tasks, Damage, taskVars
  <2>. QED
    BY <2>1, <2>2, <2>4
       DEF PublisherNext, PublisherStep, BuildCurrent, BuildHistory, TestMart, ReadMart,
           FindReady, MatchStored, RejectReusedAudit, DrawAttempt, FindBase,
           ReadBaseCurrent, LoadIncrementally, LoadFully, CloneBase, DeleteKeys,
           KeysDeleted, InsertRows, RowsInserted, AcceptCandidate, RejectCandidate,
           InsertSummaries, PublishFails, taskVars
<1>2. pubRun \in Runs /\ pubSource = mart
  BY <1>0, <1>1 DEF ReuseReady, InsertMarker, TypeInv, LocalsTyped,
                    PublishLocals, SourceCertified
<1>3. CASE ReuseReady
  <2>1. /\ pubPc = "audit" /\ xcom' = [xcom EXCEPT ![pubRun] = pubBase]
        /\ UNCHANGED <<rows, markers>>
    BY <1>3 DEF ReuseReady, storeVars
  <2>2. r = pubRun /\ xcom'[r] = pubBase
    BY <1>0, <1>2, <2>1
  <2>3. PICK m \in everReady : /\ m.id = pubBase /\ m.run = pubRun
                               /\ m.content = pubSource
                               /\ m \in markers \/ "marker" \in changed
    BY <1>0, <2>1 DEF ReuseRead, Reusing
  <2>4. \A d \in Datasets : rows[pubBase][d] = pubSource[d] \/ d \in changed
    BY <1>0, <2>1 DEF ReuseRead
  <2>. QED  BY <1>0, <1>2, <2>1, <2>2, <2>3, <2>4
<1>4. CASE InsertMarker
  <2> DEFINE m == [id |-> pubAttempt, run |-> pubRun, content |-> pubSource,
                   time |-> pubTime]
  <2>1. xcom' = [xcom EXCEPT ![pubRun] = pubAttempt] /\ pubPc = "insert_marker"
    BY <1>4 DEF InsertMarker
  <2>2. r = pubRun /\ xcom'[r] = pubAttempt
    BY <1>0, <1>2, <2>1
  <2>3. m \in markers' /\ rows' = rows
    BY <1>4, <2>1 DEF InsertMarker, PubWrites, Perform, Apply, RowsAfter, MarkersAfter
  <2>4. rows[pubAttempt] = mart
    BY <1>0, <1>2, <2>1 DEF SourceCertified, CandidateMatches
  <2>. QED  BY <1>0, <1>2, <2>2, <2>3, <2>4
<1>. QED  BY <1>1, <1>3, <1>4

(* Whatever is lost from the copy and however late abandoned writes reach  *)
(* the server, also between two requests of the task: the publication it   *)
(* reports (publish of clickhouse_publisher.py, fresh or reused) was made  *)
(* visible for its own run, for the certified marts as they stand, and     *)
(* every piece of it is in place but for what others changed of a reused   *)
(* one after the request that read the piece.                              *)
THEOREM ReportsAreTested == Spec => ReportedVersionIsTestedMart
<1>1. ReportInv /\ [Next]_vars =>
          [\A r \in Runs :
             xcom'[r] \notin {xcom[r], None} =>
                \E m \in everReady' :
                   /\ m.id = xcom'[r] /\ m.run = r /\ m.content = mart
                   /\ m \in markers' \/ "marker" \in changed
                   /\ \A d \in Datasets :
                         rows'[m.id][d] = mart[d] \/ d \in changed]_vars
  BY ReportsAreCertified DEF vars
<1>. QED
  BY <1>1, InitReport, NextReport, PTL DEF Spec, ReportedVersionIsTestedMart

-----------------------------------------------------------------------------
(* Versions appear whole: also over a damaged copy, and whatever late      *)
(* writes left in it, a marker the publish task inserts has its rows and   *)
(* its audit rows.                                                         *)
AuditPrepared ==
    /\ pubPc \in CandidatePcs \ {"insert_marker"} => SummariesOf(pubAttempt) = {}
    /\ pubPc = "insert_marker" =>
          SummariesOf(pubAttempt) = {ChangeSummary(d) : d \in Datasets}

LEMMA WriteAudits ==
    ASSUME NEW w \in Write, Apply(w), NEW a, a \notin Touched(w)
    PROVE  SummariesOf(a)' = SummariesOf(a)
<1>1. CASE w.op = "insert_summaries"
  <2>1. summaries' = summaries \cup w.records
    BY <1>1 DEF Apply, SummariesAfter
  <2>2. \A s \in w.records : s.attempt # a
    BY <1>1 DEF Touched
  <2>. QED  BY <2>1, <2>2 DEF SummariesOf
<1>2. CASE w.op = "delete_candidates"
  <2>1. a \notin w.ids
    BY <1>2 DEF Touched
  <2>2. \/ summaries' = summaries
        \/ summaries' = {s \in summaries : s.attempt \notin w.ids}
    BY <1>2 DEF Apply, SummariesAfter
  <2>. QED  BY <2>1, <2>2 DEF SummariesOf
<1>3. CASE w.op \notin {"insert_summaries", "delete_candidates"}
  BY <1>3 DEF Apply, SummariesAfter, SummariesOf
<1>. QED  BY <1>1, <1>2, <1>3

LEMMA PublisherPrepares ==
    ASSUME CertifiedInv, TypeInv', AuditPrepared, PublisherNext
    PROVE  AuditPrepared'
<1>1. CASE pubPc' \notin CandidatePcs
  BY <1>1 DEF AuditPrepared, CandidatePcs
<1>2. CASE DrawAttempt
  <2>1. /\ pubPc' = "base" /\ summaries' = summaries
        /\ pubAttempt' = lastAttempt + 1
    BY <1>2 DEF DrawAttempt, FreshAttempt, storeVars
  <2>2. pubAttempt' \in Attempts
    BY <2>1 DEF TypeInv, LocalsTyped, PublishLocals, CandidatePcs
  <2>3. lastAttempt + 1 \notin HandedOut
    BY DEF HandedOut, CertifiedInv, TypeInv, TypeOK, PublisherTypeOK
  <2>4. SummariesOf(lastAttempt + 1) = {}
    BY <2>1, <2>2, <2>3 DEF CertifiedInv, StoreKnown, CandidateIds
  <2>. QED  BY <2>1, <2>4 DEF AuditPrepared, SummariesOf
<1>3. CASE CloneBase \/ DeleteKeys \/ InsertRows
  <2>1. /\ pubPc \in {"clone", "delete_keys", "insert_rows"}
        /\ pubPc' \in {"clone", "delete_keys", "insert_rows"}
        /\ pubAttempt' = pubAttempt
    BY <1>3 DEF CloneBase, DeleteKeys, InsertRows, pubLocal
  <2>2. PICK w \in PubWrites : Apply(w)
    BY <1>3 DEF CloneBase, DeleteKeys, InsertRows, Perform
  <2>3. summaries' = summaries
    BY <2>1, <2>2 DEF PubWrites, Apply, SummariesAfter
  <2>. QED  BY <2>1, <2>3 DEF AuditPrepared, SummariesOf, CandidatePcs
<1>4. CASE \/ FindBase \/ ReadBaseCurrent \/ LoadIncrementally \/ LoadFully
           \/ KeysDeleted \/ RowsInserted \/ AcceptCandidate
  <2>1. /\ pubPc \in {"base", "read_base", "delete_keys", "insert_rows", "validate"}
        /\ pubPc' \in {"read_base", "clone", "insert_rows", "validate",
                      "insert_summaries"}
        /\ pubAttempt' = pubAttempt /\ summaries' = summaries
    BY <1>4 DEF FindBase, ReadBaseCurrent, LoadIncrementally, LoadFully, NoUsableBase,
                KeysDeleted, RowsInserted, AcceptCandidate, EnterDataset,
                pubLocal, storeVars
  <2>. QED  BY <2>1 DEF AuditPrepared, SummariesOf, CandidatePcs
<1>5. CASE InsertSummaries
  <2>1. /\ pubPc = "insert_summaries" /\ pubPc' = "insert_marker"
        /\ UNCHANGED pubLocal
    BY <1>5 DEF InsertSummaries
  <2>2. SummariesOf(pubAttempt) = {}
    BY <2>1 DEF AuditPrepared, CandidatePcs
  <2>3. summaries' = summaries \cup {ChangeSummary(d) : d \in Datasets}
    BY <1>5, <2>1 DEF InsertSummaries, PubWrites, Perform, Apply, SummariesAfter
  <2>4. \A d \in Datasets : ChangeSummary(d).attempt = pubAttempt
    BY DEF ChangeSummary
  <2>5. SummariesOf(pubAttempt)' = {ChangeSummary(d) : d \in Datasets}
    BY <2>1, <2>2, <2>3, <2>4 DEF SummariesOf, pubLocal
  <2>6. \A d \in Datasets : ChangeSummary(d)' = ChangeSummary(d)
    BY <2>1 DEF ChangeSummary, pubLocal
  <2>. QED  BY <2>1, <2>5, <2>6 DEF AuditPrepared
<1>6. CASE \/ BuildCurrent \/ BuildHistory \/ TestMart
           \/ (\E r \in Runs : StartPublish(r)) \/ ReadMart
           \/ FindReady \/ MatchStored \/ ReuseReady \/ RejectReusedAudit
           \/ RejectCandidate \/ InsertMarker \/ PublishFails
  <2>1. CASE BuildCurrent \/ BuildHistory \/ TestMart
    <3>1. pubPc' = "idle"
      BY <2>1 DEF BuildCurrent, BuildHistory, TestMart, pubVars, CertifiedInv,
         OneWriter
    <3>. QED  BY <1>1, <3>1 DEF CandidatePcs
  <2>2. CASE FindReady \/ MatchStored
    <3>1. pubPc' \in {"match", "audit"}
      BY <2>2 DEF FindReady, MatchStored
    <3>. QED  BY <1>1, <3>1 DEF CandidatePcs
  <2>. QED
    BY <1>1, <1>6, <2>1, <2>2
       DEF StartPublish, ReadMart, ReuseReady, RejectReusedAudit, CandidatePcs,
           RejectCandidate, InsertMarker, PublishFails, EndPublish
<1>. QED
  BY <1>2, <1>3, <1>4, <1>5, <1>6 DEF PublisherNext, PublisherStep

LEMMA OthersPrepare ==
    ASSUME AuditPrepared, UNCHANGED pubVars,
           pubPc \in CandidatePcs =>
              SummariesOf(pubAttempt)' = SummariesOf(pubAttempt)
    PROVE  AuditPrepared'
<1>1. \A d \in Datasets : ChangeSummary(d)' = ChangeSummary(d)
  BY DEF ChangeSummary, pubVars, pubLocal
<1>. QED  BY <1>1 DEF AuditPrepared, CandidatePcs, pubVars, pubLocal

WholeInv == CertifiedInv /\ AuditPrepared

LEMMA InitWhole == Init => WholeInv
BY InitCertified DEF WholeInv, AuditPrepared, Init, PublisherInit, CandidatePcs

LEMMA NextWhole == WholeInv /\ [Next]_vars => WholeInv'
<1> SUFFICES ASSUME WholeInv, [Next]_vars PROVE AuditPrepared'
  BY NextCertified DEF WholeInv
<1>1. CertifiedInv /\ CertifiedInv' /\ AuditPrepared
  BY NextCertified DEF WholeInv
<1>2. CASE PublisherNext
  BY <1>1, <1>2, PublisherPrepares DEF CertifiedInv
<1>3. CASE RetentionNext
  <2>1. pubPc' = "idle"
    BY <1>1, <1>3 DEF CertifiedInv, OneWriter, RetentionNext, RetentionStep,
         StartCleanup, ListReady, RefuseUnprotected, NothingToRemove,
         PlanDeletion, DeleteMarkers, MarkersDeleted, ConfirmMarkers,
         RefuseMarkers, NextDeleteBatch, DeleteCandidates, CandidatesDeleted,
         ConfirmRemoved, RefuseLeftovers, CleanupFails, CleanupSucceeds,
         CleanupAborts, EndCleanup, pubVars
  <2>. QED  BY <2>1 DEF AuditPrepared, CandidatePcs
<1>4. CASE ApplyLate /\ UNCHANGED <<taskVars, pubVars, retVars>>
  <2>1. PICK w \in inFlight : Apply(w)
    BY <1>4 DEF ApplyLate
  <2>2. w \in Write
    BY <1>1 DEF CertifiedInv, TypeInv, TypeOK, StoreTypeOK
  <2>3. ASSUME pubPc \in CandidatePcs
        PROVE  SummariesOf(pubAttempt)' = SummariesOf(pubAttempt)
    <3>1. pubAttempt \notin Touched(w) /\ pubAttempt' = pubAttempt
      BY <1>1, <1>4, <2>3 DEF CertifiedInv, CandidateApart, pubVars, pubLocal
    <3>2. \A a : a \notin Touched(w) => SummariesOf(a)' = SummariesOf(a)
      BY <2>1, <2>2, WriteAudits
    <3>. QED  BY <3>1, <3>2 DEF SummariesOf
  <2>. QED  BY <1>1, <1>4, <2>3, OthersPrepare
<1>5. CASE Damage
  <2>1. PICK m \in markers :
           summaries' = summaries \/ summaries' = {s \in summaries : s.attempt # m.id}
    BY <1>5 DEF Damage
  <2>2. UNCHANGED pubVars
    BY <1>5 DEF Damage
  <2>3. ASSUME pubPc \in CandidatePcs
        PROVE  SummariesOf(pubAttempt)' = SummariesOf(pubAttempt)
    <3>1. pubAttempt # m.id /\ pubAttempt' = pubAttempt
      BY <1>1, <2>2, <2>3 DEF CertifiedInv, CandidateApart, MarkerIds, pubVars, pubLocal
    <3>. QED  BY <2>1, <3>1 DEF SummariesOf
  <2>. QED  BY <1>1, <2>2, <2>3, OthersPrepare
<1>6. CASE UNCHANGED <<summaries, pubVars>>
  BY <1>1, <1>6, OthersPrepare DEF SummariesOf, pubVars, pubLocal
<1>7. CASE ReaderNext /\ UNCHANGED <<taskVars, pubVars, retVars, damage>>
  <2>1. UNCHANGED storeVars
    BY <1>1, <1>7, ReaderTyped DEF CertifiedInv
  <2>. QED  BY <1>6, <1>7, <2>1 DEF storeVars
<1>8. CASE UNCHANGED vars
  BY <1>6, <1>8 DEF vars, storeVars
<1>. QED  BY <1>2, <1>3, <1>4, <1>5, <1>7, <1>8 DEF Next, Tasks

(* One audit row per dataset is what xcom_summary asks for.                *)
LEMMA PreparedIsComplete ==
    ASSUME NEW a, SummariesOf(a) = {ChangeSummary(d) : d \in Datasets}
    PROVE  AuditComplete(a)
<1>1. \A d \in Datasets : ChangeSummary(d).dataset = d
  BY DEF ChangeSummary
<1>2. ASSUME NEW d \in Datasets
      PROVE  Cardinality({s \in SummariesOf(a) : s.dataset = d}) = 1
  <2>1. {s \in SummariesOf(a) : s.dataset = d} = {ChangeSummary(d)}
    BY <1>1
  <2>. QED  BY <2>1, FS_Singleton, Zenon
<1>. QED  BY <1>2 DEF AuditComplete

(* Only two kinds of request add a marker.                                 *)
LEMMA MarkerOfWrite ==
    ASSUME NEW W, StoreMoves(W), NEW m \in markers' \ markers
    PROVE  \E w \in W : /\ w.op = "insert_marker" /\ w.marker = m
                        /\ UNCHANGED <<rows, summaries>>
<1>1. PICK w \in W : Apply(w)
  BY DEF StoreMoves
<1>2. w.op = "insert_marker" /\ w.marker = m
  BY <1>1 DEF Apply, MarkersAfter
<1>. QED  BY <1>1, <1>2 DEF Apply, RowsAfter, SummariesAfter

(* A version the publish task makes visible is the tested mart, with all   *)
(* its rows and one audit row per dataset, whatever else happened to the   *)
(* copy and also when the answer to the marker INSERT is lost.  The only   *)
(* other way a version becomes visible is an abandoned marker INSERT that  *)
(* ClickHouse applies late.                                                *)
MarkersAppearWhole ==
    [][\A m \in markers' \ markers :
          \/ m.content = mart /\ Usable(m)' /\ AuditComplete(m.id)'
          \/ \E w \in inFlight : w.op = "insert_marker" /\ w.marker = m]_vars

LEMMA AppearsWhole ==
    ASSUME WholeInv, Next, NEW m \in markers' \ markers
    PROVE  \/ m.content = mart /\ Usable(m)' /\ AuditComplete(m.id)'
           \/ \E w \in inFlight : w.op = "insert_marker" /\ w.marker = m
<1>0. CertifiedInv /\ AuditPrepared
  BY DEF WholeInv
<1>1. CASE PublisherNext
  <2>1. PICK w \in PubWrites : /\ w.op = "insert_marker" /\ w.marker = m
                               /\ UNCHANGED <<rows, summaries>>
    BY <1>1, PublisherMoves, MarkerOfWrite
  <2>2. /\ pubPc = "insert_marker" /\ m.id = pubAttempt /\ m.content = pubSource
    BY <2>1 DEF PubWrites
  <2>3. pubSource = mart /\ rows[pubAttempt] = pubSource
    BY <1>0, <2>2 DEF CertifiedInv, SourceCertified, CandidateMatches
  <2>4. AuditComplete(m.id)
    BY <1>0, <2>2, PreparedIsComplete DEF AuditPrepared
  <2>5. Usable(m)' /\ AuditComplete(m.id)'
    BY <2>1, <2>2, <2>3, <2>4 DEF Usable, AuditComplete, SummariesOf
  <2>. QED  BY <2>2, <2>3, <2>5
<1>2. CASE RetentionNext
  <2>1. PICK w \in RetWrites : w.op = "insert_marker"
    BY <1>2, RetentionMoves, MarkerOfWrite
  <2>. QED  BY <2>1 DEF RetWrites
<1>3. CASE ApplyLate
  <2>1. StoreMoves(inFlight)
    BY <1>3 DEF ApplyLate, StoreMoves
  <2>. QED  BY <2>1, MarkerOfWrite
<1>4. CASE Damage
  <2>1. markers' \subseteq markers
    BY <1>4 DEF Damage
  <2>. QED  BY <2>1
<1>5. CASE ReaderNext
  <2>1. markers' = markers
    BY <1>0, <1>5, ReaderTyped DEF CertifiedInv, storeVars
  <2>. QED  BY <2>1
<1>. QED  BY <1>1, <1>2, <1>3, <1>4, <1>5 DEF Next, Tasks

THEOREM VersionsAppearWhole == Spec => MarkersAppearWhole
<1>1. WholeInv /\ [Next]_vars =>
         [\A m \in markers' \ markers :
             \/ m.content = mart /\ Usable(m)' /\ AuditComplete(m.id)'
             \/ \E w \in inFlight : w.op = "insert_marker" /\ w.marker = m]_vars
  BY AppearsWhole
<1>. QED  BY <1>1, InitWhole, NextWhole, PTL DEF Spec, MarkersAppearWhole

-----------------------------------------------------------------------------
(* Only damage spoils a version: without late writes, cleanup deletes rows *)
(* of attempts that have no marker, and the publish task writes those of   *)
(* its candidate only, also when the tables lose rows meanwhile.           *)
CleanupApart ==
    /\ retPc \notin {"idle", "list_ready"} => MarkerIds \subseteq retReady
    /\ retPc \in {"delete_markers", "relist_ready"} =>
          retTargets \cap retReady \subseteq RetiredIds
    /\ retPc \in {"delete_candidates", "relist_candidates"} =>
          retTargets \cap MarkerIds = {} /\ retTodo \subseteq retTargets
    /\ retBatch \subseteq retTargets
    /\ retPc # "delete_candidates" => retBatch = {}

ApartInv == WholeInv /\ CleanupApart /\ inFlight = {}

LEMMA NothingLate ==
    ASSUME ~ LateWrites, Next, inFlight = {}, TypeInv
    PROVE  inFlight' = {} /\ ~ ApplyLate
<1> SUFFICES inFlight' = {}
  BY DEF ApplyLate
<1>1. ~ ApplyLate
  BY DEF ApplyLate
<1>2. CASE PublisherNext
  BY <1>2
     DEF PublisherNext, PublisherStep, BuildCurrent, BuildHistory, TestMart,
         StartPublish, ReadMart, FindReady, MatchStored, ReuseReady,
         RejectReusedAudit, DrawAttempt, NothingToReuse, FindBase,
         ReadBaseCurrent, LoadIncrementally, LoadFully, NoUsableBase, CloneBase,
         DeleteKeys, KeysDeleted, InsertRows, RowsInserted, AcceptCandidate,
         RejectCandidate, InsertSummaries, InsertMarker, PublishFails,
         Perform, GiveUp, storeVars
<1>3. CASE RetentionNext
  BY <1>3
     DEF RetentionNext, RetentionStep, StartCleanup, ListReady,
         RefuseUnprotected, NothingToRemove, PlanDeletion, DeleteMarkers,
         MarkersDeleted, ConfirmMarkers, RefuseMarkers, NextDeleteBatch,
         DeleteCandidates, CandidatesDeleted, ConfirmRemoved, RefuseLeftovers,
         CleanupFails, Perform, GiveUp, storeVars
<1>4. CASE ReaderNext
  BY <1>4, ReaderTyped DEF storeVars
<1>5. CASE Damage
  BY <1>5 DEF Damage
<1>. QED  BY <1>1, <1>2, <1>3, <1>4, <1>5 DEF Next, Tasks

(* Nobody else adds a marker while cleanup runs.                           *)
LEMMA ApartKept ==
    ASSUME CleanupApart, UNCHANGED retVars, retPc # "idle" => markers' \subseteq markers
    PROVE  CleanupApart'
<1>1. retPc # "idle" => MarkerIds' \subseteq MarkerIds
  BY DEF MarkerIds
<1>. QED  BY <1>1 DEF CleanupApart, retVars, retLocal, RetiredIds

LEMMA RetentionShrinks ==
    ASSUME RetentionNext
    PROVE  markers' \subseteq markers
<1> SUFFICES ASSUME NEW m \in markers' \ markers PROVE FALSE
  OBVIOUS
<1>1. PICK w \in RetWrites : w.op = "insert_marker"
  BY RetentionMoves, MarkerOfWrite
<1>. QED  BY <1>1 DEF RetWrites

LEMMA RetentionApart ==
    ASSUME OneWriter, CleanupApart, RetentionNext
    PROVE  CleanupApart'
<1> USE DEF CleanupApart, retLocal
<1>0. OneWriter
  OBVIOUS
<1>1. MarkerIds' \subseteq MarkerIds
  BY RetentionShrinks DEF MarkerIds
<1>2. CASE \E r \in Runs : StartCleanup(r)
  <2>1. retPc = "idle"
    BY <1>0, <1>2 DEF StartCleanup, OneWriter
  <2>2. retPc' = "list_ready" /\ retBatch = {} /\ retBatch' = {}
    BY <1>2, <2>1 DEF StartCleanup
  <2>. QED  BY <2>2
<1>3. CASE ListReady
  BY <1>3 DEF ListReady, storeVars, MarkerIds
<1>4. CASE PlanDeletion
  BY <1>1, <1>4 DEF PlanDeletion, PlannedTargets, RetiredIds
<1>5. CASE DeleteMarkers \/ MarkersDeleted
  BY <1>1, <1>5 DEF DeleteMarkers, MarkersDeleted, RetiredIds
<1>6. CASE ConfirmMarkers
  <2>1. retTargets \cap MarkerIds = {}
    BY <1>6 DEF ConfirmMarkers, MarkersConfirmed
  <2>. QED  BY <1>1, <1>6, <2>1 DEF ConfirmMarkers
<1>7. CASE NextDeleteBatch
  <2>1. PICK b \in Batches(retTodo, DeleteBatchSize) :
           retBatch' = b /\ retTodo' = retTodo \ b
    BY <1>7 DEF NextDeleteBatch
  <2>2. b \subseteq retTodo
    BY <2>1 DEF Batches
  <2>. QED  BY <1>1, <1>7, <2>1, <2>2 DEF NextDeleteBatch
<1>8. CASE DeleteCandidates
  BY <1>1, <1>8 DEF DeleteCandidates
<1>9. CASE CandidatesDeleted
  BY <1>1, <1>9 DEF CandidatesDeleted
<1>10. CASE EndCleanup
  BY <1>10 DEF EndCleanup
<1>. QED
  BY <1>2, <1>3, <1>4, <1>5, <1>6, <1>7, <1>8, <1>9, <1>10
     DEF RetentionNext, RetentionStep, RefuseUnprotected, NothingToRemove,
         RefuseMarkers, ConfirmRemoved, RefuseLeftovers, CleanupFails,
         CleanupSucceeds, CleanupAborts

LEMMA InitApart == Init => ApartInv
BY InitWhole DEF ApartInv, CleanupApart, Init, StoreInit, RetentionInit

LEMMA NextApart ==
    ASSUME ~ LateWrites
    PROVE  ApartInv /\ [Next]_vars => ApartInv'
<1> SUFFICES ASSUME ApartInv, [Next]_vars PROVE ApartInv'
  OBVIOUS
<1>0. WholeInv /\ CleanupApart /\ TypeInv /\ OneWriter /\ inFlight = {}
  BY DEF ApartInv, WholeInv, CertifiedInv
<1>1. inFlight' = {} /\ (Next => ~ ApplyLate)
  BY <1>0, NothingLate DEF vars, storeVars
<1> SUFFICES CleanupApart'
  BY <1>0, <1>1, NextWhole DEF ApartInv
<1>2. CASE PublisherNext /\ UNCHANGED retVars
  <2>1. retPc = "idle"
    BY <1>0, <1>2, PublisherCertifies DEF WholeInv, CertifiedInv, OneWriter,
         PublisherNext, BuildCurrent, BuildHistory, TestMart, StartPublish,
         PublisherStep, ReadMart, FindReady, MatchStored, ReuseReady,
         RejectReusedAudit, DrawAttempt, NothingToReuse, FindBase,
         ReadBaseCurrent, LoadIncrementally, LoadFully, NoUsableBase, CloneBase,
         DeleteKeys, KeysDeleted, InsertRows, RowsInserted, AcceptCandidate,
         RejectCandidate, InsertSummaries, InsertMarker, PublishFails
  <2>. QED  BY <1>0, <1>2, <2>1, ApartKept
<1>3. CASE RetentionNext
  BY <1>0, <1>3, RetentionApart
<1>4. CASE Damage
  <2>1. markers' \subseteq markers /\ UNCHANGED retVars
    BY <1>4 DEF Damage
  <2>. QED  BY <1>0, <2>1, ApartKept
<1>5. CASE ReaderNext /\ UNCHANGED <<taskVars, pubVars, retVars, damage>>
  <2>1. markers' = markers
    BY <1>0, <1>5, ReaderTyped DEF storeVars
  <2>. QED  BY <1>0, <1>5, <2>1, ApartKept
<1>6. CASE UNCHANGED vars
  BY <1>0, <1>6, ApartKept DEF vars, storeVars
<1>. QED  BY <1>1, <1>2, <1>3, <1>4, <1>5, <1>6 DEF Next, Tasks

(* The rows and audit rows of a visible version never change while it is   *)
(* visible, unless the copy is damaged from outside: no retry of the       *)
(* publication, and no cleanup interrupted at any request, spoils it.      *)
OnlyDamageSpoilsVersions ==
    [][\A m \in markers' \cap markers :
          \/ /\ rows'[m.id] = rows[m.id]
             /\ SummariesOf(m.id)' = SummariesOf(m.id)
          \/ Damage]_vars

LEMMA SpoiledByWrite ==
    ASSUME TypeInv, NEW W \in SUBSET Write, StoreMoves(W), NEW m \in markers,
           \A w \in W : m.id \notin Touched(w)
    PROVE  rows'[m.id] = rows[m.id] /\ SummariesOf(m.id)' = SummariesOf(m.id)
<1>0. m.id \in Attempts
  BY DEF TypeInv, TypeOK, StoreTypeOK, Marker
<1>1. CASE UNCHANGED <<rows, summaries>>
  BY <1>1 DEF SummariesOf
<1>2. CASE \E w \in W : Apply(w)
  <2>1. PICK w \in W : Apply(w)
    BY <1>2
  <2>. QED  BY <1>0, <2>1, WriteTouches, WriteAudits
<1>. QED  BY <1>1, <1>2 DEF StoreMoves

LEMMA SpoiledByDamage ==
    ASSUME ApartInv, ~ LateWrites, Next, NEW m \in markers
    PROVE  \/ /\ rows'[m.id] = rows[m.id]
              /\ SummariesOf(m.id)' = SummariesOf(m.id)
           \/ Damage
<1>0. /\ CertifiedInv /\ CleanupApart /\ TypeInv /\ inFlight = {}
      /\ m.id \in MarkerIds
  BY DEF ApartInv, WholeInv, CertifiedInv, MarkerIds
<1>1. CASE PublisherNext
  <2>1. \A w \in PubWrites : w \in Write /\ m.id \notin Touched(w)
    BY <1>0, PubTouches DEF CertifiedInv, CandidateApart
  <2>. QED  BY <1>0, <1>1, <2>1, PublisherMoves, SpoiledByWrite
<1>2. CASE RetentionNext
  <2>1. \A w \in RetWrites : w \in Write /\ m.id \notin Touched(w)
    BY <1>0, RetTouches DEF CleanupApart
  <2>. QED  BY <1>0, <1>2, <2>1, RetentionMoves, SpoiledByWrite
<1>3. CASE ReaderNext
  BY <1>0, <1>3, ReaderTyped DEF storeVars, SummariesOf
<1>4. ~ ApplyLate
  BY <1>0, NothingLate
<1>. QED  BY <1>1, <1>2, <1>3, <1>4 DEF Next, Tasks

THEOREM VersionsStayWhole ==
    ASSUME ~ LateWrites PROVE Spec => OnlyDamageSpoilsVersions
<1>1. ApartInv /\ [Next]_vars =>
         [\A m \in markers' \cap markers :
             \/ /\ rows'[m.id] = rows[m.id]
                /\ SummariesOf(m.id)' = SummariesOf(m.id)
             \/ Damage]_vars
  BY SpoiledByDamage
<1>2. ApartInv /\ [Next]_vars => ApartInv'
  BY NextApart
<1>. QED  BY <1>1, <1>2, InitApart, PTL DEF Spec, OnlyDamageSpoilsVersions
=============================================================================
