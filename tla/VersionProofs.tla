----------------------------- MODULE VersionProofs --------------------------
(***************************************************************************)
(* Versions as they are promised, proved from the invariant of the tables  *)
(* on a server that applies no abandoned write late and a copy that loses  *)
(* nothing: clients see whole versions, none of the newest Keep is taken   *)
(* away, a retry reuses the version it finds, cleanup leaves only what it  *)
(* keeps, and the tasks implement the abstract ServingVersions.            *)
(***************************************************************************)
EXTENDS LoadProofs

(* Retention.  A version was overtaken once Keep newer ones were ready.    *)

Newer(m)     == {n \in everReady : n.time > m.time}
Overtaken(m) == Cardinality(Newer(m)) >= Keep

(* What the running cleanup has listed as retired was overtaken, and only  *)
(* such markers are deleted.                                               *)
RetiredWereOvertaken ==
    /\ retPc \notin {"idle", "list_ready"} =>
           \A m \in markers : m.id \in RetiredIds => Overtaken(m)
    /\ retPc = "delete_markers" => retTodo \subseteq RetiredIds

KeptInv ==
    /\ ReadyInv
    /\ markers \subseteq everReady /\ IsFiniteSet(everReady)
    /\ NewestVersionsKept /\ RetiredWereOvertaken

LEMMA NewerFinite ==
    ASSUME IsFiniteSet(everReady), NEW m
    PROVE  IsFiniteSet(Newer(m)) /\ Cardinality(Newer(m)) \in Nat
BY FS_Subset, FS_CardinalityType DEF Newer

(* Once overtaken, always overtaken.                                       *)
LEMMA OvertakenLasts ==
    ASSUME IsFiniteSet(everReady), IsFiniteSet(everReady'),
           everReady \subseteq everReady', NEW m, Overtaken(m)
    PROVE  Overtaken(m)'
<1>1. Newer(m) \subseteq Newer(m)'
  BY DEF Newer
<1>2. IsFiniteSet(Newer(m)')
  BY FS_Subset DEF Newer
<1>3. /\ Cardinality(Newer(m)) <= Cardinality(Newer(m)')
      /\ Cardinality(Newer(m)) \in Nat /\ Cardinality(Newer(m)') \in Nat
  BY <1>1, <1>2, NewerFinite, FS_Subset, FS_CardinalityType
<1>. QED  BY <1>3, RetentionConstants DEF Overtaken

(* It is enough that the markers a step removes were overtaken.            *)
LEMMA KeptStep ==
    ASSUME IsFiniteSet(everReady), IsFiniteSet(everReady'),
           everReady' = everReady \cup markers', NewestVersionsKept,
           \A m \in markers \ markers' : Overtaken(m)
    PROVE  NewestVersionsKept'
<1>1. ASSUME NEW m \in everReady', m \notin markers' PROVE Overtaken(m)'
  <2>1. m \in everReady
    BY <1>1
  <2>2. CASE m \in markers
    BY <1>1, <2>2, OvertakenLasts
  <2>3. CASE m \notin markers
    <3>1. ~ (Cardinality(Newer(m)) < Keep)
      BY <2>1, <2>3 DEF NewestVersionsKept, Newer
    <3>2. Cardinality(Newer(m)) \in Nat /\ Keep \in Nat
      BY NewerFinite, RetentionConstants
    <3>3. Overtaken(m)
      BY <3>1, <3>2 DEF Overtaken
    <3>. QED  BY <3>3, OvertakenLasts
  <2>. QED  BY <2>2, <2>3
<1>2. ASSUME NEW m \in everReady',
             Cardinality({n \in everReady' : n.time > m.time}) < Keep
      PROVE  m \in markers'
  <2>1. Cardinality(Newer(m)') \in Nat
    BY FS_Subset, FS_CardinalityType DEF Newer
  <2>2. Cardinality(Newer(m)') < Keep
    BY <1>2 DEF Newer
  <2>3. ~ Overtaken(m)'
    BY <2>1, <2>2, RetentionConstants DEF Overtaken
  <2>. QED  BY <1>1, <2>3
<1>. QED  BY <1>2 DEF NewestVersionsKept

(* A publish task only ever adds a marker, and none while cleanup runs.    *)
LEMMA PublisherMarkers ==
    ASSUME Quiet, ReadyInv, PublisherNext
    PROVE  /\ \E x : markers' \in {markers, markers \cup {x}}
           /\ retPc # "idle" => markers' = markers
<1> USE DEF taskVars, pubVars, pubLocal
<1>1. ASSUME NEW w \in PubWrites, Apply(w)
      PROVE  \E x : markers' \in {markers, markers \cup {x}}
  BY <1>1 DEF PubWrites, Apply, MarkersAfter
<1>2. \/ UNCHANGED markers
      \/ \E w \in PubWrites : Apply(w)
  BY DEF PublisherNext, PublisherStep, BuildCurrent, BuildHistory, TestMart,
     StartPublish, ReadMart, FindReady, MatchStored, ReuseReady,
     RejectReusedAudit, DrawAttempt, NothingToReuse, FindBase, ReadBaseCurrent,
     LoadIncrementally, LoadFully, NoUsableBase, CloneBase, DeleteKeys,
     KeysDeleted, InsertRows, RowsInserted, AcceptCandidate, RejectCandidate,
     InsertSummaries, InsertMarker, PublishFails, GiveUp, Perform, Quiet,
     storeVars
<1>3. retPc # "idle" => pubPc = "idle"
  BY DEF ReadyInv, OneWriter
<1>4. pubPc = "idle" => PubWrites = {}
  BY DEF PubWrites
<1>. QED  BY <1>1, <1>2, <1>3, <1>4

(* Cleanup deletes markers of its plan only.                               *)
LEMMA RetentionMarkers ==
    ASSUME Quiet, RetentionNext
    PROVE  \/ markers' = markers
           \/ /\ retPc = "delete_markers"
              /\ \E b \in SUBSET retTodo :
                     markers' = {m \in markers : m.id \notin b}
<1>1. ASSUME NEW w \in RetWrites, Apply(w)
      PROVE  \/ markers' = markers
             \/ /\ retPc = "delete_markers"
                /\ \E b \in SUBSET retTodo :
                       markers' = {m \in markers : m.id \notin b}
  <2>1. markers' = MarkersAfter(w)
    BY <1>1 DEF Apply
  <2>2. CASE retPc = "delete_markers"
    <3>1. PICK b \in Batches(retTodo, DeleteBatchSize) :
              w = [op |-> "delete_markers", ids |-> b]
      BY <1>1, <2>2 DEF RetWrites
    <3>2. b \in SUBSET retTodo
      BY BatchesTyped
    <3>3. markers' = {m \in markers : m.id \notin b}
      BY <2>1, <3>1 DEF MarkersAfter
    <3>. QED  BY <2>2, <3>2, <3>3
  <2>3. CASE retPc # "delete_markers"
    <3>1. w.op = "delete_candidates"
      BY <1>1, <2>3 DEF RetWrites
    <3>. QED  BY <2>1, <3>1 DEF MarkersAfter
  <2>. QED  BY <2>2, <2>3
<1>2. \/ UNCHANGED markers
      \/ \E w \in RetWrites : Apply(w)
  BY DEF RetentionNext, RetentionStep, StartCleanup, ListReady,
     RefuseUnprotected, NothingToRemove, PlanDeletion, DeleteMarkers,
     MarkersDeleted, ConfirmMarkers, RefuseMarkers, NextDeleteBatch,
     DeleteCandidates, CandidatesDeleted, ConfirmRemoved, RefuseLeftovers,
     CleanupFails, GiveUp, Perform, Quiet, storeVars
<1>. QED  BY <1>1, <1>2

(* A step that lists, deletes or refuses keeps what cleanup relies on.     *)
LEMMA RetentionKeeps ==
    ASSUME KeptInv, RetentionNext, markers' \subseteq markers,
           IsFiniteSet(everReady'), everReady \subseteq everReady'
    PROVE  RetiredWereOvertaken'
<1> USE DEF KeptInv, taskVars, retLocal, storeVars, RetiredIds
<1>1. \A m \in markers : Overtaken(m) => Overtaken(m)'
  BY OvertakenLasts
<1>2. CASE ListReady
  <2>1. ASSUME NEW m \in markers, m.id \notin retRetained'
        PROVE  Overtaken(m)
    <3> DEFINE newer == {n \in markers : n.time > m.time}
    <3>1. m \notin NewestFirst(markers, Keep)
      BY <1>2, <2>1 DEF ListReady
    <3>2. ~ (Cardinality(newer) < Keep)
      BY <3>1 DEF NewestFirst
    <3>3. newer \subseteq Newer(m) /\ IsFiniteSet(Newer(m))
      BY NewerFinite DEF Newer
    <3>4. /\ Cardinality(newer) \in Nat /\ Cardinality(Newer(m)) \in Nat
          /\ Cardinality(newer) <= Cardinality(Newer(m))
      BY <3>3, FS_Subset, FS_CardinalityType
    <3>. QED  BY <3>2, <3>4, RetentionConstants DEF Overtaken
  <2>. QED  BY <1>1, <1>2, <2>1 DEF ListReady, RetiredWereOvertaken
<1>3. CASE PlanDeletion
  BY <1>1, <1>3 DEF PlanDeletion, RetiredWereOvertaken
<1>4. CASE DeleteMarkers
  BY <1>1, <1>4 DEF DeleteMarkers, RetiredWereOvertaken
<1>5. CASE retPc' \in {"idle", "list_ready"}
  BY <1>5 DEF RetiredWereOvertaken
<1>6. CASE /\ retPc \notin {"idle", "list_ready"}
           /\ retPc' # "delete_markers"
           /\ UNCHANGED <<retReady, retRetained>>
  BY <1>1, <1>6 DEF RetiredWereOvertaken
<1>. QED  BY <1>2, <1>3, <1>4, <1>5, <1>6 DEF RetentionNext, RetentionStep,
     StartCleanup, RefuseUnprotected, NothingToRemove, MarkersDeleted,
     ConfirmMarkers, RefuseMarkers, NextDeleteBatch, DeleteCandidates,
     CandidatesDeleted, ConfirmRemoved, RefuseLeftovers, CleanupFails,
     CleanupSucceeds, CleanupAborts, EndCleanup

LEMMA InitKept == Init => KeptInv
<1> SUFFICES ASSUME Init PROVE KeptInv
  OBVIOUS
<1>1. IsFiniteSet(everReady)
  BY FS_EmptySet DEF Init
<1>. QED  BY <1>1, InitReady DEF Init, StoreInit, RetentionInit, KeptInv,
     NewestVersionsKept, RetiredWereOvertaken

LEMMA NextKept == Quiet => (KeptInv /\ [Next]_vars => KeptInv')
<1> SUFFICES ASSUME Quiet, KeptInv, [Next]_vars PROVE KeptInv'
  OBVIOUS
<1> USE DEF KeptInv
<1>1. ReadyInv'
  BY NextReady
<1>2. CASE UNCHANGED vars
  <2>1. NewestVersionsKept'
    BY <1>2 DEF vars, storeVars, NewestVersionsKept
  <2>2. RetiredWereOvertaken'
    BY <1>2 DEF vars, storeVars, retVars, retLocal, RetiredWereOvertaken,
       RetiredIds, Overtaken, Newer
  <2>. QED  BY <1>1, <1>2, <2>1, <2>2 DEF vars, storeVars
<1>3. ASSUME everReady' = everReady \cup markers',
             NEW x, markers' \subseteq markers \cup {x},
             \A m \in markers \ markers' : Overtaken(m)
      PROVE  /\ markers' \subseteq everReady' /\ IsFiniteSet(everReady')
             /\ NewestVersionsKept'
  <2>1. IsFiniteSet(everReady \cup {x})
    BY FS_AddElement
  <2>2. everReady' \subseteq everReady \cup {x}
    BY <1>3
  <2>3. IsFiniteSet(everReady')
    BY <2>1, <2>2, FS_Subset
  <2>. QED  BY <1>3, <2>3, KeptStep
<1>4. ASSUME UNCHANGED retVars, IsFiniteSet(everReady'),
             everReady \subseteq everReady',
             retPc # "idle" => markers' = markers
      PROVE  RetiredWereOvertaken'
  <2>1. \A m \in markers : Overtaken(m) => Overtaken(m)'
    BY <1>4, OvertakenLasts
  <2>. QED  BY <1>4, <2>1 DEF RetiredWereOvertaken, retVars, retLocal, RetiredIds
<1>5. CASE Next /\ PublisherNext /\ UNCHANGED retVars
  <2>1. PICK x : markers' \in {markers, markers \cup {x}}
    BY <1>5, PublisherMarkers
  <2>2. markers' \subseteq everReady' /\ IsFiniteSet(everReady') /\ NewestVersionsKept'
    BY <1>3, <1>5, <2>1 DEF Next
  <2>3. RetiredWereOvertaken'
    BY <1>4, <1>5, <2>2, PublisherMarkers DEF Next
  <2>. QED  BY <1>1, <2>2, <2>3
<1>6. CASE Next /\ RetentionNext
  <2>1. ASSUME NEW m \in markers \ markers' PROVE Overtaken(m)
    BY <1>6, RetentionMarkers DEF RetiredWereOvertaken
  <2>2. markers' \subseteq markers
    BY <1>6, RetentionMarkers
  <2>3. markers' \subseteq everReady' /\ IsFiniteSet(everReady') /\ NewestVersionsKept'
    BY <1>3, <1>6, <2>1, <2>2 DEF Next
  <2>4. RetiredWereOvertaken'
    BY <1>6, <2>2, <2>3, RetentionKeeps DEF Next
  <2>. QED  BY <1>1, <2>3, <2>4
<1>7. CASE Next /\ ReaderNext /\ UNCHANGED retVars
  <2>1. markers' = markers
    BY <1>7 DEF ReaderNext, ResolveLatest, ResolvePinned, QueryRows,
       QueryCounts, storeVars
  <2>2. markers' \subseteq everReady' /\ IsFiniteSet(everReady') /\ NewestVersionsKept'
    BY <1>3, <1>7, <2>1 DEF Next
  <2>3. RetiredWereOvertaken'
    BY <1>4, <1>7, <2>1, <2>2 DEF Next
  <2>. QED  BY <1>1, <2>2, <2>3
<1>8. ~ ApplyLate /\ ~ Damage
  BY DEF ApplyLate, Damage, Quiet, ReadyInv, NothingAbandoned
<1>. QED  BY <1>2, <1>5, <1>6, <1>7, <1>8 DEF Next, Tasks

(* The newest Keep versions ever published stay ready, whatever fails or   *)
(* is retried and also when the clock steps back (plan and cleanup of      *)
(* clickhouse_retention.py), for every Keep and any number of runs.        *)
THEOREM NewestVersionsStay == Quiet => (Spec => []NewestVersionsKept)
<1> SUFFICES ASSUME Quiet PROVE Spec => []NewestVersionsKept
  OBVIOUS
<1>1. KeptInv /\ [Next]_vars => KeptInv'
  BY NextKept
<1>2. KeptInv => NewestVersionsKept
  BY DEF KeptInv
<1>. QED  BY <1>1, <1>2, InitKept, PTL DEF Spec

-----------------------------------------------------------------------------
(* What was ready, and what was overtaken since.                           *)

WasReady(id) == \E m \in everReady : m.id = id

(* The version of this id has Keep newer ones among the versions of E.     *)
OvertakenIn(E, id) ==
    \E m \in E : m.id = id /\ Cardinality({n \in E : n.time > m.time}) >= Keep

(* A version that was ready and is not visible any more was overtaken.     *)
LEMMA MissingWasOvertaken ==
    ASSUME KeptInv, NEW id, WasReady(id), id \notin MarkerIds
    PROVE  OvertakenIn(everReady, id)
<1>1. PICK m \in everReady : m.id = id
  BY DEF WasReady
<1>2. m \notin markers
  BY <1>1 DEF MarkerIds
<1>3. ~ (Cardinality(Newer(m)) < Keep)
  BY <1>2 DEF KeptInv, NewestVersionsKept, Newer
<1>4. Cardinality(Newer(m)) \in Nat /\ Keep \in Nat
  BY NewerFinite, RetentionConstants DEF KeptInv
<1>5. Cardinality(Newer(m)) >= Keep
  BY <1>3, <1>4
<1>. QED  BY <1>1, <1>5 DEF OvertakenIn, Overtaken, Newer

LEMMA OvertakenInLasts ==
    ASSUME NEW E, NEW F, IsFiniteSet(F), E \subseteq F,
           NEW id, OvertakenIn(E, id)
    PROVE  OvertakenIn(F, id)
<1>1. PICK m \in E :
          m.id = id /\ Cardinality({n \in E : n.time > m.time}) >= Keep
  BY DEF OvertakenIn
<1> DEFINE before == {n \in E : n.time > m.time}
           after  == {n \in F : n.time > m.time}
<1>2. before \subseteq after /\ IsFiniteSet(after)
  BY FS_Subset
<1>3. /\ Cardinality(before) <= Cardinality(after)
      /\ Cardinality(before) \in Nat /\ Cardinality(after) \in Nat
  BY <1>2, FS_Subset, FS_CardinalityType
<1>4. Cardinality(before) >= Keep
  BY <1>1
<1>5. Cardinality(after) >= Keep
  BY <1>3, <1>4, RetentionConstants
<1>. QED  BY <1>1, <1>5 DEF OvertakenIn

-----------------------------------------------------------------------------
(* Clients see whole versions, or none of one that was overtaken.          *)

Resolved == \A c \in Clients : request[c] # "none" => WasReady(target[c])

(* S is all of dataset d of the version of this id, or none of it.         *)
WholeIn(E, id, d, S) ==
    \/ \E m \in E : m.id = id /\ S = m.content[d]
    \/ S = {} /\ OvertakenIn(E, id)

RowKinds == {"rows", "not_found"}

ReadingInv == KeptInv /\ Resolved /\ NeverPartial

LEMMA NeverPartialMeans ==
    NeverPartial <=>
        \A c \in Clients :
            /\ answer[c].kind \in RowKinds =>
                 WholeIn(everReady, answer[c].version, answer[c].dataset,
                         answer[c].rows)
            /\ answer[c].kind # "row_count_mismatch"
BY DEF NeverPartial, WholeIn, OvertakenIn, RowKinds

LEMMA NeverPartialMeansNext ==
    NeverPartial' <=>
        \A c \in Clients :
            /\ answer'[c].kind \in RowKinds =>
                 WholeIn(everReady', answer'[c].version, answer'[c].dataset,
                         answer'[c].rows)
            /\ answer'[c].kind # "row_count_mismatch"
BY DEF NeverPartial, WholeIn, OvertakenIn, RowKinds

LEMMA InitReading == Init => ReadingInv
<1> SUFFICES ASSUME Init PROVE ReadingInv
  OBVIOUS
<1>1. Resolved /\ NeverPartial
  BY DEF Init, ReaderInit, Resolved, NeverPartial, NoAnswer
<1>. QED  BY <1>1, InitKept DEF ReadingInv

(* What a client has learnt stays true while versions come and go.         *)
LEMMA AnswersLast ==
    ASSUME Resolved, NeverPartial, everReady \subseteq everReady',
           IsFiniteSet(everReady'), UNCHANGED readerVars
    PROVE  Resolved' /\ NeverPartial'
<1>1. ASSUME NEW id, NEW d, NEW S, WholeIn(everReady, id, d, S)
      PROVE  WholeIn(everReady', id, d, S)
  BY <1>1, OvertakenInLasts DEF WholeIn
<1>2. NeverPartial'
  BY <1>1, NeverPartialMeans, NeverPartialMeansNext DEF readerVars
<1>. QED  BY <1>2 DEF Resolved, WasReady, readerVars

(* The second query finds all rows of the resolved version or, when it is  *)
(* no longer visible, none; it then was overtaken.                         *)
LEMMA VisibleRowsWhole ==
    ASSUME KeptInv, NEW id, WasReady(id), NEW d
    PROVE  WholeIn(everReady, id, d, VisibleRows(id, d))
<1>1. ReadyComplete /\ markers \subseteq everReady
  BY DEF KeptInv, ReadyInv
<1>2. CASE id \in MarkerIds
  <2>1. PICK m \in markers : m.id = id
    BY <1>2 DEF MarkerIds
  <2>2. rows[id] = m.content
    BY <1>1, <2>1 DEF ReadyComplete, Usable
  <2>. QED  BY <1>1, <1>2, <2>1, <2>2 DEF VisibleRows, WholeIn
<1>3. CASE id \notin MarkerIds
  BY <1>3, MissingWasOvertaken DEF VisibleRows, WholeIn
<1>. QED  BY <1>2, <1>3

LEMMA ReadinessIsTrue ==
    ASSUME ReadyComplete, NEW id
    PROVE  Readiness(id) # "row_count_mismatch"
<1>1. \A m \in markers : m.id = id => m.content = rows[id]
  BY DEF ReadyComplete, Usable
<1>. QED  BY <1>1 DEF Readiness

LEMMA ReaderReading ==
    ASSUME ReadingInv, ReaderNext, everReady' = everReady
    PROVE  Resolved' /\ NeverPartial'
<1> USE DEF ReadingInv, KeptInv, ReadyInv, TypeOK, ReaderTypeOK
<1>1. PICK c \in Clients :
        \/ \E kind \in Requests : ResolveLatest(c, kind) \/ ResolvePinned(c, kind)
        \/ QueryRows(c)
        \/ QueryCounts(c)
  BY DEF ReaderNext
<1>2. ASSUME \A e \in Clients \ {c} :
                 /\ request'[e] = request[e] /\ target'[e] = target[e]
                 /\ answer'[e] = answer[e],
             request'[c] # "none" => WasReady(target'[c]),
             answer'[c].kind \in RowKinds =>
                 WholeIn(everReady, answer'[c].version, answer'[c].dataset,
                         answer'[c].rows),
             answer'[c].kind # "row_count_mismatch"
      PROVE  Resolved' /\ NeverPartial'
  <2>1. NeverPartial'
    BY <1>2, NeverPartialMeans, NeverPartialMeansNext
  <2>. QED  BY <1>2, <2>1 DEF Resolved, WasReady
<1>3. ASSUME NEW kind \in Requests, ResolveLatest(c, kind)
      PROVE  Resolved' /\ NeverPartial'
  <2>1. CASE markers = {}
    BY <1>2, <1>3, <2>1 DEF ResolveLatest, NoAnswer, RowKinds, Resolved
  <2>2. CASE markers # {}
    <3>1. Newest(markers) \in everReady
      BY <2>2, NewestIn DEF StoreTypeOK
    <3>2. WasReady(target'[c])
      BY <1>3, <2>2, <3>1 DEF ResolveLatest, WasReady
    <3>. QED  BY <1>2, <1>3, <2>2, <3>2 DEF ResolveLatest, NoAnswer, RowKinds
  <2>. QED  BY <2>1, <2>2
<1>4. ASSUME NEW kind \in Requests, ResolvePinned(c, kind)
      PROVE  Resolved' /\ NeverPartial'
  <2>1. CASE pin[c] \notin MarkerIds
    BY <1>2, <1>4, <2>1 DEF ResolvePinned, NoAnswer, RowKinds, Resolved
  <2>2. CASE pin[c] \in MarkerIds
    <3>1. WasReady(target'[c])
      BY <1>4, <2>2 DEF ResolvePinned, WasReady, MarkerIds
    <3>. QED  BY <1>2, <1>4, <2>2, <3>1 DEF ResolvePinned, NoAnswer, RowKinds
  <2>. QED  BY <2>1, <2>2
<1>5. CASE QueryRows(c)
  <2>1. WasReady(target[c])
    BY <1>5 DEF QueryRows, Resolved
  <2>2. PICK d : /\ answer'[c].version = target[c]
                 /\ answer'[c].dataset = d
                 /\ answer'[c].rows = VisibleRows(target[c], d)
                 /\ answer'[c].kind \in RowKinds
    BY <1>5 DEF QueryRows, RowKinds
  <2>3. WholeIn(everReady, target[c], d, VisibleRows(target[c], d))
    BY <2>1, VisibleRowsWhole
  <2>4. /\ request'[c] = "none"
        /\ \A e \in Clients \ {c} :
              /\ request'[e] = request[e] /\ target'[e] = target[e]
              /\ answer'[e] = answer[e]
    BY <1>5 DEF QueryRows
  <2>5. answer'[c].kind # "row_count_mismatch"
    BY <2>2 DEF RowKinds
  <2>. QED  BY <1>2, <2>2, <2>3, <2>4, <2>5
<1>6. CASE QueryCounts(c)
  <2>1. answer'[c].kind = Readiness(target[c])
    BY <1>6 DEF QueryCounts, NoAnswer
  <2>2. Readiness(target[c]) \in {"ready", "integrity_check_failed"}
    BY ReadinessIsTrue DEF Readiness
  <2>. QED  BY <1>2, <1>6, <2>1, <2>2 DEF QueryCounts, RowKinds
<1>. QED  BY <1>1, <1>3, <1>4, <1>5, <1>6

LEMMA NextReading == Quiet => (ReadingInv /\ [Next]_vars => ReadingInv')
<1> SUFFICES ASSUME Quiet, ReadingInv, [Next]_vars PROVE ReadingInv'
  OBVIOUS
<1>1. KeptInv' /\ KeptInv
  BY NextKept DEF ReadingInv
<1>2. everReady \subseteq everReady' /\ IsFiniteSet(everReady')
  BY <1>1 DEF Next, vars, KeptInv
<1>3. Resolved' /\ NeverPartial'
  <2>1. CASE UNCHANGED readerVars
    BY <2>1, <1>2, AnswersLast DEF ReadingInv
  <2>2. CASE ReaderNext /\ everReady' = everReady \cup markers'
    <3>1. markers' = markers
      BY <2>2 DEF ReaderNext, ResolveLatest, ResolvePinned, QueryRows,
         QueryCounts, storeVars
    <3>2. everReady' = everReady
      BY <1>1, <2>2, <3>1 DEF KeptInv
    <3>. QED  BY <2>2, <3>2, ReaderReading
  <2>3. CASE Next
    BY <2>1, <2>2, <2>3 DEF Next, Tasks, Damage
  <2>. QED  BY <2>1, <2>3 DEF vars
<1>. QED  BY <1>1, <1>3 DEF ReadingInv

(* A client never sees part of a version or rows of two, none of one only  *)
(* once Keep newer versions were published, and the health check raises no *)
(* false alarm, however its two queries interleave with publications and   *)
(* cleanups (apps/api/clickhouse_repository.py), for any number of         *)
(* clients, runs, attempts, faults and batch sizes.                        *)
THEOREM ReadersSeeWholeVersions == Quiet => (Spec => []NeverPartial)
<1> SUFFICES ASSUME Quiet PROVE Spec => []NeverPartial
  OBVIOUS
<1>1. ReadingInv /\ [Next]_vars => ReadingInv'
  BY NextReading
<1>2. ReadingInv => NeverPartial
  BY DEF ReadingInv
<1>. QED  BY <1>1, <1>2, InitReading, PTL DEF Spec

-----------------------------------------------------------------------------
(* Clients lose only versions that were overtaken.                         *)

PinsWereReady == \A c \in Clients : pin[c] # None => WasReady(pin[c])

VanishInv ==
    ReadingInv /\ PinsWereReady /\ OnlyOvertakenVersionsVanish

Refusals == {"version_unavailable", "integrity_check_failed"}

LEMMA VanishMeans ==
    OnlyOvertakenVersionsVanish <=>
        \A c \in Clients :
            answer[c].kind \in Refusals =>
                OvertakenIn(everReady, answer[c].version)
BY DEF OnlyOvertakenVersionsVanish, OvertakenIn, Refusals

LEMMA VanishMeansNext ==
    OnlyOvertakenVersionsVanish' <=>
        \A c \in Clients :
            answer'[c].kind \in Refusals =>
                OvertakenIn(everReady', answer'[c].version)
BY DEF OnlyOvertakenVersionsVanish, OvertakenIn, Refusals

LEMMA ReaderVanish ==
    ASSUME VanishInv, ReaderNext, everReady' = everReady
    PROVE  PinsWereReady' /\ OnlyOvertakenVersionsVanish'
<1> USE DEF VanishInv, ReadingInv, KeptInv, ReadyInv, TypeOK, ReaderTypeOK
<1>1. PICK c \in Clients :
        \/ \E kind \in Requests : ResolveLatest(c, kind) \/ ResolvePinned(c, kind)
        \/ QueryRows(c)
        \/ QueryCounts(c)
  BY DEF ReaderNext
<1>2. ASSUME \A e \in Clients \ {c} :
                 pin'[e] = pin[e] /\ answer'[e] = answer[e],
             pin'[c] # None => WasReady(pin'[c]),
             answer'[c].kind \in Refusals => OvertakenIn(everReady, answer'[c].version)
      PROVE  PinsWereReady' /\ OnlyOvertakenVersionsVanish'
  <2>1. PinsWereReady'
    BY <1>2 DEF PinsWereReady, WasReady
  <2>3. ASSUME NEW e \in Clients, answer'[e].kind \in Refusals
        PROVE  OvertakenIn(everReady', answer'[e].version)
    BY <1>2, <2>3, VanishMeans
  <2>. QED  BY <2>1, <2>3, VanishMeansNext
<1>3. ASSUME NEW kind \in Requests, ResolveLatest(c, kind)
      PROVE  PinsWereReady' /\ OnlyOvertakenVersionsVanish'
  <2>1. pin' = pin
    BY <1>3 DEF ResolveLatest
  <2>2. /\ \A e \in Clients \ {c} : answer'[e] = answer[e]
        /\ answer'[c].kind \notin Refusals
    BY <1>3 DEF ResolveLatest, NoAnswer, Refusals
  <2>. QED  BY <1>2, <2>1, <2>2 DEF PinsWereReady
<1>4. ASSUME NEW kind \in Requests, ResolvePinned(c, kind)
      PROVE  PinsWereReady' /\ OnlyOvertakenVersionsVanish'
  <2>1. pin' = pin /\ WasReady(pin[c])
    BY <1>4 DEF ResolvePinned, PinsWereReady
  <2>2. CASE pin[c] \notin MarkerIds
    <3>1. OvertakenIn(everReady, pin[c])
      BY <2>1, <2>2, MissingWasOvertaken
    <3>2. /\ \A e \in Clients \ {c} : answer'[e] = answer[e]
          /\ answer'[c].version = pin[c]
      BY <1>4, <2>2 DEF ResolvePinned, NoAnswer
    <3>. QED  BY <1>2, <2>1, <3>1, <3>2 DEF PinsWereReady
  <2>3. CASE pin[c] \in MarkerIds
    <3>1. /\ \A e \in Clients \ {c} : answer'[e] = answer[e]
          /\ answer'[c].kind \notin Refusals
      BY <1>4, <2>3 DEF ResolvePinned, NoAnswer, Refusals
    <3>. QED  BY <1>2, <2>1, <3>1 DEF PinsWereReady
  <2>. QED  BY <2>2, <2>3
<1>5. CASE QueryRows(c)
  <2>1. WasReady(target[c])
    BY <1>5 DEF QueryRows, Resolved
  <2>2. /\ \A e \in Clients \ {c} :
               pin'[e] = pin[e] /\ answer'[e] = answer[e]
        /\ pin'[c] \in {pin[c], target[c]}
        /\ answer'[c].kind \in RowKinds
    BY <1>5 DEF QueryRows, RowKinds
  <2>. QED  BY <1>2, <2>1, <2>2 DEF Refusals, RowKinds, PinsWereReady
<1>6. CASE QueryCounts(c)
  <2>1. WasReady(target[c])
    BY <1>6 DEF QueryCounts, Resolved
  <2>2. /\ \A e \in Clients \ {c} : answer'[e] = answer[e]
        /\ answer'[c].kind = Readiness(target[c])
        /\ answer'[c].version = target[c]
        /\ pin' = pin
    BY <1>6 DEF QueryCounts, NoAnswer
  <2>3. Readiness(target[c]) \in Refusals => target[c] \notin MarkerIds
    BY DEF Readiness, Refusals
  <2>. QED  BY <1>2, <2>1, <2>2, <2>3, MissingWasOvertaken DEF PinsWereReady
<1>. QED  BY <1>1, <1>3, <1>4, <1>5, <1>6

LEMMA InitVanish == Init => VanishInv
<1> SUFFICES ASSUME Init PROVE VanishInv
  OBVIOUS
<1>1. ReadingInv
  BY InitReading
<1>. QED  BY <1>1 DEF Init, ReaderInit, VanishInv, PinsWereReady, NoAnswer,
     OnlyOvertakenVersionsVanish

LEMMA NextVanish == Quiet => (VanishInv /\ [Next]_vars => VanishInv')
<1> SUFFICES ASSUME Quiet, VanishInv, [Next]_vars PROVE VanishInv'
  OBVIOUS
<1>1. ReadingInv' /\ KeptInv' /\ KeptInv
  BY NextReading DEF VanishInv, ReadingInv
<1>2. CASE UNCHANGED readerVars
  <2>1. everReady \subseteq everReady'
    BY DEF Next, vars
  <2>2. \A id : OvertakenIn(everReady, id) => OvertakenIn(everReady', id)
    BY <1>1, <2>1, OvertakenInLasts DEF KeptInv
  <2>3. OnlyOvertakenVersionsVanish'
    BY <1>2, <2>2, VanishMeans, VanishMeansNext DEF VanishInv, readerVars
  <2>4. PinsWereReady'
    BY <1>2, <2>1 DEF VanishInv, PinsWereReady, WasReady, readerVars
  <2>. QED  BY <1>1, <2>3, <2>4 DEF VanishInv
<1>3. CASE Next /\ ReaderNext
  <2>1. markers' = markers
    BY <1>3 DEF ReaderNext, ResolveLatest, ResolvePinned, QueryRows,
       QueryCounts, storeVars
  <2>2. everReady' = everReady
    BY <1>1, <1>3, <2>1 DEF Next, KeptInv
  <2>. QED  BY <1>1, <1>3, <2>2, ReaderVanish DEF VanishInv
<1>. QED  BY <1>2, <1>3 DEF Next, Tasks, Damage, vars

(* A client is refused its version, and the health check misses one, only  *)
(* after Keep newer versions were published (_resolve_publication and      *)
(* get_readiness of apps/api/clickhouse_repository.py).                    *)
THEOREM OnlyOvertakenVanish == Quiet => (Spec => []OnlyOvertakenVersionsVanish)
<1> SUFFICES ASSUME Quiet PROVE Spec => []OnlyOvertakenVersionsVanish
  OBVIOUS
<1>1. VanishInv /\ [Next]_vars => VanishInv'
  BY NextVanish
<1>2. VanishInv => OnlyOvertakenVersionsVanish
  BY DEF VanishInv
<1>. QED  BY <1>1, <1>2, InitVanish, PTL DEF Spec

-----------------------------------------------------------------------------
(* A retry finds what its predecessor published.                           *)

CandidateIsNew == pubPc \in CandidatePcs => ReadySame = {}

ReuseInv == LoadInv /\ ExactRetryReuses /\ CandidateIsNew

(* Either no marker is written and no candidate is begun or changed, or a  *)
(* candidate is begun, or its marker is written and the task is over.    *)
LEMMA PublisherKinds ==
    ASSUME Quiet, PublisherNext
    PROVE  \/ DrawAttempt
           \/ /\ markers' = markers
              /\ \/ pubPc' \notin CandidatePcs
                 \/ pubPc \in CandidatePcs /\ UNCHANGED <<pubRun, pubSource>>
           \/ /\ pubPc = "insert_marker" /\ pubPc' = "idle"
              /\ markers' = markers \cup
                     {[id |-> pubAttempt, run |-> pubRun,
                       content |-> pubSource, time |-> pubTime]}
<1> USE DEF taskVars, pubVars, pubLocal, CandidatePcs, storeVars
<1>1. ASSUME NEW w \in PubWrites, Apply(w)
      PROVE  \/ markers' = markers
             \/ /\ pubPc = "insert_marker"
                /\ markers' = markers \cup
                       {[id |-> pubAttempt, run |-> pubRun,
                         content |-> pubSource, time |-> pubTime]}
  <2>1. markers' = MarkersAfter(w)
    BY <1>1 DEF Apply
  <2>2. CASE pubPc = "insert_marker"
    BY <2>1, <2>2 DEF PubWrites, MarkersAfter
  <2>3. CASE pubPc # "insert_marker"
    <3>1. w.op \in {"clone", "delete_keys", "insert_rows", "insert_summaries"}
      BY <2>3 DEF PubWrites
    <3>. QED  BY <2>1, <3>1 DEF MarkersAfter
  <2>. QED  BY <2>2, <2>3
<1>2. CASE BuildCurrent \/ BuildHistory \/ TestMart
             \/ (\E r \in Runs : StartPublish(r)) \/ ReadMart
  BY <1>2 DEF BuildCurrent, BuildHistory, TestMart, StartPublish, ReadMart
<1>8. CASE FindReady \/ MatchStored
  BY <1>8 DEF FindReady, MatchStored, Take
<1>9. CASE FindBase \/ ReadBaseCurrent \/ LoadIncrementally \/ LoadFully
  BY <1>9 DEF FindBase, ReadBaseCurrent, LoadIncrementally, LoadFully,
     NoUsableBase, EnterDataset, Take
<1>3. CASE ReuseReady \/ RejectReusedAudit \/ RejectCandidate
  BY <1>3 DEF ReuseReady, RejectReusedAudit, RejectCandidate, EndPublish
<1>4. CASE CloneBase \/ DeleteKeys \/ InsertRows \/ InsertSummaries
  BY <1>1, <1>4 DEF CloneBase, DeleteKeys, InsertRows, InsertSummaries, Perform
<1>5. CASE KeysDeleted \/ RowsInserted \/ AcceptCandidate
  BY <1>5 DEF KeysDeleted, RowsInserted, AcceptCandidate, EnterDataset
<1>6. CASE InsertMarker
  BY <1>1, <1>6 DEF InsertMarker, Perform, EndPublish
<1>7. CASE PublishFails
  BY <1>1, <1>7 DEF PublishFails, GiveUp, EndPublish, Quiet
<1>. QED  BY <1>2, <1>3, <1>4, <1>5, <1>6, <1>7, <1>8, <1>9
     DEF PublisherNext, PublisherStep

LEMMA PublisherReuse ==
    ASSUME Quiet, ReuseInv, PublisherNext
    PROVE  ExactRetryReuses' /\ CandidateIsNew'
<1> USE DEF ReuseInv
<1>1. CASE DrawAttempt
  <2>1. /\ UNCHANGED <<markers, pubRun, pubSource>> /\ NothingToReuse
    BY <1>1 DEF DrawAttempt, storeVars
  <2>2. ReadySame = {}
    BY <2>1, ReadBackMatches DEF NothingToReuse
  <2>. QED  BY <2>1, <2>2 DEF ExactRetryReuses, CandidateIsNew, ReadySame
<1>2. CASE /\ markers' = markers
           /\ \/ pubPc' \notin CandidatePcs
              \/ pubPc \in CandidatePcs /\ UNCHANGED <<pubRun, pubSource>>
  BY <1>2 DEF ExactRetryReuses, CandidateIsNew, ReadySame
<1>3. CASE /\ pubPc = "insert_marker" /\ pubPc' = "idle"
           /\ markers' = markers \cup
                  {[id |-> pubAttempt, run |-> pubRun,
                    content |-> pubSource, time |-> pubTime]}
  <2> DEFINE t == [id |-> pubAttempt, run |-> pubRun,
                   content |-> pubSource, time |-> pubTime]
  <2>1. t.run = pubRun /\ t.content = pubSource /\ markers' = markers \cup {t}
    BY <1>3
  <2> HIDE DEF t
  <2>2. \A m \in markers : ~ (m.run = t.run /\ m.content = t.content)
    BY <1>3, <2>1 DEF CandidateIsNew, CandidatePcs, ReadySame
  <2>. QED  BY <1>3, <2>1, <2>2 DEF ExactRetryReuses, CandidateIsNew, CandidatePcs
<1>. QED  BY <1>1, <1>2, <1>3, PublisherKinds

(* Nothing else adds a marker, and a task that publishes is not disturbed. *)
LEMMA OthersReuse ==
    ASSUME ReuseInv, markers' \subseteq markers,
           UNCHANGED <<pubPc, pubRun, pubSource>>
    PROVE  ExactRetryReuses' /\ CandidateIsNew'
BY DEF ReuseInv, ExactRetryReuses, CandidateIsNew, ReadySame

LEMMA NextReuse == Quiet => (ReuseInv /\ [Next]_vars => ReuseInv')
<1> SUFFICES ASSUME Quiet, ReuseInv, [Next]_vars PROVE ReuseInv'
  OBVIOUS
<1>1. LoadInv' /\ ReadyInv
  BY NextLoad DEF ReuseInv, LoadInv
<1>2. CASE UNCHANGED <<storeVars, pubVars>>
  BY <1>1, <1>2, OthersReuse DEF storeVars, pubVars, pubLocal, ReuseInv
<1>3. CASE RetentionNext
  <2>1. UNCHANGED pubVars
    BY <1>1, <1>3, RetentionTyped DEF ReadyInv, TypeInv
  <2>2. markers' \subseteq markers
    BY <1>3, RetentionMarkers
  <2>. QED  BY <1>1, <2>1, <2>2, OthersReuse DEF pubVars, pubLocal, ReuseInv
<1>4. CASE ReaderNext /\ UNCHANGED pubVars
  <2>1. UNCHANGED storeVars
    BY <1>1, <1>4, ReaderTyped DEF ReadyInv, TypeInv
  <2>. QED  BY <1>2, <1>4, <2>1
<1>5. CASE PublisherNext
  BY <1>1, <1>5, PublisherReuse DEF ReuseInv
<1>6. ~ ApplyLate /\ ~ Damage
  BY <1>1 DEF ApplyLate, Damage, Quiet, ReadyInv, NothingAbandoned
<1>. QED  BY <1>2, <1>3, <1>4, <1>5, <1>6 DEF Next, Tasks, vars

(* No two ready versions are of the same run and the same tested mart: the *)
(* retry of a publication whose last answer was lost finds its marker and  *)
(* reuses it (find_ready_publication), whatever was lost before.           *)
THEOREM RetriesReuse == Quiet => (Spec => []ExactRetryReuses)
<1> SUFFICES ASSUME Quiet PROVE Spec => []ExactRetryReuses
  OBVIOUS
<1>1. Init => ReuseInv
  BY InitLoad DEF Init, StoreInit, PublisherInit, ReuseInv, ExactRetryReuses,
     CandidateIsNew, CandidatePcs
<1>2. ReuseInv /\ [Next]_vars => ReuseInv'
  BY NextReuse
<1>3. ReuseInv => ExactRetryReuses
  BY DEF ReuseInv
<1>. QED  BY <1>1, <1>2, <1>3, PTL DEF Spec

-----------------------------------------------------------------------------
(* What cleanup leaves behind.                                             *)

LEMMA EmptyOrFew ==
    ASSUME NEW U, IsFiniteSet(U), NEW n \in U, NEW A, IsFiniteSet(A),
           U \ {n} \subseteq A, NEW k \in Nat, Cardinality(A) < k
    PROVE  Cardinality(U) <= k
<1>1. IsFiniteSet(U \ {n}) /\ Cardinality(U \ {n}) = Cardinality(U) - 1
  BY FS_RemoveElement
<1>2. Cardinality(U \ {n}) <= Cardinality(A)
  BY FS_Subset
<1>3. Cardinality(U) \in Nat /\ Cardinality(A) \in Nat
  BY FS_CardinalityType
<1>. QED  BY <1>1, <1>2, <1>3

(* ORDER BY time DESC LIMIT k returns at most k rows if no two times tie.  *)
LEMMA FewNewest ==
    ASSUME NEW T \in SUBSET Marker, IsFiniteSet(T), NEW k \in Nat,
           \A m, n \in T : m.time = n.time => m = n
    PROVE  Cardinality(NewestFirst(T, k)) <= k
<1> DEFINE U == NewestFirst(T, k)
           after(n) == {x \in T : x.time > n.time}
<1>1. U \subseteq T /\ IsFiniteSet(U)
  BY FS_Subset DEF NewestFirst
<1>2. CASE U = {}
  BY <1>2, FS_EmptySet
<1>3. CASE U # {}
  <2> DEFINE times == {m.time : m \in U}
  <2>1. times \in SUBSET Nat /\ times # {} /\ \A m \in U : m.time \in times
    BY <1>1, <1>3 DEF Marker, Attempts
  <2>2. PICK t \in times : \A u \in times : t <= u
    <3> HIDE DEF times
    <3>. QED  BY <2>1, LeastNatural
  <2>3. PICK n \in U : n.time = t
    OBVIOUS
  <2>4. ASSUME NEW x \in U, x # n PROVE x.time > n.time
    <3>1. n.time <= x.time /\ x.time # n.time
      BY <1>1, <2>1, <2>2, <2>3, <2>4
    <3>2. x.time \in Nat /\ n.time \in Nat
      BY <1>1 DEF Marker, Attempts
    <3>. QED  BY <3>1, <3>2
  <2>5. U \ {n} \subseteq after(n)
    BY <1>1, <2>4
  <2>6. IsFiniteSet(after(n)) /\ Cardinality(after(n)) < k
    <3>1. after(n) \subseteq T
      OBVIOUS
    <3>2. IsFiniteSet(after(n))
      BY <3>1, FS_Subset
    <3>. QED  BY <3>2 DEF NewestFirst
  <2> HIDE DEF U, after
  <2>. QED  BY <1>1, <2>5, <2>6, EmptyOrFew DEF U
<1>. QED  BY <1>2, <1>3

(* A row it leaves out has k of those it returns before it.                *)
LEMMA EnoughNewest ==
    ASSUME NEW T \in SUBSET Marker, IsFiniteSet(T), NEW k \in Nat,
           NEW m \in T, m \notin NewestFirst(T, k)
    PROVE  Cardinality({n \in NewestFirst(T, k) : n.time > m.time}) >= k
<1> DEFINE U == {n \in NewestFirst(T, k) : n.time > m.time}
           after(n) == {x \in T : x.time > n.time}
<1>1. U \subseteq after(m) /\ after(m) \subseteq T
  BY DEF NewestFirst
<1>2. /\ IsFiniteSet(U) /\ Cardinality(U) \in Nat
      /\ Cardinality(after(m)) \in Nat
  BY <1>1, FS_Subset, FS_CardinalityType
<1>3. ~ (Cardinality(after(m)) < k)
  BY DEF NewestFirst
<1>4. SUFFICES ASSUME Cardinality(U) < k PROVE FALSE
  BY <1>2
<1>5. U # after(m)
  BY <1>3, <1>4
<1> DEFINE rest == after(m) \ U
           n == Newest(rest)
<1>6. rest \in SUBSET Marker /\ rest # {}
  BY <1>1, <1>5
<1>7. n \in rest /\ \A x \in rest : x.time <= n.time
  BY <1>6, NewestIn
<1> HIDE DEF n
<1>8. n \in T /\ n.time > m.time /\ n \notin U
  BY <1>7
<1>9. ASSUME NEW x \in after(n) PROVE x \in U
  <2>1. x.time \in Nat /\ n.time \in Nat /\ m.time \in Nat /\ x \in T
    BY <1>8 DEF Marker, Attempts
  <2>2. x.time > n.time
    BY <1>9
  <2>3. x.time > m.time /\ ~ (x.time <= n.time)
    BY <1>8, <2>1, <2>2
  <2>. QED  BY <1>7, <2>1, <2>3
<1>10. Cardinality(after(n)) <= Cardinality(U) /\ Cardinality(after(n)) \in Nat
  BY <1>2, <1>9, FS_Subset, FS_CardinalityType
<1>11. Cardinality(after(n)) < k
  BY <1>2, <1>4, <1>10
<1>. QED  BY <1>8, <1>11 DEF NewestFirst

(* Publication times are distinct, also when the clock was stepped back.   *)
TimedPcs == {"insert_summaries", "insert_marker"}

TimesDiffer ==
    /\ \A m, n \in markers : m.time = n.time => m = n
    /\ pubPc \in TimedPcs => \A m \in markers : m.time # pubTime
    /\ ~ ClockSteps =>
         /\ \A m \in markers : m.time = m.id
         /\ pubPc \in TimedPcs => pubTime = pubAttempt

Held == {m \in markers : m.id \in retRetained}

LatePcs == {"delete_markers", "relist_ready", "delete_candidates",
            "relist_candidates"}

(* What the plan of the running cleanup says of the tables.                *)
CleanupPlanned ==
    /\ retPc = "list_candidates" => retReady = MarkerIds
    /\ retPc \in {"list_candidates"} \cup LatePcs =>
         /\ Cardinality(Held) <= Keep
         /\ \A m \in markers :
                m.id \in RetiredIds =>
                    Cardinality({n \in Held : n.time > m.time}) >= Keep
    /\ retPc \in LatePcs =>
         /\ CandidateIds \subseteq retRetained \cup retTargets
         /\ xcom[retRun] \in retRetained
    /\ retPc \in {"delete_candidates", "relist_candidates"} =>
         MarkerIds = retRetained

RetainedInv == AuditInv /\ KeptInv /\ TimesDiffer /\ CleanupPlanned

LEMMA MarkersKnown ==
    ASSUME RetainedInv
    PROVE  /\ markers \in SUBSET Marker /\ IsFiniteSet(markers)
           /\ \A m, n \in markers : m.id = n.id => m = n
<1>1. markers \subseteq Marker
  BY DEF RetainedInv, KeptInv, ReadyInv, TypeOK, StoreTypeOK
<1>2. IsFiniteSet(markers)
  BY FS_Subset DEF RetainedInv, KeptInv
<1>. QED  BY <1>1, <1>2 DEF RetainedInv, AuditInv, IdsFresh

LEMMA PublisherTimes ==
    ASSUME PublisherNext
    PROVE  \/ AcceptCandidate
           \/ pubPc' \notin TimedPcs
           \/ pubPc \in TimedPcs /\ UNCHANGED <<pubTime, pubAttempt>>
<1> USE DEF taskVars, pubVars, pubLocal, TimedPcs
<1>1. CASE BuildCurrent \/ BuildHistory \/ TestMart
             \/ (\E r \in Runs : StartPublish(r)) \/ ReadMart
             \/ FindReady \/ MatchStored \/ DrawAttempt \/ FindBase
  BY <1>1 DEF BuildCurrent, BuildHistory, TestMart, StartPublish, ReadMart,
     FindReady, MatchStored, DrawAttempt, FindBase
<1>4. CASE ReadBaseCurrent \/ LoadIncrementally \/ LoadFully \/ CloneBase
             \/ KeysDeleted \/ RowsInserted
  BY <1>4 DEF ReadBaseCurrent, LoadIncrementally, LoadFully, CloneBase,
     KeysDeleted, RowsInserted, EnterDataset
<1>2. CASE ReuseReady \/ RejectReusedAudit \/ RejectCandidate
             \/ InsertMarker \/ PublishFails
  BY <1>2 DEF ReuseReady, RejectReusedAudit, RejectCandidate, InsertMarker,
     PublishFails, EndPublish
<1>3. CASE DeleteKeys \/ InsertRows \/ InsertSummaries
  BY <1>3 DEF DeleteKeys, InsertRows, InsertSummaries
<1>. QED  BY <1>1, <1>2, <1>3, <1>4 DEF PublisherNext, PublisherStep

LEMMA PublisherTimesDiffer ==
    ASSUME Quiet, RetainedInv, PublisherNext
    PROVE  TimesDiffer'
<1> USE DEF RetainedInv, TimesDiffer
<1>1. CASE AcceptCandidate
  <2>1. /\ markers' = markers /\ pubAttempt' = pubAttempt
        /\ pubTime' \in ClockReadings
    BY <1>1 DEF AcceptCandidate, storeVars
  <2>2. \A m \in markers : m.id # pubAttempt
    BY <1>1 DEF AcceptCandidate, KeptInv, ReadyInv, FreshAttempts, CandidatePcs
  <2>3. CASE ClockSteps
    BY <2>1, <2>3 DEF ClockReadings, UsedTimes
  <2>4. CASE ~ ClockSteps
    BY <2>1, <2>2, <2>4 DEF ClockReadings
  <2>. QED  BY <2>3, <2>4
<1>2. CASE pubPc \in TimedPcs /\ UNCHANGED <<pubTime, pubAttempt>>
             /\ markers' = markers
  BY <1>2
<1>3. CASE pubPc' \notin TimedPcs /\ markers' = markers
  BY <1>3
<1>4. CASE /\ pubPc = "insert_marker" /\ pubPc' = "idle"
           /\ markers' = markers \cup
                  {[id |-> pubAttempt, run |-> pubRun,
                    content |-> pubSource, time |-> pubTime]}
  <2> DEFINE t == [id |-> pubAttempt, run |-> pubRun,
                   content |-> pubSource, time |-> pubTime]
  <2>1. t.id = pubAttempt /\ t.time = pubTime /\ markers' = markers \cup {t}
    BY <1>4
  <2> HIDE DEF t
  <2>. QED  BY <1>4, <2>1 DEF TimedPcs
<1>5. DrawAttempt => markers' = markers /\ pubPc' \notin TimedPcs
  BY DEF DrawAttempt, storeVars, TimedPcs
<1>6. pubPc' = "idle" => pubPc' \notin TimedPcs
  BY DEF TimedPcs
<1>. QED  BY <1>1, <1>2, <1>3, <1>4, <1>5, <1>6, PublisherKinds, PublisherTimes

(* The writes of cleanup leave the markers it retains and add nothing.     *)
LEMMA CleanupShrinks ==
    ASSUME Quiet, RetainedInv, RetentionNext
    PROVE  /\ markers' \subseteq markers
           /\ retPc # "delete_markers" => markers' = markers
           /\ retPc = "delete_markers" =>
                 \A m \in markers : m.id \notin retTodo => m \in markers'
           /\ CandidateIds' \subseteq CandidateIds
<1>1. ReadyInv
  BY DEF RetainedInv, KeptInv
<1>2. \/ UNCHANGED <<rows, summaries>>
      \/ \E w \in RetWrites : Apply(w)
  BY DEF RetentionNext, RetentionStep, StartCleanup, ListReady,
     RefuseUnprotected, NothingToRemove, PlanDeletion, DeleteMarkers,
     MarkersDeleted, ConfirmMarkers, RefuseMarkers, NextDeleteBatch,
     DeleteCandidates, CandidatesDeleted, ConfirmRemoved, RefuseLeftovers,
     CleanupFails, GiveUp, Perform, Quiet, storeVars
<1>3. /\ \A a \in Attempts : rows[a] = Empty => rows'[a] = Empty
      /\ summaries' \subseteq summaries
  BY <1>1, <1>2, CleanupOnlyRemoves, CleanupWriteSafe
<1>. QED  BY <1>3, RetentionMarkers DEF CandidateIds, SummariesOf

(* The plan of a cleanup that goes on, over the markers that are left.     *)
LEMMA StaysPlanned ==
    ASSUME RetainedInv, retPc \in {"list_candidates"} \cup LatePcs,
           UNCHANGED <<retReady, retRetained>>,
           markers' \subseteq markers, Held' = Held
    PROVE  /\ Cardinality(Held)' <= Keep
           /\ \A m \in markers' :
                 m.id \in RetiredIds' =>
                     Cardinality({n \in Held' : n.time > m.time}) >= Keep
<1>1. RetiredIds' = RetiredIds
  BY DEF RetiredIds
<1>. QED  BY <1>1 DEF RetainedInv, CleanupPlanned

LEMMA RetentionPlanned ==
    ASSUME Quiet, RetainedInv, RetentionNext
    PROVE  CleanupPlanned'
<1> USE DEF taskVars, pubVars, pubLocal, retLocal, LatePcs
<1>1. ReadyInv /\ CleanupSafe /\ CleanupPlanned
  BY DEF RetainedInv, KeptInv, ReadyInv
<1>2. retPc = "delete_markers" => retTodo \cap retRetained = {}
  BY <1>1 DEF CleanupSafe
<1>3. Held' = Held \/ retRetained' # retRetained
  BY <1>2, CleanupShrinks DEF Held
<1>4. CASE retPc' \in {"idle", "list_ready"}
  BY <1>4 DEF CleanupPlanned
<1>5. CASE ListReady
  <2> DEFINE newest == NewestFirst(markers, Keep)
  <2>1. /\ markers' = markers /\ retPc' = "list_candidates"
        /\ retReady' = MarkerIds
        /\ retRetained' = {m.id : m \in newest}
    BY <1>5 DEF ListReady, storeVars
  <2>2. newest \subseteq markers
    BY DEF NewestFirst
  <2>3. Held' = newest
    BY <2>1, <2>2, MarkersKnown DEF Held
  <2>4. Cardinality(newest) <= Keep
    BY MarkersKnown, FewNewest, RetentionConstants DEF RetainedInv, TimesDiffer
  <2>5. ASSUME NEW m \in markers, m.id \in RetiredIds'
        PROVE  Cardinality({n \in newest : n.time > m.time}) >= Keep
    <3>1. m \notin newest
      BY <2>1, <2>5 DEF RetiredIds
    <3>. QED  BY <3>1, MarkersKnown, EnoughNewest, RetentionConstants
  <2> HIDE DEF newest
  <2>. QED  BY <2>1, <2>3, <2>4, <2>5 DEF CleanupPlanned, MarkerIds
<1>6. CASE PlanDeletion
  <2>1. /\ UNCHANGED <<markers, rows, summaries, xcom, retReady, retRetained, retRun>>
        /\ retPc = "list_candidates" /\ retPc' = "delete_markers"
        /\ retTargets' = RetiredIds \cup (CandidateIds \ retReady)
        /\ xcom[retRun] \in retRetained
    BY <1>6 DEF PlanDeletion, storeVars, PlannedTargets
  <2>2. CandidateIds' = CandidateIds
    BY <2>1 DEF CandidateIds, SummariesOf
  <2>3. CandidateIds \subseteq retRetained \cup retTargets'
    BY <2>1 DEF RetiredIds
  <2>. QED  BY <1>3, <2>1, <2>2, <2>3, StaysPlanned DEF CleanupPlanned
<1>7. CASE /\ retPc \in LatePcs /\ retPc' \in LatePcs
           /\ UNCHANGED <<retReady, retRetained, retTargets, retRun, xcom>>
           /\ retPc' \in {"delete_candidates", "relist_candidates"} =>
                 /\ MarkerIds = retRetained
                 /\ retPc # "delete_markers"
  <2>1. Held' = Held /\ markers' \subseteq markers /\ CandidateIds' \subseteq CandidateIds
    BY <1>3, <1>7, CleanupShrinks
  <2>2. /\ Cardinality(Held)' <= Keep
        /\ \A m \in markers' :
              m.id \in RetiredIds' =>
                  Cardinality({n \in Held' : n.time > m.time}) >= Keep
    BY <1>7, <2>1, StaysPlanned
  <2>3. /\ CandidateIds' \subseteq retRetained' \cup retTargets'
        /\ xcom'[retRun'] \in retRetained'
    BY <1>1, <1>7, <2>1 DEF CleanupPlanned
  <2>4. retPc' \in {"delete_candidates", "relist_candidates"} =>
            MarkerIds' = retRetained'
    BY <1>7, CleanupShrinks DEF MarkerIds
  <2>. QED  BY <1>7, <2>2, <2>3, <2>4 DEF CleanupPlanned
<1>8. CASE DeleteMarkers \/ MarkersDeleted
  BY <1>7, <1>8 DEF DeleteMarkers, MarkersDeleted
<1>9. CASE ConfirmMarkers
  <2>1. MarkerIds \subseteq retReady /\ MarkersConfirmed
    BY <1>1, <1>9 DEF ConfirmMarkers, CleanupSafe
  <2>2. MarkerIds = retRetained
    BY <2>1 DEF MarkersConfirmed, RetiredIds
  <2>. QED  BY <1>7, <1>9, <2>2 DEF ConfirmMarkers
<1>10. CASE NextDeleteBatch \/ DeleteCandidates \/ CandidatesDeleted
  <2>1. MarkerIds = retRetained
    BY <1>1, <1>10 DEF CleanupPlanned, NextDeleteBatch, DeleteCandidates,
       CandidatesDeleted
  <2>. QED  BY <1>7, <1>10, <2>1 DEF NextDeleteBatch, DeleteCandidates,
       CandidatesDeleted
<1>. QED  BY <1>4, <1>5, <1>6, <1>8, <1>9, <1>10 DEF RetentionNext,
     RetentionStep, StartCleanup, RefuseUnprotected, NothingToRemove,
     RefuseMarkers, ConfirmRemoved, RefuseLeftovers, CleanupFails,
     CleanupSucceeds, CleanupAborts, EndCleanup

(* While cleanup runs it has the pool, and no publish task takes a step.   *)
LEMMA NobodyPublishes ==
    ASSUME ReadyInv, PublisherNext
    PROVE  retPc = "idle"
<1>1. pool = "free" \/ pubPc # "idle"
  BY DEF PublisherNext, PublisherStep, BuildCurrent, BuildHistory, TestMart,
     StartPublish, ReadMart, FindReady, MatchStored, ReuseReady,
     RejectReusedAudit, DrawAttempt, NothingToReuse, FindBase, ReadBaseCurrent,
     LoadIncrementally, LoadFully, NoUsableBase, CloneBase, DeleteKeys,
     KeysDeleted, InsertRows, RowsInserted, AcceptCandidate, RejectCandidate,
     InsertSummaries, InsertMarker, PublishFails
<1>. QED  BY <1>1 DEF ReadyInv, OneWriter

LEMMA InitRetained == Init => RetainedInv
<1> SUFFICES ASSUME Init PROVE RetainedInv
  OBVIOUS
<1>1. AuditInv /\ KeptInv
  BY InitAudit, InitKept
<1>2. TimesDiffer /\ CleanupPlanned
  BY DEF Init, StoreInit, PublisherInit, RetentionInit, TimesDiffer, TimedPcs,
     CleanupPlanned, LatePcs
<1>. QED  BY <1>1, <1>2 DEF RetainedInv

LEMMA NextRetained == Quiet => (RetainedInv /\ [Next]_vars => RetainedInv')
<1> SUFFICES ASSUME Quiet, RetainedInv, [Next]_vars PROVE RetainedInv'
  OBVIOUS
<1>1. AuditInv' /\ KeptInv'
  BY NextAudit, NextKept DEF RetainedInv
<1>2. ReadyInv
  BY DEF RetainedInv, KeptInv
<1>3. ASSUME UNCHANGED <<storeVars, taskVars, pubVars, retVars>>
      PROVE  RetainedInv'
  BY <1>1, <1>3 DEF RetainedInv, TimesDiffer, CleanupPlanned, Held, RetiredIds,
     MarkerIds, CandidateIds, SummariesOf, storeVars, taskVars, pubVars,
     pubLocal, retVars, retLocal
<1>4. CASE PublisherNext /\ UNCHANGED retVars
  <2>1. retPc' = "idle"
    BY <1>2, <1>4, NobodyPublishes DEF retVars
  <2>2. CleanupPlanned'
    BY <2>1 DEF CleanupPlanned, LatePcs
  <2>. QED  BY <1>1, <1>4, <2>2, PublisherTimesDiffer DEF RetainedInv
<1>5. CASE RetentionNext
  <2>1. UNCHANGED pubVars
    BY <1>2, <1>5, RetentionTyped DEF ReadyInv, TypeInv
  <2>2. markers' \subseteq markers
    BY <1>5, RetentionMarkers
  <2>3. TimesDiffer'
    BY <2>1, <2>2 DEF RetainedInv, TimesDiffer, pubVars, pubLocal
  <2>. QED  BY <1>1, <1>5, <2>3, RetentionPlanned DEF RetainedInv
<1>6. CASE ReaderNext /\ UNCHANGED <<taskVars, pubVars, retVars>>
  <2>1. UNCHANGED storeVars
    BY <1>2, <1>6, ReaderTyped DEF ReadyInv, TypeInv
  <2>. QED  BY <1>3, <1>6, <2>1
<1>7. ~ ApplyLate /\ ~ Damage
  BY <1>2 DEF ApplyLate, Damage, Quiet, ReadyInv, NothingAbandoned
<1>. QED  BY <1>3, <1>4, <1>5, <1>6, <1>7 DEF Next, Tasks, vars

LEMMA CleanupLeaves ==
    ASSUME Quiet, RetainedInv, RetentionNext, NEW r \in cleaned' \ cleaned
    PROVE  /\ Cardinality(markers') <= Keep
           /\ xcom[r] \in MarkerIds'
           /\ CandidateIds' \subseteq MarkerIds'
<1> USE DEF taskVars, pubVars, pubLocal, retLocal, storeVars, LatePcs
<1>1. CleanupPlanned /\ CleanupSafe
  BY DEF RetainedInv, KeptInv, ReadyInv
<1>2. ASSUME UNCHANGED <<rows, summaries, markers>>
      PROVE  markers' = markers /\ MarkerIds' = MarkerIds /\ CandidateIds' = CandidateIds
  BY <1>2 DEF MarkerIds, CandidateIds, SummariesOf
<1>3. ASSUME MarkerIds \subseteq retRetained PROVE Held = markers
  BY <1>3 DEF Held, MarkerIds
<1>4. CASE NothingToRemove
  <2>1. /\ UNCHANGED <<rows, summaries, markers>> /\ r = retRun
        /\ retPc = "list_candidates"
        /\ RetiredIds = {} /\ CandidateIds \subseteq retReady
        /\ xcom[retRun] \in retRetained
    BY <1>4 DEF NothingToRemove, CleanupSucceeds, PlannedTargets
  <2>2. retReady = MarkerIds /\ retRetained \subseteq retReady
    BY <1>1, <2>1 DEF CleanupPlanned, CleanupSafe
  <2>3. MarkerIds \subseteq retRetained
    BY <2>1, <2>2 DEF RetiredIds
  <2>. QED  BY <1>1, <1>2, <1>3, <2>1, <2>2, <2>3 DEF CleanupPlanned
<1>5. CASE ConfirmRemoved
  <2>1. /\ UNCHANGED <<rows, summaries, markers>> /\ r = retRun
        /\ retPc = "relist_candidates" /\ retTargets \cap CandidateIds = {}
    BY <1>5 DEF ConfirmRemoved, CleanupSucceeds
  <2>2. /\ MarkerIds = retRetained /\ xcom[retRun] \in retRetained
        /\ CandidateIds \subseteq retRetained
        /\ Cardinality(Held) <= Keep
    BY <1>1, <2>1 DEF CleanupPlanned
  <2>. QED  BY <1>2, <1>3, <2>1, <2>2
<1>6. NothingToRemove \/ ConfirmRemoved
  BY DEF RetentionNext, RetentionStep, StartCleanup, ListReady,
     RefuseUnprotected, PlanDeletion, DeleteMarkers, MarkersDeleted,
     ConfirmMarkers, RefuseMarkers, NextDeleteBatch, DeleteCandidates,
     CandidatesDeleted, RefuseLeftovers, CleanupFails, CleanupAborts
<1>. QED  BY <1>4, <1>5, <1>6

(* A cleanup that succeeds leaves the published version, at most Keep      *)
(* versions in all and nothing of any other attempt (cleanup of            *)
(* clickhouse_retention.py, apply=True), for every Keep, any batch sizes   *)
(* and any number of failed attempts before it.                            *)
THEOREM CleanupIsComplete == Quiet => (Spec => CleanupLeavesOnlyRetained)
<1> SUFFICES ASSUME Quiet PROVE Spec => CleanupLeavesOnlyRetained
  OBVIOUS
<1>1. RetainedInv /\ [Next]_vars => RetainedInv'
  BY NextRetained
<1>2. RetainedInv /\ [Next]_vars =>
          [\A r \in cleaned' \ cleaned :
              /\ Cardinality(markers') <= Keep
              /\ xcom[r] \in MarkerIds'
              /\ CandidateIds' \subseteq MarkerIds']_vars
  <2> SUFFICES ASSUME RetainedInv, Next, NEW r \in cleaned' \ cleaned
               PROVE  /\ Cardinality(markers') <= Keep
                      /\ xcom[r] \in MarkerIds'
                      /\ CandidateIds' \subseteq MarkerIds'
    BY DEF vars
  <2>1. RetentionNext
    <3>1. ~ ApplyLate /\ ~ Damage
      BY DEF ApplyLate, Damage, Quiet, RetainedInv, KeptInv, ReadyInv,
         NothingAbandoned
    <3>2. ~ UNCHANGED retVars
      BY DEF retVars
    <3>. QED  BY <3>1, <3>2 DEF Next, Tasks
  <2>. QED  BY <2>1, CleanupLeaves
<1>. QED  BY <1>1, <1>2, InitRetained, PTL DEF Spec, CleanupLeavesOnlyRetained

-----------------------------------------------------------------------------
(* The tasks implement the abstract store of versions.                     *)

Shown  == {[id |-> m.id, time |-> m.time, content |-> rows[m.id]] : m \in markers}
Issued == {m.id : m \in everReady}

VersionOf(m) == [id |-> m.id, time |-> m.time, content |-> m.content]

(* A marker says what its rows are, so a version is known by its marker.   *)
LEMMA ShownIs ==
    ASSUME ReadyComplete PROVE Shown = {VersionOf(m) : m \in markers}
BY DEF Shown, VersionOf, ReadyComplete, Usable

LEMMA ShownIsNext ==
    ASSUME ReadyComplete' PROVE Shown' = {VersionOf(m) : m \in markers'}
BY DEF Shown, VersionOf, ReadyComplete, Usable

LEMMA AddedIsPublished ==
    ASSUME RetainedInv, ReadyComplete', TypeOK', pubPc = "insert_marker",
           NEW t, t.id = pubAttempt, markers' = markers \cup {t},
           everReady' = everReady \cup markers'
    PROVE  Versions!Publish
<1>1. ReadyComplete /\ markers \subseteq everReady
  BY DEF RetainedInv, KeptInv, ReadyInv
<1>2. Shown' = Shown \cup {VersionOf(t)}
  BY <1>1, ShownIs, ShownIsNext
<1>3. t \in Marker
  BY DEF TypeOK, StoreTypeOK
<1>4. VersionOf(t) \in [id : Attempts, time : Attempts, content : Content]
  BY <1>3 DEF Marker, VersionOf
<1>5. VersionOf(t).id \notin Issued
  BY DEF RetainedInv, AuditInv, IdsFresh, CandidatePcs, Issued, VersionOf
<1>6. Issued' = Issued \cup {VersionOf(t).id}
  BY <1>1 DEF Issued, VersionOf
<1>. QED  BY <1>2, <1>4, <1>5, <1>6 DEF Versions!Publish, Versions!Version,
     Shown, Issued

LEMMA ShownFinite == ASSUME RetainedInv PROVE IsFiniteSet(Shown)
<1> DEFINE g == [m \in markers |-> VersionOf(m)]
<1>1. Shown = {VersionOf(m) : m \in markers}
  BY ShownIs DEF RetainedInv, KeptInv, ReadyInv
<1>2. g \in [markers -> Shown] /\ \A u \in Shown : \E m \in markers : g[m] = u
  BY <1>1
<1>3. g \in Surjection(markers, Shown)
  BY <1>2 DEF Surjection
<1> HIDE DEF g
<1>. QED  BY <1>3, MarkersKnown, FS_Surjection

(* As many versions are shown after m as there are retained markers.       *)
LEMMA ShownAfter ==
    ASSUME RetainedInv, NEW m \in markers
    PROVE  Cardinality({n \in Held : n.time > m.time})
               <= Cardinality({u \in Shown : u.time > m.time})
<1> DEFINE A == {n \in Held : n.time > m.time}
           B == {u \in Shown : u.time > m.time}
           f == [n \in A |-> VersionOf(n)]
<1>1. ReadyComplete
  BY DEF RetainedInv, KeptInv, ReadyInv
<1>2. \A n \in A : n \in markers /\ VersionOf(n) \in B
  BY <1>1, ShownIs DEF Held, VersionOf
<1>3. \A x, y \in A : VersionOf(x) = VersionOf(y) => x = y
  BY <1>2, MarkersKnown DEF VersionOf
<1>4. f \in Injection(A, B)
  <2>1. f \in [A -> B]
    BY <1>2
  <2>2. \A x, y \in A : f[x] = f[y] => x = y
    BY <1>3
  <2>. QED  BY <2>1, <2>2 DEF Injection, IsInjective
<1>5. IsFiniteSet(B)
  <2>1. B \subseteq Shown
    OBVIOUS
  <2>. QED  BY <2>1, ShownFinite, FS_Subset
<1> HIDE DEF A, B, f
<1>6. Cardinality(A) <= Cardinality(B)
  BY <1>4, <1>5, FS_Injection
<1>. QED  BY <1>6 DEF A, B

(* The abstract module counts as this one does.                            *)
LEMMA SameCardinality ==
    ASSUME NEW T PROVE Versions!Cardinality(T) = Cardinality(T)
BY DEF Versions!Cardinality, Cardinality

LEMMA RemovedIsRetired ==
    ASSUME RetainedInv, ReadyComplete', retPc = "delete_markers",
           markers' \subseteq markers, markers' # markers,
           \A m \in markers : m.id \notin retTodo => m \in markers',
           everReady' = everReady
    PROVE  \E S \in SUBSET Shown : Versions!Retire(S)
<1>0. PICK S : S = Shown \ Shown'
  OBVIOUS
<1>1. ReadyComplete /\ retTodo \subseteq RetiredIds
  BY DEF RetainedInv, KeptInv, ReadyInv, RetiredWereOvertaken
<1>2. /\ Shown = {VersionOf(m) : m \in markers}
      /\ Shown' = {VersionOf(m) : m \in markers'}
  BY <1>1, ShownIs, ShownIsNext
<1>3. S # {}
  <2>1. PICK m \in markers : m \notin markers'
    OBVIOUS
  <2>2. VersionOf(m) \notin Shown'
    BY <1>2, <2>1, MarkersKnown DEF VersionOf
  <2>. QED  BY <1>0, <1>2, <2>2
<1>4. Shown' = Shown \ S
  BY <1>0, <1>2
<1>5. ASSUME NEW v \in S
      PROVE  Cardinality({u \in Shown : u.time > v.time}) >= Keep
  <2>1. PICK m \in markers : v = VersionOf(m) /\ m \notin markers'
    BY <1>0, <1>2
  <2>2. m.id \in RetiredIds /\ v.time = m.time
    BY <1>1, <2>1 DEF VersionOf
  <2>3. Cardinality({n \in Held : n.time > m.time}) >= Keep
    BY <2>2 DEF RetainedInv, CleanupPlanned, LatePcs
  <2> DEFINE a == Cardinality({n \in Held : n.time > m.time})
             b == Cardinality({u \in Shown : u.time > m.time})
  <2>4. a <= b
    BY ShownAfter
  <2>5. a \in Nat /\ b \in Nat
    <3>1. {n \in Held : n.time > m.time} \subseteq markers
      BY DEF Held
    <3>2. a \in Nat
      BY <3>1, MarkersKnown, FS_Subset, FS_CardinalityType
    <3>3. IsFiniteSet(Shown)
      BY ShownFinite
    <3>4. b \in Nat
      BY <3>3, FS_Subset, FS_CardinalityType
    <3>. QED  BY <3>2, <3>4
  <2> HIDE DEF a, b
  <2>6. b >= Keep
    BY <2>3, <2>4, <2>5, RetentionConstants DEF a
  <2>. QED  BY <2>2, <2>6 DEF b
<1>6. Issued' = Issued
  BY DEF Issued
<1>7. S \in SUBSET Shown
  BY <1>0
<1>8. Versions!Retire(S)
  <2>1. \A v \in S : Versions!Newer(v) = {u \in Shown : u.time > v.time}
    BY DEF Versions!Newer, Shown
  <2>2. \A v \in S : Cardinality(Versions!Newer(v)) >= Keep
    BY <1>5, <2>1
  <2>3. \A v \in S : Versions!Cardinality(Versions!Newer(v)) >= Keep
    BY <2>2, SameCardinality
  <2>. QED  BY <1>3, <1>4, <1>6, <2>3 DEF Versions!Retire, Shown, Issued
<1>. QED  BY <1>7, <1>8

LEMMA StepsToVersions ==
    Quiet => (RetainedInv /\ [Next]_vars => [Versions!Next]_<<Shown, Issued>>)
<1> SUFFICES ASSUME Quiet, RetainedInv, [Next]_vars
             PROVE  [Versions!Next]_<<Shown, Issued>>
  OBVIOUS
<1>1. RetainedInv' /\ ReadyInv
  BY NextRetained DEF RetainedInv, KeptInv
<1>2. ReadyComplete /\ ReadyComplete' /\ TypeOK' /\ markers \subseteq everReady
  BY <1>1 DEF RetainedInv, KeptInv, ReadyInv
<1>3. everReady' = everReady \cup markers' \/ UNCHANGED vars
  BY DEF Next
<1>4. ASSUME markers' = markers PROVE UNCHANGED <<Shown, Issued>>
  <2>1. Shown' = Shown
    BY <1>2, <1>4, ShownIs, ShownIsNext
  <2>2. everReady' = everReady
    BY <1>2, <1>3, <1>4 DEF vars
  <2>. QED  BY <2>1, <2>2 DEF Issued
<1>5. CASE Next /\ PublisherNext
  <2>1. CASE markers' = markers
    BY <1>4, <2>1
  <2>2. CASE /\ pubPc = "insert_marker"
             /\ markers' = markers \cup
                    {[id |-> pubAttempt, run |-> pubRun,
                      content |-> pubSource, time |-> pubTime]}
    <3>1. Versions!Publish
      BY <1>2, <1>5, <2>2, AddedIsPublished DEF Next
    <3>. QED  BY <3>1 DEF Versions!Next
  <2>3. DrawAttempt => markers' = markers
    BY DEF DrawAttempt, storeVars
  <2>. QED  BY <1>5, <2>1, <2>2, <2>3, PublisherKinds
<1>6. CASE Next /\ RetentionNext
  <2>1. CASE markers' = markers
    BY <1>4, <2>1
  <2>2. CASE markers' # markers
    <3>1. /\ retPc = "delete_markers" /\ markers' \subseteq markers
          /\ \A m \in markers : m.id \notin retTodo => m \in markers'
      BY <1>6, <2>2, CleanupShrinks
    <3>2. everReady' = everReady
      BY <1>2, <1>6, <3>1 DEF Next
    <3>3. \E S \in SUBSET Shown : Versions!Retire(S)
      BY <1>2, <2>2, <3>1, <3>2, RemovedIsRetired
    <3>. QED  BY <3>3 DEF Versions!Next, Shown
  <2>. QED  BY <2>1, <2>2
<1>7. CASE ReaderNext
  <2>1. UNCHANGED storeVars
    BY <1>1, <1>7, ReaderTyped DEF ReadyInv, TypeInv
  <2>. QED  BY <1>4, <2>1 DEF storeVars
<1>8. CASE UNCHANGED vars
  BY <1>4, <1>8 DEF vars, storeVars
<1>9. ~ ApplyLate /\ ~ Damage
  BY <1>1 DEF ApplyLate, Damage, Quiet, ReadyInv, NothingAbandoned
<1>. QED  BY <1>5, <1>6, <1>7, <1>8, <1>9 DEF Next, Tasks

(* The publish and cleanup tasks, which take many requests for either and  *)
(* may fail at each, implement a store in which a version appears whole in *)
(* one step, never changes, and goes in one step once Keep newer ones are  *)
(* visible; for every value of the constants.                              *)
THEOREM TasksImplementVersions == Quiet => (Spec => ImplementsVersions)
<1> SUFFICES ASSUME Quiet PROVE Spec => ImplementsVersions
  OBVIOUS
<1>1. RetainedInv /\ [Next]_vars => RetainedInv'
  BY NextRetained
<1>2. Init => Versions!Init
  BY DEF Init, StoreInit, Versions!Init
<1>3. RetainedInv /\ [Next]_vars => [Versions!Next]_<<Shown, Issued>>
  BY StepsToVersions
<1>. QED  BY <1>1, <1>2, <1>3, InitRetained, PTL
          DEF Spec, ImplementsVersions, Versions!Spec, Shown, Issued
=============================================================================
