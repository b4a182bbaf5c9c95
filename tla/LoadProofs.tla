------------------------------ MODULE LoadProofs ----------------------------
(***************************************************************************)
(* The load of ServingPublisher.publish leaves exactly the tested mart     *)
(* under the candidate id, whatever the base, the batches and what earlier *)
(* attempts left behind, on a server that applies no abandoned write late  *)
(* and a copy that loses nothing.                                          *)
(***************************************************************************)
EXTENDS ServingProofs

(* One row per key, as the profile of a dataset requires.                  *)
OnePerKey(S)  == \A r, s \in S : r[1] = s[1] => r = s
Functional(c) == \A d \in Datasets : OnePerKey(c[d])

(* What the plan does to a clone of the base is exact: of the base the     *)
(* rows stay whose keys are not removed, the rest of the source is added.  *)
LEMMA PlanIsExact ==
    ASSUME NEW src, NEW base, OnePerKey(src), OnePerKey(base)
    PROVE  {r \in base : r[1] \notin KeysToRemoveFromClone(src, base)}
               \cup ReplacementRows(src, base) = src
<1> DEFINE removed == KeysToRemoveFromClone(src, base)
           stays   == {r \in base : r[1] \notin removed}
<1>1. ASSUME NEW r \in stays PROVE r \in src
  <2>1. r[1] \in KeysOf(base)
    BY DEF KeysOf
  <2>2. r[1] \notin DeletedKeys(src, base)
    BY DEF KeysToRemoveFromClone
  <2>3. PICK s \in src : s[1] = r[1]
    BY <2>1, <2>2 DEF DeletedKeys, KeysOf
  <2>4. CASE s \notin base
    <3>1. s \in UpdatedRows(src, base)
      BY <2>1, <2>3, <2>4 DEF UpdatedRows
    <3>2. s[1] \in removed
      BY <3>1 DEF KeysToRemoveFromClone, KeysOf
    <3>. QED  BY <2>3, <3>2
  <2>5. CASE s \in base
    BY <2>3, <2>5 DEF OnePerKey
  <2>. QED  BY <2>4, <2>5
<1>2. ReplacementRows(src, base) \subseteq src
  BY DEF ReplacementRows, InsertedRows, UpdatedRows
<1>3. ASSUME NEW s \in src PROVE s \in stays \cup ReplacementRows(src, base)
  <2>1. CASE s[1] \notin KeysOf(base)
    BY <2>1 DEF ReplacementRows, InsertedRows
  <2>2. CASE s[1] \in KeysOf(base) /\ s \notin base
    BY <2>2 DEF ReplacementRows, UpdatedRows
  <2>3. CASE s \in base
    <3>1. s[1] \notin DeletedKeys(src, base)
      BY DEF DeletedKeys, KeysOf
    <3>2. ASSUME s[1] \in KeysOf(UpdatedRows(src, base)) PROVE FALSE
      <4>1. PICK u \in UpdatedRows(src, base) : u[1] = s[1]
        BY <3>2 DEF KeysOf
      <4>2. u \in src /\ u \notin base
        BY DEF UpdatedRows
      <4>. QED  BY <2>3, <4>1, <4>2 DEF OnePerKey
    <3>. QED  BY <2>3, <3>1, <3>2 DEF KeysToRemoveFromClone
  <2>. QED  BY <2>1, <2>2, <2>3
<1>. QED  BY <1>1, <1>2, <1>3

-----------------------------------------------------------------------------
LoadPcs == {"clone", "delete_keys", "insert_rows"}

FunctionalContents ==
    /\ Functional(mart) /\ Functional(pubSource) /\ Functional(pubBaseRows)
    /\ \A m \in markers : Functional(m.content)

(* No row is stored under an id that has not been handed out.              *)
Untouched == \A a \in Attempts : a > lastAttempt => rows[a] = Empty

(* What is being read back is a visible version; the candidate has no rows *)
(* before its base is settled.                                             *)
ReadBackPcs == {"match", "base", "read_base"}
BaseTaken ==
    /\ pubPc \in {"match", "read_base"} =>
          \E m \in markers : m.id = pubBase /\ m.content = pubBaseRows
    /\ pubPc \in {"base", "read_base"} => rows[pubAttempt] = Empty
    /\ pubPc = "base" => pubBase = None

(* While the candidate is loaded its base stands still.                    *)
BaseHeld ==
    pubPc \in LoadPcs =>
        /\ pubBase = None => pubBaseRows = Empty
        /\ pubBase # None => pubBase # pubAttempt /\ rows[pubBase] = pubBaseRows

Removal(d)     == KeysToRemoveFromClone(pubSource[d], pubBaseRows[d])
Replacement(d) == ReplacementRows(pubSource[d], pubBaseRows[d])
Kept(d, keys)  == {r \in pubBaseRows[d] : r[1] \notin keys}

(* How far the load of the dataset at hand has come.                       *)
DatasetLoads ==
    /\ pubPc = "clone" =>
         /\ pubBase # None
         /\ pubKeys = Removal(pubDataset) /\ pubRows = Replacement(pubDataset)
         /\ rows[pubAttempt][pubDataset] = {}
    /\ pubPc = "delete_keys" =>
         /\ pubKeys \subseteq Removal(pubDataset)
         /\ pubRows = Replacement(pubDataset)
         /\ rows[pubAttempt][pubDataset] =
                Kept(pubDataset, Removal(pubDataset) \ pubKeys)
    /\ pubPc = "insert_rows" =>
         /\ pubRows \subseteq Replacement(pubDataset)
         /\ rows[pubAttempt][pubDataset] =
                Kept(pubDataset, Removal(pubDataset))
                    \cup (Replacement(pubDataset) \ pubRows)

(* Where the other dataset stands meanwhile.                               *)
OtherDataset ==
    pubPc \in LoadPcs =>
        /\ pubDataset = "current" => rows[pubAttempt]["history"] = {}
        /\ pubDataset = "history" =>
               rows[pubAttempt]["current"] = pubSource["current"]

LoadInv ==
    /\ ReadyInv
    /\ FunctionalContents /\ Untouched
    /\ BaseTaken /\ BaseHeld /\ DatasetLoads /\ OtherDataset
    /\ IncrementalLoadIsExact

-----------------------------------------------------------------------------
LEMMA EmptyFunctional == Functional(Empty)
BY DEF Functional, OnePerKey, Empty

LEMMA InitLoad == Init => LoadInv
<1> SUFFICES ASSUME Init PROVE LoadInv
  OBVIOUS
<1>. QED  BY InitReady, EmptyFunctional DEF Init, StoreInit, PublisherInit,
     NoLocals, LoadInv, FunctionalContents, Untouched, BaseTaken, BaseHeld,
     DatasetLoads, OtherDataset, IncrementalLoadIsExact, LoadPcs

(* Outside of the load only contents and untouched ids matter.             *)
LEMMA NotLoading ==
    ASSUME ReadyInv', FunctionalContents', Untouched',
           pubPc' \notin ReadBackPcs \cup LoadPcs \cup {"validate"}
    PROVE  LoadInv'
BY DEF LoadInv, ReadBackPcs, BaseTaken, BaseHeld, DatasetLoads, OtherDataset, IncrementalLoadIsExact,
   LoadPcs

(* A dataset is entered with nothing of it stored under the candidate.     *)
LEMMA EnterLoads ==
    ASSUME NEW d \in Datasets,
           EnterDataset(d, pubBase', pubBaseRows'), pubSource' = pubSource,
           pubBase' = None => pubBaseRows' = Empty,
           rows'[pubAttempt'][d] = {}
    PROVE  DatasetLoads' /\ pubPc' \in {"clone", "insert_rows"}
<1> USE DEF EnterDataset
<1>1. /\ pubDataset' = d
      /\ pubKeys' = KeysToRemoveFromClone(pubSource'[d], pubBaseRows'[d])
      /\ pubRows' = ReplacementRows(pubSource'[d], pubBaseRows'[d])
      /\ rows'[pubAttempt'][pubDataset'] = {}
  OBVIOUS
<1>2. CASE pubBase' # None
  <2>1. pubPc' = "clone"
    BY <1>2
  <2>. QED  BY <1>1, <1>2, <2>1 DEF DatasetLoads, Removal, Replacement
<1>3. CASE pubBase' = None
  <2>1. pubPc' = "insert_rows" /\ pubBaseRows'[d] = {}
    BY <1>3 DEF Empty
  <2>. QED  BY <1>1, <2>1 DEF DatasetLoads, Removal, Replacement, Kept
<1>. QED  BY <1>2, <1>3

(* The lookups keep the newest marker they find.                           *)
LEMMA TakeLoads ==
    ASSUME LoadInv, ReadyInv', FindReady \/ FindBase
    PROVE  LoadInv'
<1> USE DEF LoadInv
<1> DEFINE S == IF FindReady THEN ReadySame ELSE markers
<1>1. S \in SUBSET markers /\ S # {} /\ markers \in SUBSET Marker
  BY DEF FindReady, FindBase, ReadySame, ReadyInv, TypeOK, StoreTypeOK
<1>2. Newest(S) \in markers
  BY <1>1, NewestIn
<1>3. /\ pubBase' = Newest(S).id /\ pubBaseRows' = Newest(S).content
      /\ UNCHANGED <<mart, lastAttempt, pubSource, pubAttempt, rows, markers>>
      /\ \/ pubPc = "lookup" /\ pubPc' = "match"
         \/ pubPc = "base" /\ pubPc' = "read_base"
  BY DEF FindReady, FindBase, Take, taskVars, storeVars
<1>. HIDE DEF S
<1>4. FunctionalContents' /\ Untouched'
  BY <1>2, <1>3 DEF FunctionalContents, Untouched
<1>5. BaseTaken'
  BY <1>2, <1>3 DEF BaseTaken
<1>. QED  BY <1>3, <1>4, <1>5 DEF BaseHeld, DatasetLoads, OtherDataset,
     IncrementalLoadIsExact, LoadPcs

(* A round of the read-back that finds its dataset as promised.            *)
LEMMA ReadLoads ==
    ASSUME LoadInv, ReadyInv', MatchStored \/ ReadBaseCurrent
    PROVE  LoadInv'
<1> USE DEF LoadInv
<1>1. /\ UNCHANGED <<mart, lastAttempt, pubSource, pubAttempt, pubBase, pubBaseRows,
                     rows, markers>>
      /\ pubPc \in {"match", "read_base"} /\ pubPc' \in {pubPc, "audit"}
  BY DEF MatchStored, ReadBaseCurrent, taskVars, storeVars
<1>2. FunctionalContents' /\ Untouched' /\ BaseTaken'
  BY <1>1 DEF FunctionalContents, Untouched, BaseTaken
<1>. QED  BY <1>1, <1>2 DEF BaseHeld, DatasetLoads, OtherDataset,
     IncrementalLoadIsExact, LoadPcs

(* Nothing is stored under a fresh attempt id.                             *)
LEMMA DrawLoads ==
    ASSUME LoadInv, ReadyInv', DrawAttempt
    PROVE  LoadInv'
<1> USE DEF LoadInv
<1>1. /\ lastAttempt' = lastAttempt + 1 /\ pubAttempt' = lastAttempt + 1
      /\ UNCHANGED <<mart, pubSource, rows, markers>>
      /\ pubBase' = None /\ pubBaseRows' = Empty /\ pubPc' = "base"
  BY DEF DrawAttempt, FreshAttempt, taskVars, storeVars
<1>2. lastAttempt \in Nat /\ Attempts \subseteq Nat
  BY DEF Attempts, ReadyInv, TypeOK, PublisherTypeOK
<1>3. FunctionalContents' /\ Untouched'
  <2>1. FunctionalContents'
    BY <1>1, EmptyFunctional DEF FunctionalContents
  <2>2. \A a \in Attempts : a > lastAttempt' => a > lastAttempt
    BY <1>1, <1>2
  <2>. QED  BY <1>1, <2>1, <2>2 DEF Untouched
<1>4. pubAttempt' \in Attempts
  BY <1>1 DEF ReadyInv, LocalsTyped, PublishLocals, CandidatePcs
<1>5. rows'[pubAttempt'] = Empty
  BY <1>1, <1>2, <1>4 DEF Untouched
<1>. QED  BY <1>1, <1>3, <1>5 DEF BaseTaken, BaseHeld, DatasetLoads, OtherDataset,
     IncrementalLoadIsExact, LoadPcs

(* A visible version is complete, so its read-back finds what its marker   *)
(* promises.                                                               *)
LEMMA ReadBackMatches ==
    ASSUME LoadInv, pubPc \in {"match", "read_base"}
    PROVE  rows[pubBase] = pubBaseRows /\ DatasetUsable
<1>1. PICK m \in markers : m.id = pubBase /\ m.content = pubBaseRows
  BY DEF LoadInv, BaseTaken
<1>2. rows[m.id] = m.content
  BY DEF LoadInv, ReadyInv, ReadyComplete, Usable
<1>. QED  BY <1>1, <1>2 DEF DatasetUsable

(* The load starts over that base, or over none.                           *)
LEMMA EnterBaseLoads ==
    ASSUME LoadInv, ReadyInv', LoadIncrementally \/ LoadFully
    PROVE  LoadInv'
<1> USE DEF LoadInv
<1>1. /\ UNCHANGED <<mart, lastAttempt, pubSource, pubAttempt, rows, markers>>
      /\ pubPc \in {"base", "read_base"}
      /\ EnterDataset("current", pubBase', pubBaseRows')
  BY DEF LoadIncrementally, LoadFully, NoUsableBase, taskVars, storeVars
<1>2. \/ /\ pubPc = "base" /\ pubBase' = None /\ pubBaseRows' = Empty
      \/ /\ pubPc = "read_base" /\ pubBase' = pubBase /\ pubBaseRows' = pubBaseRows
  BY ReadBackMatches DEF LoadIncrementally, LoadFully, NoUsableBase
<1>3. pubPc = "read_base" => /\ pubBase # None /\ pubBase # pubAttempt
                             /\ rows[pubBase] = pubBaseRows
  <2>1. pubPc = "read_base" => pubBase \in Attempts
    BY DEF ReadyInv, LocalsTyped, PublishLocals
  <2>2. pubPc = "read_base" => pubBase # pubAttempt
    BY DEF BaseTaken, ReadyInv, FreshAttempts, CandidatePcs
  <2>. QED  BY <2>1, <2>2, ReadBackMatches DEF Attempts, None
<1>4. FunctionalContents' /\ Untouched'
  BY <1>1, <1>2, EmptyFunctional DEF FunctionalContents, Untouched
<1>5. rows'[pubAttempt'] = Empty
  BY <1>1 DEF BaseTaken
<1>6. /\ rows'[pubAttempt']["current"] = {}
      /\ rows'[pubAttempt']["history"] = {}
  BY <1>5 DEF Empty, Datasets
<1>7. pubBase' = None => pubBaseRows' = Empty
  BY <1>2, <1>3
<1>8. DatasetLoads' /\ pubPc' \in {"clone", "insert_rows"}
  BY <1>1, <1>6, <1>7, EnterLoads DEF Datasets
<1>9. BaseHeld'
  BY <1>1, <1>2, <1>3, <1>7 DEF BaseHeld
<1>10. OtherDataset'
  <2>1. pubDataset' = "current"
    BY <1>1 DEF EnterDataset
  <2>. QED  BY <2>1, <1>6 DEF OtherDataset
<1>11. IncrementalLoadIsExact' /\ BaseTaken'
  BY <1>8 DEF IncrementalLoadIsExact, BaseTaken
<1>. QED  BY <1>4, <1>8, <1>9, <1>10, <1>11

(* A write of the load changes the dataset at hand of the candidate only.  *)
LEMMA LoadWrite ==
    ASSUME LoadInv, NEW w \in PubWrites, Apply(w), pubPc \in LoadPcs
    PROVE  /\ markers' = markers
           /\ \A a \in Attempts \ {pubAttempt} : rows'[a] = rows[a]
           /\ \A d \in Datasets \ {pubDataset} :
                  rows'[pubAttempt][d] = rows[pubAttempt][d]
           /\ pubPc = "clone" =>
                  rows'[pubAttempt][pubDataset] =
                      rows[pubAttempt][pubDataset] \cup rows[pubBase][pubDataset]
           /\ pubPc = "delete_keys" =>
                  /\ w.keys \subseteq pubKeys
                  /\ rows'[pubAttempt][pubDataset] =
                        {r \in rows[pubAttempt][pubDataset] : r[1] \notin w.keys}
           /\ pubPc = "insert_rows" =>
                  /\ w.batch \subseteq pubRows
                  /\ rows'[pubAttempt][pubDataset] =
                        rows[pubAttempt][pubDataset] \cup w.batch
<1> USE DEF LoadInv, ReadyInv, TypeOK, PublisherTypeOK, StoreTypeOK
<1>1. /\ rows \in [Attempts -> Content] /\ pubAttempt \in Attempts
      /\ rows[pubAttempt] \in [Datasets -> SUBSET Row]
      /\ pubDataset \in Datasets
  BY DEF LocalsTyped, PublishLocals, CandidatePcs, LoadPcs, Content
<1>2. rows' = RowsAfter(w) /\ markers' = MarkersAfter(w)
  BY DEF Apply
<1>3. CASE pubPc = "clone"
  BY <1>1, <1>2, <1>3 DEF PubWrites, RowsAfter, MarkersAfter
<1>4. CASE pubPc = "delete_keys"
  <2>1. PICK b \in Batches(pubKeys, InsertBatchSize) :
            w = [op |-> "delete_keys", attempt |-> pubAttempt,
                 dataset |-> pubDataset, keys |-> b]
    BY <1>4 DEF PubWrites
  <2>2. b \subseteq pubKeys
    BY BatchesTyped
  <2>. QED  BY <1>1, <1>2, <1>4, <2>1, <2>2 DEF RowsAfter, MarkersAfter
<1>5. CASE pubPc = "insert_rows"
  <2>1. PICK b \in Batches(pubRows, InsertBatchSize) :
            w = [op |-> "insert_rows", attempt |-> pubAttempt,
                 dataset |-> pubDataset, batch |-> b]
    BY <1>5 DEF PubWrites
  <2>2. b \subseteq pubRows
    BY BatchesTyped
  <2>. QED  BY <1>1, <1>2, <1>5, <2>1, <2>2 DEF RowsAfter, MarkersAfter
<1>. QED  BY <1>3, <1>4, <1>5 DEF LoadPcs

(* What the three writes of the load, once performed, leave to be done.    *)
LEMMA LoadContinues ==
    ASSUME LoadInv, ReadyInv', CloneBase \/ DeleteKeys \/ InsertRows
    PROVE  LoadInv'
<1> USE DEF LoadInv, ReadyInv, TypeOK, PublisherTypeOK, taskVars, pubLocal
<1>1. /\ pubPc \in LoadPcs /\ pubPc' \in LoadPcs
      /\ UNCHANGED <<mart, lastAttempt, pubSource, pubAttempt, pubBase,
                     pubBaseRows, pubDataset>>
  BY DEF CloneBase, DeleteKeys, InsertRows, LoadPcs
<1>2. pubAttempt \in Attempts /\ pubDataset \in Datasets
  BY <1>1 DEF LocalsTyped, PublishLocals, CandidatePcs, LoadPcs
<1>3. pubAttempt = lastAttempt /\ lastAttempt \in Nat
  BY <1>1 DEF FreshAttempts, CandidatePcs, LoadPcs
<1>4. PICK w \in PubWrites :
          /\ Apply(w)
          /\ DeleteKeys => pubKeys' = pubKeys \ w.keys
          /\ InsertRows => pubRows' = pubRows \ w.batch
  BY DEF CloneBase, DeleteKeys, InsertRows, Perform
<1>5. markers' = markers
  BY <1>1, <1>4, LoadWrite
<1>6. FunctionalContents'
  BY <1>1, <1>5 DEF FunctionalContents
<1>7. Untouched'
  <2>1. \A a \in Attempts : a > lastAttempt => a # pubAttempt
    BY <1>3 DEF Attempts
  <2>. QED  BY <1>1, <1>4, <2>1, LoadWrite DEF Untouched
<1>8. BaseHeld'
  <2>1. pubBase # None => pubBase \in Attempts
    OBVIOUS
  <2>. QED  BY <1>1, <1>4, <2>1, LoadWrite DEF BaseHeld
<1>9. OtherDataset'
  <2>1. "current" \in Datasets /\ "history" \in Datasets
    BY DEF Datasets
  <2>. QED  BY <1>1, <1>4, <2>1, LoadWrite DEF OtherDataset
<1>10. IncrementalLoadIsExact' /\ BaseTaken'
  BY <1>1 DEF IncrementalLoadIsExact, BaseTaken, LoadPcs
<1> DEFINE d == pubDataset
<1>11. \A keys : Kept(d, keys)' = Kept(d, keys)
  BY <1>1 DEF Kept
<1>12. Removal(d)' = Removal(d) /\ Replacement(d)' = Replacement(d)
  BY <1>1 DEF Removal, Replacement
<1>13. DatasetLoads'
  <2>1. CASE CloneBase
    <3>1. /\ pubPc = "clone" /\ pubPc' = "delete_keys"
          /\ pubKeys' = pubKeys /\ pubRows' = pubRows
      BY <2>1 DEF CloneBase
    <3>2. rows'[pubAttempt][d] = rows[pubBase][d]
      BY <1>1, <1>4, <3>1, LoadWrite DEF DatasetLoads
    <3>3. rows[pubBase][d] = pubBaseRows[d]
      BY <1>1, <3>1 DEF BaseHeld, DatasetLoads
    <3>4. Kept(d, Removal(d) \ pubKeys) = pubBaseRows[d]
      BY <3>1 DEF DatasetLoads, Kept
    <3>. QED  BY <1>1, <1>11, <1>12, <3>1, <3>2, <3>3, <3>4 DEF DatasetLoads
  <2>2. CASE DeleteKeys
    <3>1. /\ pubPc = "delete_keys" /\ pubPc' = "delete_keys"
          /\ pubKeys' = pubKeys \ w.keys /\ pubRows' = pubRows
      BY <1>4, <2>2 DEF DeleteKeys
    <3>2. /\ w.keys \subseteq pubKeys /\ pubKeys \subseteq Removal(d)
          /\ rows'[pubAttempt][d] = {r \in rows[pubAttempt][d] : r[1] \notin w.keys}
          /\ rows[pubAttempt][d] = Kept(d, Removal(d) \ pubKeys)
      BY <1>1, <1>4, <3>1, LoadWrite DEF DatasetLoads
    <3>3. rows'[pubAttempt][d] = Kept(d, Removal(d) \ (pubKeys \ w.keys))
      BY <3>2 DEF Kept
    <3>4. pubRows = Replacement(d)
      BY <3>1 DEF DatasetLoads
    <3>. QED  BY <1>1, <1>11, <1>12, <3>1, <3>2, <3>3, <3>4 DEF DatasetLoads
  <2>3. CASE InsertRows
    <3>1. /\ pubPc = "insert_rows" /\ pubPc' = "insert_rows"
          /\ pubRows' = pubRows \ w.batch
      BY <1>4, <2>3 DEF InsertRows
    <3>2. /\ w.batch \subseteq pubRows /\ pubRows \subseteq Replacement(d)
          /\ rows'[pubAttempt][d] = rows[pubAttempt][d] \cup w.batch
          /\ rows[pubAttempt][d] =
                Kept(d, Removal(d)) \cup (Replacement(d) \ pubRows)
      BY <1>1, <1>4, <3>1, LoadWrite DEF DatasetLoads
    <3>3. rows'[pubAttempt][d] =
              Kept(d, Removal(d)) \cup (Replacement(d) \ (pubRows \ w.batch))
      BY <3>2
    <3>. QED  BY <1>1, <1>11, <1>12, <3>1, <3>2, <3>3 DEF DatasetLoads
  <2>. QED  BY <2>1, <2>2, <2>3
<1>. QED  BY <1>6, <1>7, <1>8, <1>9, <1>10, <1>13

(* The keys are gone, or the dataset is complete: the next one, or done.   *)
LEMMA KeysGone ==
    ASSUME LoadInv, ReadyInv', KeysDeleted
    PROVE  LoadInv'
<1> USE DEF LoadInv, KeysDeleted, taskVars, pubLocal, storeVars
<1>1. DatasetLoads'
  <2>1. Removal(pubDataset) \ {} = Removal(pubDataset)
    OBVIOUS
  <2>2. /\ pubRows = Replacement(pubDataset)
        /\ rows[pubAttempt][pubDataset] = Kept(pubDataset, Removal(pubDataset))
    BY <2>1 DEF DatasetLoads
  <2>. QED  BY <2>2 DEF DatasetLoads, Removal, Replacement, Kept
<1>. QED  BY <1>1 DEF FunctionalContents, Untouched, BaseTaken, BaseHeld, OtherDataset,
     IncrementalLoadIsExact, LoadPcs

LEMMA DatasetDone ==
    ASSUME LoadInv, pubPc = "insert_rows", pubRows = {}
    PROVE  rows[pubAttempt][pubDataset] = pubSource[pubDataset]
<1>1. pubDataset \in Datasets
  BY DEF LoadInv, ReadyInv, TypeOK, PublisherTypeOK
<1>2. OnePerKey(pubSource[pubDataset]) /\ OnePerKey(pubBaseRows[pubDataset])
  BY <1>1 DEF LoadInv, FunctionalContents, Functional
<1> DEFINE d == pubDataset
<1>3. {r \in pubBaseRows[d] :
          r[1] \notin KeysToRemoveFromClone(pubSource[d], pubBaseRows[d])}
          \cup ReplacementRows(pubSource[d], pubBaseRows[d]) = pubSource[d]
  BY ONLY <1>2, PlanIsExact
<1>4. rows[pubAttempt][d] = Kept(d, Removal(d)) \cup (Replacement(d) \ {})
  BY DEF LoadInv, DatasetLoads
<1>. QED  BY <1>3, <1>4 DEF Removal, Replacement, Kept

LEMMA RowsDone ==
    ASSUME LoadInv, ReadyInv', RowsInserted
    PROVE  LoadInv'
<1> USE DEF LoadInv, taskVars
<1>1. /\ pubPc = "insert_rows" /\ pubRows = {}
      /\ UNCHANGED <<mart, lastAttempt, pubSource, pubAttempt, pubBase,
                     pubBaseRows, rows, markers>>
      /\ rows[pubAttempt][pubDataset] = pubSource[pubDataset]
  BY DatasetDone DEF RowsInserted, storeVars
<1>2. FunctionalContents' /\ Untouched'
  BY <1>1 DEF FunctionalContents, Untouched
<1>3. CASE pubDataset = "current"
  <2>1. EnterDataset("history", pubBase', pubBaseRows') /\ pubDataset' = "history"
    BY <1>1, <1>3 DEF RowsInserted, EnterDataset
  <2>2. rows'[pubAttempt']["history"] = {}
    BY <1>1, <1>3 DEF OtherDataset, LoadPcs
  <2>3. pubBase' = None => pubBaseRows' = Empty
    BY <1>1 DEF BaseHeld, LoadPcs
  <2>4. DatasetLoads' /\ pubPc' \in {"clone", "insert_rows"}
    BY <1>1, <2>1, <2>2, <2>3, EnterLoads DEF Datasets
  <2>5. BaseTaken' /\ BaseHeld' /\ OtherDataset' /\ IncrementalLoadIsExact'
    BY <1>1, <1>3, <2>1, <2>4
       DEF BaseTaken, BaseHeld, OtherDataset, IncrementalLoadIsExact, LoadPcs
  <2>. QED  BY <1>2, <2>4, <2>5
<1>4. CASE pubDataset # "current"
  <2>1. pubDataset = "history" /\ pubPc' = "validate"
    BY <1>4 DEF RowsInserted, ReadyInv, TypeOK, PublisherTypeOK, Datasets
  <2>2. /\ rows[pubAttempt]["history"] = pubSource["history"]
        /\ rows[pubAttempt]["current"] = pubSource["current"]
    BY <1>1, <2>1 DEF OtherDataset, LoadPcs
  <2>3. /\ rows[pubAttempt] \in [Datasets -> SUBSET Row]
        /\ pubSource \in [Datasets -> SUBSET Row]
    BY <1>1 DEF ReadyInv, TypeOK, StoreTypeOK, PublisherTypeOK, LocalsTyped,
       PublishLocals, CandidatePcs, Content
  <2>4. rows[pubAttempt] = pubSource
    BY <2>2, <2>3 DEF Datasets
  <2>. QED  BY <1>1, <1>2, <2>1, <2>4 DEF BaseTaken, BaseHeld, DatasetLoads, OtherDataset,
            IncrementalLoadIsExact, CandidateMatches, LoadPcs
<1>. QED  BY <1>3, <1>4

(* A step that ends the task or only writes what needs no exact load.      *)
LEMMA WriteKeepsUntouched ==
    ASSUME LoadInv, NEW w \in PubWrites, Apply(w)
    PROVE  /\ \A a \in Attempts : a > lastAttempt => rows'[a] = Empty
           /\ \A m \in markers' : Functional(m.content)
<1> USE DEF LoadInv, ReadyInv, TypeInv
<1>1. CASE pubPc = "insert_marker"
  <2>1. UNCHANGED rows
    BY <1>1, MarkerWriteSafe
  <2>2. PICK t : w = [op |-> "insert_marker", marker |-> t]
                  /\ t.content = pubSource
    BY <1>1 DEF PubWrites
  <2>3. markers' = markers \cup {w.marker} /\ w.marker.content = pubSource
    BY <2>2 DEF Apply, MarkersAfter
  <2>. QED  BY <2>1, <2>3 DEF Untouched, FunctionalContents
<1>2. CASE pubPc # "insert_marker"
  <2>1. /\ markers' = markers /\ pubPc \in CandidatePcs
        /\ \A a \in Attempts \ {pubAttempt} : rows'[a] = rows[a]
    BY <1>2, CandidateWrite
  <2>2. pubAttempt = lastAttempt /\ lastAttempt \in Nat
    BY <2>1 DEF FreshAttempts, TypeOK, PublisherTypeOK
  <2>3. \A a \in Attempts : a > lastAttempt => a # pubAttempt
    BY <2>2 DEF Attempts
  <2>. QED  BY <2>1, <2>3 DEF Untouched, FunctionalContents
<1>. QED  BY <1>1, <1>2

LEMMA PublisherLoad ==
    ASSUME Quiet, LoadInv, ReadyInv', PublisherNext
    PROVE  LoadInv'
<1> USE DEF taskVars, pubVars, pubLocal
<1>1. ASSUME UNCHANGED <<mart, lastAttempt, rows, markers>>, EndPublish
      PROVE  LoadInv'
  <2>1. FunctionalContents' /\ Untouched'
    BY <1>1, EmptyFunctional DEF EndPublish, LoadInv, FunctionalContents, Untouched
  <2>. QED  BY <1>1, <2>1, NotLoading DEF EndPublish, ReadBackPcs, LoadPcs
<1>2. CASE BuildCurrent \/ BuildHistory \/ TestMart
  <2>1. Functional(mart')
    <3>1. /\ Functional(mart) /\ \A m \in Marts : Functional(m)
          /\ mart \in Content /\ Marts \subseteq Content
      BY PublisherConstants DEF LoadInv, FunctionalContents, Functional, OnePerKey,
         ReadyInv, TypeOK, PublisherTypeOK
    <3>. QED  BY <1>2, <3>1 DEF BuildCurrent, BuildHistory, TestMart,
       Functional, Content, Datasets
  <2>2. FunctionalContents' /\ Untouched'
    BY <1>2, <2>1 DEF BuildCurrent, BuildHistory, TestMart, LoadInv,
       FunctionalContents, Untouched, storeVars
  <2>3. pubPc' = "idle"
    BY <1>2 DEF BuildCurrent, BuildHistory, TestMart, LoadInv, ReadyInv,
       OneWriter
  <2>. QED  BY <2>2, <2>3, NotLoading DEF ReadBackPcs, LoadPcs
<1>3. CASE \E r \in Runs : StartPublish(r)
  <2>1. FunctionalContents' /\ Untouched' /\ pubPc' = "read"
    BY <1>3 DEF StartPublish, LoadInv, FunctionalContents, Untouched, storeVars
  <2>. QED  BY <2>1, NotLoading DEF ReadBackPcs, LoadPcs
<1>4. CASE ReadMart
  <2>1. FunctionalContents' /\ Untouched' /\ pubPc' = "lookup"
    BY <1>4 DEF ReadMart, LoadInv, FunctionalContents, Untouched, storeVars
  <2>. QED  BY <2>1, NotLoading DEF ReadBackPcs, LoadPcs
<1>5. CASE ReuseReady \/ RejectReusedAudit \/ RejectCandidate
  BY <1>1, <1>5 DEF ReuseReady, RejectReusedAudit, RejectCandidate, storeVars
<1>6. CASE AcceptCandidate
  <2>1. FunctionalContents' /\ Untouched' /\ pubPc' = "insert_summaries"
    BY <1>6 DEF AcceptCandidate, LoadInv, FunctionalContents, Untouched, storeVars
  <2>. QED  BY <2>1, NotLoading DEF ReadBackPcs, LoadPcs
<1>7. CASE InsertSummaries
  <2>1. \E w \in PubWrites : Apply(w)
    BY <1>7 DEF InsertSummaries, Perform
  <2>2. /\ UNCHANGED <<mart, lastAttempt, pubSource, pubBaseRows>>
        /\ pubPc' = "insert_marker"
    BY <1>7 DEF InsertSummaries
  <2>3. FunctionalContents' /\ Untouched'
    BY <2>1, <2>2, WriteKeepsUntouched DEF LoadInv, FunctionalContents, Untouched
  <2>. QED  BY <2>2, <2>3, NotLoading DEF ReadBackPcs, LoadPcs
<1>8. ASSUME NEW w \in PubWrites, Apply(w), EndPublish,
             UNCHANGED <<mart, lastAttempt>>
      PROVE  LoadInv'
  <2>1. FunctionalContents' /\ Untouched'
    BY <1>8, WriteKeepsUntouched, EmptyFunctional
       DEF EndPublish, LoadInv, FunctionalContents, Untouched
  <2>. QED  BY <1>8, <2>1, NotLoading DEF EndPublish, ReadBackPcs, LoadPcs
<1>9. CASE InsertMarker
  BY <1>8, <1>9 DEF InsertMarker, Perform
<1>10. CASE PublishFails
  <2>1. EndPublish /\ UNCHANGED <<mart, lastAttempt>>
    BY <1>10 DEF PublishFails
  <2>2. \/ UNCHANGED <<rows, markers>>
        \/ \E w \in PubWrites : Apply(w)
    BY <1>10 DEF PublishFails, GiveUp, Quiet
  <2>. QED  BY <1>1, <1>8, <2>1, <2>2
<1>. QED  BY <1>2, <1>3, <1>4, <1>5, <1>6, <1>7, <1>9, <1>10, TakeLoads,
          ReadLoads, DrawLoads, EnterBaseLoads, LoadContinues, KeysGone, RowsDone DEF PublisherNext, PublisherStep

(* A write of cleanup takes markers away and rows from attempts.           *)
LEMMA CleanupOnlyRemoves ==
    ASSUME ReadyInv, NEW w \in RetWrites, Apply(w)
    PROVE  /\ markers' \subseteq markers
           /\ \A a \in Attempts : rows[a] = Empty => rows'[a] = Empty
<1> USE DEF ReadyInv
<1>1. rows' = RowsAfter(w) /\ markers' = MarkersAfter(w)
  BY DEF Apply
<1>2. CASE retPc = "delete_markers"
  BY <1>1, <1>2 DEF RetWrites, RowsAfter, MarkersAfter
<1>3. CASE retPc # "delete_markers"
  <2>1. w.op = "delete_candidates"
    BY <1>3 DEF RetWrites
  <2>2. markers' = markers
    BY <1>1, <2>1 DEF MarkersAfter
  <2>3. CASE w.table \in Datasets
    <3>1. rows' = [a \in Attempts |-> IF a \in w.ids
                      THEN [rows[a] EXCEPT ![w.table] = {}] ELSE rows[a]]
      BY <1>1, <2>1, <2>3 DEF RowsAfter
    <3>2. [Empty EXCEPT ![w.table] = {}] = Empty
      BY <2>3 DEF Empty
    <3>. QED  BY <2>2, <3>1, <3>2
  <2>4. CASE w.table \notin Datasets
    BY <1>1, <2>1, <2>2, <2>4 DEF RowsAfter
  <2>. QED  BY <2>3, <2>4
<1>. QED  BY <1>2, <1>3

(* Cleanup runs while nothing is loaded, and only takes rows away.         *)
LEMMA RetentionLoad ==
    ASSUME Quiet, LoadInv, ReadyInv', RetentionNext
    PROVE  LoadInv'
<1> USE DEF LoadInv
<1>1. /\ pubPc = "idle" /\ pubPc' = "idle"
      /\ UNCHANGED <<mart, lastAttempt, pubSource, pubBaseRows>>
  <2>1. UNCHANGED <<tested, rebuilt, mart, xcom, pubVars>>
    BY RetentionTyped DEF ReadyInv, TypeInv
  <2>2. pool = "free" \/ retPc # "idle"
    BY DEF RetentionNext, RetentionStep, StartCleanup, ListReady,
       RefuseUnprotected, NothingToRemove, PlanDeletion, DeleteMarkers,
       MarkersDeleted, ConfirmMarkers, RefuseMarkers, NextDeleteBatch,
       DeleteCandidates, CandidatesDeleted, ConfirmRemoved, RefuseLeftovers,
       CleanupFails
  <2>. QED  BY <2>1, <2>2 DEF ReadyInv, OneWriter, pubVars, pubLocal
<1>2. ASSUME NEW w \in RetWrites, Apply(w)
      PROVE  /\ markers' \subseteq markers
             /\ \A a \in Attempts : rows[a] = Empty => rows'[a] = Empty
  BY <1>2, CleanupOnlyRemoves
<1>3. \/ UNCHANGED <<rows, markers>>
      \/ \E w \in RetWrites : Apply(w)
  BY DEF RetentionNext, RetentionStep, StartCleanup, ListReady,
     RefuseUnprotected, NothingToRemove, PlanDeletion, DeleteMarkers,
     MarkersDeleted, ConfirmMarkers, RefuseMarkers, NextDeleteBatch,
     DeleteCandidates, CandidatesDeleted, ConfirmRemoved, RefuseLeftovers,
     CleanupFails, GiveUp, Perform, Quiet, storeVars
<1>4. FunctionalContents' /\ Untouched'
  BY <1>1, <1>2, <1>3 DEF FunctionalContents, Untouched
<1>. QED  BY <1>1, <1>4, NotLoading DEF ReadBackPcs, LoadPcs

LEMMA NextLoad == Quiet => (LoadInv /\ [Next]_vars => LoadInv')
<1> SUFFICES ASSUME Quiet, LoadInv, [Next]_vars PROVE LoadInv'
  OBVIOUS
<1>1. ReadyInv'
  BY NextReady DEF LoadInv
<1>2. ASSUME UNCHANGED <<storeVars, taskVars, pubVars>> PROVE LoadInv'
  BY <1>1, <1>2 DEF storeVars, taskVars, pubVars, pubLocal, LoadInv,
     FunctionalContents, Untouched, BaseTaken, BaseHeld, DatasetLoads, OtherDataset,
     IncrementalLoadIsExact, CandidateMatches, Removal, Replacement, Kept
<1>3. CASE ReaderNext /\ UNCHANGED <<taskVars, pubVars, retVars, damage>>
  <2>1. UNCHANGED storeVars
    BY <1>3, ReaderTyped DEF LoadInv, ReadyInv, TypeInv
  <2>. QED  BY <1>2, <1>3, <2>1
<1>4. CASE UNCHANGED vars
  BY <1>2, <1>4 DEF vars
<1>5. ~ ApplyLate /\ ~ Damage
  BY DEF ApplyLate, Damage, Quiet, LoadInv, ReadyInv, NothingAbandoned
<1>. QED  BY <1>1, <1>3, <1>4, <1>5, PublisherLoad, RetentionLoad DEF Next, Tasks

(* Cloning the base, deleting the removed and updated keys and inserting   *)
(* the replacement rows, in any batches, gives exactly the tested mart, so *)
(* the validation after the load rejects no candidate (publish, 1335-1366).*)
THEOREM LoadIsExact == Quiet => (Spec => []IncrementalLoadIsExact)
<1> SUFFICES ASSUME Quiet PROVE Spec => []IncrementalLoadIsExact
  OBVIOUS
<1>1. LoadInv /\ [Next]_vars => LoadInv'
  BY NextLoad
<1>2. LoadInv => IncrementalLoadIsExact
  BY DEF LoadInv
<1>. QED  BY <1>1, <1>2, InitLoad, PTL DEF Spec

-----------------------------------------------------------------------------
(* The counts of the audit rows.                                           *)

LEMMA ThreeParts ==
    ASSUME NEW S, NEW A, NEW B, NEW C, S = A \cup B \cup C,
           IsFiniteSet(A), IsFiniteSet(B), IsFiniteSet(C),
           A \cap B = {}, A \cap C = {}, B \cap C = {}
    PROVE  Cardinality(S) = Cardinality(A) + Cardinality(B) + Cardinality(C)
<1>1. IsFiniteSet(A \cup B) /\ Cardinality(A \cup B) = Cardinality(A) + Cardinality(B)
  <2>1. Cardinality(A \cap B) = 0
    BY FS_EmptySet
  <2>2. IsFiniteSet(A \cup B) /\ Cardinality(A \cup B) =
           Cardinality(A) + Cardinality(B) - Cardinality(A \cap B)
    BY FS_Union
  <2>. QED  BY <2>1, <2>2, FS_CardinalityType
<1>2. (A \cup B) \cap C = {}
  OBVIOUS
<1>3. Cardinality((A \cup B) \cap C) = 0
  BY <1>2, FS_EmptySet
<1>4. Cardinality(S) = Cardinality(A \cup B) + Cardinality(C)
                         - Cardinality((A \cup B) \cap C)
  BY <1>1, FS_Union
<1>. QED  BY <1>1, <1>3, <1>4, FS_CardinalityType

(* A set with one row per key has as many rows as keys.                    *)
LEMMA RowsAsKeys ==
    ASSUME NEW S \in SUBSET Row, OnePerKey(S)
    PROVE  Cardinality(KeysOf(S)) = Cardinality(S)
<1> DEFINE f == [r \in S |-> r[1]]
<1>1. f \in Bijection(S, KeysOf(S))
  BY DEF Bijection, Injection, Surjection, IsInjective, KeysOf, OnePerKey
<1>2. IsFiniteSet(S)
  BY RowFinite
<1>. QED  BY <1>1, <1>2, FS_Bijection DEF ExistsBijection

(* inserted, updated and unchanged rows make up the source ...             *)
LEMMA SourceCounted ==
    ASSUME NEW src \in SUBSET Row, NEW base \in SUBSET Row,
           OnePerKey(src), OnePerKey(base)
    PROVE  Cardinality(src) = Cardinality(InsertedRows(src, base))
                                + Cardinality(UpdatedRows(src, base))
                                + Cardinality(UnchangedRows(src, base))
<1>1. src = InsertedRows(src, base) \cup UpdatedRows(src, base)
                \cup UnchangedRows(src, base)
  BY DEF InsertedRows, UpdatedRows, UnchangedRows, KeysOf
<1>2. /\ InsertedRows(src, base) \cap UpdatedRows(src, base) = {}
      /\ InsertedRows(src, base) \cap UnchangedRows(src, base) = {}
      /\ UpdatedRows(src, base) \cap UnchangedRows(src, base) = {}
  BY DEF InsertedRows, UpdatedRows, UnchangedRows, KeysOf
<1>3. /\ IsFiniteSet(InsertedRows(src, base)) /\ IsFiniteSet(UpdatedRows(src, base))
      /\ IsFiniteSet(UnchangedRows(src, base))
  BY PlanTypes, RowFinite
<1>. QED  BY ONLY <1>1, <1>2, <1>3, ThreeParts

(* ... and updated, deleted and unchanged keys the base.                   *)
LEMMA BaseCounted ==
    ASSUME NEW src \in SUBSET Row, NEW base \in SUBSET Row,
           OnePerKey(src), OnePerKey(base)
    PROVE  Cardinality(base) = Cardinality(UpdatedRows(src, base))
                                 + Cardinality(DeletedKeys(src, base))
                                 + Cardinality(UnchangedRows(src, base))
<1> DEFINE upd  == UpdatedRows(src, base)
           same == UnchangedRows(src, base)
           gone == DeletedKeys(src, base)
<1>1. upd \in SUBSET Row /\ same \in SUBSET Row /\ gone \in SUBSET Keys
  BY PlanTypes DEF DeletedKeys, KeysOf, Row
<1>2. OnePerKey(upd) /\ OnePerKey(same)
  BY DEF OnePerKey, UpdatedRows, UnchangedRows
<1>3. KeysOf(base) = KeysOf(upd) \cup gone \cup KeysOf(same)
  BY DEF KeysOf, UpdatedRows, UnchangedRows, DeletedKeys
<1>4. KeysOf(upd) \cap gone = {} /\ gone \cap KeysOf(same) = {}
  BY DEF KeysOf, UpdatedRows, UnchangedRows, DeletedKeys
<1>5. KeysOf(upd) \cap KeysOf(same) = {}
  BY DEF OnePerKey, KeysOf, UpdatedRows, UnchangedRows
<1>6. KeysOf(upd) \in SUBSET Keys /\ KeysOf(same) \in SUBSET Keys
  BY <1>1 DEF KeysOf, Row
<1>7. IsFiniteSet(KeysOf(upd)) /\ IsFiniteSet(gone) /\ IsFiniteSet(KeysOf(same))
  BY <1>1, <1>6, KeysFinite
<1>8. /\ Cardinality(KeysOf(base)) = Cardinality(base)
      /\ Cardinality(KeysOf(upd)) = Cardinality(upd)
      /\ Cardinality(KeysOf(same)) = Cardinality(same)
  BY <1>1, <1>2, RowsAsKeys
<1>9. Cardinality(KeysOf(base)) = Cardinality(KeysOf(upd)) + Cardinality(gone)
                                    + Cardinality(KeysOf(same))
  BY ONLY <1>3, <1>4, <1>5, <1>7, ThreeParts
<1>. QED  BY <1>8, <1>9

(* Every version has an id of its own, older than any candidate.           *)
IdsFresh ==
    /\ markers \subseteq everReady
    /\ \A m \in everReady :
          /\ m.id <= lastAttempt
          /\ pubPc \in CandidatePcs => m.id # pubAttempt
          /\ \A n \in everReady : m.id = n.id => m = n

(* The base of the candidate is such a version, or none.                   *)
BaseKnown ==
    pubPc \in CandidatePcs =>
        /\ pubBase < pubAttempt
        /\ \A b \in everReady : b.id = pubBase => b.content = pubBaseRows

BasesOlder == \A m \in markers : \A s \in SummariesOf(m.id) : s.base < m.id

AuditInv == LoadInv /\ IdsFresh /\ BaseKnown /\ BasesOlder /\ AuditReconciles

LEMMA InitAudit == Init => AuditInv
<1>. QED  BY InitLoad DEF Init, StoreInit, PublisherInit, AuditInv, IdsFresh,
     BaseKnown, BasesOlder, AuditReconciles, CandidatePcs

(* What the audit row of a dataset says of the source and of the base.     *)
LEMMA SummaryAccounts ==
    ASSUME AuditInv, pubPc \in CandidatePcs, NEW d \in Datasets,
           NEW s, s = ChangeSummary(d)
    PROVE  /\ s.dataset = d /\ s.base = pubBase
           /\ s.source = Cardinality(pubSource[d])
           /\ s.source = s.inserted + s.updated + s.unchanged
           /\ Cardinality(pubBaseRows[d]) = s.updated + s.deleted + s.unchanged
<1>1. pubSource[d] \in SUBSET Row /\ pubBaseRows[d] \in SUBSET Row
  BY DEF AuditInv, LoadInv, ReadyInv, TypeOK, PublisherTypeOK, Content
<1>2. OnePerKey(pubSource[d]) /\ OnePerKey(pubBaseRows[d])
  BY DEF AuditInv, LoadInv, FunctionalContents, Functional
<1>3. /\ s.dataset = d /\ s.base = pubBase
      /\ s.source = Cardinality(pubSource[d])
      /\ s.inserted = Cardinality(InsertedRows(pubSource[d], pubBaseRows[d]))
      /\ s.updated = Cardinality(UpdatedRows(pubSource[d], pubBaseRows[d]))
      /\ s.deleted = Cardinality(DeletedKeys(pubSource[d], pubBaseRows[d]))
      /\ s.unchanged = Cardinality(UnchangedRows(pubSource[d], pubBaseRows[d]))
  BY DEF ChangeSummary, DeletedCount
<1>4. Cardinality(pubSource[d]) = s.inserted + s.updated + s.unchanged
  BY <1>1, <1>2, <1>3, SourceCounted
<1>5. Cardinality(pubBaseRows[d]) = s.updated + s.deleted + s.unchanged
  BY <1>1, <1>2, <1>3, BaseCounted
<1>. QED  BY <1>3, <1>4, <1>5

(* A step that adds no version and no audit row to one.                    *)
LEMMA AuditsLast ==
    ASSUME AuditInv, markers' \subseteq markers,
           \A m \in markers' : SummariesOf(m.id)' \subseteq SummariesOf(m.id),
           everReady' = everReady \cup markers'
    PROVE  /\ everReady' = everReady
           /\ markers' \subseteq everReady'
           /\ BasesOlder' /\ AuditReconciles'
<1>1. everReady' = everReady
  BY DEF AuditInv, IdsFresh
<1>2. BasesOlder'
  BY DEF AuditInv, BasesOlder
<1>3. AuditReconciles'
  BY <1>1 DEF AuditInv, AuditReconciles
<1>. QED  BY <1>1, <1>2, <1>3 DEF AuditInv, IdsFresh

(* A step after which no candidate is being loaded.                        *)
LEMMA NoCandidate ==
    ASSUME AuditInv, LoadInv', lastAttempt' = lastAttempt,
           pubPc' \notin CandidatePcs, markers' \subseteq markers,
           \A m \in markers' : SummariesOf(m.id)' \subseteq SummariesOf(m.id),
           everReady' = everReady \cup markers'
    PROVE  AuditInv'
BY AuditsLast DEF AuditInv, IdsFresh, BaseKnown

(* A write of the load leaves the audit of every version alone.            *)
LEMMA CandidateAudits ==
    ASSUME AuditInv, NEW w \in PubWrites, Apply(w), pubPc # "insert_marker"
    PROVE  /\ markers' = markers
           /\ \A m \in markers : SummariesOf(m.id)' = SummariesOf(m.id)
           /\ pubPc \in CandidatePcs
<1> USE DEF AuditInv, LoadInv, ReadyInv, TypeInv
<1>1. /\ markers' = markers /\ pubPc \in CandidatePcs
      /\ \A s \in summaries' : s \in summaries \/ s.attempt = pubAttempt
      /\ summaries \subseteq summaries'
  BY CandidateWrite DEF ChangeSummary
<1>2. \A m \in markers : m.id # pubAttempt
  BY <1>1 DEF FreshAttempts
<1>. QED  BY <1>1, <1>2 DEF SummariesOf

(* The marker makes the two audit rows of its candidate visible.           *)
LEMMA MarkerAudits ==
    ASSUME AuditInv, LoadInv', NEW w \in PubWrites, Apply(w),
           pubPc = "insert_marker", EndPublish, lastAttempt' = lastAttempt,
           everReady' = everReady \cup markers'
    PROVE  AuditInv'
<1> USE DEF AuditInv, LoadInv, ReadyInv
<1>1. /\ UNCHANGED <<rows, summaries>> /\ pubPc \in CandidatePcs
      /\ pubPc' \notin CandidatePcs
  BY MarkerWriteSafe DEF CandidatePcs, EndPublish
<1>2. PICK t : markers' = markers \cup {t} /\ t.id = pubAttempt /\ t.content = pubSource
  BY DEF PubWrites, Apply, MarkersAfter
<1>3. everReady' = everReady \cup {t}
  BY <1>2 DEF IdsFresh
<1>4. pubAttempt = lastAttempt /\ lastAttempt \in Nat /\ pubBase < pubAttempt
  BY <1>1 DEF FreshAttempts, TypeOK, PublisherTypeOK, BaseKnown
<1>5. \A m \in everReady : m.id # pubAttempt /\ m.id <= lastAttempt
  BY <1>1 DEF IdsFresh
<1>6. IdsFresh'
  BY <1>1, <1>2, <1>3, <1>4, <1>5 DEF IdsFresh
<1>7. \A a : SummariesOf(a)' = SummariesOf(a)
  BY <1>1 DEF SummariesOf
<1>8. SummariesOf(pubAttempt) = {ChangeSummary(d) : d \in Datasets}
  BY DEF CandidateReady
<1>9. ASSUME NEW s \in SummariesOf(pubAttempt)
      PROVE  /\ s.base = pubBase
             /\ s.source = Cardinality(pubSource[s.dataset])
             /\ s.source = s.inserted + s.updated + s.unchanged
             /\ Cardinality(pubBaseRows[s.dataset]) = s.updated + s.deleted + s.unchanged
  BY <1>1, <1>8, <1>9, SummaryAccounts
<1>10. \A m \in markers : \A s \in SummariesOf(m.id) :
          s.base # pubAttempt
  <2> SUFFICES ASSUME NEW m \in markers, NEW s \in SummariesOf(m.id)
               PROVE  s.base # pubAttempt
    OBVIOUS
  <2>1. s.base < m.id /\ m.id <= lastAttempt /\ m.id \in Nat
    BY <1>5 DEF BasesOlder, IdsFresh, TypeOK, StoreTypeOK, Marker, Attempts
  <2>2. s.base \in Nat
    BY DEF SummariesOf, TypeOK, StoreTypeOK, Summary, Attempts, None
  <2>. QED  BY <1>4, <2>1, <2>2
<1>11. BasesOlder'
  BY <1>2, <1>4, <1>7, <1>9 DEF BasesOlder
<1>12. ASSUME NEW m \in markers', NEW s \in SummariesOf(m.id)
       PROVE  /\ s.source = Cardinality(m.content[s.dataset])
              /\ s.source = s.inserted + s.updated + s.unchanged
              /\ s.base # m.id
              /\ \A b \in everReady' :
                    b.id = s.base =>
                      Cardinality(b.content[s.dataset]) =
                          s.updated + s.deleted + s.unchanged
  <2>1. CASE m \in markers
    BY <1>2, <1>3, <1>10, <2>1 DEF AuditReconciles
  <2>2. CASE m = t
    <3>1. s.base = pubBase /\ s.base # pubAttempt
      <4>1. s.base = pubBase /\ pubBase \in Nat /\ pubAttempt \in Nat
        BY <1>2, <1>4, <1>9, <2>2 DEF TypeOK, PublisherTypeOK, Attempts, None
      <4>. QED  BY <1>4, <4>1
    <3>2. \A b \in everReady' : b.id = s.base => b.content = pubBaseRows
      BY <1>1, <1>2, <1>3, <3>1 DEF BaseKnown
    <3>. QED  BY <1>2, <1>9, <2>2, <3>1, <3>2
  <2>. QED  BY <1>2, <2>1, <2>2
<1>13. AuditReconciles'
  BY <1>7, <1>12 DEF AuditReconciles
<1>. QED  BY <1>1, <1>6, <1>11, <1>13 DEF BaseKnown

(* A fresh attempt id.                                                     *)
LEMMA DrawAudits ==
    ASSUME AuditInv, LoadInv', DrawAttempt, everReady' = everReady \cup markers'
    PROVE  AuditInv'
<1> USE DEF AuditInv, LoadInv, ReadyInv
<1>1. /\ UNCHANGED <<rows, summaries, markers>>
      /\ lastAttempt' = lastAttempt + 1 /\ pubAttempt' = lastAttempt + 1
      /\ lastAttempt \in Nat /\ pubBase' = 0
  BY DEF DrawAttempt, FreshAttempt, storeVars, TypeOK, PublisherTypeOK, None
<1>2. everReady' = everReady /\ BasesOlder' /\ AuditReconciles'
  BY <1>1, AuditsLast DEF SummariesOf
<1>3. \A m \in everReady : m.id \in Nat \ {0} /\ m.id <= lastAttempt
  BY DEF IdsFresh, TypeOK, Marker, Attempts
<1>4. IdsFresh'
  BY <1>1, <1>2, <1>3 DEF IdsFresh
<1>5. BaseKnown'
  BY <1>1, <1>2, <1>3 DEF BaseKnown
<1>. QED  BY <1>2, <1>4, <1>5

(* A base that is a version or none.                                       *)
LEMMA BaseAudits ==
    ASSUME AuditInv, LoadInv', FindBase \/ LoadFully,
           everReady' = everReady \cup markers'
    PROVE  AuditInv'
<1> USE DEF AuditInv, LoadInv, ReadyInv
<1>1. /\ UNCHANGED <<rows, summaries, markers, lastAttempt, pubAttempt>>
      /\ pubPc \in CandidatePcs
      /\ lastAttempt \in Nat /\ pubAttempt = lastAttempt /\ pubAttempt \in Attempts
  BY DEF FindBase, LoadFully, NoUsableBase, storeVars, TypeOK, PublisherTypeOK,
         CandidatePcs, FreshAttempts, LocalsTyped, PublishLocals
<1>2. everReady' = everReady /\ BasesOlder' /\ AuditReconciles'
  BY <1>1, AuditsLast DEF SummariesOf
<1>3. \A m \in everReady : /\ m.id \in Nat \ {0} /\ m.id <= lastAttempt
                           /\ m.id # pubAttempt
  BY <1>1 DEF IdsFresh, TypeOK, Marker, Attempts
<1>4. IdsFresh'
  BY <1>1, <1>2, <1>3 DEF IdsFresh
<1>5. BaseKnown'
  <2>1. CASE FindBase
    <3>1. pubBase' = Newest(markers).id /\ pubBaseRows' = Newest(markers).content
          /\ markers # {}
      BY <2>1 DEF FindBase, Take
    <3>2. Newest(markers) \in everReady
      BY <3>1, NewestIn DEF IdsFresh, TypeOK, StoreTypeOK
    <3>. QED  BY <1>1, <1>2, <1>3, <3>1, <3>2 DEF BaseKnown, IdsFresh
  <2>2. CASE LoadFully
    <3>1. pubBase' = 0
      BY <2>2 DEF LoadFully, None
    <3>. QED  BY <1>1, <1>2, <1>3, <3>1 DEF BaseKnown, Attempts
  <2>. QED  BY <2>1, <2>2
<1>. QED  BY <1>2, <1>4, <1>5

(* The other steps of a load keep its candidate and its base.              *)
LEMMA LoadAudits ==
    ASSUME AuditInv, LoadInv', pubPc \in CandidatePcs,
           UNCHANGED <<lastAttempt, pubAttempt, pubBase, pubBaseRows>>,
           markers' \subseteq markers,
           \A m \in markers' : SummariesOf(m.id)' \subseteq SummariesOf(m.id),
           everReady' = everReady \cup markers'
    PROVE  AuditInv'
BY AuditsLast DEF AuditInv, IdsFresh, BaseKnown

LEMMA PublisherAudits ==
    ASSUME Quiet, AuditInv, LoadInv', PublisherNext,
           everReady' = everReady \cup markers'
    PROVE  AuditInv'
<1> USE DEF taskVars, pubVars, pubLocal
<1>1. ASSUME UNCHANGED storeVars
      PROVE  /\ markers' \subseteq markers
             /\ \A m \in markers' : SummariesOf(m.id)' \subseteq SummariesOf(m.id)
  BY <1>1 DEF storeVars, SummariesOf
<1>2. CASE \/ BuildCurrent \/ BuildHistory \/ TestMart
           \/ (\E r \in Runs : StartPublish(r)) \/ ReadMart \/ FindReady \/ MatchStored
           \/ ReuseReady \/ RejectReusedAudit \/ RejectCandidate
  <2>1. UNCHANGED storeVars /\ lastAttempt' = lastAttempt
    BY <1>2 DEF BuildCurrent, BuildHistory, TestMart, StartPublish, ReadMart,
       FindReady, MatchStored, ReuseReady, RejectReusedAudit, RejectCandidate
  <2>2. pubPc' \notin CandidatePcs
    BY <1>2 DEF BuildCurrent, BuildHistory, TestMart, StartPublish, ReadMart,
       FindReady, MatchStored, ReuseReady, RejectReusedAudit, RejectCandidate,
       EndPublish, CandidatePcs, AuditInv, LoadInv, ReadyInv, OneWriter
  <2>. QED  BY <1>1, <2>1, <2>2, NoCandidate
<1>3. CASE \/ ReadBaseCurrent \/ LoadIncrementally
           \/ KeysDeleted \/ RowsInserted \/ AcceptCandidate
  <2>1. /\ UNCHANGED <<lastAttempt, pubAttempt, pubBase, pubBaseRows>>
        /\ UNCHANGED storeVars /\ pubPc \in CandidatePcs
    BY <1>3 DEF ReadBaseCurrent, LoadIncrementally, KeysDeleted, RowsInserted,
       AcceptCandidate, CandidatePcs
  <2>. QED  BY <1>1, <2>1, LoadAudits
<1>4. CASE CloneBase \/ DeleteKeys \/ InsertRows \/ InsertSummaries
  <2>1. /\ UNCHANGED <<lastAttempt, pubAttempt, pubBase, pubBaseRows>>
        /\ \E w \in PubWrites : Apply(w)
        /\ pubPc # "insert_marker"
    BY <1>4 DEF CloneBase, DeleteKeys, InsertRows, InsertSummaries, Perform
  <2>. QED  BY <2>1, CandidateAudits, LoadAudits
<1>5. ASSUME NEW w \in PubWrites, Apply(w), EndPublish, lastAttempt' = lastAttempt
      PROVE  AuditInv'
  <2>1. pubPc' \notin CandidatePcs
    BY <1>5 DEF EndPublish, CandidatePcs
  <2>2. CASE pubPc # "insert_marker"
    BY <1>5, <2>1, <2>2, CandidateAudits, NoCandidate
  <2>. QED  BY <1>5, <2>2, MarkerAudits
<1>6. CASE InsertMarker
  BY <1>5, <1>6 DEF InsertMarker, Perform
<1>7. CASE PublishFails
  <2>1. EndPublish /\ lastAttempt' = lastAttempt
    BY <1>7 DEF PublishFails
  <2>2. \/ UNCHANGED <<summaries, markers>>
        \/ \E w \in PubWrites : Apply(w)
    BY <1>7 DEF PublishFails, GiveUp, Quiet
  <2>3. CASE UNCHANGED <<summaries, markers>>
    BY <2>1, <2>3, NoCandidate DEF EndPublish, CandidatePcs, SummariesOf
  <2>. QED  BY <1>5, <2>1, <2>2, <2>3
<1>. QED  BY <1>2, <1>3, <1>4, <1>6, <1>7, DrawAudits, BaseAudits DEF PublisherNext, PublisherStep

(* Cleanup runs while nothing is loaded and takes markers and rows away.   *)
LEMMA RetentionAudits ==
    ASSUME Quiet, AuditInv, LoadInv', RetentionNext,
           everReady' = everReady \cup markers'
    PROVE  AuditInv'
<1> USE DEF AuditInv, LoadInv, ReadyInv
<1>1. UNCHANGED <<tested, rebuilt, mart, xcom, pubVars>>
  BY RetentionTyped DEF TypeInv
<1>2. pubPc = "idle"
  <2>1. pool = "free" \/ retPc # "idle"
    BY DEF RetentionNext, RetentionStep, StartCleanup, ListReady,
       RefuseUnprotected, NothingToRemove, PlanDeletion, DeleteMarkers,
       MarkersDeleted, ConfirmMarkers, RefuseMarkers, NextDeleteBatch,
       DeleteCandidates, CandidatesDeleted, ConfirmRemoved, RefuseLeftovers,
       CleanupFails
  <2>. QED  BY <2>1 DEF OneWriter
<1>3. \/ UNCHANGED <<rows, summaries, markers>>
      \/ \E w \in RetWrites : Apply(w)
  BY DEF RetentionNext, RetentionStep, StartCleanup, ListReady,
     RefuseUnprotected, NothingToRemove, PlanDeletion, DeleteMarkers,
     MarkersDeleted, ConfirmMarkers, RefuseMarkers, NextDeleteBatch,
     DeleteCandidates, CandidatesDeleted, ConfirmRemoved, RefuseLeftovers,
     CleanupFails, GiveUp, Perform, Quiet, storeVars
<1>4. markers' \subseteq markers /\ summaries' \subseteq summaries
  BY <1>3, CleanupWriteSafe
<1>5. pubPc' \notin CandidatePcs /\ lastAttempt' = lastAttempt
  BY <1>1, <1>2 DEF pubVars, CandidatePcs
<1>. QED  BY <1>4, <1>5, NoCandidate DEF SummariesOf

LEMMA NextAudit == Quiet => (AuditInv /\ [Next]_vars => AuditInv')
<1> SUFFICES ASSUME Quiet, AuditInv, [Next]_vars PROVE AuditInv'
  OBVIOUS
<1>1. LoadInv'
  BY NextLoad DEF AuditInv
<1>2. ASSUME UNCHANGED <<storeVars, taskVars, pubVars>>, everReady' = everReady
      PROVE  AuditInv'
  BY <1>1, <1>2 DEF storeVars, taskVars, pubVars, pubLocal, AuditInv, IdsFresh,
     BaseKnown, BasesOlder, AuditReconciles, SummariesOf
<1>3. CASE ReaderNext /\ UNCHANGED <<taskVars, pubVars, retVars, damage>>
             /\ everReady' = everReady \cup markers'
  <2>1. UNCHANGED storeVars
    BY <1>3, ReaderTyped DEF AuditInv, LoadInv, ReadyInv, TypeInv
  <2>2. everReady' = everReady
    BY <1>3, <2>1 DEF storeVars, AuditInv, IdsFresh
  <2>. QED  BY <1>2, <1>3, <2>1, <2>2
<1>4. CASE UNCHANGED vars
  BY <1>2, <1>4 DEF vars
<1>5. ~ ApplyLate /\ ~ Damage
  BY DEF ApplyLate, Damage, Quiet, AuditInv, LoadInv, ReadyInv, NothingAbandoned
<1>. QED  BY <1>1, <1>3, <1>4, <1>5, PublisherAudits, RetentionAudits DEF Next, Tasks

(* The two audit rows of every ready version count its rows and, row by    *)
(* row, what became of its base: _plan_dataset_changes and the reuse of    *)
(* stored audit rows, for any marts, batches, failures and clears.         *)
THEOREM AuditIsExact == Quiet => (Spec => []AuditReconciles)
<1> SUFFICES ASSUME Quiet PROVE Spec => []AuditReconciles
  OBVIOUS
<1>1. AuditInv /\ [Next]_vars => AuditInv'
  BY NextAudit
<1>2. AuditInv => AuditReconciles
  BY DEF AuditInv
<1>. QED  BY <1>1, <1>2, InitAudit, PTL DEF Spec
=============================================================================
