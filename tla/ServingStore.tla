---------------------------- MODULE ServingStore ----------------------------
(***************************************************************************)
(* The four ClickHouse serving tables and the writes that the publisher    *)
(* and the retention task send them.  ClickHouse itself is external: what  *)
(* a request does is taken from the SQL text the client sends.             *)
(*                                                                         *)
(* A candidate attempt is a number handed out in order (the code draws a   *)
(* fresh uuid); a row is a pair <<key, value>> where the value stands for  *)
(* every other column, tenant scope and reporting date included; the       *)
(* deterministic profile of a dataset (count, unique keys, content hash)   *)
(* is the set of its rows, which assumes SHA-256 does not collide.         *)
(***************************************************************************)
EXTENDS Naturals, FiniteSets

CONSTANTS
    Keys,          \* serving row keys (interval_key, history_key)
    Values,        \* abstract contents of a row
    MaxAttempts,   \* bound on the load attempts of one behaviour
    MaxRuns,       \* bound on the DAG runs of one behaviour
    MaxFaults,     \* bound on the requests that fail or lose their answer
    LateWrites     \* may a write the client gave up on still be applied later?

ASSUME ServingConstants ==
    /\ MaxAttempts \in Nat /\ MaxRuns \in Nat /\ MaxFaults \in Nat
    /\ LateWrites \in BOOLEAN
    /\ IsFiniteSet(Keys) /\ IsFiniteSet(Values)

VARIABLES
    rows,        \* rows[a][d]: rows of attempt a in the table of dataset d
    summaries,   \* data_publication_change_summary
    markers,     \* data_publication, all of them with status "ready"
    inFlight,    \* writes whose client gave up and that may still be applied
    faults       \* requests that have failed so far

storeVars == <<rows, summaries, markers, inFlight, faults>>

Datasets == {"current", "history"}
CandidateTables == <<"current", "history", "summary">>

Attempts == 1..MaxAttempts
Runs     == 1..MaxRuns
None     == 0

Row     == Keys \X Values
Content == [Datasets -> SUBSET Row]
Empty   == [d \in Datasets |-> {}]
KeysOf(S) == {r[1] : r \in S}

Summary == [attempt : Attempts, dataset : Datasets, base : Attempts \cup {None},
            source : Nat, inserted : Nat, updated : Nat, deleted : Nat,
            unchanged : Nat]

Marker == [id : Attempts, run : Runs, content : Content, time : Attempts]

Write ==
         [op : {"clone"}, attempt : Attempts, dataset : Datasets, base : Attempts]
    \cup [op : {"delete_keys"}, attempt : Attempts, dataset : Datasets,
          keys : SUBSET Keys]
    \cup [op : {"insert_rows"}, attempt : Attempts, dataset : Datasets,
          batch : SUBSET Row]
    \cup [op : {"insert_summaries"}, records : SUBSET Summary]
    \cup [op : {"insert_marker"}, marker : Marker]
    \cup [op : {"delete_markers"}, ids : SUBSET Attempts]
    \cup [op : {"delete_candidates"}, ids : SUBSET Attempts,
          table : {"current", "history", "summary"}]

StoreTypeOK ==
    /\ rows \in [Attempts -> Content]
    /\ summaries \subseteq Summary
    /\ markers \subseteq Marker
    /\ inFlight \subseteq Write
    /\ faults \in 0..MaxFaults

StoreInit ==
    /\ rows = [a \in Attempts |-> Empty]
    /\ summaries = {}
    /\ markers = {}
    /\ inFlight = {}
    /\ faults = 0

-----------------------------------------------------------------------------
(* What each request reads.                                                *)

MarkerIds == {m.id : m \in markers}

(* Publication times of the markers that are or may become visible.        *)
UsedTimes ==
    {m.time : m \in markers}
    \cup {w.marker.time : w \in {v \in inFlight : v.op = "insert_marker"}}

(* ORDER BY published_at_utc DESC LIMIT 1; times are distinct.             *)
Newest(S) == CHOOSE m \in S : \A n \in S : n.time <= m.time

(* The first k of the same order; wrong variants keep one too few, or      *)
(* trust the order in which ids were drawn.                                *)
NewestFirstOneShort(S, k) ==
    {m \in S : Cardinality({n \in S : n.time > m.time}) + 1 < k}
NewestFirstById(S, k) == {m \in S : Cardinality({n \in S : n.id > m.id}) < k}
NewestFirst(S, k) == {m \in S : Cardinality({n \in S : n.time > m.time}) < k}

SummariesOf(a) == {s \in summaries : s.attempt = a}

CandidateIds ==
    {a \in Attempts : rows[a] # Empty \/ SummariesOf(a) # {}}

(* A marker's stored rows still have the count and hash the marker records. *)
Usable(m) == rows[m.id] = m.content

-----------------------------------------------------------------------------
(* What each write does to the tables, whenever it is applied.             *)

RowsAfter(w) ==
    CASE w.op = "clone" ->
           [rows EXCEPT ![w.attempt][w.dataset] = @ \cup rows[w.base][w.dataset]]
      [] w.op = "delete_keys" ->
           [rows EXCEPT ![w.attempt][w.dataset] = {r \in @ : r[1] \notin w.keys}]
      [] w.op = "insert_rows" ->
           [rows EXCEPT ![w.attempt][w.dataset] = @ \cup w.batch]
      [] w.op = "delete_candidates" /\ w.table \in Datasets ->
           [a \in Attempts |->
              IF a \in w.ids THEN [rows[a] EXCEPT ![w.table] = {}] ELSE rows[a]]
      [] OTHER -> rows

SummariesAfter(w) ==
    CASE w.op = "insert_summaries" -> summaries \cup w.records
      [] w.op = "delete_candidates" /\ w.table = "summary" ->
           {s \in summaries : s.attempt \notin w.ids}
      [] OTHER -> summaries

MarkersAfter(w) ==
    CASE w.op = "insert_marker"  -> markers \cup {w.marker}
      [] w.op = "delete_markers" -> {m \in markers : m.id \notin w.ids}
      [] OTHER -> markers

Apply(w) ==
    /\ rows' = RowsAfter(w)
    /\ summaries' = SummariesAfter(w)
    /\ markers' = MarkersAfter(w)

(* The client sees success.                                                *)
Perform(w) == Apply(w) /\ UNCHANGED <<inFlight, faults>>

(* The client sees an HTTP error, a timeout or dies: the request was never *)
(* applied, was applied, or (LateWrites) will be applied some time later.  *)
(* Each failed request is counted against MaxFaults.                       *)
GiveUp(possible) ==
    /\ faults < MaxFaults
    /\ faults' = faults + 1
    /\ \/ UNCHANGED <<rows, summaries, markers, inFlight>>
       \/ \E w \in possible : Apply(w) /\ UNCHANGED inFlight
       \/ /\ LateWrites
          /\ \E w \in possible : inFlight' = inFlight \cup {w}
          /\ UNCHANGED <<rows, summaries, markers>>

(* A write the client gave up on reaches the server after all.             *)
ApplyLate ==
    \E w \in inFlight :
        /\ Apply(w)
        /\ inFlight' = inFlight \ {w}
        /\ UNCHANGED faults

(* Requests are cut into batches of at most n; the order inside the code's *)
(* sort is abstracted to any choice.                                       *)
Batches(S, n) ==
    {b \in SUBSET S : b # {} /\ (Cardinality(b) = n \/ (b = S /\ Cardinality(b) <= n))}

=============================================================================
