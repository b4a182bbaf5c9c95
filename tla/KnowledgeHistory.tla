--------------------------- MODULE KnowledgeHistory -------------------------
(***************************************************************************)
(* The knowledge-time facts: for every covered delivery interval, what was *)
(* known of it at each time.  Validated bundles are loaded and declared    *)
(* covered one after another; a dbt build joins the histories at every     *)
(* change point of an interval, folds equal neighbours into windows, and   *)
(* becomes the mart when its uniqueness tests pass.                        *)
(***************************************************************************)
EXTENDS SourceHistory

CONSTANTS
    Bundles,     \* what may be loaded: accepted rows and covered slots
    Times        \* the cutoffs at which an answer is compared

Bundle == [rows : SUBSET Row, covers : SUBSET Slots]

(* An event is keyed by its place and time, and one bundle has one row per *)
(* revision (BundleValidation).                                            *)
KeyedByPlace(R) ==
    \A r, s \in R :
        SameEntity(r, s) /\ r.kind \in {"commitment", "capacity", "reading"}
            => r.dp = s.dp /\ r.names = s.names /\ r.slots = s.slots

AcceptedRows == UNION {b.rows : b \in Bundles}

ASSUME BundleConstants ==
    /\ Bundles \subseteq Bundle /\ Times \subseteq Nat
    /\ KeyedByPlace(AcceptedRows)

VARIABLES
    loaded,      \* rows of the validated tables
    covered,     \* slots whose coverage is declared
    mart,        \* rows behind the mart whose tests passed last
    martCovered  \* slots covered in it

vars == <<loaded, covered, mart, martCovered>>

Interval == [dp : Points, slot : Slots]

-----------------------------------------------------------------------------
(* The joins of one interval over a set F of rows in force, or current.    *)

Assigned(F, i) ==
    {a \in F : a.kind = "assignment" /\ a.dp = i.dp /\ i.slot \in a.slots}
Parties(F, i) ==
    {r \in F : r.kind = "party" /\ i.slot \in r.slots
        /\ \E a \in Assigned(F, i) : r.names \subseteq a.names}
Contracts(F, i) ==
    {r \in F : r.kind = "contract" /\ r.dp = i.dp /\ i.slot \in r.slots
        /\ \E a \in Assigned(F, i) : r.names \subseteq a.names}
Meters(F, i) ==
    {r \in F : r.kind = "meter" /\ r.dp = i.dp /\ i.slot \in r.slots
        /\ Assigned(F, i) # {}}
Readings(F, i) ==
    {r \in F : r.kind = "reading" /\ i.slot \in r.slots
        /\ \E m \in Meters(F, i) : r.names = m.names}
Quantities(F, i) ==
    {r \in F : r.kind \in {"commitment", "capacity"} /\ r.dp = i.dp
        /\ i.slot \in r.slots}
Orders(F, i) ==
    {r \in F : r.kind = "order" /\ r.dp = i.dp /\ i.slot \in r.slots}

AtMostOne(S) == \A r, s \in S : r = s

(* What the hash of a result depends on: the rows joined, and of the       *)
(* orders the only one, none, or that there are several.                   *)
Result(F, i) ==
    [rows |-> Assigned(F, i) \cup Parties(F, i) \cup Contracts(F, i)
              \cup Meters(F, i) \cup Readings(F, i) \cup Quantities(F, i),
     order |-> {r \in Orders(F, i) : AtMostOne(Orders(F, i))},
     several |-> ~ AtMostOne(Orders(F, i))]
Nothing == [rows |-> {}, order |-> {}, several |-> FALSE]

StateAt(H, i, t) == Result(InForce(H, t), i)

(* The joins of the master rows return one row for each way to take one    *)
(* row per join, with the readings of the meter taken.                     *)
SameJoin(r, s) == r.kind = s.kind /\ (r.kind = "party" => r.names = s.names)
Joined(X) ==
    /\ \A r, s \in X : SameJoin(r, s) => r = s
    /\ \A r \in X : r.kind # "assignment" =>
           \E a \in X : /\ a.kind = "assignment"
                        /\ r.kind # "meter" => r.names \subseteq a.names
Combinations(V) ==
    {X \in SUBSET V : Joined(X) /\ \A r \in V \ X : ~ Joined(X \cup {r})}
ResultRows(S) ==
    LET V == {r \in S.rows : r.kind \in Versions}
        With(X) ==
            X \cup {r \in S.rows \ V : r.kind = "reading" =>
                      \E m \in X : m.kind = "meter" /\ m.names = r.names}
    IN  {[S EXCEPT !.rows = With(X)] : X \in Combinations(V)}

-----------------------------------------------------------------------------
(* The history models over the validated tables R and their history H.     *)

(* Covered intervals of delivery points that were ever actively assigned.  *)
Spine(R, C) ==
    LET H == History(R)
    IN  {i \in Interval : i.slot \in C /\ Assigned(H, i) # {}}

(* Which revisions may change an interval: by the relationships any        *)
(* revision ever declared, or by the place and time the event itself has.  *)
RelevantByOwnPoint(R, h, i) ==                                    \* wrong
    \/ h.kind # "party" /\ h.dp = i.dp
    \/ h.kind = "party" /\ \E a \in R :
           a.kind = "assignment" /\ a.dp = i.dp /\ h.names \subseteq a.names
Relevant(R, h, i) ==
    \/ /\ h.kind \in {"assignment", "contract", "meter"}
       /\ \E r \in R : SameEntity(h, r) /\ r.dp = i.dp
    \/ /\ h.kind = "party"
       /\ \E a \in R : a.kind = "assignment" /\ a.dp = i.dp
                       /\ h.names \subseteq a.names
    \/ /\ h.kind = "reading" /\ i.slot \in h.slots
       /\ \E m \in R : m.kind = "meter" /\ m.dp = i.dp /\ m.names = h.names
    \/ /\ h.kind \in {"commitment", "order", "capacity"}
       /\ h.dp = i.dp /\ i.slot \in h.slots

ChangePoints(R, H, i) == {Clock(h) : h \in {r \in H : Relevant(R, r, i)}}

Previous(P, q, p) == q \in P /\ q < p /\ ~ \E x \in P : q < x /\ x < p

(* A window starts where the result differs from the one before.           *)
WindowStarts(P, S) ==
    {p \in P : \A q \in P : Previous(P, q, p) => S[q] # S[p]}

(* known_from_utc <= t, and known_to_utc null or later than t.             *)
AnswersAt(W, S, t) ==
    {S[w] : w \in {v \in W : v <= t /\ ~ \E x \in W : v < x /\ x <= t}}

(* The row of each change point that is left after folding.  Of two rows   *)
(* of one point, one is folded away if it equals the row before the point. *)
Folded(P, rows) ==
    LET row[p \in P] ==
            LET before == {row[q] : q \in {x \in P : Previous(P, x, p)}}
                left   == {x \in rows[p] : rows[p] \ {x} \subseteq before}
            IN  CHOOSE x \in rows[p] : left # {} => x \in left
    IN  [p \in P |-> row[p]]

(* The history fact of an interval before and after folding.               *)
HistoryFact(R, i) ==
    LET H    == History(R)
        P    == ChangePoints(R, H, i)
        rows == [p \in P |-> ResultRows(StateAt(H, i, p))]
    IN  [points |-> P, rows |-> rows, left |-> Folded(P, rows)]

-----------------------------------------------------------------------------
Init == loaded = {} /\ covered = {} /\ mart = {} /\ martCovered = {}

(* The loader refuses a bundle that contradicts a stored revision.         *)
Load(b) ==
    /\ OneRowPerRevision(loaded \cup b.rows)
    /\ loaded' = loaded \cup b.rows
    /\ covered' = covered \cup b.covers
    /\ UNCHANGED <<mart, martCovered>>

(* delivery_interval_key is unique.                                        *)
OneCurrentRow(F, i) ==
    Assigned(F, i) # {} => ResultRows(Result(F, i)) = {Result(F, i)}

(* delivery_interval_history_key, the interval and known_from_utc, is      *)
(* unique after the windows are folded.                                    *)
OneRowPerWindow(f) ==
    \A p \in f.points :
        /\ f.left[p] \in f.rows[p]
        /\ \A x \in f.rows[p] \ {f.left[p]} :
               \E q \in f.points : Previous(f.points, q, p) /\ f.left[q] = x

(* The last window agrees with the current fact, which exists if the point *)
(* is assigned (assert_history_terminal_matches_current.sql).              *)
LastIsCurrent(f, F, i) ==
    \A p \in f.points : (\A q \in f.points : q <= p) =>
        IF Assigned(F, i) # {}
        THEN f.left[p] = Result(F, i)
        ELSE \A a \in f.left[p].rows : a.kind # "assignment"

TestsPass(R, C) ==
    LET F == Current(R)
    IN  \A i \in Spine(R, C) :
            LET f == HistoryFact(R, i)
            IN  /\ OneCurrentRow(F, i)
                /\ OneRowPerWindow(f)
                /\ LastIsCurrent(f, F, i)

Build ==
    /\ TestsPass(loaded, covered)
    /\ mart' = loaded /\ martCovered' = covered
    /\ UNCHANGED <<loaded, covered>>

Next == (\E b \in Bundles : Load(b)) \/ Build

Spec == Init /\ [][Next]_vars

TypeOK ==
    /\ loaded \subseteq Row /\ mart \subseteq loaded
    /\ covered \subseteq Slots /\ martCovered \subseteq covered

-----------------------------------------------------------------------------
Known == History(mart)

(* At every cutoff the revision in force is the highest eligible one known *)
(* by then: no fallback to an older revision when a higher one is          *)
(* withdrawn, no displacement by one that arrives late with a lower number *)
(* (assert_knowledge_histories_are_record_highs.sql, DBT-006).             *)
HighestKnownInForce ==
    LET H == Known
        E == Eligible(mart)
    IN  \A t \in Times :
            {r \in InForce(H, t) : r.kind # "capacity"} = NewestKnown(E, t)

(* Once an official assessment is in force no provisional one is at any    *)
(* later cutoff, and a withdrawal does not give way to an older one.       *)
OfficialStands ==
    LET H == Known
    IN  \A t, u \in Times : t <= u =>
            \A r \in InForce(H, t), s \in InForce(H, u) :
                SameEntity(r, s) /\ r.kind = "capacity" =>
                    /\ Official(r) => Official(s)
                    /\ r.revision <= s.revision

(* A party or order that counts at t has a revision in force at u that     *)
(* names another party or another place: nothing marks a change there.     *)
MovedAway(H, i, t, u) ==
    \/ \E r \in Parties(InForce(H, t), i), s \in InForce(H, u) :
           SameEntity(r, s) /\ r.names # s.names
    \/ \E r \in Orders(InForce(H, t), i), s \in InForce(H, u) :
           SameEntity(r, s) /\ ~ (s.dp = i.dp /\ i.slot \in s.slots)

(* The window that contains a cutoff gives the answer that was valid at    *)
(* that cutoff, for every cutoff and not only at change points (DBT-006):  *)
(* a row of its result, which is the only one unless relationships         *)
(* overlapped then.  The exception is where the code falls short of        *)
(* DBT-006: an order or party whose later revision names another place     *)
(* leaves the window as it was until the next change point.                *)
WindowsReproduceCutoffs ==
    LET H == Known
    IN  \A i \in Spine(mart, martCovered) :
            LET f == HistoryFact(mart, i)
                W == WindowStarts(f.points, f.left)
            IN  \A t \in Times :
                    LET now == StateAt(H, i, t)
                    IN  \/ \E x \in ResultRows(now) :
                               AnswersAt(W, f.left, t) = {x}
                        \/ AnswersAt(W, f.left, t) = {} /\ now = Nothing
                        \/ \E p \in f.points :
                               /\ p <= t
                               /\ \A q \in f.points : q <= t => q <= p
                               /\ MovedAway(H, i, p, t)

(* The result of an interval only ever changes at one of its change        *)
(* points, which the build computes without evaluating any result, or when *)
(* a party or order that counted is moved away.                            *)
ResultStands ==
    LET H == Known
    IN  \A i \in Spine(mart, martCovered) :
            LET P == ChangePoints(mart, H, i)
                S == [t \in Times |-> StateAt(H, i, t)]
            IN  \A t, u \in Times :
                    t <= u /\ (\A x \in P : ~ (t < x /\ x <= u))
                    => S[t] = S[u] \/ MovedAway(H, i, t, u)

(* The state once everything is known is that of the current fact, though  *)
(* the current models never look at a clock.                               *)
TerminalMatchesCurrent ==
    \A i \in Spine(loaded, covered), t \in Times :
        (\A r \in loaded : Clock(r) <= t) =>
            StateAt(History(loaded), i, t) = Result(Current(loaded), i)

(* A later build never changes what was known before the clocks of the     *)
(* rows loaded since: no hindsight.                                        *)
NoHindsight ==
    [][mart' # mart =>
          \A H \in {History(mart)}, G \in {History(mart')} :
              \A i \in Interval, t \in Times :
                  (\A r \in mart' \ mart : t < Clock(r)) =>
                      StateAt(G, i, t) = StateAt(H, i, t)]_vars

(* The source contract: the greatest approved final revision is the        *)
(* official assessment (09-phase-2-physical-source-contracts.md:942).  The *)
(* code does not ensure it.                                                *)
GreatestFinalIsOfficial ==
    LET H == Known
    IN  \A t \in Times : \A r \in InForce(H, t), s \in Eligible(mart) :
            /\ SameEntity(r, s) /\ r.kind = "capacity" /\ Clock(s) <= t
            /\ r.status = "final" /\ s.status = "final"
            => s.revision <= r.revision
=============================================================================
