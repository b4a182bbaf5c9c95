--------------------------- MODULE KnowledgeProofs --------------------------
(***************************************************************************)
(* Machine-checked proofs about KnowledgeHistory: for any rows, clocks and *)
(* bundles, what is in force is the highest revision known, no later build *)
(* changes what was known, and results change at change points only.       *)
(***************************************************************************)
EXTENDS KnowledgeHistory, WellFoundedInduction, TLAPS

LEMMA LessThan == \A u, v \in Nat : u < v => <<u, v>> \in OpToRel(<, Nat)
BY DEF OpToRel

(* A non-empty set of numbers has a least one.                             *)
LEMMA LeastNatural ==
    ASSUME NEW T \in SUBSET Nat, T # {}
    PROVE  \E t \in T : \A u \in T : t <= u
<1>1. PICK t \in T : \A u \in T : ~ (<<u, t>> \in OpToRel(<, Nat))
  BY WFMin, NatLessThanWellFounded
<1>2. ASSUME NEW u \in T PROVE t <= u
  <2>1. ~ (u < t)
    BY <1>1, LessThan
  <2>. QED  BY <2>1
<1>. QED  BY <1>2

(* A non-empty bounded set of numbers has a greatest one.                  *)
LEMMA GreatestNatural ==
    ASSUME NEW T \in SUBSET Nat, T # {}, NEW b \in Nat, \A u \in T : u <= b
    PROVE  \E t \in T : \A u \in T : u <= t
<1> DEFINE D == {b - u : u \in T}
<1>1. D \subseteq Nat /\ D # {}
  <2>1. \A u \in T : u \in Nat /\ u <= b
    OBVIOUS
  <2>2. \A u \in T : b - u \in Nat
    BY <2>1
  <2>. QED  BY <2>2
<1>2. PICK d \in D : \A e \in D : d <= e
  BY <1>1, LeastNatural
<1>3. PICK t \in T : d = b - t
  OBVIOUS
<1>4. ASSUME NEW u \in T PROVE u <= t
  <2>1. b - t <= b - u
    BY <1>2, <1>3
  <2>. QED  BY <2>1
<1>. QED  BY <1>4

LEMMA RowTypes ==
    ASSUME NEW r \in Row
    PROVE  /\ Clock(r) \in Nat /\ r.revision \in Nat
           /\ r.revision <= MaxRevision /\ MaxRevision \in Nat
BY HistoryConstants DEF Row, Clock

(* Among rows there is one of highest revision, and one of least clock.    *)
LEMMA HighestRow ==
    ASSUME NEW S \in SUBSET Row, S # {}
    PROVE  \E m \in S : \A s \in S : s.revision <= m.revision
<1> DEFINE T == {MaxRevision - r.revision : r \in S}
<1>1. T \subseteq Nat /\ T # {}
  BY RowTypes
<1>2. PICK t \in T : \A u \in T : t <= u
  BY <1>1, LeastNatural
<1>3. PICK m \in S : t = MaxRevision - m.revision
  OBVIOUS
<1>4. ASSUME NEW s \in S PROVE s.revision <= m.revision
  <2>1. MaxRevision - m.revision <= MaxRevision - s.revision
    BY <1>2, <1>3
  <2>. QED  BY <2>1, RowTypes
<1>. QED  BY <1>4

LEMMA EarliestRow ==
    ASSUME NEW S \in SUBSET Row, S # {}
    PROVE  \E m \in S : \A s \in S : Clock(m) <= Clock(s)
<1> DEFINE T == {Clock(r) : r \in S}
<1>1. T \subseteq Nat /\ T # {}
  BY RowTypes
<1>2. PICK t \in T : \A u \in T : t <= u
  BY <1>1, LeastNatural
<1>. QED  BY <1>2

LEMMA EntityIsEquivalence ==
    \A r, s, u : /\ SameEntity(r, r)
                 /\ SameEntity(r, s) => SameEntity(s, r)
                 /\ SameEntity(r, s) /\ SameEntity(s, u) => SameEntity(r, u)
BY DEF SameEntity

-----------------------------------------------------------------------------
(* The steps of a history.                                                 *)

LEMMA HistoryShape ==
    ASSUME NEW R
    PROVE  /\ Eligible(R) \subseteq R
           /\ \A E : OnePerClock(E) \subseteq E
           /\ \A O : RecordBreakers(O) \subseteq O
           /\ \A B : Transitions(B) \subseteq B
           /\ History(R) \subseteq Eligible(R) /\ History(R) \subseteq R
BY DEF Eligible, OnePerClock, RecordBreakers, Transitions, History

(* A history is a choice of rows that is increasing in clock and revision. *)
LEMMA HistoryIncreases ==
    ASSUME NEW R \in SUBSET Row, OneRowPerRevision(R),
           NEW r \in History(R), NEW s \in History(R), SameEntity(r, s)
    PROVE  /\ Clock(r) = Clock(s) => r = s
           /\ Clock(r) < Clock(s) => r.revision < s.revision
<1> DEFINE O == OnePerClock(Eligible(R))
<1>1. r \in RecordBreakers(O) /\ s \in RecordBreakers(O)
  BY HistoryShape DEF History
<1>2. r \in O /\ s \in O /\ r \in R /\ s \in R
  BY <1>1, HistoryShape
<1>3. ASSUME Clock(r) = Clock(s) PROVE r = s
  <2>1. r.revision <= s.revision /\ s.revision <= r.revision
    BY <1>2, <1>3, EntityIsEquivalence, HistoryShape DEF OnePerClock
  <2>2. r.revision = s.revision
    BY <1>2, <2>1, RowTypes
  <2>. QED  BY <1>2, <2>2 DEF OneRowPerRevision, SameRevision
<1>4. ASSUME Clock(r) < Clock(s) PROVE r.revision < s.revision
  BY <1>1, <1>2, <1>4, EntityIsEquivalence DEF RecordBreakers
<1>. QED  BY <1>3, <1>4

(* Every eligible row has one of its clock that is at least as high.       *)
LEMMA Representative ==
    ASSUME NEW E \in SUBSET Row, NEW s \in E
    PROVE  \E m \in OnePerClock(E) :
               /\ SameEntity(s, m) /\ Clock(m) = Clock(s)
               /\ s.revision <= m.revision
<1> DEFINE S == {r \in E : SameEntity(s, r) /\ Clock(r) = Clock(s)}
<1>1. s \in S /\ S \subseteq Row
  BY EntityIsEquivalence
<1>2. PICK m \in S : \A r \in S : r.revision <= m.revision
  BY <1>1, HighestRow
<1>3. m \in OnePerClock(E)
  BY <1>2, EntityIsEquivalence DEF OnePerClock
<1>. QED  BY <1>1, <1>2, <1>3

(* If an eligible row is higher than r, then a row of record does so too,  *)
(* no later, and it precedes or follows r but is not of r's clock.         *)
LEMMA HigherRecord ==
    ASSUME NEW R \in SUBSET Row,
           NEW r \in RecordBreakers(OnePerClock(Eligible(R))),
           NEW s \in Eligible(R), SameEntity(r, s),
           r.revision < s.revision
    PROVE  \E m \in RecordBreakers(OnePerClock(Eligible(R))) :
               /\ SameEntity(r, m) /\ Clock(m) <= Clock(s)
               /\ Clock(r) < Clock(m)
<1> DEFINE E == Eligible(R)
           O == OnePerClock(E)
           S == {u \in O : SameEntity(r, u) /\ r.revision < u.revision}
<1>1. E \subseteq Row /\ O \subseteq E /\ r \in O
  BY HistoryShape
<1>2. PICK n \in O : /\ SameEntity(s, n) /\ Clock(n) = Clock(s)
                     /\ s.revision <= n.revision
  BY <1>1, Representative
<1>3. n \in S
  <2>1. n \in Row /\ r \in Row /\ s \in Row
    BY <1>1
  <2>. QED  BY <1>2, <2>1, RowTypes, EntityIsEquivalence
<1>4. S \subseteq Row
  BY <1>1
<1>5. PICK m \in S : \A u \in S : Clock(m) <= Clock(u)
  BY <1>3, <1>4, EarliestRow
<1>6. m \in RecordBreakers(O)
  <2>1. SUFFICES ASSUME NEW u \in O, SameEntity(m, u), Clock(u) < Clock(m)
                 PROVE  u.revision < m.revision
    BY DEF RecordBreakers
  <2>2. u \notin S
    BY <1>1, <1>4, <1>5, <2>1, RowTypes
  <2>3. u.revision <= r.revision
    BY <1>1, <2>1, <2>2, RowTypes, EntityIsEquivalence
  <2>. QED  BY <1>1, <2>3, RowTypes
<1>7. Clock(m) <= Clock(s)
  BY <1>2, <1>3, <1>5
<1>8. Clock(r) < Clock(m)
  <2>1. m \in O /\ m \in Row /\ r \in Row /\ SameEntity(r, m)
        /\ r.revision < m.revision
    BY <1>1, <1>4
  <2>2. Clock(m) # Clock(r)
    BY <1>1, <2>1, RowTypes, EntityIsEquivalence DEF OnePerClock
  <2>3. ~ (Clock(m) < Clock(r))
    BY <1>1, <2>1, RowTypes DEF RecordBreakers
  <2>. QED  BY <2>1, <2>2, <2>3, RowTypes
<1>. QED  BY <1>6, <1>7, <1>8

-----------------------------------------------------------------------------
(* What is in force.                                                       *)

(* Outside capacity assessments every row of record stays in the history.  *)
LEMMA PlainHistory ==
    ASSUME NEW R, NEW r, r.kind # "capacity"
    PROVE  r \in History(R) <=> r \in RecordBreakers(OnePerClock(Eligible(R)))
BY DEF History, Transitions

LEMMA InForceIsHighest ==
    ASSUME NEW R \in SUBSET Row, NEW t \in Nat,
           NEW r \in InForce(History(R), t), r.kind # "capacity"
    PROVE  r \in NewestKnown(Eligible(R), t)
<1>1. r \in RecordBreakers(OnePerClock(Eligible(R))) /\ Clock(r) <= t
  BY PlainHistory DEF InForce
<1>2. r \in Eligible(R) /\ r \in Row
  BY <1>1, HistoryShape
<1>3. ASSUME NEW s \in Eligible(R), SameEntity(r, s), Clock(s) <= t,
             ~ (s.revision <= r.revision)
      PROVE  FALSE
  <2>1. s \in Row
    BY HistoryShape
  <2>2. r.revision < s.revision
    BY <1>2, <1>3, <2>1, RowTypes
  <2>3. PICK m \in RecordBreakers(OnePerClock(Eligible(R))) :
            SameEntity(r, m) /\ Clock(m) <= Clock(s) /\ Clock(r) < Clock(m)
    BY <1>1, <1>3, <2>2, HigherRecord
  <2>4. m \in History(R) /\ m \in Row
    BY <2>3, PlainHistory, HistoryShape DEF SameEntity
  <2>5. Clock(m) <= t
    BY <1>3, <2>1, <2>3, <2>4, RowTypes
  <2>6. Superseded(History(R), r, t)
    BY <1>2, <2>3, <2>4, <2>5, RowTypes DEF Superseded
  <2>. QED  BY <2>6 DEF InForce
<1>. QED  BY <1>1, <1>2, <1>3 DEF NewestKnown

LEMMA HighestIsInForce ==
    ASSUME NEW R \in SUBSET Row, OneRowPerRevision(R), NEW t \in Nat,
           NEW r \in NewestKnown(Eligible(R), t)
    PROVE  r \in InForce(History(R), t) /\ r.kind # "capacity"
<1> DEFINE E == Eligible(R)
           O == OnePerClock(E)
<1>1. /\ r \in E /\ r.kind # "capacity" /\ Clock(r) <= t
      /\ \A s \in E : SameEntity(r, s) /\ Clock(s) <= t
                      => s.revision <= r.revision
  BY DEF NewestKnown
<1>2. E \subseteq R /\ O \subseteq E /\ E \subseteq Row
  BY HistoryShape
<1>3. r \in O
  BY <1>1 DEF OnePerClock
<1>4. r \in RecordBreakers(O)
  <2>1. SUFFICES ASSUME NEW s \in O, SameEntity(r, s), Clock(s) < Clock(r)
                 PROVE  s.revision < r.revision
    BY <1>3 DEF RecordBreakers
  <2>2. s \in E /\ s \in Row /\ r \in Row
    BY <1>1, <1>2
  <2>3. s.revision <= r.revision
    BY <1>1, <2>1, <2>2, RowTypes
  <2>4. s.revision # r.revision
    BY <1>2, <2>1, <2>2, <1>1, RowTypes DEF OneRowPerRevision, SameRevision
  <2>. QED  BY <2>2, <2>3, <2>4, RowTypes
<1>5. r \in History(R)
  BY <1>1, <1>4, PlainHistory
<1>6. ~ Superseded(History(R), r, t)
  <2>1. SUFFICES ASSUME NEW s \in History(R), SameEntity(r, s),
                        Clock(s) > Clock(r), Clock(s) <= t
                 PROVE  FALSE
    BY DEF Superseded
  <2>2. s \in Row /\ r \in Row /\ s \in E
    BY <1>1, <1>2, HistoryShape
  <2>3. r.revision < s.revision
    BY <1>5, <2>1, <2>2, HistoryIncreases, RowTypes
  <2>4. s.revision <= r.revision
    BY <1>1, <2>1, <2>2
  <2>. QED  BY <2>2, <2>3, <2>4, RowTypes
<1>. QED  BY <1>1, <1>5, <1>6 DEF InForce

(* At most one row of an entity is in force.                               *)
LEMMA OneInForce ==
    ASSUME NEW R \in SUBSET Row, OneRowPerRevision(R), NEW t \in Nat,
           NEW r \in InForce(History(R), t), NEW s \in InForce(History(R), t),
           SameEntity(r, s)
    PROVE  r = s
<1>1. /\ r \in History(R) /\ s \in History(R) /\ r \in Row /\ s \in Row
      /\ Clock(r) <= t /\ Clock(s) <= t
  BY HistoryShape DEF InForce
<1>2. ~ (Clock(r) < Clock(s)) /\ ~ (Clock(s) < Clock(r))
  BY <1>1, RowTypes, EntityIsEquivalence DEF InForce, Superseded
<1>3. Clock(r) = Clock(s)
  BY <1>1, <1>2, RowTypes
<1>. QED  BY <1>1, <1>3, HistoryIncreases

-----------------------------------------------------------------------------
(* What is known by t does not depend on rows known later.                 *)

SameUpTo(A, B, t) ==
    /\ A \subseteq Row /\ B \subseteq Row
    /\ \A r \in Row : Clock(r) <= t => (r \in A <=> r \in B)

LEMMA EligibleUpTo ==
    ASSUME NEW A, NEW B, NEW t \in Nat, SameUpTo(A, B, t)
    PROVE  SameUpTo(Eligible(A), Eligible(B), t)
BY DEF SameUpTo, Eligible

LEMMA OnePerClockUpTo ==
    ASSUME NEW A, NEW B, NEW t \in Nat, SameUpTo(A, B, t)
    PROVE  SameUpTo(OnePerClock(A), OnePerClock(B), t)
<1>1. ASSUME NEW C, NEW D, SameUpTo(C, D, t),
             NEW r \in OnePerClock(C), Clock(r) <= t
      PROVE  r \in OnePerClock(D)
  BY <1>1 DEF SameUpTo, OnePerClock
<1>2. SameUpTo(B, A, t)
  BY DEF SameUpTo
<1>. QED  BY <1>1, <1>2 DEF SameUpTo, OnePerClock

LEMMA RecordBreakersUpTo ==
    ASSUME NEW A, NEW B, NEW t \in Nat, SameUpTo(A, B, t)
    PROVE  SameUpTo(RecordBreakers(A), RecordBreakers(B), t)
<1>1. ASSUME NEW C, NEW D, SameUpTo(C, D, t),
             NEW r \in RecordBreakers(C), Clock(r) <= t
      PROVE  r \in RecordBreakers(D)
  <2>1. r \in D /\ r \in Row
    BY <1>1 DEF SameUpTo, RecordBreakers
  <2>2. ASSUME NEW s \in D, SameEntity(r, s), Clock(s) < Clock(r)
        PROVE  s.revision < r.revision
    <3>1. s \in Row /\ Clock(s) <= t
      BY <1>1, <2>1, <2>2, RowTypes DEF SameUpTo
    <3>2. s \in C
      BY <1>1, <3>1 DEF SameUpTo
    <3>. QED  BY <1>1, <2>2, <3>2 DEF RecordBreakers
  <2>. QED  BY <2>1, <2>2 DEF RecordBreakers
<1>2. SameUpTo(B, A, t)
  BY DEF SameUpTo
<1>. QED  BY <1>1, <1>2 DEF SameUpTo, RecordBreakers

LEMMA TransitionsUpTo ==
    ASSUME NEW A, NEW B, NEW t \in Nat, SameUpTo(A, B, t)
    PROVE  SameUpTo(Transitions(A), Transitions(B), t)
<1>1. ASSUME NEW C, NEW D, SameUpTo(C, D, t),
             NEW r \in Transitions(C), Clock(r) <= t
      PROVE  r \in Transitions(D)
  <2>1. r \in D /\ r \in Row
    BY <1>1 DEF SameUpTo, Transitions
  <2>2. ASSUME r.kind = "capacity", ~ Official(r), NEW s \in D,
               SameEntity(r, s), Clock(s) <= Clock(r)
        PROVE  ~ Official(s)
    <3>1. s \in Row /\ Clock(s) <= t
      BY <1>1, <2>1, <2>2, RowTypes DEF SameUpTo
    <3>2. s \in C
      BY <1>1, <3>1 DEF SameUpTo
    <3>. QED  BY <1>1, <2>2, <3>2 DEF Transitions
  <2>. QED  BY <2>1, <2>2 DEF Transitions
<1>2. SameUpTo(B, A, t)
  BY DEF SameUpTo
<1>. QED  BY <1>1, <1>2 DEF SameUpTo, Transitions

LEMMA InForceUpTo ==
    ASSUME NEW R, NEW Q, NEW t \in Nat, SameUpTo(R, Q, t)
    PROVE  InForce(History(R), t) = InForce(History(Q), t)
<1>1. SameUpTo(History(R), History(Q), t)
  BY EligibleUpTo, OnePerClockUpTo, RecordBreakersUpTo, TransitionsUpTo
     DEF History
<1>2. ASSUME NEW G, NEW H, SameUpTo(G, H, t), NEW r \in InForce(G, t)
      PROVE  r \in InForce(H, t)
  BY <1>2 DEF SameUpTo, InForce, Superseded
<1>3. SameUpTo(History(Q), History(R), t)
  BY <1>1 DEF SameUpTo
<1>. QED  BY <1>1, <1>2, <1>3

-----------------------------------------------------------------------------
(* Capacity assessments.                                                   *)

LEMMA OfficialStays ==
    ASSUME NEW R \in SUBSET Row, OneRowPerRevision(R),
           NEW t \in Nat, NEW u \in Nat, t <= u,
           NEW r \in InForce(History(R), t), NEW s \in InForce(History(R), u),
           SameEntity(r, s)
    PROVE  /\ r.kind = "capacity" /\ Official(r) => Official(s)
           /\ r.revision <= s.revision
<1>1. /\ r \in History(R) /\ s \in History(R) /\ r \in Row /\ s \in Row
      /\ Clock(r) <= t /\ ~ Superseded(History(R), s, u)
  BY HistoryShape DEF InForce
<1>2. ~ (Clock(s) < Clock(r))
  BY <1>1, RowTypes, EntityIsEquivalence DEF Superseded
<1>3. Clock(r) <= Clock(s)
  BY <1>1, <1>2, RowTypes
<1>4. r.revision <= s.revision
  BY <1>1, <1>3, HistoryIncreases, RowTypes
<1>5. ASSUME r.kind = "capacity", Official(r) PROVE Official(s)
  <2>1. s.kind = "capacity" /\ SameEntity(s, r)
    BY <1>5 DEF SameEntity
  <2>2. r \in RecordBreakers(OnePerClock(Eligible(R)))
    BY <1>1, HistoryShape DEF History
  <2>. QED  BY <1>1, <1>3, <1>5, <2>1, <2>2 DEF History, Transitions
<1>. QED  BY <1>4, <1>5

-----------------------------------------------------------------------------
(* Everything known: the current models.                                   *)

LEMMA AllKnownIsCurrent ==
    ASSUME NEW R \in SUBSET Row, OneRowPerRevision(R), NEW t \in Nat,
           \A r \in R : Clock(r) <= t
    PROVE  InForce(History(R), t) = Current(R)
<1> DEFINE H == History(R)
           E == Eligible(R)
<1>1. H \subseteq R /\ E \subseteq R
  BY HistoryShape
<1>2. HighestRevision(E) = NewestKnown(E, t)
  BY <1>1 DEF HighestRevision, NewestKnown
<1>3. ASSUME NEW r, r.kind # "capacity"
      PROVE  r \in InForce(H, t) <=> r \in HighestRevision(E)
  BY <1>2, <1>3, InForceIsHighest, HighestIsInForce
<1>4. ASSUME NEW r, r.kind = "capacity"
      PROVE  r \in InForce(H, t) <=> r \in OpenCapacity(H)
  <2>1. ASSUME r \in H
        PROVE  (\A s \in H : SameEntity(r, s) => Clock(s) <= Clock(r))
               <=> ~ Superseded(H, r, t)
    <3>1. \A s \in H : Clock(s) \in Nat /\ Clock(s) <= t /\ Clock(r) \in Nat
      BY <1>1, <2>1, RowTypes
    <3>. QED  BY <3>1 DEF Superseded
  <2>. QED  BY <1>1, <1>4, <2>1 DEF InForce, OpenCapacity
<1>5. ASSUME NEW r PROVE /\ r \in OpenCapacity(H) => r.kind = "capacity"
                         /\ r \in HighestRevision(E) => r.kind # "capacity"
  BY DEF OpenCapacity, HighestRevision
<1>6. ASSUME NEW r PROVE r \in InForce(H, t) <=> r \in Current(R)
  <2>1. CASE r.kind = "capacity"
    BY <1>4, <1>5, <2>1 DEF Current
  <2>2. CASE r.kind # "capacity"
    BY <1>3, <1>5, <2>2 DEF Current
  <2>. QED  BY <2>1, <2>2
<1>. QED  BY <1>6

-----------------------------------------------------------------------------
(* Change points.                                                          *)

(* A row whose revisions all matter to interval i.                         *)
Followed(R, r, i) ==
    \A s \in R : SameEntity(r, s) => Relevant(R, s, i)

Steady(R, i, t, u) ==
    \A x \in ChangePoints(R, History(R), i) : ~ (t < x /\ x <= u)

LEMMA FollowedStands ==
    ASSUME NEW R \in SUBSET Row, NEW i, NEW t \in Nat, NEW u \in Nat, t <= u,
           Steady(R, i, t, u), NEW r, Followed(R, r, i)
    PROVE  r \in InForce(History(R), t) <=> r \in InForce(History(R), u)
<1> DEFINE H == History(R)
<1>1. H \subseteq R /\ H \subseteq Row
  BY HistoryShape
<1>2. ASSUME NEW s \in H, SameEntity(r, s)
      PROVE  Clock(s) \in Nat /\ (Clock(s) <= u => Clock(s) <= t)
  <2>1. Clock(s) \in ChangePoints(R, H, i)
    BY <1>1, <1>2 DEF Followed, ChangePoints
  <2>. QED  BY <1>1, <2>1, RowTypes DEF Steady
<1>3. Superseded(H, r, t) <=> Superseded(H, r, u)
  BY <1>2 DEF Superseded
<1>4. ASSUME r \in H PROVE Clock(r) <= t <=> Clock(r) <= u
  BY <1>2, <1>4, EntityIsEquivalence
<1>. QED  BY <1>3, <1>4 DEF InForce

LEMMA NamedRowsFollowed ==
    ASSUME NEW R \in SUBSET Row, KeyedByPlace(R), NEW i, NEW r \in R
    PROVE  /\ r.kind \in {"assignment", "contract", "meter"} /\ r.dp = i.dp
              => Followed(R, r, i)
           /\ \A m \in R : /\ r.kind = "reading" /\ m.kind = "meter"
                           /\ m.dp = i.dp /\ r.names = m.names
                           /\ i.slot \in r.slots
                          => Followed(R, r, i)
           /\ /\ r.kind \in {"commitment", "capacity"}
              /\ r.dp = i.dp /\ i.slot \in r.slots
              => Followed(R, r, i)
<1>1. ASSUME NEW s \in R, SameEntity(r, s)
      PROVE  /\ s.kind = r.kind /\ SameEntity(s, r)
             /\ r.kind = "reading" => r.names = s.names /\ r.slots = s.slots
             /\ r.kind \in {"commitment", "capacity"}
                => r.dp = s.dp /\ r.slots = s.slots
  BY <1>1 DEF SameEntity, KeyedByPlace
<1>2. r.kind \in {"assignment", "contract", "meter"} /\ r.dp = i.dp
      => Followed(R, r, i)
  BY <1>1 DEF Followed, Relevant
<1>3. ASSUME NEW m \in R, r.kind = "reading", m.kind = "meter",
             m.dp = i.dp, r.names = m.names, i.slot \in r.slots
      PROVE  Followed(R, r, i)
  BY <1>1, <1>3 DEF Followed, Relevant
<1>4. ASSUME r.kind \in {"commitment", "capacity"},
             r.dp = i.dp, i.slot \in r.slots
      PROVE  Followed(R, r, i)
  BY <1>1, <1>4 DEF Followed, Relevant
<1>. QED  BY <1>2, <1>3, <1>4

(* A row that became known has a row of its entity in force ever after.    *)
LEMMA Successor ==
    ASSUME NEW H \in SUBSET Row, NEW t \in Nat, NEW r \in H, Clock(r) <= t
    PROVE  \E s \in InForce(H, t) : SameEntity(r, s)
<1> DEFINE S == {s \in H : SameEntity(r, s) /\ Clock(s) <= t}
           T == {Clock(s) : s \in S}
<1>1. r \in S /\ T \subseteq Nat /\ \A u \in T : u <= t
  BY RowTypes, EntityIsEquivalence
<1>2. PICK u \in T : \A v \in T : v <= u
  <2>1. T # {}
    BY <1>1
  <2>. HIDE DEF T
  <2>. QED  BY <1>1, <2>1, GreatestNatural
<1>3. PICK s \in S : Clock(s) = u
  OBVIOUS
<1>4. ~ Superseded(H, s, t)
  <2>1. SUFFICES ASSUME NEW v \in H, SameEntity(s, v),
                        Clock(v) > Clock(s), Clock(v) <= t
                 PROVE  FALSE
    BY DEF Superseded
  <2>2. v \in S
    BY <2>1, EntityIsEquivalence
  <2>3. Clock(v) <= Clock(s) /\ Clock(v) \in Nat /\ Clock(s) \in Nat
    BY <1>2, <1>3, <2>2, RowTypes
  <2>. QED  BY <2>1, <2>3
<1>. QED  BY <1>4 DEF InForce

(* A relevant row in force at u was so at t if nothing changed since.      *)
LEMMA InForceSince ==
    ASSUME NEW R \in SUBSET Row, NEW i, NEW t \in Nat, NEW u \in Nat, t <= u,
           Steady(R, i, t, u), NEW s \in InForce(History(R), u),
           Relevant(R, s, i)
    PROVE  s \in InForce(History(R), t)
<1> DEFINE H == History(R)
<1>1. H \subseteq Row /\ s \in H /\ Clock(s) <= u /\ ~ Superseded(H, s, u)
  BY HistoryShape DEF InForce
<1>2. Clock(s) \in ChangePoints(R, H, i) /\ Clock(s) \in Nat
  BY <1>1, RowTypes DEF ChangePoints
<1>3. Clock(s) <= t
  BY <1>1, <1>2 DEF Steady
<1>4. ~ Superseded(H, s, t)
  BY <1>1, RowTypes DEF Superseded
<1>. QED  BY <1>1, <1>3, <1>4 DEF InForce

(* Between change points the result of an interval stands.                 *)
LEMMA ResultStandsBetween ==
    ASSUME NEW R \in SUBSET Row, OneRowPerRevision(R), KeyedByPlace(R),
           NEW i, NEW t \in Nat, NEW u \in Nat, t <= u,
           Steady(R, i, t, u), ~ MovedAway(History(R), i, t, u)
    PROVE  StateAt(History(R), i, t) = StateAt(History(R), i, u)
<1> DEFINE F == InForce(History(R), t)
           G == InForce(History(R), u)
<1>1. F \subseteq R /\ G \subseteq R
  BY HistoryShape DEF InForce
<1>2. ASSUME NEW r \in R, Followed(R, r, i) PROVE r \in F <=> r \in G
  BY <1>2, FollowedStands
<1>3. ASSUME NEW s \in G, Relevant(R, s, i) PROVE s \in F
  BY <1>3, InForceSince
<1>4. ASSUME NEW r \in F
      PROVE  \E s \in G : SameEntity(r, s)
  <2>1. History(R) \subseteq Row /\ r \in History(R) /\ Clock(r) <= t
    BY HistoryShape DEF InForce
  <2>2. Clock(r) <= u
    BY <2>1, RowTypes
  <2>. QED  BY <2>1, <2>2, Successor
<1>5. \A r, s \in F : SameEntity(r, s) => r = s
  BY OneInForce
<1>6. /\ \A r \in Parties(F, i), s \in G : SameEntity(r, s) => r.names = s.names
      /\ \A r \in Orders(F, i), s \in G :
             SameEntity(r, s) => s.dp = i.dp /\ i.slot \in s.slots
  BY DEF MovedAway
<1> HIDE DEF F, G
<1>7. Assigned(F, i) = Assigned(G, i)
  BY <1>1, <1>2, NamedRowsFollowed DEF Assigned
<1>8. Parties(F, i) = Parties(G, i)
  <2>1. ASSUME NEW s \in G, NEW a \in Assigned(F, i), s.kind = "party",
               s.names \subseteq a.names
        PROVE  s \in F
    <3>1. a \in R /\ a.kind = "assignment" /\ a.dp = i.dp
      BY <1>1 DEF Assigned
    <3>2. Relevant(R, s, i)
      BY <2>1, <3>1 DEF Relevant
    <3>. QED  BY <1>3, <3>2
  <2>2. ASSUME NEW r \in Parties(F, i) PROVE r \in G
    <3>1. PICK a \in Assigned(F, i) : r.names \subseteq a.names
      BY DEF Parties
    <3>2. PICK s \in G : SameEntity(r, s)
      BY <1>4 DEF Parties
    <3>3. s.kind = "party" /\ s.names = r.names /\ r \in F
      BY <1>6, <3>2 DEF Parties, SameEntity
    <3>4. s \in F
      BY <2>1, <3>1, <3>3
    <3>. QED  BY <1>5, <3>2, <3>3, <3>4
  <2>. QED  BY <1>7, <2>1, <2>2 DEF Parties
<1>9. Contracts(F, i) = Contracts(G, i)
  BY <1>1, <1>2, <1>7, NamedRowsFollowed DEF Contracts
<1>10. Meters(F, i) = Meters(G, i)
  BY <1>1, <1>2, <1>7, NamedRowsFollowed DEF Meters
<1>11. Readings(F, i) = Readings(G, i)
  <2>1. ASSUME NEW r \in R, NEW m \in Meters(F, i), r.kind = "reading",
               r.names = m.names, i.slot \in r.slots
        PROVE  r \in F <=> r \in G
    <3>1. m \in R /\ m.kind = "meter" /\ m.dp = i.dp
      BY <1>1 DEF Meters
    <3>. QED  BY <1>2, <2>1, <3>1, NamedRowsFollowed
  <2>. QED  BY <1>1, <1>10, <2>1 DEF Readings
<1>12. Quantities(F, i) = Quantities(G, i)
  BY <1>1, <1>2, NamedRowsFollowed DEF Quantities
<1>13. Orders(F, i) = Orders(G, i)
  <2>1. ASSUME NEW s \in Orders(G, i) PROVE s \in F
    <3>1. s \in G /\ Relevant(R, s, i)
      BY DEF Orders, Relevant
    <3>. QED  BY <1>3, <3>1
  <2>2. ASSUME NEW r \in Orders(F, i) PROVE r \in G
    <3>1. PICK s \in G : SameEntity(r, s)
      BY <1>4 DEF Orders
    <3>2. s \in Orders(G, i) /\ r \in F
      BY <1>6, <3>1 DEF Orders, SameEntity
    <3>. QED  BY <1>5, <2>1, <3>1, <3>2
  <2>. QED  BY <2>1, <2>2 DEF Orders
<1>. QED  BY <1>7, <1>8, <1>9, <1>10, <1>11, <1>12, <1>13
          DEF StateAt, Result, F, G

(* Before its first change point an interval has no result.                *)
LEMMA NothingBefore ==
    ASSUME NEW R \in SUBSET Row, NEW i, NEW t \in Nat,
           \A x \in ChangePoints(R, History(R), i) : ~ (x <= t)
    PROVE  StateAt(History(R), i, t) = Nothing
<1> DEFINE F == InForce(History(R), t)
<1>1. F \subseteq R /\ F \subseteq History(R)
  BY HistoryShape DEF InForce
<1>2. ASSUME NEW r \in F, Relevant(R, r, i) PROVE FALSE
  <2>1. Clock(r) \in ChangePoints(R, History(R), i)
    BY <1>1, <1>2 DEF ChangePoints
  <2>. QED  BY <1>2, <2>1 DEF InForce
<1> HIDE DEF F
<1>3. Assigned(F, i) = {}
  <2>1. ASSUME NEW r \in Assigned(F, i) PROVE FALSE
    <3>1. r \in F /\ Relevant(R, r, i)
      BY <1>1, EntityIsEquivalence DEF Assigned, Relevant
    <3>. QED  BY <1>2, <3>1
  <2>. QED  BY <2>1
<1>4. Parties(F, i) = {} /\ Contracts(F, i) = {} /\ Meters(F, i) = {}
  BY <1>3 DEF Parties, Contracts, Meters
<1>5. Readings(F, i) = {}
  BY <1>4 DEF Readings
<1>6. Quantities(F, i) = {} /\ Orders(F, i) = {}
  BY <1>2 DEF Quantities, Orders, Relevant
<1>. QED  BY <1>3, <1>4, <1>5, <1>6 DEF StateAt, Result, Nothing, AtMostOne, F

-----------------------------------------------------------------------------
(* Windows.                                                                *)

(* Up to the next window every point has the result of its window.         *)
LEMMA WindowHolds ==
    ASSUME NEW P \in SUBSET Nat, NEW S, NEW w \in WindowStarts(P, S),
           NEW p \in P, w <= p,
           \A x \in WindowStarts(P, S) : ~ (w < x /\ x <= p)
    PROVE  S[p] = S[w]
<1> DEFINE Bad == {q \in P : w <= q /\ q <= p /\ S[q] # S[w]}
<1>1. w \in P
  BY DEF WindowStarts
<1>2. SUFFICES ASSUME Bad # {} PROVE FALSE
  OBVIOUS
<1>3. PICK q \in Bad : \A u \in Bad : q <= u
  <2>1. Bad \subseteq Nat
    OBVIOUS
  <2>. QED  BY <1>2, <2>1, LeastNatural
<1>4. q \in Nat /\ w \in Nat /\ w < q /\ q <= p
  BY <1>1, <1>3
<1> DEFINE Below == {x \in P : w <= x /\ x < q}
<1>5. PICK b \in Below : \A x \in Below : x <= b
  <2>1. w \in Below
    BY <1>1, <1>4
  <2>2. Below \subseteq Nat /\ \A x \in Below : x <= q
    <3>1. \A x \in P : x \in Nat /\ (x < q => x <= q)
      BY <1>4
    <3>. QED  BY <3>1
  <2>. HIDE DEF Below
  <2>. QED  BY <1>4, <2>1, <2>2, GreatestNatural
<1>6. S[b] = S[w]
  <2>1. b \in P /\ w <= b /\ b < q
    OBVIOUS
  <2>2. b \notin Bad
    BY <1>3, <1>4, <2>1
  <2>. QED  BY <1>4, <2>1, <2>2
<1>7. ASSUME NEW x, Previous(P, x, q) PROVE x = b
  <2>1. x \in P /\ x < q /\ ~ (x < b)
    BY <1>7 DEF Previous
  <2>2. ~ (b < x)
    BY <1>4, <1>5, <2>1
  <2>. QED  BY <2>1, <2>2
<1>8. q \in WindowStarts(P, S)
  BY <1>3, <1>6, <1>7 DEF WindowStarts
<1>. QED  BY <1>4, <1>8

(* The window at t gives the result of the last point that is not later.   *)
LEMMA WindowAnswers ==
    ASSUME NEW P \in SUBSET Nat, NEW S, NEW t \in Nat,
           NEW p \in P, p <= t, \A q \in P : q <= t => q <= p
    PROVE  AnswersAt(WindowStarts(P, S), S, t) = {S[p]}
<1> DEFINE W == WindowStarts(P, S)
           V == {x \in W : x <= t}
<1>1. W \subseteq P /\ V \subseteq Nat /\ \A x \in V : x <= t
  BY DEF WindowStarts
<1>2. PICK m \in P : \A u \in P : m <= u
  BY LeastNatural
<1>3. m \in V
  BY <1>2 DEF WindowStarts, Previous
<1>4. PICK w \in V : \A x \in V : x <= w
  <2>. HIDE DEF V
  <2>. QED  BY <1>1, <1>3, GreatestNatural
<1>5. w \in W /\ w <= t /\ w <= p /\ w \in Nat
  BY <1>1
<1>6. ASSUME NEW x \in W PROVE ~ (w < x /\ x <= t)
  <2>1. x \in Nat
    BY <1>1
  <2>. QED  BY <1>4, <1>5, <2>1
<1>7. S[p] = S[w]
  BY <1>1, <1>5, <1>6, WindowHolds
<1>8. ASSUME NEW v \in W, v <= t, ~ \E x \in W : v < x /\ x <= t
      PROVE  v = w
  <2>1. v \in Nat
    BY <1>1
  <2>. QED  BY <1>5, <1>6, <1>8, <2>1
<1>. HIDE DEF W
<1>9. AnswersAt(W, S, t) = {S[w]}
  BY <1>5, <1>6, <1>8 DEF AnswersAt
<1>. QED  BY <1>7, <1>9 DEF W

-----------------------------------------------------------------------------
(* The inductive invariant: what is loaded was in an accepted bundle and   *)
(* has one row per revision, and the mart is a part of it that passed the  *)
(* tests of the history fact.                                              *)

Tested(R, C) ==
    \A i \in Spine(R, C) : OneRowPerWindow(HistoryFact(R, i))

RowsInv ==
    /\ loaded \subseteq AcceptedRows /\ OneRowPerRevision(loaded)
    /\ mart \subseteq loaded
    /\ covered \subseteq Slots /\ martCovered \subseteq covered
    /\ Tested(mart, martCovered)

LEMMA RowsInit == Init => RowsInv
<1>1. Tested({}, {})
  BY DEF Tested, Spine
<1>. QED  BY <1>1 DEF Init, RowsInv, OneRowPerRevision

LEMMA RowsNext == RowsInv /\ [Next]_vars => RowsInv'
<1> SUFFICES ASSUME RowsInv, [Next]_vars PROVE RowsInv'
  OBVIOUS
<1>1. ASSUME NEW b \in Bundles, Load(b) PROVE RowsInv'
  <2>1. b.rows \subseteq AcceptedRows
    BY DEF AcceptedRows
  <2>2. b.covers \subseteq Slots
    BY BundleConstants DEF Bundle
  <2>3. OneRowPerRevision(loaded')
    BY <1>1 DEF Load
  <2>. QED  BY <1>1, <2>1, <2>2, <2>3
             DEF RowsInv, Load, OneRowPerRevision, SameRevision, SameEntity
<1>2. CASE Build
  <2>1. Tested(loaded, covered)
    BY <1>2 DEF Build, TestsPass, Tested
  <2>. QED  BY <1>2, <2>1
            DEF RowsInv, Build, OneRowPerRevision, SameRevision, SameEntity
<1>3. CASE UNCHANGED vars
  BY <1>3 DEF RowsInv, vars, OneRowPerRevision, SameRevision, SameEntity
<1>. QED  BY <1>1, <1>2, <1>3 DEF Next

LEMMA RowsAlways == Spec => []RowsInv
BY RowsInit, RowsNext, PTL DEF Spec

(* What RowsInv says of the rows of the mart.                              *)
LEMMA MartRows ==
    ASSUME RowsInv
    PROVE  /\ mart \in SUBSET Row /\ loaded \in SUBSET Row
           /\ OneRowPerRevision(mart) /\ KeyedByPlace(mart)
           /\ Times \subseteq Nat
<1>1. AcceptedRows \subseteq Row
  BY BundleConstants DEF AcceptedRows, Bundle
<1>2. KeyedByPlace(AcceptedRows)
  BY BundleConstants
<1>. QED  BY <1>1, <1>2, BundleConstants
          DEF RowsInv, OneRowPerRevision, KeyedByPlace

(* The types, for any catalogue of bundles.                                *)
THEOREM KnowledgeTypes == Spec => []TypeOK
<1>1. RowsInv => TypeOK
  BY MartRows DEF RowsInv, TypeOK
<1>. QED  BY <1>1, RowsAlways, PTL

(* The dbt histories put in force, at every cutoff and for any revisions,  *)
(* the highest revision known by then (record_high_knowledge_history.sql). *)
THEOREM HistoriesAreRecordHighs == Spec => []HighestKnownInForce
<1>1. ASSUME RowsInv, NEW t \in Times
      PROVE  {r \in InForce(Known, t) : r.kind # "capacity"}
             = NewestKnown(Eligible(mart), t)
  BY <1>1, MartRows, InForceIsHighest, HighestIsInForce DEF Known
<1>2. RowsInv => HighestKnownInForce
  BY <1>1 DEF HighestKnownInForce
<1>. QED  BY <1>2, RowsAlways, PTL

(* An official capacity assessment never gives way to a provisional one,   *)
(* nor any row to a lower revision (capacity_assessment_knowledge_history).*)
THEOREM OfficialAssessmentsStand == Spec => []OfficialStands
<1>1. ASSUME RowsInv, NEW t \in Times, NEW u \in Times, t <= u,
             NEW r \in InForce(Known, t), NEW s \in InForce(Known, u),
             SameEntity(r, s), r.kind = "capacity"
      PROVE  (Official(r) => Official(s)) /\ r.revision <= s.revision
  BY <1>1, MartRows, OfficialStays DEF Known
<1>2. RowsInv => OfficialStands
  BY <1>1 DEF OfficialStands
<1>. QED  BY <1>2, RowsAlways, PTL

(* Between its change points the result of an interval stands, so that     *)
(* evaluating the joins at those points alone loses nothing, unless a      *)
(* party or order that counted has a revision that names another party or  *)
(* place (int_delivery_interval_knowledge_change_points.sql).              *)
THEOREM ResultsChangeAtChangePoints == Spec => []ResultStands
<1>1. ASSUME RowsInv, NEW i, NEW t \in Times, NEW u \in Times, t <= u,
             \A x \in ChangePoints(mart, Known, i) : ~ (t < x /\ x <= u)
      PROVE  \/ StateAt(Known, i, t) = StateAt(Known, i, u)
             \/ MovedAway(Known, i, t, u)
  <2>1. Steady(mart, i, t, u)
    BY <1>1 DEF Steady, Known
  <2>. QED  BY <1>1, <2>1, MartRows, ResultStandsBetween DEF Known
<1>2. RowsInv => ResultStands
  BY <1>1 DEF ResultStands
<1>. QED  BY <1>2, RowsAlways, PTL

(* The windows published give at every cutoff an answer the histories had  *)
(* then, not only at the points where the joins were evaluated (DBT-006,   *)
(* int_steam_delivery_interval_history_windows.sql), except for a revision *)
(* that moved a party or order away since the last of those points.        *)
THEOREM WindowsAnswerEveryCutoff == Spec => []WindowsReproduceCutoffs
<1>1. ASSUME RowsInv, NEW i \in Spine(mart, martCovered), NEW t \in Times,
             NEW f, f = HistoryFact(mart, i),
             NEW W, W = WindowStarts(f.points, f.left)
      PROVE  \/ \E x \in ResultRows(StateAt(Known, i, t)) :
                    AnswersAt(W, f.left, t) = {x}
             \/ /\ AnswersAt(W, f.left, t) = {}
                /\ StateAt(Known, i, t) = Nothing
             \/ \E p \in f.points :
                    /\ p <= t
                    /\ \A q \in f.points : q <= t => q <= p
                    /\ MovedAway(Known, i, p, t)
  <2> DEFINE P == f.points
             S == f.left
  <2>1. /\ P = ChangePoints(mart, Known, i)
        /\ \A p \in P : f.rows[p] = ResultRows(StateAt(Known, i, p))
    BY <1>1 DEF HistoryFact, Known
  <2>2. \A p \in P : S[p] \in f.rows[p]
    BY <1>1 DEF RowsInv, Tested, OneRowPerWindow
  <2>3. t \in Nat /\ P \in SUBSET Nat
    <3>1. Known \subseteq Row
      BY <1>1, MartRows, HistoryShape DEF Known
    <3>. QED  BY <1>1, <2>1, <3>1, MartRows, RowTypes DEF ChangePoints
  <2> HIDE DEF P, S
  <2>4. CASE \A x \in P : ~ (x <= t)
    <3>1. AnswersAt(W, S, t) = {}
      BY <1>1, <2>4 DEF AnswersAt, WindowStarts, P
    <3>2. StateAt(Known, i, t) = Nothing
      BY <1>1, <2>1, <2>3, <2>4, MartRows, NothingBefore DEF Known
    <3>. QED  BY <3>1, <3>2 DEF S
  <2>5. CASE \E x \in P : x <= t
    <3> DEFINE Q == {x \in P : x <= t}
    <3>1. Q # {} /\ Q \in SUBSET Nat /\ \A x \in Q : x <= t
      BY <2>3, <2>5
    <3>2. PICK p \in Q : \A x \in Q : x <= p
      <4>. HIDE DEF Q
      <4>. QED  BY <2>3, <3>1, GreatestNatural
    <3>3. p \in P /\ p \in Nat /\ p <= t /\ \A q \in P : q <= t => q <= p
      BY <2>3, <3>2
    <3>4. AnswersAt(W, S, t) = {S[p]}
      <4>1. W = WindowStarts(P, S)
        BY <1>1 DEF P, S
      <4>. HIDE DEF Q
      <4>2. AnswersAt(WindowStarts(P, S), S, t) = {S[p]}
        BY <2>3, <3>3, WindowAnswers
      <4>. QED  BY <4>1, <4>2
    <3>5. Steady(mart, i, p, t)
      <4>1. ASSUME NEW x \in P, p < x, x <= t PROVE FALSE
        BY <2>3, <3>3, <4>1
      <4>. QED  BY <2>1, <4>1 DEF Steady, Known
    <3>6. CASE ~ MovedAway(Known, i, p, t)
      <4>1. StateAt(Known, i, p) = StateAt(Known, i, t)
        BY <1>1, <2>3, <3>3, <3>5, <3>6, MartRows, ResultStandsBetween
           DEF Known
      <4>2. S[p] \in ResultRows(StateAt(Known, i, t))
        BY <2>1, <2>2, <3>3, <4>1
      <4>. QED  BY <3>4, <4>2 DEF S
    <3>7. CASE MovedAway(Known, i, p, t)
      BY <3>3, <3>7 DEF P
    <3>. QED  BY <3>6, <3>7
  <2>. QED  BY <2>4, <2>5
<1>2. RowsInv => WindowsReproduceCutoffs
  BY <1>1 DEF WindowsReproduceCutoffs
<1>. QED  BY <1>2, RowsAlways, PTL

(* Once every clock has passed, the history agrees with the current facts  *)
(* (assert_history_terminal_matches_current.sql), for any rows.            *)
THEOREM TerminalIsCurrent == Spec => []TerminalMatchesCurrent
<1>1. ASSUME RowsInv, NEW i, NEW t \in Times,
             \A r \in loaded : Clock(r) <= t
      PROVE  StateAt(History(loaded), i, t) = Result(Current(loaded), i)
  <2>1. InForce(History(loaded), t) = Current(loaded)
    BY <1>1, MartRows, AllKnownIsCurrent DEF RowsInv
  <2>. QED  BY <2>1 DEF StateAt
<1>2. RowsInv => TerminalMatchesCurrent
  BY <1>1 DEF TerminalMatchesCurrent
<1>. QED  BY <1>2, RowsAlways, PTL

(* No build changes an answer at a cutoff before the clocks of what was    *)
(* loaded since the last one: the histories have no hindsight.             *)
THEOREM HistoriesHaveNoHindsight == Spec => NoHindsight
<1>1. ASSUME RowsInv, [Next]_vars, mart' # mart,
             NEW i \in Interval, NEW t \in Times,
             \A r \in mart' \ mart : t < Clock(r)
      PROVE  StateAt(History(mart'), i, t) = StateAt(History(mart), i, t)
  <2>1. mart' = loaded
    BY <1>1 DEF Next, Load, Build, vars
  <2>2. SameUpTo(mart, mart', t)
    <3>1. mart \subseteq mart' /\ mart' \subseteq Row /\ t \in Nat
      BY <1>1, <2>1, MartRows DEF RowsInv
    <3>2. ASSUME NEW r \in mart', Clock(r) <= t PROVE r \in mart
      <4>1. Clock(r) \in Nat
        BY <3>1, RowTypes
      <4>. QED  BY <1>1, <3>1, <3>2, <4>1
    <3>. QED  BY <3>1, <3>2 DEF SameUpTo
  <2>3. t \in Nat
    BY <1>1, MartRows
  <2>. QED  BY <2>2, <2>3, InForceUpTo DEF StateAt
<1>2. ASSUME RowsInv, [Next]_vars
      PROVE  [mart' # mart =>
                \A H \in {History(mart)}, G \in {History(mart')} :
                    \A i \in Interval, t \in Times :
                        (\A r \in mart' \ mart : t < Clock(r)) =>
                            StateAt(G, i, t) = StateAt(H, i, t)]_vars
  BY <1>1, <1>2
<1>. QED  BY <1>2, RowsAlways, PTL DEF Spec, NoHindsight
=============================================================================
