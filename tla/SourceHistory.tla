---------------------------- MODULE SourceHistory ---------------------------
(***************************************************************************)
(* Revision histories of the validated tables: which revision of an entity *)
(* was in force at which knowledge time.  A row is one accepted source     *)
(* revision; an entity is what its revisions are revisions of: a version   *)
(* of an assignment, party (customer or site), contract or meter, an order *)
(* line, or the commitment, capacity assessment or reading of one place    *)
(* and time.                                                               *)
(*                                                                         *)
(* A slot is a delivery interval, named by the time it starts.  The slots  *)
(* of a master row are those its effective period covers, none when its    *)
(* status is not the active one; the slots of an event are its own.        *)
(***************************************************************************)
EXTENDS Naturals

CONSTANTS
    Ids,            \* natural keys and version ids
    Points,         \* delivery points
    Names,          \* customers, sites and meters
    Slots,          \* start times of delivery intervals
    MaxRevision     \* the largest source_revision a column holds

ASSUME HistoryConstants == Slots \subseteq Nat /\ MaxRevision \in Nat

Versions == {"assignment", "party", "contract", "meter"}
Events   == {"commitment", "order", "capacity", "reading"}

Row == [kind : Versions \cup Events, id : Ids, revision : 1..MaxRevision,
        published : Nat, approved : Nat, approval : BOOLEAN,
        dp : Points, names : SUBSET Names, slots : SUBSET Slots,
        status : {"plain", "provisional", "final", "withdrawn", "rejected"}]

SameEntity(r, s)   == r.kind = s.kind /\ r.id = s.id
SameRevision(r, s) == SameEntity(r, s) /\ r.revision = s.revision

(* knowledge_eligible_at: published and approved.                          *)
Clock(r) == IF r.published >= r.approved THEN r.published ELSE r.approved

(* An order counts only if it was published and approved before its slot,  *)
(* a capacity assessment unless it is rejected.                            *)
InTime(r) ==
    r.kind = "order" => \A s \in r.slots : r.published < s /\ r.approved < s
Eligible(R) == {r \in R : r.approval /\ InTime(r) /\ r.status # "rejected"}

OnePerClock(E) ==
    {r \in E : \A s \in E :
        SameEntity(r, s) /\ Clock(s) = Clock(r) => s.revision <= r.revision}

(* A revision becomes authoritative when it is higher than every revision  *)
(* that was known before it.                                               *)
EveryClock(O) == O                                                \* wrong
RecordBreakers(O) ==
    {r \in O : \A s \in O :
        SameEntity(r, s) /\ Clock(s) < Clock(r) => s.revision < r.revision}

Official(r) == r.status \in {"final", "withdrawn"}

(* Of capacity assessments a provisional one counts only until the first   *)
(* official one.                                                           *)
ProvisionalUntilFinal(B) ==                                       \* wrong
    {r \in B : r.kind = "capacity" /\ ~ Official(r) =>
        \A s \in B :
            SameEntity(r, s) /\ Clock(s) <= Clock(r) => s.status # "final"}
Transitions(B) ==
    {r \in B : r.kind = "capacity" /\ ~ Official(r) =>
        \A s \in B :
            SameEntity(r, s) /\ Clock(s) <= Clock(r) => ~ Official(s)}

(* The history of the rows R: the two macros, which differ in the last     *)
(* step only.                                                              *)
History(R) == Transitions(RecordBreakers(OnePerClock(Eligible(R))))

(* known_from_utc <= t, and known_to_utc, the clock of the next row of the *)
(* history H, is null or later than t.                                     *)
SupersededEver(H, r, t) ==                                        \* wrong
    \E s \in H : SameEntity(r, s) /\ Clock(s) > Clock(r)
Superseded(H, r, t) ==
    \E s \in H : SameEntity(r, s) /\ Clock(s) > Clock(r) /\ Clock(s) <= t
InForce(H, t) == {r \in H : Clock(r) <= t /\ ~ Superseded(H, r, t)}

(* The int_current models rank revisions without looking at clocks; that   *)
(* of capacity assessments is the open end of their history.               *)
HighestRevision(E) ==
    {r \in E : r.kind # "capacity" /\
        \A s \in E : SameEntity(r, s) => s.revision <= r.revision}
OpenCapacity(H) ==
    {r \in H : r.kind = "capacity" /\
        \A s \in H : SameEntity(r, s) => Clock(s) <= Clock(r)}
CurrentOfAllOrders(R) ==                                          \* wrong
    HighestRevision({r \in R : r.approval}) \cup OpenCapacity(History(R))
Current(R) == HighestRevision(Eligible(R)) \cup OpenCapacity(History(R))

-----------------------------------------------------------------------------
(* What was known at t: for entities other than capacity assessments the   *)
(* highest eligible revision whose clock is not later.                     *)
NewestKnown(E, t) ==
    {r \in E : r.kind # "capacity" /\ Clock(r) <= t /\
        \A s \in E :
            SameEntity(r, s) /\ Clock(s) <= t => s.revision <= r.revision}

OneRowPerRevision(R) == \A r, s \in R : SameRevision(r, s) => r = s
=============================================================================
