--------------------------- MODULE BundleValidation -------------------------
(***************************************************************************)
(* validation.py: the passes of _validate_candidates over the rows of one  *)
(* bundle.  Each pass may add issues to rows; a row leaves as accepted, as *)
(* quarantined or as an exact replay of an accepted one.                   *)
(*                                                                         *)
(* rows[l] is the candidate with index l.  Its payload is the record       *)
(* itself, so equal hashes are equal rows.  Fields a dataset does not have *)
(* hold any fixed value.  Times count half-hours.                          *)
(***************************************************************************)
EXTENDS Integers, FiniteSets, Sequences

CONSTANTS
    Bundles,     \* the bundles to validate, sequences of rows
    Names,       \* what identifiers and metadata are written with
    Open,        \* effective_to_utc is null or absent
    Malformed    \* a source_revision that int() refuses

Effective == {"customer_master", "industrial_site_master",
              "delivery_point_assignment", "revenue_meter_assignment",
              "contract_terms"}
Interval == {"commitment_schedule", "approved_excess_order",
             "delivery_point_capacity_assessment"}
Datasets == Effective \cup Interval \cup {"revenue_meter_reading"}
HasOpaqueId == {"commitment_schedule", "revenue_meter_reading",
                "delivery_point_capacity_assessment"}

(* What a line of a source file can be: a record that satisfies its        *)
(* schema, one that does not but has the fields of its identity, or one    *)
(* without an identity (no JSON object, or identity fields missing).       *)
Forms == {"valid", "invalid", "unreadable"}

(* key is the version or line id; decimal tells 1.0 from 1 in              *)
(* source_revision, one number to the schema and to int() but two texts to *)
(* str(); meter stands for meter and register; active for approval_state   *)
(* and the record's status; operative for lifecycle_status,                *)
(* operational_status and assignment_role (TRUE where a dataset has none); *)
(* sound for alignment and capacity arithmetic; unit for register_type and *)
(* native_unit.                                                            *)
Row ==
    [dataset : Datasets, form : Forms, key : Names, opaque : Names,
     revision : Nat \cup {Malformed}, decimal : BOOLEAN,
     from : Nat, to : Nat \cup {Open},
     customer : Names, site : Names, dp : Names, meter : Names,
     contract : Names, unit : Names,
     active : BOOLEAN, operative : BOOLEAN, sound : BOOLEAN,
     positive : BOOLEAN]

(* The contracts require a numeric revision, and an end of an interval.    *)
ASSUME BundleConstants ==
    /\ Open \notin Nat /\ Malformed \notin Nat
    /\ Bundles \subseteq Seq(Row)
    /\ \A b \in Bundles : \A l \in DOMAIN b :
          b[l].form = "valid" =>
             /\ b[l].revision # Malformed
             /\ b[l].dataset \in Interval => b[l].to # Open

VARIABLES
    rows,        \* the candidates of the bundle
    flawed,      \* the lines with at least one issue
    replays,     \* the lines with exact_replay_of
    pass,        \* the pass of _validate_candidates that is next
    result       \* what _build_result returned

vars == <<rows, flawed, replays, pass, result>>

Lines == DOMAIN rows
Of(dataset) == {l \in Lines : rows[l].dataset = dataset}
HasIdentity(l) == rows[l].form # "unreadable"

(* The rows a pass still looks at.                                         *)
Valid == Lines \ (flawed \cup replays)

(* EPISODE_KEY_FIELDS: what the revisions of one thing have in common.     *)
EpisodeKey(l) ==
    CASE rows[l].dataset \in {"commitment_schedule",
                              "delivery_point_capacity_assessment"} ->
            <<rows[l].dp, rows[l].from>>
      [] rows[l].dataset = "revenue_meter_reading" ->
            <<rows[l].meter, rows[l].from>>
      [] OTHER -> <<rows[l].key>>

SameEpisode(k, l) ==
    rows[k].dataset = rows[l].dataset /\ EpisodeKey(k) = EpisodeKey(l)

(* Equal source_revision_identity, which is a text.                        *)
SameRevision(k, l) ==
    /\ SameEpisode(k, l) /\ rows[k].revision = rows[l].revision
    /\ rows[k].decimal = rows[l].decimal

NoResult == [accepted |-> {}, quarantined |-> {}, kept |-> <<>>]

Init ==
    /\ rows \in Bundles
    /\ flawed = {} /\ replays = {}
    /\ pass = "schema"
    /\ result = NoResult

(* A pass that adds an issue to some lines and hands over to the next.     *)
Mark(faults, next) ==
    /\ flawed' = flawed \cup faults
    /\ pass' = next
    /\ UNCHANGED <<rows, replays, result>>

SchemaValidate ==
    /\ pass = "schema"
    /\ Mark({l \in Lines : rows[l].form # "valid"}, "duplicates")

-----------------------------------------------------------------------------
(* Immutable revisions.                                                    *)

ConflictsAfterFirst ==                                            \* wrong
    {l \in Valid : \E k \in Valid :
        k < l /\ SameRevision(k, l) /\ rows[k] # rows[l]}
Conflicts ==
    {l \in Valid : \E k \in Valid : SameRevision(k, l) /\ rows[k] # rows[l]}

(* Conflicting payloads are all quarantined; of equal ones the first stays.*)
DetectDuplicateRevisions ==
    /\ pass = "duplicates"
    /\ flawed' = flawed \cup Conflicts
    /\ replays' = {l \in Valid \ Conflicts :
                      \E k \in Valid : k < l /\ SameRevision(k, l)}
    /\ pass' = "opaque"
    /\ UNCHANGED <<rows, result>>

(* One opaque revision id must not name two revisions.                     *)
ReusedOpaqueIdsOfAll ==                                           \* wrong
    {l \in Lines \ flawed :
        /\ rows[l].dataset \in HasOpaqueId
        /\ \E k \in Valid : /\ rows[k].dataset = rows[l].dataset
                            /\ rows[k].opaque = rows[l].opaque
                            /\ ~SameRevision(k, l)}
ReusedOpaqueIds ==
    {l \in Valid : /\ rows[l].dataset \in HasOpaqueId
                   /\ \E k \in Valid : /\ rows[k].dataset = rows[l].dataset
                                       /\ rows[k].opaque = rows[l].opaque
                                       /\ ~SameRevision(k, l)}

DetectOpaqueIdReuse == pass = "opaque" /\ Mark(ReusedOpaqueIds, "local")

-----------------------------------------------------------------------------
(* Rules about one row.                                                    *)

WellTimed(l) ==
    CASE rows[l].dataset \in Interval -> rows[l].to = rows[l].from + 1
      [] rows[l].dataset \in Effective ->
            rows[l].to = Open \/ rows[l].from < rows[l].to
      [] OTHER -> TRUE

LocalBusinessRules ==
    /\ pass = "local"
    /\ Mark({l \in Valid : ~(WellTimed(l) /\ rows[l].sound)}, "references")

-----------------------------------------------------------------------------
(* Direct references.  Assignments are judged first, so that their         *)
(* children cannot use a delivery point of a quarantined one.              *)

Named(lines, field) == {rows[l][field] : l \in lines}

Orphans ==
    LET customers == Named(Valid \cap Of("customer_master"), "customer")
        sites == Named(Valid \cap Of("industrial_site_master"), "site")
        lost == {l \in Valid \cap Of("delivery_point_assignment") :
                    \/ rows[l].customer \notin customers
                    \/ rows[l].site \notin sites}
        points == Named((Valid \cap Of("delivery_point_assignment")) \ lost,
                        "dp")
        meters == {l \in Valid \cap Of("revenue_meter_assignment") :
                      rows[l].dp \notin points}
        terms == {l \in Valid \cap Of("contract_terms") :
                     \/ rows[l].dp \notin points
                     \/ rows[l].customer \notin customers}
    IN  lost \cup meters \cup terms

(* The rules run twice: an overlap found in between may take a parent.     *)
DirectReferenceRulesOnce ==                                       \* wrong
    \/ pass = "references" /\ Mark(Orphans, "overlaps")
    \/ pass = "references again" /\ Mark({}, "intervals")
DirectReferenceRules ==
    \/ pass = "references" /\ Mark(Orphans, "overlaps")
    \/ pass = "references again" /\ Mark(Orphans, "intervals")

-----------------------------------------------------------------------------
(* The revision of an episode that counts is the greatest one declared,    *)
(* whether or not it is valid: there is no falling back past an invalid    *)
(* row.                                                                    *)

Declared(dataset) == {l \in Of(dataset) \ replays : HasIdentity(l)}

CurrentAmongValid(dataset) ==                                     \* wrong
    {l \in Of(dataset) \cap Valid : \A k \in Of(dataset) \cap Valid :
        SameEpisode(k, l) => rows[k].revision <= rows[l].revision}
Current(dataset) ==
    {l \in Declared(dataset) : \A k \in Declared(dataset) :
        SameEpisode(k, l) => rows[k].revision <= rows[l].revision}

(* int(source_revision) raises for one of these datasets, and with it the  *)
(* whole validation.                                                       *)
CannotRank(datasets) ==
    \E d \in datasets : \E l \in Declared(d) : rows[l].revision = Malformed

Fail ==
    /\ \/ pass = "overlaps" /\ CannotRank(Effective)
       \/ pass = "intervals" /\ CannotRank({"commitment_schedule"})
    /\ pass' = "failed"
    /\ UNCHANGED <<rows, flawed, replays, result>>

(* _effective_bounds are half-open.                                        *)
Overlap(k, l) ==
    /\ rows[k].to = Open \/ rows[l].from < rows[k].to
    /\ rows[l].to = Open \/ rows[k].from < rows[l].to

(* _mark_overlaps: the active rows of one owner that overlap another one,  *)
(* after the lines of bad have got their issues.                           *)
Crowded(lines, owner, bad) ==
    LET standing == {l \in lines \ bad : rows[l].active}
    IN  {l \in standing : \E k \in standing \ {l} :
            rows[k][owner] = rows[l][owner] /\ Overlap(k, l)}

(* Two groupings in turn: the second no longer sees what the first marked. *)
CrowdedByFirst(lines, owner, next) == Crowded(lines, owner, flawed) \* wrong
CrowdedInTurn(lines, owner, next) ==
    LET first == Crowded(lines, owner, flawed)
    IN  first \cup Crowded(lines, next, flawed \cup first)

AuthoritativeMeters ==
    {l \in Current("revenue_meter_assignment") : rows[l].operative}

Overlaps ==
    UNION {Crowded(Current("customer_master"), "customer", flawed),
           Crowded(Current("industrial_site_master"), "site", flawed),
           CrowdedInTurn(Current("delivery_point_assignment"), "dp", "site"),
           CrowdedInTurn(AuthoritativeMeters, "meter", "dp"),
           Crowded(Current("contract_terms"), "dp", flawed)}

EffectiveOverlapRules ==
    /\ pass = "overlaps" /\ ~CannotRank(Effective)
    /\ Mark(Overlaps, "references again")

-----------------------------------------------------------------------------
(* Rules about the events of an interval or instant, against the rows that *)
(* are in force once everything above is marked.                           *)

InForce(dataset) ==
    {l \in Current(dataset) \ flawed : rows[l].active /\ rows[l].operative}

(* _covers_interval, and _covers_event for a reading.                      *)
Covers(k, l) ==
    /\ rows[k].from <= rows[l].from
    /\ \/ rows[k].to = Open
       \/ IF rows[l].dataset = "revenue_meter_reading"
          THEN rows[l].from < rows[k].to ELSE rows[l].to <= rows[k].to

(* The rows in force whose field has the value and that cover event l.     *)
Matching(dataset, field, value, l) ==
    {k \in InForce(dataset) : rows[k][field] = value /\ Covers(k, l)}

Single(S) == \E x \in S : S = {x}

(* _assignment_context: one assignment, customer version, site version.    *)
AssignmentOf(l) ==
    Matching("delivery_point_assignment", "dp", rows[l].dp, l)
HasContext(l) ==
    \E a \in AssignmentOf(l) :
        /\ AssignmentOf(l) = {a}
        /\ Single(Matching("customer_master", "customer", rows[a].customer, l))
        /\ Single(Matching("industrial_site_master", "site", rows[a].site, l))

(* The customer and the contract a commitment or an order names.           *)
ContractOf(l) == Matching("contract_terms", "contract", rows[l].contract, l)
HasTerms(l) ==
    /\ \E a \in AssignmentOf(l) : rows[a].customer = rows[l].customer
    /\ \E c \in ContractOf(l) : /\ ContractOf(l) = {c}
                                /\ rows[c].dp = rows[l].dp
                                /\ rows[c].customer = rows[l].customer

(* commitments is computed before the loop: a commitment that the same     *)
(* pass quarantines is still in it.                                        *)
ScheduleOf(l) ==
    {c \in InForce("commitment_schedule") :
        rows[c].dp = rows[l].dp /\ rows[c].from = rows[l].from}
HasSchedule(l) ==
    \E c \in ScheduleOf(l) : ScheduleOf(l) = {c} /\ rows[c].positive

MeterOf(l) ==
    Matching("revenue_meter_assignment", "meter", rows[l].meter, l)
HasMeter(l) ==
    \E m \in MeterOf(l) : MeterOf(l) = {m} /\ rows[m].unit = rows[l].unit

Supported(l) ==
    /\ rows[l].dataset \in Interval => HasContext(l)
    /\ rows[l].dataset \in {"commitment_schedule", "approved_excess_order"} =>
          HasTerms(l)
    /\ rows[l].dataset = "approved_excess_order" => HasSchedule(l)
    /\ rows[l].dataset = "revenue_meter_reading" => HasMeter(l)

IntervalRelationshipRules ==
    /\ pass = "intervals" /\ ~CannotRank({"commitment_schedule"})
    /\ Mark({l \in Valid : ~Supported(l)}, "result")

-----------------------------------------------------------------------------
(* _build_result; kept is accepted_line_number, 0 when the copy that       *)
(* DetectDuplicateRevisions kept was not accepted.                         *)

KeptLine(r) ==
    LET kept == {l \in Valid : SameRevision(l, r)}
    IN  IF kept = {} THEN 0 ELSE CHOOSE l \in kept : TRUE

BuildResult ==
    /\ pass = "result"
    /\ result' = [accepted |-> Valid, quarantined |-> flawed,
                  kept |-> [r \in replays \ flawed |-> KeptLine(r)]]
    /\ pass' = "done"
    /\ UNCHANGED <<rows, flawed, replays>>

Next ==
    \/ SchemaValidate
    \/ DetectDuplicateRevisions
    \/ DetectOpaqueIdReuse
    \/ LocalBusinessRules
    \/ DirectReferenceRules
    \/ EffectiveOverlapRules
    \/ IntervalRelationshipRules
    \/ Fail
    \/ BuildResult

Spec == Init /\ [][Next]_vars

-----------------------------------------------------------------------------
(* Properties.                                                             *)

(* A row never has both an issue and the mark of an exact replay, so that  *)
(* raw = accepted + quarantined + replays (workflow.py's reconciliation).  *)
TypeOK ==
    /\ rows \in Bundles
    /\ flawed \subseteq Lines /\ replays \subseteq Lines
    /\ flawed \cap replays = {}
    /\ result # NoResult =>
          /\ result.accepted \cup result.quarantined \cup replays = Lines
          /\ DOMAIN result.kept = replays

Among(lines, dataset) == lines \cap Of(dataset)
Accepted(dataset) == Among(result.accepted, dataset)

Closed(lines) ==
    /\ \A a \in Among(lines, "delivery_point_assignment") :
          /\ rows[a].customer \in Named(Among(lines, "customer_master"),
                                        "customer")
          /\ rows[a].site \in Named(Among(lines, "industrial_site_master"),
                                    "site")
    /\ \A x \in Among(lines, "revenue_meter_assignment")
                \cup Among(lines, "contract_terms") :
          rows[x].dp \in Named(Among(lines, "delivery_point_assignment"),
                               "dp")
    /\ \A c \in Among(lines, "contract_terms") :
          rows[c].customer \in Named(Among(lines, "customer_master"),
                                     "customer")

(* Accepted rows never refer to a parent that was not accepted, although   *)
(* parents are lost in four different passes.                              *)
ReferencesClosed == Closed(result.accepted)

(* Of each source revision at most one row is accepted, and none if the    *)
(* bundle contradicts itself on it; a replay has the payload of the row    *)
(* that was kept for it.  The loader's count of inserts rests on this.     *)
OnePayloadPerRevision ==
    /\ \A l \in result.accepted : \A k \in Lines :
          k # l /\ SameRevision(k, l) /\ rows[k].form = "valid" =>
             k \in replays /\ rows[k] = rows[l]
    /\ \A r \in DOMAIN result.kept :
          result.kept[r] # 0 =>
             /\ result.kept[r] \in result.accepted
             /\ rows[result.kept[r]] = rows[r]

(* A row no readable line of the bundle supersedes.                        *)
Newest(l) ==
    \A k \in Lines \ replays : HasIdentity(k) /\ SameEpisode(k, l) =>
        rows[k].revision <= rows[l].revision
Standing(dataset) == {l \in Accepted(dataset) : rows[l].active /\ Newest(l)}

Owners == {<<"customer_master", "customer">>,
           <<"industrial_site_master", "site">>,
           <<"delivery_point_assignment", "dp">>,
           <<"delivery_point_assignment", "site">>,
           <<"revenue_meter_assignment", "meter">>,
           <<"revenue_meter_assignment", "dp">>,
           <<"contract_terms", "dp">>}

(* Of the meters only the authoritative ones must not overlap.             *)
Judged(dataset) ==
    {l \in Standing(dataset) :
        dataset = "revenue_meter_assignment" => rows[l].operative}

(* Where Phase 2 requires one active record, the accepted newest revisions *)
(* never overlap, in whichever order the groupings found them.             *)
EffectivePeriodsDisjoint ==
    \A o \in Owners : \A k, l \in Judged(o[1]) :
        k # l /\ rows[k][o[2]] = rows[l][o[2]] => ~Overlap(k, l)

(* An accepted interval row or reading is covered by exactly one accepted  *)
(* assignment or meter, never by a revision older than one the bundle      *)
(* declares, and its customer, site and contract are as certain.           *)
EventsHaveOneContext ==
    \A l \in result.accepted :
        LET Covering(dataset, field, value) ==
                {k \in Standing(dataset) : /\ rows[k].operative
                                           /\ rows[k][field] = value
                                           /\ Covers(k, l)}
            assignments ==
                Covering("delivery_point_assignment", "dp", rows[l].dp)
        IN  /\ rows[l].dataset \in Interval =>
                 /\ Single(assignments)
                 /\ \A a \in assignments :
                      /\ Single(Covering("customer_master", "customer",
                                         rows[a].customer))
                      /\ Single(Covering("industrial_site_master", "site",
                                         rows[a].site))
            /\ rows[l].dataset \in {"commitment_schedule",
                                    "approved_excess_order"} =>
                 Single(Covering("contract_terms", "contract",
                                 rows[l].contract))
            /\ rows[l].dataset = "revenue_meter_reading" =>
                 Single(Covering("revenue_meter_assignment", "meter",
                                 rows[l].meter))

(* An accepted excess order has an accepted positive commitment            *)
(* (bounded-airflow-r2-iceberg-pipeline.md:246).  The code does not ensure *)
(* it: see ScheduleOf.                                                     *)
OrdersHaveCommitments ==
    \A l \in Accepted("approved_excess_order") :
        \E c \in Accepted("commitment_schedule") :
            /\ rows[c].dp = rows[l].dp /\ rows[c].from = rows[l].from
            /\ rows[c].positive
=============================================================================
