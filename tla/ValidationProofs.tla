--------------------------- MODULE ValidationProofs -------------------------
(***************************************************************************)
(* For every bundle: what the validation accepts is closed under           *)
(* references, holds one payload per source revision, has no overlapping   *)
(* effective periods and one certain context for every event.              *)
(***************************************************************************)
EXTENDS BundleValidation, TLAPS

Passes == {"schema", "duplicates", "opaque", "local", "references",
           "overlaps", "references again", "intervals", "result", "done",
           "failed"}

(* What DetectDuplicateRevisions leaves, for the rest of the passes.       *)
Unique(lines) ==
    \A l \in lines : \A k \in Lines :
        k # l /\ SameRevision(k, l) /\ rows[k].form = "valid" =>
           k \in replays /\ rows[k] = rows[l]

(* The rows that count among those that are still valid.                   *)
Ranking(dataset) == {l \in Current(dataset) \ flawed : rows[l].active}
Ranked(dataset) ==
    {l \in Ranking(dataset) :
        dataset = "revenue_meter_assignment" => rows[l].operative}

(* What EffectiveOverlapRules leaves.                                      *)
Disjoint ==
    \A o \in Owners : \A k, l \in Ranked(o[1]) :
        k # l /\ rows[k][o[2]] = rows[l][o[2]] => ~Overlap(k, l)

(* What IntervalRelationshipRules leaves of its judgements: what depends   *)
(* on commitments may have changed in its own loop.                        *)
Certain(l) ==
    /\ rows[l].dataset \in Interval => HasContext(l)
    /\ rows[l].dataset \in {"commitment_schedule", "approved_excess_order"} =>
          HasTerms(l)
    /\ rows[l].dataset = "revenue_meter_reading" => HasMeter(l)

TypeInv ==
    /\ rows \in Bundles
    /\ flawed \subseteq Lines /\ replays \subseteq Lines
    /\ flawed \cap replays = {}
    /\ pass \in Passes

PassInv ==
    /\ pass = "schema" => flawed = {}
    /\ pass \in {"schema", "duplicates"} => replays = {}
    /\ pass # "schema" => \A l \in Lines \ flawed : rows[l].form = "valid"
    /\ pass = "duplicates" => \A l \in flawed : rows[l].form # "valid"
    /\ pass \notin {"schema", "duplicates"} =>
          Unique(Valid) /\ \A r \in replays : rows[r].form = "valid"
    /\ pass \in {"references again", "intervals", "result", "done"} => Disjoint
    /\ pass \in {"intervals", "result", "done"} => Closed(Valid)
    /\ pass \in {"result", "done"} => \A l \in Valid : Certain(l)

ResultInv ==
    /\ pass # "done" => result = NoResult
    /\ pass = "done" =>
         /\ result.accepted = Valid /\ result.quarantined = flawed
         /\ DOMAIN result.kept = replays
         /\ \A r \in replays : result.kept[r] = KeptLine(r)

ValidationInv == TypeInv /\ PassInv /\ ResultInv

-----------------------------------------------------------------------------
(* The lines of a bundle are numbers, so any two of them are ordered.      *)
LEMMA LinesAreNumbers ==
  ASSUME rows \in Bundles
  PROVE  Lines \subseteq Nat
<1>1. rows \in Seq(Row)
  BY BundleConstants
<1>2. DOMAIN rows = 1..Len(rows) /\ Len(rows) \in Nat
  BY <1>1
<1> QED
  BY <1>2 DEF Lines

(* Operators over the rows alone do not change with a pass.                *)
LEMMA FixedRows ==
  ASSUME rows' = rows
  PROVE  /\ Lines' = Lines
         /\ \A d : Of(d)' = Of(d)
         /\ \A l : HasIdentity(l)' <=> HasIdentity(l)
         /\ \A k, l : SameEpisode(k, l)' <=> SameEpisode(k, l)
         /\ \A k, l : SameRevision(k, l)' <=> SameRevision(k, l)
         /\ \A k, l : Overlap(k, l)' <=> Overlap(k, l)
         /\ \A k, l : Covers(k, l)' <=> Covers(k, l)
         /\ \A S, f : Named(S, f)' = Named(S, f)
         /\ \A S, d : Among(S, d)' = Among(S, d)
<1>1. Lines' = Lines
  BY DEF Lines
<1>2. \A d : Of(d)' = Of(d)
  BY <1>1 DEF Of
<1>3. \A l : HasIdentity(l)' <=> HasIdentity(l)
  BY DEF HasIdentity
<1>4. \A l : EpisodeKey(l)' = EpisodeKey(l)
  BY DEF EpisodeKey
<1>5. \A k, l : SameEpisode(k, l)' <=> SameEpisode(k, l)
  BY <1>4 DEF SameEpisode
<1>6. \A k, l : SameRevision(k, l)' <=> SameRevision(k, l)
  BY <1>5 DEF SameRevision
<1>7. \A k, l : Overlap(k, l)' <=> Overlap(k, l)
  BY DEF Overlap
<1>8. \A k, l : Covers(k, l)' <=> Covers(k, l)
  BY DEF Covers
<1>9. \A S, f : Named(S, f)' = Named(S, f)
  BY DEF Named
<1>10. \A S, d : Among(S, d)' = Among(S, d)
  BY <1>2 DEF Among
<1> QED
  BY <1>1, <1>2, <1>3, <1>5, <1>6, <1>7, <1>8, <1>9, <1>10

(* Which revisions count depends on the rows and the replays alone.        *)
LEMMA FixedRanks ==
  ASSUME rows' = rows, replays' = replays
  PROVE  \A d : Declared(d)' = Declared(d) /\ Current(d)' = Current(d)
<1>1. \A d : Declared(d)' = Declared(d)
  BY FixedRows DEF Declared
<1>2. \A d : Current(d)' = Current(d)
  BY <1>1, FixedRows DEF Current
<1> QED
  BY <1>1, <1>2

(* Two active rows of one owner that overlap do not both stay.             *)
LEMMA CrowdedMarks ==
  ASSUME NEW lines, NEW owner, NEW bad, NEW k \in lines, NEW l \in lines,
         k \notin bad, l \notin bad, rows[k].active, rows[l].active,
         k # l, rows[k][owner] = rows[l][owner], Overlap(k, l)
  PROVE  l \in Crowded(lines, owner, bad)
<1>1. \A x \in lines \ bad : rows[x].active =>
        x \in {y \in lines \ bad : rows[y].active}
  OBVIOUS
<1> QED
  BY <1>1 DEF Crowded

(* What every later pass keeps: it marks valid lines only.                 *)
LEMMA MarkKeeps ==
  ASSUME ValidationInv, NEW faults, NEW next \in Passes,
         Mark(faults, next), faults \subseteq Valid,
         pass \notin {"schema", "duplicates", "result", "done"},
         next \notin {"schema", "duplicates", "done"}
  PROVE  /\ TypeInv' /\ ResultInv'
         /\ Valid' = Valid \ faults
         /\ (\A l \in Lines \ flawed : rows[l].form = "valid")'
         /\ Unique(Valid)' /\ (\A r \in replays : rows[r].form = "valid")'
         /\ \A d : Ranked(d)' = Ranked(d) \ faults
         /\ Disjoint => Disjoint'
<1> USE DEF Mark
<1>1. Lines' = Lines
  BY FixedRows
<1>2. Valid' = Valid \ faults
  BY <1>1 DEF Valid
<1>3. TypeInv'
  BY <1>1 DEF ValidationInv, TypeInv, Valid
<1>4. ResultInv'
  BY DEF ValidationInv, ResultInv, NoResult
<1>5. (\A l \in Lines \ flawed : rows[l].form = "valid")'
  BY <1>1 DEF ValidationInv, PassInv
<1>6. Unique(Valid)'
  BY <1>1, <1>2, FixedRows DEF ValidationInv, PassInv, Unique
<1>7. (\A r \in replays : rows[r].form = "valid")'
  BY DEF ValidationInv, PassInv
<1>8. \A d : Ranked(d)' = Ranked(d) \ faults
  <2>1. \A d : Ranking(d)' = Ranking(d) \ faults
    BY FixedRanks DEF Ranking
  <2> QED
    BY <2>1 DEF Ranked
<1>9. Disjoint => Disjoint'
  BY <1>8, FixedRows DEF Disjoint
<1> QED
  BY <1>2, <1>3, <1>4, <1>5, <1>6, <1>7, <1>8, <1>9

(* What is certain about an event rests on rows in force of the datasets   *)
(* with effective periods.                                                 *)
LEMMA CertainKept ==
  ASSUME rows' = rows, replays' = replays,
         \A d \in Effective : flawed' \cap Of(d) = flawed \cap Of(d)
  PROVE  \A l : Certain(l)' <=> Certain(l)
<1>1. \A d : Current(d) \subseteq Of(d)
  BY DEF Current, Declared
<1>2. \A d \in Effective : InForce(d)' = InForce(d)
  <2> SUFFICES ASSUME NEW d \in Effective PROVE InForce(d)' = InForce(d)
    OBVIOUS
  <2>1. Current(d)' = Current(d) /\ Current(d) \subseteq Of(d)
    BY <1>1, FixedRanks
  <2>2. Current(d) \ flawed' = Current(d) \ flawed
    BY <2>1
  <2> QED
    BY <2>1, <2>2 DEF InForce
<1>3. \A d \in Effective : \A f, v, l :
        Matching(d, f, v, l)' = Matching(d, f, v, l)
  BY <1>2, FixedRows DEF Matching
<1>4. \A l : AssignmentOf(l)' = AssignmentOf(l)
  BY <1>3 DEF AssignmentOf, Effective
<1>5. \A l : ContractOf(l)' = ContractOf(l) /\ MeterOf(l)' = MeterOf(l)
  BY <1>3 DEF ContractOf, MeterOf, Effective
<1>6. \A l : HasContext(l)' <=> HasContext(l)
  <2>1. \A f, v, l : /\ Matching("customer_master", f, v, l)'
                         = Matching("customer_master", f, v, l)
                     /\ Matching("industrial_site_master", f, v, l)'
                         = Matching("industrial_site_master", f, v, l)
    BY <1>3 DEF Effective
  <2>2. \A a, l :
          /\ Single(Matching("customer_master", "customer",
                             rows[a].customer, l))'
             <=> Single(Matching("customer_master", "customer",
                                 rows[a].customer, l))
          /\ Single(Matching("industrial_site_master", "site",
                             rows[a].site, l))'
             <=> Single(Matching("industrial_site_master", "site",
                                 rows[a].site, l))
    BY <2>1 DEF Single
  <2> QED
    BY <1>4, <2>2 DEF HasContext
<1>7. \A l : HasTerms(l)' <=> HasTerms(l)
  BY <1>4, <1>5 DEF HasTerms
<1>8. \A l : HasMeter(l)' <=> HasMeter(l)
  BY <1>5 DEF HasMeter
<1> QED
  BY <1>6, <1>7, <1>8 DEF Certain

-----------------------------------------------------------------------------
(* The passes, one lemma each.                                             *)

(* Nothing is marked before the first pass.                                *)
LEMMA InitInv ==
  ASSUME Init
  PROVE  ValidationInv
BY DEF Init, ValidationInv, TypeInv, PassInv, ResultInv, Passes

(* After the first pass exactly the rows that are not valid are flawed.    *)
LEMMA SchemaValidateInv ==
  ASSUME ValidationInv, SchemaValidate
  PROVE  ValidationInv'
<1>1. Lines' = Lines
  BY FixedRows DEF SchemaValidate, Mark
<1>2. flawed' = {l \in Lines : rows[l].form # "valid"} /\ replays' = {}
  BY DEF SchemaValidate, Mark, ValidationInv, PassInv
<1>3. TypeInv'
  BY <1>1, <1>2 DEF SchemaValidate, Mark, ValidationInv, TypeInv, Passes
<1>4. PassInv'
  BY <1>1, <1>2 DEF SchemaValidate, Mark, PassInv
<1>5. ResultInv'
  BY DEF SchemaValidate, Mark, ValidationInv, ResultInv, NoResult
<1> QED
  BY <1>3, <1>4, <1>5 DEF ValidationInv

(* Of the rows of one revision all are conflicts, or all but the first are *)
(* replays.                                                                *)
LEMMA DetectDuplicateRevisionsInv ==
  ASSUME ValidationInv, DetectDuplicateRevisions
  PROVE  ValidationInv'
<1> USE DEF DetectDuplicateRevisions
<1>1. Lines' = Lines
  BY FixedRows
<1>2. /\ Valid = {l \in Lines : rows[l].form = "valid"}
      /\ flawed = Lines \ Valid
  BY DEF ValidationInv, TypeInv, PassInv, Valid
<1>3. Conflicts \subseteq Valid /\ replays' \subseteq Valid \ Conflicts
  BY DEF Conflicts
<1>4. TypeInv'
  BY <1>1, <1>2, <1>3 DEF ValidationInv, TypeInv, Passes
<1>5. Valid' = Valid \ (Conflicts \cup replays')
  BY <1>1, <1>2, <1>3 DEF Valid
<1>6. Unique(Valid)'
  <2> SUFFICES ASSUME NEW l \in Valid', NEW k \in Lines, k # l,
                      SameRevision(k, l), rows[k].form = "valid"
               PROVE  k \in replays' /\ rows[k] = rows[l]
    BY <1>1, FixedRows DEF Unique
  <2>1. l \in Valid /\ l \notin Conflicts /\ l \notin replays' /\ k \in Valid
    BY <1>2, <1>5
  <2>2. rows[k] = rows[l]
    BY <2>1 DEF Conflicts
  <2>3. k \notin Conflicts
    <3> SUFFICES ASSUME NEW j \in Valid, SameRevision(j, k),
                        rows[j] # rows[k]
                 PROVE  FALSE
      BY DEF Conflicts
    <3>1. SameRevision(j, l)
      BY DEF SameRevision, SameEpisode
    <3> QED
      BY <2>1, <2>2, <3>1 DEF Conflicts
  <2>4. SameRevision(l, k)
    BY DEF SameRevision, SameEpisode
  <2>5. ~(k < l)
    BY <2>1
  <2>6. l < k
    <3>1. k \in Nat /\ l \in Nat
      BY <2>1, LinesAreNumbers DEF ValidationInv, TypeInv, Valid
    <3> QED
      BY <2>5, <3>1
  <2> QED
    BY <2>1, <2>2, <2>3, <2>4, <2>6
<1>7. PassInv'
  <2>1. (\A l \in Lines \ flawed : rows[l].form = "valid")'
    BY <1>1, <1>2
  <2>2. (\A r \in replays : rows[r].form = "valid")'
    BY <1>2, <1>3
  <2> QED
    BY <1>6, <2>1, <2>2 DEF PassInv
<1>8. ResultInv'
  BY DEF ValidationInv, ResultInv, NoResult
<1> QED
  BY <1>4, <1>7, <1>8 DEF ValidationInv

(* The pass over opaque revision ids only takes valid rows away.           *)
LEMMA DetectOpaqueIdReuseInv ==
  ASSUME ValidationInv, DetectOpaqueIdReuse
  PROVE  ValidationInv'
<1>1. ReusedOpaqueIds \subseteq Valid
  BY DEF ReusedOpaqueIds
<1>2. pass = "opaque" /\ pass' = "local" /\ Mark(ReusedOpaqueIds, "local")
  BY DEF DetectOpaqueIdReuse, Mark
<1> QED
  BY <1>1, <1>2, MarkKeeps DEF ValidationInv, PassInv, Passes

(* The pass over single rows only takes valid rows away.                   *)
LEMMA LocalBusinessRulesInv ==
  ASSUME ValidationInv, LocalBusinessRules
  PROVE  ValidationInv'
<1> DEFINE faults == {l \in Valid : ~(WellTimed(l) /\ rows[l].sound)}
<1>1. faults \subseteq Valid
  OBVIOUS
<1>2. pass = "local" /\ pass' = "references" /\ Mark(faults, "references")
  BY DEF LocalBusinessRules, Mark
<1> HIDE DEF faults
<1> QED
  BY <1>1, <1>2, MarkKeeps DEF ValidationInv, PassInv, Passes

(* Without its orphans, what is valid is closed under references: no       *)
(* customer or site is an orphan, and assignments are judged first.        *)
LEMMA NoOrphansLeft ==
  ASSUME flawed \subseteq Lines
  PROVE  Orphans \subseteq Valid /\ Closed(Valid \ Orphans)
<1> DEFINE customers == Named(Valid \cap Of("customer_master"), "customer")
           sites == Named(Valid \cap Of("industrial_site_master"), "site")
           lost == {l \in Valid \cap Of("delivery_point_assignment") :
                       \/ rows[l].customer \notin customers
                       \/ rows[l].site \notin sites}
           points == Named((Valid \cap Of("delivery_point_assignment"))
                           \ lost, "dp")
           meters == {l \in Valid \cap Of("revenue_meter_assignment") :
                         rows[l].dp \notin points}
           terms == {l \in Valid \cap Of("contract_terms") :
                        \/ rows[l].dp \notin points
                        \/ rows[l].customer \notin customers}
           rest == Valid \ Orphans
<1>1. Orphans = lost \cup meters \cup terms
  BY DEF Orphans
<1>2. /\ lost \subseteq Valid \cap Of("delivery_point_assignment")
      /\ meters \subseteq Valid \cap Of("revenue_meter_assignment")
      /\ terms \subseteq Valid \cap Of("contract_terms")
  OBVIOUS
<1>3. \A l : l \in Valid => l \in Lines
  BY DEF Valid
<1>4. /\ Among(rest, "customer_master") = Valid \cap Of("customer_master")
      /\ Among(rest, "industrial_site_master")
           = Valid \cap Of("industrial_site_master")
      /\ Among(rest, "delivery_point_assignment")
           = (Valid \cap Of("delivery_point_assignment")) \ lost
      /\ Among(rest, "revenue_meter_assignment")
           = (Valid \cap Of("revenue_meter_assignment")) \ meters
      /\ Among(rest, "contract_terms")
           = (Valid \cap Of("contract_terms")) \ terms
  <2> HIDE DEF lost, meters, terms
  <2> QED
    BY <1>1, <1>2 DEF Among, Of
<1>5. Closed(rest)
  BY <1>4 DEF Closed
<1> QED
  BY <1>1, <1>2, <1>5

(* The closure depends on the rows and the lines alone.                    *)
LEMMA ClosedKept ==
  ASSUME rows' = rows
  PROVE  \A S : Closed(S)' <=> Closed(S)
BY FixedRows DEF Closed

(* The second time the references are judged, what is left is closed.      *)
LEMMA DirectReferenceRulesInv ==
  ASSUME ValidationInv, DirectReferenceRules
  PROVE  ValidationInv'
<1>1. Orphans \subseteq Valid /\ Closed(Valid \ Orphans)
  BY NoOrphansLeft DEF ValidationInv, TypeInv
<1>2. CASE pass = "references" /\ Mark(Orphans, "overlaps")
  <2>1. pass' = "overlaps"
    BY <1>2 DEF Mark
  <2> QED
    BY <1>1, <1>2, <2>1, MarkKeeps DEF ValidationInv, PassInv, Passes
<1>3. CASE pass = "references again" /\ Mark(Orphans, "intervals")
  <2>1. pass' = "intervals" /\ rows' = rows
    BY <1>3 DEF Mark
  <2>2. Disjoint
    BY <1>3 DEF ValidationInv, PassInv
  <2>3. /\ TypeInv' /\ ResultInv'
        /\ Valid' = Valid \ Orphans
        /\ (\A l \in Lines \ flawed : rows[l].form = "valid")'
        /\ Unique(Valid)' /\ (\A r \in replays : rows[r].form = "valid")'
        /\ Disjoint'
    BY <1>1, <1>3, <2>2, MarkKeeps DEF Passes
  <2>4. Closed(Valid)'
    BY <1>1, <2>1, <2>3, ClosedKept
  <2>5. PassInv'
    BY <2>1, <2>3, <2>4 DEF PassInv
  <2> QED
    BY <2>3, <2>5 DEF ValidationInv
<1> QED
  BY <1>2, <1>3 DEF DirectReferenceRules

(* One grouping leaves no two overlapping rows of an owner, and a second   *)
(* one none of the next owner among those that the first left.             *)
LEMMA CrowdedLeavesDisjoint ==
  ASSUME NEW d, NEW owner, NEW bad, NEW faults,
         Crowded(Current(d), owner, bad) \subseteq faults,
         NEW k \in Ranking(d) \ faults, NEW l \in Ranking(d) \ faults,
         k \notin bad, l \notin bad,
         k # l, rows[k][owner] = rows[l][owner]
  PROVE  ~Overlap(k, l)
<1>1. /\ k \in Current(d) /\ l \in Current(d)
      /\ rows[k].active /\ rows[l].active
  BY DEF Ranking
<1>2. ASSUME Overlap(k, l) PROVE FALSE
  <2>1. l \in Crowded(Current(d), owner, bad)
    BY <1>1, <1>2, CrowdedMarks
  <2> QED
    BY <2>1
<1> QED
  BY <1>2

(* After the overlap pass no two ranking rows of an owner overlap.         *)
LEMMA EffectiveOverlapRulesInv ==
  ASSUME ValidationInv, EffectiveOverlapRules
  PROVE  ValidationInv'
<1>1. pass = "overlaps" /\ pass' = "references again"
      /\ Mark(Overlaps, "references again") /\ rows' = rows
  BY DEF EffectiveOverlapRules, Mark
<1>2. \A d : Current(d) \subseteq Lines \ replays
  BY DEF Current, Declared, Of
<1>3. AuthoritativeMeters \subseteq Current("revenue_meter_assignment")
  BY DEF AuthoritativeMeters
<1>4. \A S, f, B : Crowded(S, f, B) \subseteq S \ B
  BY DEF Crowded
<1>5. \A S, f, g : CrowdedInTurn(S, f, g) \subseteq S \ flawed
  BY <1>4 DEF CrowdedInTurn
<1>6. Overlaps \subseteq Valid
  <2>1. \A S : S \subseteq Lines \ replays => S \ flawed \subseteq Valid
    BY DEF Valid
  <2> QED
    BY <1>2, <1>3, <1>4, <1>5, <2>1 DEF Overlaps
<1>7. /\ TypeInv' /\ ResultInv'
      /\ Valid' = Valid \ Overlaps
      /\ (\A l \in Lines \ flawed : rows[l].form = "valid")'
      /\ Unique(Valid)' /\ (\A r \in replays : rows[r].form = "valid")'
      /\ \A d : Ranked(d)' = Ranked(d) \ Overlaps
  BY <1>1, <1>6, MarkKeeps DEF Passes
<1>8. /\ Crowded(Current("customer_master"), "customer", flawed)
           \subseteq Overlaps
      /\ Crowded(Current("industrial_site_master"), "site", flawed)
           \subseteq Overlaps
      /\ Crowded(Current("contract_terms"), "dp", flawed) \subseteq Overlaps
      /\ CrowdedInTurn(Current("delivery_point_assignment"), "dp", "site")
           \subseteq Overlaps
      /\ CrowdedInTurn(AuthoritativeMeters, "meter", "dp")
           \subseteq Overlaps
  BY DEF Overlaps
<1>9. \A d : Ranked(d) \subseteq Ranking(d) /\ Ranking(d) \cap flawed = {}
  BY DEF Ranked, Ranking
<1>10. ASSUME NEW d, NEW f, NEW k \in Ranked(d) \ Overlaps,
              NEW l \in Ranked(d) \ Overlaps,
              <<d, f>> \in Owners,
              k # l, rows[k][f] = rows[l][f], Overlap(k, l)
       PROVE  FALSE
  <2>1. /\ k \in Ranking(d) \ Overlaps /\ l \in Ranking(d) \ Overlaps
        /\ k \notin flawed /\ l \notin flawed
    BY <1>9
  <2>2. CASE \/ d = "customer_master" /\ f = "customer"
             \/ d = "industrial_site_master" /\ f = "site"
             \/ d = "contract_terms" /\ f = "dp"
    <3>1. Crowded(Current(d), f, flawed) \subseteq Overlaps
      BY <1>8, <2>2
    <3> QED
      BY <1>10, <2>1, <3>1, CrowdedLeavesDisjoint
  <2>3. CASE d = "delivery_point_assignment" /\ f \in {"dp", "site"}
    <3> DEFINE first == Crowded(Current(d), "dp", flawed)
    <3>1. /\ first \subseteq Overlaps
          /\ Crowded(Current(d), "site", flawed \cup first) \subseteq Overlaps
      BY <1>8, <2>3 DEF CrowdedInTurn
    <3>2. k \notin flawed \cup first /\ l \notin flawed \cup first
      BY <2>1, <3>1
    <3>3. CASE f = "dp"
      BY <1>10, <2>1, <3>1, <3>3, CrowdedLeavesDisjoint
    <3>4. CASE f = "site"
      <4> HIDE DEF first
      <4> QED
        BY <1>10, <2>1, <3>1, <3>2, <3>4, CrowdedLeavesDisjoint
    <3> QED
      BY <2>3, <3>3, <3>4
  <2>4. CASE d = "revenue_meter_assignment" /\ f \in {"meter", "dp"}
    <3> DEFINE first == Crowded(AuthoritativeMeters, "meter", flawed)
    <3>1. /\ first \subseteq Overlaps
          /\ Crowded(AuthoritativeMeters, "dp", flawed \cup first)
               \subseteq Overlaps
      BY <1>8, <2>4 DEF CrowdedInTurn
    <3>2. /\ k \in AuthoritativeMeters /\ l \in AuthoritativeMeters
          /\ rows[k].active /\ rows[l].active
      BY <2>4 DEF AuthoritativeMeters, Ranked, Ranking
    <3>3. k \notin flawed \cup first /\ l \notin flawed \cup first
      BY <2>1, <3>1
    <3>4. CASE f = "meter"
      <4>1. l \in first
        BY <1>10, <2>1, <3>2, <3>4, CrowdedMarks
      <4> QED
        BY <3>3, <4>1
    <3>5. CASE f = "dp"
      <4> HIDE DEF first
      <4>1. l \in Crowded(AuthoritativeMeters, "dp", flawed \cup first)
        BY <1>10, <3>2, <3>3, <3>5, CrowdedMarks
      <4> QED
        BY <2>1, <3>1, <4>1
    <3> QED
      BY <2>4, <3>4, <3>5
  <2> QED
    BY <1>10, <2>2, <2>3, <2>4 DEF Owners
<1>11. Disjoint'
  <2> SUFFICES ASSUME NEW o \in Owners, NEW k \in Ranked(o[1])',
                      NEW l \in Ranked(o[1])', k # l,
                      rows[k][o[2]] = rows[l][o[2]], Overlap(k, l)
               PROVE  FALSE
    BY <1>1, FixedRows DEF Disjoint
  <2>1. o = <<o[1], o[2]>>
    BY DEF Owners
  <2>2. k \in Ranked(o[1]) \ Overlaps /\ l \in Ranked(o[1]) \ Overlaps
    BY <1>7
  <2> QED
    BY <1>10, <2>1, <2>2
<1>12. PassInv'
  BY <1>1, <1>7, <1>11 DEF PassInv
<1> QED
  BY <1>7, <1>12 DEF ValidationInv

(* The last pass marks no row with an effective period, so it loses        *)
(* neither a parent nor the context of another event.                      *)
LEMMA IntervalRelationshipRulesInv ==
  ASSUME ValidationInv, IntervalRelationshipRules
  PROVE  ValidationInv'
<1> DEFINE faults == {l \in Valid : ~Supported(l)}
<1>1. /\ pass = "intervals" /\ pass' = "result" /\ Mark(faults, "result")
      /\ rows' = rows /\ replays' = replays /\ flawed' = flawed \cup faults
  BY DEF IntervalRelationshipRules, Mark
<1>2. faults \subseteq Valid
  OBVIOUS
<1>3. Disjoint /\ Closed(Valid)
  BY <1>1 DEF ValidationInv, PassInv
<1>4. \A d \in Effective : faults \cap Of(d) = {}
  BY DEF Of, Supported, Effective, Interval
<1>5. \A l \in Valid \ faults : Certain(l)
  BY DEF Supported, Certain
<1> HIDE DEF faults
<1>6. /\ TypeInv' /\ ResultInv'
      /\ Valid' = Valid \ faults
      /\ (\A l \in Lines \ flawed : rows[l].form = "valid")'
      /\ Unique(Valid)' /\ (\A r \in replays : rows[r].form = "valid")'
      /\ Disjoint'
  BY <1>1, <1>2, <1>3, MarkKeeps DEF Passes
<1>7. Closed(Valid)'
  <2>1. \A d \in Effective :
          Among(Valid \ faults, d) = Among(Valid, d)
    BY <1>4 DEF Among
  <2>2. Closed(Valid \ faults)
    BY <1>3, <2>1 DEF Closed, Effective
  <2> QED
    BY <1>1, <1>6, <2>2, ClosedKept
<1>8. (\A l \in Valid : Certain(l))'
  <2>1. \A d \in Effective : flawed' \cap Of(d) = flawed \cap Of(d)
    BY <1>1, <1>4
  <2>2. \A l : Certain(l)' <=> Certain(l)
    BY <1>1, <2>1, CertainKept
  <2> QED
    BY <1>5, <1>6, <2>2
<1>9. PassInv'
  BY <1>1, <1>6, <1>7, <1>8 DEF PassInv
<1> QED
  BY <1>6, <1>9 DEF ValidationInv

(* What is said of the marks holds as long as they do not change.          *)
LEMMA SameMarks ==
  ASSUME rows' = rows, flawed' = flawed, replays' = replays
  PROVE  /\ Lines' = Lines /\ Valid' = Valid
         /\ \A S : Unique(S)' <=> Unique(S)
         /\ \A S : Closed(S)' <=> Closed(S)
         /\ \A l : Certain(l)' <=> Certain(l)
         /\ Disjoint' <=> Disjoint
         /\ \A r : KeptLine(r)' = KeptLine(r)
<1>1. Lines' = Lines /\ Valid' = Valid
  BY FixedRows DEF Valid
<1>2. \A S : Unique(S)' <=> Unique(S)
  BY <1>1, FixedRows DEF Unique
<1>3. \A l : Certain(l)' <=> Certain(l)
  BY CertainKept
<1>4. \A d : Ranked(d)' = Ranked(d)
  BY FixedRanks DEF Ranked, Ranking
<1>5. Disjoint' <=> Disjoint
  BY <1>4, FixedRows DEF Disjoint
<1>6. \A r : KeptLine(r)' = KeptLine(r)
  <2> SUFFICES ASSUME NEW r PROVE KeptLine(r)' = KeptLine(r)
    OBVIOUS
  <2> DEFINE kept == {l \in Valid : SameRevision(l, r)}
  <2>1. kept' = kept
    BY <1>1, FixedRows
  <2>2. KeptLine(r) = IF kept = {} THEN 0 ELSE CHOOSE l \in kept : TRUE
    BY DEF KeptLine
  <2>3. KeptLine(r)' = IF kept' = {} THEN 0 ELSE CHOOSE l \in kept' : TRUE
    BY DEF KeptLine
  <2> HIDE DEF kept
  <2> QED
    BY <2>1, <2>2, <2>3
<1> QED
  BY <1>1, <1>2, <1>3, <1>5, <1>6, ClosedKept

(* An exception changes no mark.                                           *)
LEMMA FailInv ==
  ASSUME ValidationInv, Fail
  PROVE  ValidationInv'
<1>1. /\ pass \in {"overlaps", "intervals"} /\ pass' = "failed"
      /\ UNCHANGED <<rows, flawed, replays, result>>
  BY DEF Fail
<1>2. TypeInv' /\ ResultInv'
  BY <1>1, SameMarks DEF ValidationInv, TypeInv, ResultInv, NoResult, Passes
<1>3. PassInv'
  BY <1>1, SameMarks DEF ValidationInv, PassInv
<1> QED
  BY <1>2, <1>3 DEF ValidationInv

(* The result repeats the marks.                                           *)
LEMMA BuildResultInv ==
  ASSUME ValidationInv, BuildResult
  PROVE  ValidationInv'
<1>1. /\ pass = "result" /\ pass' = "done"
      /\ UNCHANGED <<rows, flawed, replays>>
      /\ result' = [accepted |-> Valid, quarantined |-> flawed,
                    kept |-> [r \in replays \ flawed |-> KeptLine(r)]]
  BY DEF BuildResult
<1>2. replays \ flawed = replays
  BY DEF ValidationInv, TypeInv
<1>3. TypeInv'
  BY <1>1, SameMarks DEF ValidationInv, TypeInv, Passes
<1>4. PassInv'
  BY <1>1, SameMarks DEF ValidationInv, PassInv
<1>5. ResultInv'
  <2>1. /\ result'.accepted = Valid /\ result'.quarantined = flawed
        /\ result'.kept = [r \in replays |-> KeptLine(r)]
    BY <1>1, <1>2
  <2>2. /\ DOMAIN result'.kept = replays
        /\ \A r \in replays : result'.kept[r] = KeptLine(r)
    BY <2>1
  <2> QED
    BY <1>1, <2>1, <2>2, SameMarks DEF ResultInv
<1> QED
  BY <1>3, <1>4, <1>5 DEF ValidationInv

(* Every state of a validation satisfies the invariant of its pass.        *)
THEOREM ValidationInvariant == Spec => []ValidationInv
<1>1. Init => ValidationInv
  BY InitInv
<1>2. ValidationInv /\ [Next]_vars => ValidationInv'
  <2> SUFFICES ASSUME ValidationInv, [Next]_vars PROVE ValidationInv'
    OBVIOUS
  <2>1. CASE UNCHANGED vars
    BY <2>1, SameMarks
       DEF vars, ValidationInv, TypeInv, PassInv, ResultInv, NoResult
  <2> QED
    BY <2>1, SchemaValidateInv, DetectDuplicateRevisionsInv,
       DetectOpaqueIdReuseInv, LocalBusinessRulesInv,
       DirectReferenceRulesInv, EffectiveOverlapRulesInv,
       IntervalRelationshipRulesInv, FailInv, BuildResultInv DEF Next
<1> QED
  BY <1>1, <1>2, PTL DEF Spec

-----------------------------------------------------------------------------
(* What the invariant says of the result.                                  *)

(* Every line is accepted, quarantined or a replay, and only one of them.  *)
THEOREM TypeCorrect == Spec => []TypeOK
<1>1. ValidationInv => TypeOK
  <2> SUFFICES ASSUME ValidationInv PROVE TypeOK
    OBVIOUS
  <2>1. ASSUME result # NoResult
        PROVE  /\ result.accepted \cup result.quarantined \cup replays = Lines
               /\ DOMAIN result.kept = replays
    BY <2>1 DEF ValidationInv, TypeInv, ResultInv, Valid
  <2> QED
    BY <2>1 DEF ValidationInv, TypeInv, TypeOK
<1> QED
  BY <1>1, ValidationInvariant, PTL

(* No accepted row refers to a parent that was not accepted.               *)
THEOREM ReferencesAlwaysClosed == Spec => []ReferencesClosed
<1>1. ValidationInv => ReferencesClosed
  <2> SUFFICES ASSUME ValidationInv PROVE Closed(result.accepted)
    BY DEF ReferencesClosed
  <2>1. CASE pass = "done"
    BY <2>1 DEF ValidationInv, PassInv, ResultInv
  <2>2. CASE pass # "done"
    <3>1. result.accepted = {}
      BY <2>2 DEF ValidationInv, ResultInv, NoResult
    <3> QED
      BY <3>1 DEF Closed, Among
  <2> QED
    BY <2>1, <2>2
<1> QED
  BY <1>1, ValidationInvariant, PTL

(* Of each source revision one payload at most is accepted, and a replay   *)
(* repeats the row that was kept for it.                                   *)
THEOREM OnePayloadAccepted == Spec => []OnePayloadPerRevision
<1>1. ASSUME ValidationInv, pass = "done" PROVE OnePayloadPerRevision
  <2>1. /\ result.accepted = Valid /\ DOMAIN result.kept = replays
        /\ \A r \in replays : result.kept[r] = KeptLine(r)
    BY <1>1 DEF ValidationInv, ResultInv
  <2>2. Unique(Valid) /\ \A r \in replays : rows[r].form = "valid"
    BY <1>1 DEF ValidationInv, PassInv
  <2>3. ASSUME NEW r \in replays, KeptLine(r) # 0
        PROVE  KeptLine(r) \in Valid /\ rows[KeptLine(r)] = rows[r]
    <3> DEFINE kept == {l \in Valid : SameRevision(l, r)}
    <3>1. KeptLine(r) \in kept
      BY <2>3 DEF KeptLine
    <3>2. r \in Lines /\ KeptLine(r) # r
      BY <1>1, <3>1 DEF ValidationInv, TypeInv, Valid
    <3>3. SameRevision(r, KeptLine(r))
      BY <3>1 DEF SameRevision, SameEpisode
    <3> QED
      BY <2>2, <3>1, <3>2, <3>3 DEF Unique
  <2> QED
    BY <2>1, <2>2, <2>3 DEF OnePayloadPerRevision, Unique
<1>2. ASSUME ValidationInv, pass # "done" PROVE OnePayloadPerRevision
  <2>1. result.accepted = {} /\ DOMAIN result.kept = {}
    BY <1>2 DEF ValidationInv, ResultInv, NoResult
  <2> QED
    BY <2>1 DEF OnePayloadPerRevision
<1>3. ValidationInv => OnePayloadPerRevision
  BY <1>1, <1>2
<1> QED
  BY <1>3, ValidationInvariant, PTL

(* At the end the accepted rows that nothing supersedes are the ranking    *)
(* ones.                                                                   *)
LEMMA StandingRanks ==
  ASSUME ValidationInv, pass = "done"
  PROVE  \A d : Standing(d) = Ranking(d) /\ Judged(d) = Ranked(d)
<1>1. result.accepted = Valid
  BY DEF ValidationInv, ResultInv
<1>2. \A l \in Valid : HasIdentity(l)
  BY DEF ValidationInv, PassInv, Valid, HasIdentity
<1>3. ASSUME NEW d PROVE Standing(d) = Ranking(d)
  <2>1. \A l : l \in Of(d) =>
          (Newest(l) <=> \A k \in Declared(d) :
                            SameEpisode(k, l) =>
                               rows[k].revision <= rows[l].revision)
    BY DEF Newest, Declared, Of, SameEpisode
  <2>2. \A l : l \in Valid /\ l \in Of(d) => l \in Declared(d)
    BY <1>2 DEF Declared, Valid
  <2>3. \A l : l \in Declared(d) => l \in Of(d) /\ l \in Lines \ replays
    BY DEF Declared, Of
  <2>4. \A l : l \in Valid /\ l \in Of(d) /\ Newest(l)
                 <=> l \in Current(d) \ flawed
    BY <2>1, <2>2, <2>3 DEF Current, Valid
  <2> QED
    BY <1>1, <2>4 DEF Standing, Accepted, Among, Ranking
<1>4. \A d : Judged(d) = Ranked(d)
  BY <1>3 DEF Judged, Ranked
<1> QED
  BY <1>3, <1>4

(* Where one active record is required, the accepted newest revisions      *)
(* never overlap.                                                          *)
THEOREM PeriodsAlwaysDisjoint == Spec => []EffectivePeriodsDisjoint
<1>1. ASSUME ValidationInv, pass = "done" PROVE EffectivePeriodsDisjoint
  <2>1. Disjoint
    BY <1>1 DEF ValidationInv, PassInv
  <2> QED
    BY <1>1, <2>1, StandingRanks DEF Disjoint, EffectivePeriodsDisjoint
<1>2. ASSUME ValidationInv, pass # "done" PROVE EffectivePeriodsDisjoint
  <2>1. \A d : Judged(d) = {}
    BY <1>2 DEF ValidationInv, ResultInv, NoResult, Judged, Standing,
                Accepted, Among
  <2> QED
    BY <2>1 DEF EffectivePeriodsDisjoint
<1>3. ValidationInv => EffectivePeriodsDisjoint
  BY <1>1, <1>2
<1> QED
  BY <1>3, ValidationInvariant, PTL

(* Every accepted event has exactly one accepted context.                  *)
THEOREM ContextAlwaysCertain == Spec => []EventsHaveOneContext
<1>1. ASSUME ValidationInv, pass = "done" PROVE EventsHaveOneContext
  <2>1. result.accepted = Valid /\ \A l \in Valid : Certain(l)
    BY <1>1 DEF ValidationInv, PassInv, ResultInv
  <2>2. \A d, f, v, l :
          {k \in Standing(d) : /\ rows[k].operative
                               /\ rows[k][f] = v
                               /\ Covers(k, l)}
            = Matching(d, f, v, l)
    BY <1>1, StandingRanks DEF Ranking, Matching, InForce
  <2>3. ASSUME NEW l \in Valid, rows[l].dataset \in Interval
        PROVE  /\ Single(AssignmentOf(l))
               /\ \A a \in AssignmentOf(l) :
                    /\ Single(Matching("customer_master", "customer",
                                       rows[a].customer, l))
                    /\ Single(Matching("industrial_site_master", "site",
                                       rows[a].site, l))
    <3>1. HasContext(l)
      BY <2>1, <2>3 DEF Certain
    <3>2. PICK a \in AssignmentOf(l) :
            /\ AssignmentOf(l) = {a}
            /\ Single(Matching("customer_master", "customer",
                               rows[a].customer, l))
            /\ Single(Matching("industrial_site_master", "site",
                               rows[a].site, l))
      BY <3>1 DEF HasContext
    <3>3. Single(AssignmentOf(l))
      BY <3>2 DEF Single
    <3>4. \A b \in AssignmentOf(l) : b = a
      BY <3>2
    <3> QED
      BY <3>2, <3>3, <3>4
  <2>4. ASSUME NEW l \in Valid,
               rows[l].dataset \in {"commitment_schedule",
                                    "approved_excess_order"}
        PROVE  Single(ContractOf(l))
    BY <2>1, <2>4 DEF Certain, HasTerms, Single
  <2>5. ASSUME NEW l \in Valid, rows[l].dataset = "revenue_meter_reading"
        PROVE  Single(MeterOf(l))
    BY <2>1, <2>5 DEF Certain, HasMeter, Single
  <2> QED
    BY <2>1, <2>2, <2>3, <2>4, <2>5
       DEF EventsHaveOneContext, AssignmentOf, ContractOf, MeterOf
<1>2. ASSUME ValidationInv, pass # "done" PROVE EventsHaveOneContext
  BY <1>2 DEF ValidationInv, ResultInv, NoResult, EventsHaveOneContext
<1>3. ValidationInv => EventsHaveOneContext
  BY <1>1, <1>2
<1> QED
  BY <1>3, ValidationInvariant, PTL
=============================================================================
