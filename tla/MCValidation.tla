---------------------------- MODULE MCValidation ----------------------------
(***************************************************************************)
(* Small bundles for TLC: a consistent bundle of one row per dataset, with *)
(* at most one row missing and at most two rows added.                     *)
(***************************************************************************)
EXTENDS BundleValidation, TLC

Blank ==
    [dataset |-> "customer_master", form |-> "valid", key |-> "1",
     opaque |-> "none", revision |-> 1, decimal |-> FALSE,
     from |-> 0, to |-> Open,
     customer |-> "A", site |-> "S", dp |-> "D", meter |-> "M",
     contract |-> "K", unit |-> "mwh", active |-> TRUE, operative |-> TRUE,
     sound |-> TRUE, positive |-> TRUE]

AllNames == {"1", "2", "none", "x", "y", "z", "A", "B", "S", "T", "D", "E",
             "M", "N", "K", "mwh", "gj"}

Customer   == Blank
Site       == [Blank EXCEPT !.dataset = "industrial_site_master"]
Assignment == [Blank EXCEPT !.dataset = "delivery_point_assignment"]
Meter      == [Blank EXCEPT !.dataset = "revenue_meter_assignment"]
Terms      == [Blank EXCEPT !.dataset = "contract_terms"]
Slot       == [Blank EXCEPT !.from = 1, !.to = 2]
Commitment == [Slot EXCEPT !.dataset = "commitment_schedule", !.opaque = "x"]
Order      == [Slot EXCEPT !.dataset = "approved_excess_order"]
Capacity   == [Slot EXCEPT !.dataset = "delivery_point_capacity_assessment",
                           !.opaque = "y"]
Reading    == [Slot EXCEPT !.dataset = "revenue_meter_reading",
                           !.opaque = "z"]

Base == <<Customer, Site, Assignment, Meter, Terms, Commitment, Order,
          Capacity, Reading>>

Second(r) == [r EXCEPT !.revision = 2]
Other(r)  == [r EXCEPT !.key = "2", !.from = 1]
Broken(r) == [r EXCEPT !.form = "invalid"]

(* Rows that replay, contradict, supersede, overlap, adjoin, misname or    *)
(* break the rows of Base.                                                 *)
Pool == <<
    Customer, Assignment, Commitment, Capacity,
    [Customer EXCEPT !.decimal = TRUE],
    [Commitment EXCEPT !.decimal = TRUE, !.opaque = "none"],
    [Customer EXCEPT !.operative = FALSE],
    [Commitment EXCEPT !.positive = FALSE],
    Second([Customer EXCEPT !.active = FALSE]),
    Second([Customer EXCEPT !.to = 1]),
    Broken(Second(Customer)),
    Broken(Second(Assignment)),
    Second([Assignment EXCEPT !.customer = "B"]),
    Broken(Second(Terms)),
    Broken(Second(Meter)),
    Second([Commitment EXCEPT !.positive = FALSE, !.opaque = "none"]),
    [Commitment EXCEPT !.customer = "B"],
    Second([Commitment EXCEPT !.customer = "B", !.opaque = "none"]),
    Broken(Second([Commitment EXCEPT !.opaque = "none"])),
    Other(Customer), Other([Customer EXCEPT !.customer = "B"]),
    Other(Site), Other([Site EXCEPT !.site = "T"]),
    Other(Assignment), Other([Assignment EXCEPT !.site = "T"]),
    Other([Assignment EXCEPT !.dp = "E"]),
    Other([Assignment EXCEPT !.customer = "B", !.dp = "E", !.site = "T"]),
    Other([Meter EXCEPT !.meter = "N"]), Other([Meter EXCEPT !.dp = "E"]),
    Other([Meter EXCEPT !.operative = FALSE]),
    Other(Terms), Other([Terms EXCEPT !.to = 1]),
    [Capacity EXCEPT !.from = 3, !.to = 4],
    [Capacity EXCEPT !.from = 4, !.to = 5, !.sound = FALSE, !.opaque = "1"],
    [Reading EXCEPT !.from = 3, !.opaque = "1", !.unit = "gj"],
    [Customer EXCEPT !.form = "unreadable"],
    [Broken(Customer) EXCEPT !.revision = Malformed],
    [Broken(Commitment) EXCEPT !.revision = Malformed] >>

Without(s, i) == SubSeq(s, 1, i - 1) \o SubSeq(s, i + 1, Len(s))

(* What other rows depend on is missing, or nothing.                       *)
Kernels == {Base} \cup {Without(Base, i) : i \in 1..6}
Extras == {<<>>} \cup {<<Pool[i]>> : i \in DOMAIN Pool}
          \cup {<<Pool[ij[1]], Pool[ij[2]]>> :
                   ij \in {x \in (DOMAIN Pool) \X (DOMAIN Pool) : x[1] <= x[2]}}

DamagedBundles == {k \o e : k \in Kernels, e \in Extras}

(* The same with one row added.                                            *)
OneRowAdded == {k \o <<Pool[i]>> : k \in Kernels, i \in DOMAIN Pool}
=============================================================================
