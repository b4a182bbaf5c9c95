----------------------------- MODULE MCKnowledge ----------------------------
(***************************************************************************)
(* Small bundles for TLC.  Every bundle repeats the master rows its events *)
(* need, as the validation requires.                                       *)
(***************************************************************************)
EXTENDS KnowledgeHistory

CONSTANTS D1, D2, C1, C2, S1, M1

Plain(kind, id, revision, clock) ==
    [kind |-> kind, id |-> id, revision |-> revision,
     published |-> clock, approved |-> clock, approval |-> TRUE,
     dp |-> D1, names |-> {}, slots |-> Slots, status |-> "plain"]

Assignment == [Plain("assignment", "1", 1, 1) EXCEPT !.names = {C1, S1}]
Customer   == [Plain("party", "1", 1, 1) EXCEPT !.names = {C1}]
Site       == [Plain("party", "2", 1, 1) EXCEPT !.names = {S1}]
Terms      == [Plain("contract", "1", 1, 1) EXCEPT !.names = {C1},
                                                   !.approved = 2]
Meter      == [Plain("meter", "1", 1, 1) EXCEPT !.names = {M1}]
Masters    == {Assignment, Customer, Site, Terms, Meter}

Commitment(r, clock) ==
    [Plain("commitment", "1", r, clock) EXCEPT !.slots = {5}]
Opening(r, clock) ==
    [Plain("reading", "1", r, clock) EXCEPT !.names = {M1}, !.slots = {5}]
Closing(r, clock) ==
    [Plain("reading", "2", r, clock) EXCEPT !.names = {M1}]
Order(id, r, clock) == [Plain("order", id, r, clock) EXCEPT !.slots = {5}]
Capacity(r, clock, status) ==
    [Plain("capacity", "1", r, clock) EXCEPT !.slots = {5}, !.status = status]

Declaring(rows, slots) == [rows |-> Masters \cup rows, covers |-> slots]

(* Events of two intervals; corrections; two orders for one slot, one of   *)
(* them corrected too late; a customer suspended and reinstated late with  *)
(* a lower revision; terms that end and are continued, that move to        *)
(* another delivery point, or that overlap; a change of customer; an order *)
(* moved to another slot.                                                  *)
Catalogue ==
    {Declaring({Commitment(1, 2), Opening(1, 6), Closing(1, 8),
                [Commitment(2, 3) EXCEPT !.approval = FALSE],
                [Customer EXCEPT !.revision = 2, !.published = 3,
                                 !.approved = 6]}, {5}),
     Declaring({Order("1", 1, 3), Capacity(1, 3, "provisional")}, {5}),
     Declaring({Order("2", 1, 4), Capacity(2, 4, "withdrawn"),
                Opening(2, 8)}, {5}),
     Declaring({[Order("1", 2, 4) EXCEPT !.approved = 6],
                Capacity(3, 5, "provisional"), Capacity(4, 5, "rejected")}, {5}),
     Declaring({[Customer EXCEPT !.revision = 3, !.published = 4,
                                 !.slots = {}],
                [Order("1", 3, 7) EXCEPT !.slots = {8}],
                Capacity(5, 6, "final")}, {8}),
     Declaring({[Terms EXCEPT !.revision = 2, !.published = 5,
                              !.slots = {5}],
                [Terms EXCEPT !.id = "2", !.published = 5, !.slots = {8}]},
               {8}),
     Declaring({[Terms EXCEPT !.revision = 3, !.published = 7, !.dp = D2],
                [Terms EXCEPT !.id = "3", !.published = 8, !.names = {C2}],
                [Customer EXCEPT !.id = "3", !.names = {C2}],
                [Assignment EXCEPT !.revision = 2, !.published = 8,
                                   !.names = {C2, S1}]}, {8}),
     Declaring({[Terms EXCEPT !.id = "4", !.published = 3]}, {5})}

(* Capacity assessments in any order of numbers, clocks and status.        *)
Assessments ==
    {Declaring({Capacity(r, c, s)}, {5}) :
        r \in {1, 2, 3}, c \in {2, 3, 4}, s \in {"provisional", "final"}}
=============================================================================
