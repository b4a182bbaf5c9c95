------------------------------- MODULE MCDaily ------------------------------
(***************************************************************************)
(* Two scheduled days: clocks go forward before the first noon and back    *)
(* before the second.  Between them, times before, at and after each limit.*)
(***************************************************************************)
EXTENDS DailySchedule

Calendar == [d \in 0..3 |-> Hour * CASE d = 0 -> 0 [] d = 1 -> 24
                                      [] d = 2 -> 47 [] d = 3 -> 72]

(* Noon, an hour later, 16:00, five minutes later, and once all limits of  *)
(* that day have ended.                                                    *)
Observed ==
    UNION {{Noon(d), Noon(d) + Hour, Noon(d) + 4 * Hour,
            Noon(d) + 4 * Hour + 1, Noon(d) + 5 * Hour} : d \in {1, 2}}
=============================================================================
