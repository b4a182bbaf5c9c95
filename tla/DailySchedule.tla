---------------------------- MODULE DailySchedule ---------------------------
(***************************************************************************)
(* The daily DAG: at noon in London it triggers the manual DAG for the     *)
(* operating date just completed, waits for that child run and checks that *)
(* it ended by 16:00.  The child may queue behind runs an operator         *)
(* triggered, since the manual DAG runs one at a time; Airflow may be down *)
(* at noon; an operator may clear runs.  Time is counted in units of five  *)
(* minutes of UTC; a London day lasts 23, 24 or 25 hours.                  *)
(***************************************************************************)
EXTENDS Integers

CONSTANTS
    LastDay,        \* days are 0..LastDay
    Midnight,       \* when each day begins, and when the last one ends
    FirstDate,      \* start of the synthetic timeline
    Manual,         \* runs of the manual DAG that an operator triggers
    Instants,       \* times at which something may happen
    MaxFaults       \* how often Airflow stops or an operator steps in

Days == 0..LastDay
Hour == 12

ASSUME CalendarConstants ==
    /\ LastDay \in Nat \ {0} /\ FirstDate \in Days
    /\ Midnight \in [0..LastDay + 1 -> Nat]
    /\ \A d \in Days : Midnight[d + 1] - Midnight[d] \in
                          {23 * Hour, 24 * Hour, 25 * Hour}
    /\ \A d, e \in Days : d < e => Midnight[d + 1] <= Midnight[e]
    /\ Instants \subseteq Nat \ {0} /\ Instants # {}
    /\ Manual \cap Days = {} /\ MaxFaults \in Nat

(* Clocks change early in the morning, so the hours of an afternoon are    *)
(* counted back from the next midnight.                                    *)
AtLocal(d, hour) == Midnight[d + 1] - (24 - hour) * Hour
LocalDate(t)     == CHOOSE d \in Days : Midnight[d] <= t /\ t < Midnight[d + 1]
Noon(d)          == AtLocal(d, 12)
IsNoon(t)        == t = Noon(LocalDate(t))

ShortWait  == 3 * Hour                                            \* wrong
WaitLimit  == 4 * Hour + 1    \* execution_timeout of the trigger task
RunLimit   == 4 * Hour + 3    \* dagrun_timeout of the daily DAG
ChildLimit == 3 * Hour        \* dagrun_timeout of the manual DAG

VARIABLES
    now, up,
    wrapper,     \* runs of the daily DAG: by the day they start, or 0
    child,       \* runs of the manual DAG: by operating date, or manual
    finished,    \* when the child of a date first succeeded
    conflict,    \* daily runs cleared when their child existed
    faults

vars == <<now, up, wrapper, child, finished, conflict, faults>>

(* Run 0 of the daily DAG is one an operator triggers by hand.             *)
Wrappers  == Days
ByHand    == 0
Children  == Days \cup Manual
NoRequest == [date |-> 0, generated |-> 0, deadline |-> 0]
Never     == 0

Active(w)  == wrapper[w].state \in {"choosing", "triggering", "waiting", "checking"}
Ended(c)   == child[c].state \in {"success", "failed"}
Running(c) == child[c].state = "running"

End(w, state) ==
    wrapper' = [wrapper EXCEPT ![w].state = state, ![w].since = 0, ![w].sent = 0]
Child(c, state, since) ==
    child' = [child EXCEPT ![c] = [state |-> state, since |-> since]]

-----------------------------------------------------------------------------
Init ==
    /\ now \in Instants /\ \A t \in Instants : now <= t
    /\ up = TRUE /\ faults = 0
    /\ wrapper = [w \in Wrappers |-> [state |-> "none", since |-> 0, day |-> w,
                                      sent |-> 0, seen |-> FALSE,
                                      request |-> NoRequest]]
    /\ child = [c \in Children |-> [state |-> "none", since |-> 0]]
    /\ finished = [d \in Days |-> Never]
    /\ conflict = {}

(* The cron timetable without catchup: only the interval that ended last,  *)
(* and one daily run at a time.                                            *)
Begin(w, day) ==
    /\ up /\ \A v \in Wrappers : ~ Active(v)
    /\ wrapper' = [wrapper EXCEPT ![w].state = "choosing", ![w].since = now,
                                  ![w].day = day, ![w].seen = FALSE]

Due(w) ==
    /\ w # ByHand /\ wrapper[w].state = "none" /\ Noon(w) <= now
    /\ \A d \in Days : d > w => now < Noon(d)
    /\ \A v \in Wrappers : ~ Active(v)
Schedule(w) ==
    /\ Due(w) /\ Begin(w, w)
    /\ UNCHANGED <<now, up, child, finished, conflict, faults>>

(* Airflow does not promise which interval a run started by hand gets.     *)
TriggerDaily ==
    /\ faults < MaxFaults /\ wrapper[ByHand].state = "none"
    /\ \E day \in Days \ {0} : Begin(ByHand, day)
    /\ faults' = faults + 1
    /\ UNCHANGED <<now, up, child, finished, conflict>>

RequireScheduledRun(w) == w # ByHand

(* Consecutive noons, whose dates are the calendar's whatever lies between.*)
LastsOneDay(start, end) ==                                        \* wrong
    end - start = 24 * Hour /\ IsNoon(start) /\ IsNoon(end)
NamesOneDate(start, end) ==
    /\ IsNoon(start) /\ IsNoon(end)
    /\ LocalDate(end) = LocalDate(start) + 1
    /\ LocalDate(start) >= FirstDate

DeadlineByElapsedTime(start, end) == start + 28 * Hour            \* wrong
Deadline(start, end) == AtLocal(LocalDate(end), 16)

Request(start, end) ==
    [date |-> LocalDate(end) - 1, generated |-> end,
     deadline |-> Deadline(start, end)]

ChooseCompletedOperatingDate(w) ==
    LET start == Noon(wrapper[w].day - 1)
        end   == Noon(wrapper[w].day)
    IN  /\ up /\ wrapper[w].state = "choosing"
        /\ \/ /\ RequireScheduledRun(w) /\ NamesOneDate(start, end)
              /\ wrapper' = [wrapper EXCEPT ![w].state = "triggering",
                                            ![w].request = Request(start, end)]
           \/ /\ ~ (RequireScheduledRun(w) /\ NamesOneDate(start, end))
              /\ End(w, "failed")
        /\ UNCHANGED <<now, up, child, finished, conflict, faults>>

(* reset_dag_run and skip_when_already_exists are off.                     *)
Awaits(w) == wrapper' = [wrapper EXCEPT ![w].state = "waiting", ![w].sent = now]
Queued(d) == Child(d, "queued", 0)
TriggerChild(w) ==
    LET d == wrapper[w].request.date
    IN  \/ child[d].state = "none" /\ Queued(d) /\ Awaits(w)
        \/ child[d].state # "none" /\ UNCHANGED child /\ End(w, "failed")

(* The trigger also fails when the manual DAG is paused.                   *)
RunExistingPipeline(w) ==
    /\ up /\ wrapper[w].state = "triggering"
    /\ TriggerChild(w) \/ (UNCHANGED child /\ End(w, "failed"))
    /\ UNCHANGED <<now, up, finished, conflict, faults>>

(* The deferred task polls the state of the child.                         *)
SeeChild(w) ==
    LET c == child[wrapper[w].request.date]
    IN  /\ up /\ wrapper[w].state = "waiting"
        /\ \/ /\ c.state = "success"
              /\ wrapper' = [wrapper EXCEPT ![w].state = "checking",
                                            ![w].seen = TRUE]
           \/ c.state = "failed" /\ End(w, "failed")
        /\ UNCHANGED <<now, up, child, finished, conflict, faults>>

CheckWarnsOnly(w) ==                                              \* wrong
    /\ up /\ wrapper[w].state = "checking" /\ End(w, "success")
    /\ UNCHANGED <<now, up, child, finished, conflict, faults>>
CheckFinishedOnTime(w) ==
    /\ up /\ wrapper[w].state = "checking"
    /\ \/ now <= wrapper[w].request.deadline /\ End(w, "success")
       \/ now > wrapper[w].request.deadline /\ End(w, "failed")
    /\ UNCHANGED <<now, up, child, finished, conflict, faults>>

WaitExpired(w) ==
    wrapper[w].state = "waiting" /\ now >= wrapper[w].sent + WaitLimit
RunExpired(w)   == Active(w) /\ now >= wrapper[w].since + RunLimit
Unlimited(c)    == FALSE                                          \* wrong
ChildExpired(c) == Running(c) /\ now >= child[c].since + ChildLimit

WrapperTimesOut(w) ==
    /\ up /\ (WaitExpired(w) \/ RunExpired(w))
    /\ End(w, "failed")
    /\ UNCHANGED <<now, up, child, finished, conflict, faults>>

-----------------------------------------------------------------------------
(* The manual DAG: one active run; the tasks are in the other modules.     *)

TriggerManual(c) ==
    /\ up /\ c \in Manual /\ child[c].state = "none"
    /\ Child(c, "queued", 0)
    /\ UNCHANGED <<now, up, wrapper, finished, conflict, faults>>

MayStart(c) == child[c].state = "queued" /\ \A d \in Children : ~ Running(d)
StartChild(c) ==
    /\ up /\ MayStart(c)
    /\ Child(c, "running", now)
    /\ UNCHANGED <<now, up, wrapper, finished, conflict, faults>>

EndChild(c) ==
    /\ up /\ Running(c)
    /\ \/ /\ Child(c, "success", 0)
          /\ finished' = IF c \in Days /\ finished[c] = Never
                         THEN [finished EXCEPT ![c] = now] ELSE finished
       \/ Child(c, "failed", 0) /\ UNCHANGED finished
    /\ UNCHANGED <<now, up, wrapper, conflict, faults>>

ChildTimesOut(c) ==
    /\ up /\ ChildExpired(c)
    /\ Child(c, "failed", 0)
    /\ UNCHANGED <<now, up, wrapper, finished, conflict, faults>>

-----------------------------------------------------------------------------
(* The operator and the machine.                                           *)

ClearWrapper(w) ==
    /\ faults < MaxFaults /\ wrapper[w].state \in {"success", "failed"}
    /\ Begin(w, wrapper[w].day)
    /\ conflict' = IF wrapper[w].request # NoRequest
                      /\ child[wrapper[w].request.date].state # "none"
                   THEN conflict \cup {w} ELSE conflict
    /\ faults' = faults + 1
    /\ UNCHANGED <<now, up, child, finished>>

ClearCheck(w) ==
    /\ up /\ faults < MaxFaults /\ \A v \in Wrappers : ~ Active(v)
    /\ wrapper[w].state \in {"success", "failed"} /\ wrapper[w].seen
    /\ wrapper' = [wrapper EXCEPT ![w].state = "checking", ![w].since = now]
    /\ faults' = faults + 1
    /\ UNCHANGED <<now, up, child, finished, conflict>>

ClearChild(c) ==
    /\ up /\ faults < MaxFaults /\ Ended(c)
    /\ Child(c, "queued", 0)
    /\ faults' = faults + 1
    /\ UNCHANGED <<now, up, wrapper, finished, conflict>>

(* A task that was running is failed, whether or not its request to        *)
(* trigger arrived; a daily run that stood between two tasks, deferred     *)
(* tasks and queued or running children stay.                              *)
Stop ==
    /\ up /\ faults < MaxFaults
    /\ up' = FALSE /\ faults' = faults + 1
    /\ \E lost \in SUBSET {w \in Wrappers :
                             Active(w) /\ wrapper[w].state # "waiting"} :
           /\ wrapper' = [w \in Wrappers |->
                  IF w \in lost
                  THEN [wrapper[w] EXCEPT !.state = "failed", !.since = 0,
                                          !.sent = 0]
                  ELSE wrapper[w]]
           /\ \/ UNCHANGED child
              \/ \E w \in lost :
                     /\ wrapper[w].state = "triggering"
                     /\ child[wrapper[w].request.date].state = "none"
                     /\ Queued(wrapper[w].request.date)
    /\ UNCHANGED <<now, finished, conflict>>

Restart ==
    /\ ~ up /\ up' = TRUE
    /\ UNCHANGED <<now, wrapper, child, finished, conflict, faults>>

(* While Airflow is up its scheduler acts within a unit of time: no limit  *)
(* that has ended is left alone, no run that may start stays back and no   *)
(* daily run hesitates to trigger or to poll.  The check may come late.    *)
Timers ==
    {wrapper[w].since + RunLimit : w \in {v \in Wrappers : Active(v)}}
    \cup {wrapper[w].sent + WaitLimit :
             w \in {v \in Wrappers : wrapper[v].state = "waiting"}}
    \cup {child[c].since + ChildLimit : c \in {d \in Children : Running(d)}}

Overdue ==
    \/ \E w \in Wrappers :
           \/ Due(w) \/ WaitExpired(w) \/ RunExpired(w)
           \/ wrapper[w].state \in {"choosing", "triggering"}
           \/ wrapper[w].state = "waiting" /\ Ended(wrapper[w].request.date)
    \/ \E c \in Children : ChildExpired(c) \/ MayStart(c)

Tick ==
    /\ up => ~ Overdue
    /\ LET Later == {t \in Instants \cup Timers : t > now}
       IN  now' \in Later /\ \A t \in Later : now' <= t
    /\ UNCHANGED <<up, wrapper, child, finished, conflict, faults>>

WrapperStep(w) ==
    \/ ChooseCompletedOperatingDate(w) \/ RunExistingPipeline(w)
    \/ SeeChild(w) \/ CheckFinishedOnTime(w) \/ WrapperTimesOut(w)
ChildStep(c) == StartChild(c) \/ ChildTimesOut(c)

Next ==
    \/ \E w \in Wrappers : Schedule(w) \/ ClearWrapper(w) \/ ClearCheck(w)
                           \/ WrapperStep(w)
    \/ \E c \in Children : TriggerManual(c) \/ ChildStep(c) \/ EndChild(c)
                           \/ ClearChild(c)
    \/ TriggerDaily \/ Stop \/ Restart \/ Tick

(* Time passes, Airflow is started again, and its scheduler acts.  Nothing *)
(* obliges a child to end before its time limit.                           *)
Fairness ==
    /\ WF_vars(Tick) /\ WF_vars(Restart)
    /\ \A w \in Wrappers : WF_vars(Schedule(w)) /\ WF_vars(WrapperStep(w))
    /\ \A c \in Children : WF_vars(ChildStep(c))

Spec == Init /\ [][Next]_vars /\ Fairness

TypeOK ==
    /\ now \in Nat /\ up \in BOOLEAN
    /\ wrapper \in [Wrappers ->
           [state : {"none", "choosing", "triggering", "waiting", "checking",
                     "success", "failed"},
            since : Nat, sent : Nat, day : Days, seen : BOOLEAN,
            request : [date : Days, generated : Nat, deadline : Nat]]]
    /\ child \in [Children ->
           [state : {"none", "queued", "running", "success", "failed"},
            since : Nat]]
    /\ finished \in [Days -> Nat] /\ conflict \subseteq Wrappers
    /\ faults \in 0..MaxFaults

-----------------------------------------------------------------------------
(* A daily run that succeeded covers a complete London date whose child    *)
(* had succeeded by 16:00 of the next day, also when clocks change.        *)
OnTimeIsTrue ==
    \A w \in Wrappers : wrapper[w].state = "success" =>
        LET d == wrapper[w].request.date
        IN  /\ Midnight[d + 1] <= wrapper[w].request.generated
            /\ finished[d] # Never /\ finished[d] <= AtLocal(d + 1, 16)

(* No two daily runs ask for one date, whoever started them.               *)
OneRequestPerDate ==
    \A v, w \in Wrappers :
        /\ wrapper[v].request # NoRequest /\ wrapper[w].request # NoRequest
        /\ wrapper[v].request.date = wrapper[w].request.date
        => v = w

(* No interval scheduled since the timeline began is refused, whether it   *)
(* lasts 23 hours or 25.                                                   *)
NoDayIsRefused ==
    [][\A w \in Wrappers \ {ByHand} :
          /\ w > FirstDate /\ wrapper[w].state = "choosing"
          /\ wrapper'[w].state = "failed"
          => ~ up' \/ RunExpired(w)]_vars

(* Airflow staying up, a daily run gives up waiting for a running child    *)
(* only if that started over an hour after it was triggered: the limit of  *)
(* the wait leaves room for the three hours a child may take.              *)
PromptChildrenAreAwaited ==
    [][\A w \in Wrappers :
          LET d == wrapper[w].request.date
          IN  /\ faults = 0
              /\ WrapperTimesOut(w) /\ WaitExpired(w) /\ Running(d)
              => child[d].since > wrapper[w].sent + Hour]_vars

(* A daily run cleared when its child exists never reports success for a   *)
(* child it did not follow from the start (orchestration/README.md).       *)
ConflictIsReported == \A w \in conflict : wrapper[w].state # "success"

(* A missed deadline becomes visible and stays so: a daily run whose child *)
(* had not succeeded by 16:00 ends as failed.                              *)
Missed(w) ==
    LET d == wrapper[w].request.date
    IN  /\ wrapper[w].request # NoRequest
        /\ now > AtLocal(d + 1, 16)
        /\ finished[d] = Never \/ finished[d] > AtLocal(d + 1, 16)
MissIsVisible ==
    <>[](\A w \in Wrappers : Missed(w) => wrapper[w].state = "failed")

(* Every child triggered is run to its end, also when the daily run that   *)
(* triggered it has given up and when Airflow stopped in between.          *)
ChildrenEnd ==
    <>[](\A c \in Children : child[c].state = "none" \/ Ended(c))
=============================================================================
