---------------------------- MODULE DbtCheckpoints --------------------------
(***************************************************************************)
(* The dbt checkpoints of a DAG run, each a task that holds the one slot   *)
(* of the iceberg_writer pool: run_dbt_command_step starts dbt, dbt sends  *)
(* one query at a time to Trino (threads: 1), and when dbt ends badly      *)
(* cancel_and_wait has to make sure that nothing of the attempt still runs *)
(* in Trino before the slot is free for the next writer.  Nothing looks    *)
(* for what earlier attempts may have left there.                          *)
(*                                                                         *)
(* Trino and dbt are external.  Time is counted in polls of cancel_and_    *)
(* wait: a request in flight when dbt stops reaches Trino within           *)
(* ArrivalPolls of them.  A relation holds the attempt that wrote it last. *)
(***************************************************************************)
EXTENDS Integers, Sequences, FiniteSets

CONSTANTS
    Relations,     \* the views and tables dbt builds
    Builds,        \* Builds[s]: what checkpoint s builds, in order; one more tests
    MaxRuns,       \* bound on the DAG runs of one behaviour
    MaxTries,      \* retries + 1
    MaxReruns,     \* bound on the failed checkpoints an operator clears
    QuietPolls,    \* TRINO_CLEANUP_QUIET_POLLS
    MaxPolls,      \* polls within trino_cleanup_timeout_seconds
    ArrivalPolls,  \* bound on the delay of a request
    CancelPolls,   \* a DELETE that takes longer is overdue
    MaxOrphans     \* bound on the attempts that leave dbt itself behind

Steps == 1..Len(Builds) + 1
Runs == 1..MaxRuns
NoAttempt == <<0, 0, 0>>

ASSUME CheckpointConstants ==
    /\ Builds \in Seq(Seq(Relations))
    /\ MaxRuns \in Nat \ {0} /\ MaxTries \in Nat \ {0} /\ MaxReruns \in Nat
    /\ QuietPolls \in Nat /\ MaxPolls \in Nat /\ CancelPolls \in Nat
    /\ ArrivalPolls \in Nat /\ ArrivalPolls < QuietPolls
    /\ MaxOrphans \in Nat

VARIABLES
    run, step, try,  \* the task instance: DAG run, checkpoint, try_number
    limit,           \* the try_number up to which Airflow retries it
    reruns,          \* cleared checkpoints so far
    pc,              \* what the task does
    item,            \* the query of the checkpoint that dbt is at
    ok,              \* have all its queries succeeded?
    polls, quiet,    \* of cancel_and_wait
    waited,          \* polls since the attempt's query was sent, began or was cancelled
    overdue,         \* history: a cancelled query took longer than CancelPolls
    unconfirmed,     \* attempts that left Trino in an unconfirmed state
    orphans,         \* attempts whose dbt or worker was not brought to an end
    queries,         \* what Trino runs or is about to receive
    mart             \* mart[r]: the attempt that wrote relation r last

taskVars == <<run, step, try, limit, reruns>>
dbtVars == <<item, ok>>
cleanVars == <<polls, quiet, waited, overdue>>
leftVars == <<unconfirmed, orphans>>
vars == <<taskVars, pc, dbtVars, cleanVars, leftVars, queries, mart>>

Pcs == {"ready", "dbt", "cleanup", "publish", "done", "failed"}
Attempt == Runs \X Steps \X (Nat \ {0})
Query == [tag : Attempt, item : Nat \ {0}, state : {"sent", "active", "cancelled"}]
Orphan == [tag : Attempt, item : Nat \ {0}]

(* _trino_attempt_tag.                                                     *)
Tag == <<run, step, try>>
QueriesOf(a) == {q \in queries : q.tag = a}
Own == QueriesOf(Tag)

Orphaned(a) == \E o \in orphans : o.tag = a

(* The queries of a checkpoint; the last one only reads.                   *)
WorkOf(s) == IF s <= Len(Builds) THEN Len(Builds[s]) ELSE 1
Work == WorkOf(step)
Writes(q) == q.tag[2] <= Len(Builds)
Target(q) == Builds[q.tag[2]][q.item]

TypeOK ==
    /\ run \in Runs /\ step \in Steps /\ try \in 0..limit /\ limit \in Nat
    /\ reruns \in 0..MaxReruns
    /\ pc \in Pcs
    /\ item \in Nat \ {0} /\ ok \in BOOLEAN
    /\ polls \in 0..MaxPolls /\ quiet \in Nat
    /\ waited \in Nat /\ overdue \in BOOLEAN
    /\ unconfirmed \subseteq Attempt
    /\ orphans \subseteq Orphan
    /\ queries \subseteq Query
    /\ mart \in [Relations -> Attempt \cup {NoAttempt}]

Init ==
    /\ run = 1 /\ step = 1 /\ try = 0 /\ limit = MaxTries /\ reruns = 0
    /\ pc = "ready"
    /\ item = 1 /\ ok = TRUE
    /\ polls = 0 /\ quiet = 0 /\ waited = 0 /\ overdue = FALSE
    /\ unconfirmed = {} /\ orphans = {}
    /\ queries = {}
    /\ mart = [r \in Relations |-> NoAttempt]

-----------------------------------------------------------------------------
(* How an attempt ends.                                                    *)

(* What run_dbt_command_step and cancel_and_wait remember ends with them.  *)
Forget ==
    /\ item' = 1 /\ ok' = TRUE
    /\ polls' = 0 /\ quiet' = 0 /\ waited' = 0 /\ overdue' = FALSE

(* DbtBuildError and interruptions: Airflow retries while tries are left.  *)
Retry == pc' = IF try < limit THEN "ready" ELSE "failed"

(* DbtRemoteCleanupError becomes AirflowFailException: no automatic retry; *)
(* wrong if it were an error like any other.                               *)
UncertainRetried ==
    Retry /\ unconfirmed' = unconfirmed \cup {Tag} /\ UNCHANGED orphans
Uncertain ==
    pc' = "failed" /\ unconfirmed' = unconfirmed \cup {Tag} /\ UNCHANGED orphans

(* The dbt of this attempt goes on without its task, at most with the      *)
(* queries it has not sent yet.                                            *)
LeaveOrphan ==
    /\ Cardinality(orphans) < MaxOrphans
    /\ orphans' = orphans \cup
           {[tag |-> Tag, item |-> IF pc = "dbt" /\ Own # {} THEN item + 1 ELSE item]}

NextStep ==
    /\ step' = step + 1 /\ try' = 0 /\ limit' = MaxTries
    /\ pc' = "ready"
    /\ UNCHANGED <<run, reruns>>

-----------------------------------------------------------------------------
(* run_dbt_command_step, while dbt runs.                                   *)

StartAttempt ==
    /\ pc = "ready"
    /\ pc' = "dbt" /\ try' = try + 1
    /\ UNCHANGED <<run, step, limit, reruns, dbtVars, cleanVars, leftVars, queries, mart>>

Request(a, i) == [tag |-> a, item |-> i, state |-> "sent"]

Submit ==
    /\ pc = "dbt" /\ item <= Work /\ Own = {}
    /\ queries' = queries \cup {Request(Tag, item)}
    /\ UNCHANGED <<taskVars, pc, dbtVars, cleanVars, leftVars, mart>>

(* An orphaned dbt sends one of the queries it has left.                   *)
OrphanSubmits(o) ==
    /\ QueriesOf(o.tag) = {}
    /\ \E i \in o.item..WorkOf(o.tag[2]) :
          /\ queries' = queries \cup {Request(o.tag, i)}
          /\ orphans' = (orphans \ {o}) \cup {[o EXCEPT !.item = i + 1]}
    /\ waited' = IF o.tag = Tag THEN 0 ELSE waited
    /\ UNCHANGED <<taskVars, pc, dbtVars, polls, quiet, overdue, unconfirmed, mart>>

Arrive(q) ==
    /\ q.state = "sent"
    /\ queries' = (queries \ {q}) \cup {[q EXCEPT !.state = "active"]}
    /\ waited' = IF q \in Own THEN 0 ELSE waited
    /\ UNCHANGED <<taskVars, pc, dbtVars, polls, quiet, overdue, leftVars, mart>>

(* A query ends, cancelled or not, having written its relation or not.     *)
(* After an error dbt skips the models that depend on it and goes on.      *)
EndQuery(q) ==
    /\ q.state # "sent"
    /\ queries' = queries \ {q}
    /\ \E written \in BOOLEAN :
          /\ mart' = IF written /\ Writes(q)
                     THEN [mart EXCEPT ![Target(q)] = q.tag] ELSE mart
          /\ IF pc = "dbt" /\ q \in Own
             THEN /\ item' \in IF written THEN {item + 1} ELSE item + 1 .. Work + 1
                  /\ ok' = (ok /\ written)
             ELSE UNCHANGED <<item, ok>>
    /\ UNCHANGED <<taskVars, pc, cleanVars, leftVars>>

(* dbt exits with zero and its run_results.json names the expected counts. *)
SucceedsWithErrors == pc = "dbt" /\ item > Work    \* wrong: exit code ignored
Succeeds == pc = "dbt" /\ item > Work /\ ok

CompleteStep ==
    /\ Succeeds
    /\ IF step <= Len(Builds) THEN NextStep ELSE pc' = "publish" /\ UNCHANGED taskVars
    /\ Forget
    /\ UNCHANGED <<leftVars, queries, mart>>

(* No dbt executable, or an exit with zero whose results are missing or    *)
(* not the expected ones: nothing of the attempt is left in Trino.         *)
RefuseResult ==
    /\ pc = "dbt" /\ Own = {}
    /\ item = 1 \/ Succeeds
    /\ Retry /\ Forget
    /\ UNCHANGED <<taskVars, leftVars, queries, mart>>

(* dbt exits with an error, loses its connection, exceeds its limit or is  *)
(* interrupted; _stop_process_group may itself be interrupted or fail even *)
(* after SIGKILL, and Trino is cleaned up all the same.                    *)
EndBadly ==
    /\ pc = "dbt"
    /\ pc' = "cleanup"
    /\ LeaveOrphan \/ UNCHANGED orphans
    /\ item' = Work + 1 /\ ok' = FALSE
    /\ UNCHANGED <<taskVars, cleanVars, unconfirmed, queries, mart>>

-----------------------------------------------------------------------------
(* TrinoAttemptQueryController.cancel_and_wait.                            *)

(* _matching_active_query_ids.                                             *)
Matching == {q \in Own : q.state # "sent"}

CancelNothing(q) == q                      \* wrong: waits without a DELETE
Cancel(q) == [q EXCEPT !.state = "cancelled"]
OwnIn(state) == \E q \in Own : q.state = state
OnTime == OwnIn("sent") => waited < ArrivalPolls
Slow == OwnIn("cancelled") /\ waited >= CancelPolls

PollsForever == polls                      \* wrong: a deadline per iteration
PollsDone == polls + 1

QuietOnce == TRUE                          \* wrong: one empty list is enough
QuietLongEnough == quiet + 1 >= QuietPolls

(* The controller returns; a process group that did not end raises         *)
(* DbtRemoteCleanupError all the same.                                     *)
Confirmed == IF Orphaned(Tag) THEN Uncertain ELSE Retry /\ UNCHANGED leftVars

(* One iteration: list, DELETE what is listed and not yet cancelled (404   *)
(* and 410 are ignored), or count one more quiet poll.                     *)
Poll ==
    /\ pc = "cleanup" /\ polls < MaxPolls /\ OnTime
    /\ queries' = {IF q \in Own /\ q.state = "active" THEN Cancel(q) ELSE q : q \in queries}
    /\ \/ /\ Matching = {} /\ QuietLongEnough
          /\ Confirmed /\ Forget
       \/ /\ Matching # {} \/ ~ QuietLongEnough
          /\ quiet' = IF Matching # {} THEN 0 ELSE quiet + 1
          /\ polls' = PollsDone
          /\ waited' = IF OwnIn("sent") \/ (OwnIn("cancelled") /\ ~ Slow)
                       THEN waited + 1 ELSE IF Slow THEN waited ELSE 0
          /\ overdue' = (overdue \/ Slow)
          /\ UNCHANGED <<pc, dbtVars, leftVars>>
    /\ UNCHANGED <<taskVars, mart>>

(* The deadline passes, a request to Trino fails, or the cleanup is itself *)
(* interrupted.                                                            *)
FailCleanup ==
    /\ pc = "cleanup"
    /\ Uncertain /\ Forget
    /\ UNCHANGED <<taskVars, queries, mart>>

(* The worker dies without any cleanup; Airflow notices and retries.  dbt, *)
(* in a session of its own, may outlive it.                                *)
Crash ==
    /\ pc \in {"dbt", "cleanup"}
    /\ LeaveOrphan \/ (Orphaned(Tag) /\ UNCHANGED orphans)
    /\ Retry /\ Forget
    /\ UNCHANGED <<taskVars, unconfirmed, queries, mart>>

-----------------------------------------------------------------------------
(* Around the checkpoints.                                                 *)

(* publish_tested_dimensional_mart_to_clickhouse reads the mart.           *)
Publish ==
    /\ pc = "publish" /\ pc' = "done"
    /\ UNCHANGED <<taskVars, dbtVars, cleanVars, leftVars, queries, mart>>

(* An operator clears the failed checkpoint, having verified as the        *)
(* pipeline document asks that no query of the attempt remains.            *)
Rerun ==
    /\ pc = "failed" /\ reruns < MaxReruns
    /\ Tag \in unconfirmed => Own = {}
    /\ unconfirmed' = unconfirmed \ {Tag}
    /\ reruns' = reruns + 1
    /\ pc' = "ready" /\ limit' = try + MaxTries
    /\ UNCHANGED <<run, step, try, dbtVars, cleanVars, orphans, queries, mart>>

(* max_active_runs = 1: the next DAG run starts when this one has ended.   *)
NextRun ==
    /\ pc \in {"done", "failed"} /\ run < MaxRuns
    /\ run' = run + 1 /\ step' = 1 /\ try' = 0 /\ limit' = MaxTries
    /\ pc' = "ready"
    /\ UNCHANGED <<reruns, dbtVars, cleanVars, leftVars, queries, mart>>

TaskStep ==
    \/ StartAttempt \/ Submit \/ CompleteStep \/ RefuseResult \/ EndBadly
    \/ Poll \/ FailCleanup \/ Publish

Next ==
    \/ TaskStep
    \/ \E q \in queries : Arrive(q) \/ EndQuery(q)
    \/ \E o \in orphans : OrphanSubmits(o)
    \/ Crash
    \/ Rerun
    \/ NextRun

Spec == Init /\ [][Next]_vars

(* A running task goes on, at the latest when the subprocess limit or the  *)
(* cleanup deadline passes, and requests arrive.  Trino need not end any   *)
(* query.                                                                  *)
Deadline == polls = MaxPolls /\ FailCleanup
GoOn ==
    StartAttempt \/ Submit \/ CompleteStep \/ EndBadly \/ Poll \/ Deadline \/ Publish
Fairness ==
    /\ WF_vars(GoOn)
    /\ WF_vars(\E q \in queries : Arrive(q))
FairSpec == Spec /\ Fairness

-----------------------------------------------------------------------------
(* Who may write beside the task that holds the slot: an attempt whose     *)
(* worker or dbt was not brought to an end and, from the next DAG run on,  *)
(* one whose cleanup was not confirmed.  Nothing in the code waits for     *)
(* either.                                                                 *)
Stray(a) == Orphaned(a) \/ (a \in unconfirmed /\ a[1] < run)

(* While a checkpoint runs dbt, or the publisher reads, Trino runs nothing *)
(* of any other attempt but the stray ones: the one-slot iceberg_writer    *)
(* pool, tags per attempt and the quiet window of cancel_and_wait keep     *)
(* writers apart, and an attempt of unconfirmed state is not retried.      *)
SlotIsExclusive ==
    /\ pc = "dbt" => \A q \in queries : q \in Own \/ Stray(q.tag)
    /\ pc = "publish" => \A q \in queries : Stray(q.tag)

(* From the moment the tests start until the publisher has read the mart,  *)
(* only a stray attempt changes a relation of it: otherwise ClickHouse     *)
(* gets exactly what was tested.                                           *)
Frozen == pc = "publish" \/ (pc = "dbt" /\ step > Len(Builds))
MartFrozenWhileRead ==
    [][Frozen => \A r \in Relations :
                    mart'[r] # mart[r] => Stray(mart'[r])]_vars

(* What a run publishes has been built by its own checkpoints, not left    *)
(* over from an earlier run, unless a stray attempt wrote it.              *)
PublishedMartIsOwn ==
    pc = "publish" => \A r \in Relations : mart[r][1] = run \/ Stray(mart[r])

(* cancel_and_wait of a dbt that has stopped runs into its deadline only   *)
(* if Trino took overly long to end a query it had been told to cancel.    *)
DeadlineSparesPromptQueries ==
    pc = "cleanup" /\ polls = MaxPolls => overdue \/ Orphaned(Tag)

(* Why a confirmed cleanup leaves nothing behind: dbt has one query at a   *)
(* time, and a request still in flight has waited as long as the window.   *)
TriesLeft ==
    /\ pc = "ready" => try < limit
    /\ pc \in {"dbt", "cleanup"} => try > 0
Fresh ==
    /\ pc # "cleanup" => polls = 0 /\ quiet = 0 /\ waited = 0
    /\ pc \notin {"dbt", "cleanup"} => item = 1

(* Attempts that have begun, by their tags.                                *)
Begun(a) ==
    \/ a[1] < run
    \/ a[1] = run /\ (a[2] < step \/ (a[2] = step /\ a[3] <= try))
TagsBegun ==
    /\ \A q \in queries : Begun(q.tag)
    /\ \A o \in orphans : Begun(o.tag)
    /\ \A a \in unconfirmed : Begun(a)

(* A query in Trino is of the running attempt or of one that was given up, *)
(* and within its own DAG run an unconfirmed attempt is the last one.      *)
OnlyKnown ==
    /\ \A q \in queries :
          \/ pc \in {"dbt", "cleanup"} /\ q \in Own
          \/ Orphaned(q.tag) \/ q.tag \in unconfirmed
    /\ \A a \in unconfirmed : a[1] < run \/ (pc = "failed" /\ a = Tag)
OneAtATime ==
    /\ \A q, r \in queries : q.tag = r.tag => q = r
    /\ pc = "dbt" => /\ item > Work => Own = {}
                    /\ ~ Orphaned(Tag)
InFlightIsOld ==
    pc = "cleanup" /\ ~ Orphaned(Tag) => (OwnIn("sent") => waited >= quiet)

SlotInv ==
    /\ TypeOK /\ TriesLeft /\ Fresh
    /\ TagsBegun /\ OnlyKnown /\ OneAtATime /\ InFlightIsOld

(* Every DAG run ends, even if a query of it never does.                   *)
RunEnds == pc \notin {"done", "failed"} ~> pc \in {"done", "failed"}

=============================================================================
