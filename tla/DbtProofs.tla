------------------------------ MODULE DbtProofs -----------------------------
(***************************************************************************)
(* The writer slot is exclusive and the tested mart stays as it was tested *)
(* until it is published, for any checkpoints, runs, retries and clears,   *)
(* but for the attempts that were not brought to an end and, in later DAG  *)
(* runs, those whose cleanup was not confirmed, provided that the quiet    *)
(* window of cancel_and_wait exceeds the delay of a request.  With the     *)
(* same exception the published mart is its run's own.  A deadline with    *)
(* room for all delays is met by every query that Trino ends promptly.     *)
(***************************************************************************)
EXTENDS DbtCheckpoints, TLAPS

(* Queries are records; the last step needs the constants as numbers.      *)
LEMMA QueryFields ==
    ASSUME NEW q \in Query
    PROVE  /\ q.state \in {"sent", "active", "cancelled"}
           /\ q.tag \in Attempt /\ q.item \in Nat \ {0}
BY DEF Query

(* The constants as numbers; requests arrive within the quiet window.      *)
LEMMA ConstantTypes ==
    /\ Len(Builds) \in Nat
    /\ MaxRuns \in Nat \ {0} /\ MaxReruns \in Nat
    /\ MaxTries \in Nat \ {0} /\ MaxPolls \in Nat
    /\ QuietPolls \in Nat /\ ArrivalPolls \in Nat /\ ArrivalPolls < QuietPolls
BY CheckpointConstants

(* The queries of a checkpoint, as sequences and numbers.                  *)
LEMMA BuildTypes ==
    /\ \A s \in 1..Len(Builds) :
          /\ Len(Builds[s]) \in Nat
          /\ \A i \in 1..Len(Builds[s]) : Builds[s][i] \in Relations
    /\ \A s \in Steps : WorkOf(s) \in Nat
<1>1. \A s \in 1..Len(Builds) : Builds[s] \in Seq(Relations)
  BY CheckpointConstants
<1>. QED  BY <1>1, ConstantTypes DEF WorkOf, Steps

-----------------------------------------------------------------------------
(* Types, with the tries that Airflow has left.                            *)

(* A task that has started an attempt has a tag for it.                    *)
LEMMA TagType ==
    ASSUME TypeOK, try > 0
    PROVE  Tag \in Attempt
BY DEF TypeOK, Attempt, Tag

(* An attempt that is left behind.                                         *)
LEMMA OrphanType ==
    ASSUME TypeOK, try > 0, LeaveOrphan
    PROVE  orphans' \subseteq Orphan
<1> DEFINE left == [tag |-> Tag, item |-> IF pc = "dbt" /\ Own # {} THEN item + 1 ELSE item]
<1>1. left \in Orphan
  BY TagType DEF TypeOK, Orphan
<1>2. orphans' = orphans \cup {left}
  BY DEF LeaveOrphan
<1>. QED  BY <1>1, <1>2 DEF TypeOK

(* A new attempt finds the counters at zero.                               *)
LEMMA ForgetTypes ==
    ASSUME Forget
    PROVE  /\ item' \in Nat \ {0} /\ ok' \in BOOLEAN /\ overdue' \in BOOLEAN
           /\ polls' \in 0..MaxPolls /\ quiet' \in Nat /\ waited' \in Nat
<1>1. ok' \in BOOLEAN /\ overdue' \in BOOLEAN
  BY Zenon DEF Forget
<1>2. item' = 1 /\ polls' = 0 /\ quiet' = 0 /\ waited' = 0
  BY Zenon DEF Forget
<1>. QED  BY <1>1, <1>2, ConstantTypes

(* While dbt runs or is about to.                                          *)
LEMMA DbtKeepsTypes ==
    ASSUME TypeOK, TriesLeft,
           StartAttempt \/ Submit \/ CompleteStep \/ RefuseResult \/ EndBadly
    PROVE  TypeOK' /\ TriesLeft'
<1>. USE ConstantTypes DEF TypeOK, TriesLeft, Pcs, taskVars, dbtVars, cleanVars, leftVars
<1>1. CASE StartAttempt
  <2>1. /\ try < limit /\ pc' = "dbt" /\ try' = try + 1
        /\ UNCHANGED <<run, step, limit, reruns, dbtVars, cleanVars, leftVars, queries, mart>>
    BY <1>1 DEF StartAttempt
  <2>2. try' \in 0..limit' /\ try' > 0
    BY <2>1
  <2>. QED  BY <2>1, <2>2
<1>2. CASE Submit
  <2>1. Request(Tag, item) \in Query
    BY <1>2, TagType DEF Submit, Query, Request
  <2>. QED  BY <1>2, <2>1 DEF Submit
<1>3. CASE CompleteStep
  <2>1. /\ step' \in Steps /\ try' \in 0..limit' /\ limit' \in Nat /\ pc' \in {"ready", "publish"}
        /\ pc' = "ready" => try' < limit'
    BY <1>3 DEF CompleteStep, NextStep, Steps
  <2>2. UNCHANGED <<run, reruns, leftVars, queries, mart>> /\ Forget
    BY <1>3 DEF CompleteStep, NextStep
  <2>. QED  BY <2>1, <2>2, ForgetTypes
<1>4. CASE RefuseResult
  <2>1. Forget /\ Retry /\ UNCHANGED <<taskVars, leftVars, queries, mart>>
    BY <1>4 DEF RefuseResult
  <2>. QED  BY <2>1, ForgetTypes DEF Retry
<1>5. CASE EndBadly
  <2>1. Work + 1 \in Nat \ {0}
    BY BuildTypes DEF Work
  <2>2. orphans' \subseteq Orphan
    BY <1>5, OrphanType DEF EndBadly
  <2>3. ok' \in BOOLEAN
    BY <1>5, Zenon DEF EndBadly
  <2>. QED  BY <1>5, <2>1, <2>2, <2>3 DEF EndBadly
<1>. QED  BY <1>1, <1>2, <1>3, <1>4, <1>5

(* A query stays one when it is told to end.                               *)
LEMMA CancelType ==
    ASSUME NEW q \in Query
    PROVE  /\ Cancel(q) \in Query /\ Cancel(q).state = "cancelled"
           /\ Cancel(q).tag = q.tag /\ Cancel(q).item = q.item
BY DEF Query, Cancel

(* While cancel_and_wait polls.                                            *)
LEMMA CleanupKeepsTypes ==
    ASSUME TypeOK, TriesLeft, Poll \/ FailCleanup \/ Crash
    PROVE  TypeOK' /\ TriesLeft'
<1>. USE ConstantTypes DEF TypeOK, TriesLeft, Pcs, taskVars, dbtVars, cleanVars, leftVars
<1>0. Uncertain => unconfirmed' \subseteq Attempt /\ pc' = "failed" /\ UNCHANGED orphans
  BY TagType DEF Uncertain, Poll, FailCleanup, Crash
<1>1. CASE Poll
  <2>1. queries' \subseteq Query
    BY <1>1, CancelType DEF Poll
  <2>2. UNCHANGED <<run, step, try, limit, reruns, mart>> /\ try > 0
    BY <1>1 DEF Poll
  <2>3. CASE Confirmed /\ Forget
    BY <1>0, <1>1, <2>1, <2>2, <2>3, ForgetTypes DEF Confirmed, Retry
  <2>4. CASE ~ (Confirmed /\ Forget)
    <3>1. /\ quiet' = (IF Matching # {} THEN 0 ELSE quiet + 1) /\ polls' = polls + 1
          /\ waited' \in {0, waited, waited + 1} /\ polls < MaxPolls
          /\ UNCHANGED <<pc, dbtVars, leftVars>>
      BY <1>1, <2>4 DEF Poll, PollsDone
    <3>2. overdue' \in BOOLEAN
      BY <1>1, <2>4, Zenon DEF Poll
    <3>3. polls' \in 0..MaxPolls /\ quiet' \in Nat /\ waited' \in Nat
      BY <3>1
    <3>. QED  BY <1>1, <2>1, <2>2, <3>1, <3>2, <3>3 DEF Poll
  <2>. QED  BY <2>3, <2>4
<1>2. CASE FailCleanup
  BY <1>0, <1>2, ForgetTypes DEF FailCleanup
<1>3. CASE Crash
  <2>1. orphans' \subseteq Orphan
    BY <1>3, OrphanType DEF Crash
  <2>2. Forget /\ Retry /\ UNCHANGED <<taskVars, unconfirmed, queries, mart>>
    BY <1>3 DEF Crash
  <2>. QED  BY <2>1, <2>2, ForgetTypes DEF Retry
<1>. QED  BY <1>1, <1>2, <1>3

(* An orphan one query further.                                            *)
LEMMA OrphanChanges ==
    ASSUME NEW o \in Orphan, NEW j \in Nat \ {0}
    PROVE  [o EXCEPT !.item = j] \in Orphan /\ [o EXCEPT !.item = j].tag = o.tag
BY DEF Orphan

(* Around the checkpoints and in Trino.                                    *)
LEMMA OthersKeepTypes ==
    ASSUME TypeOK, TriesLeft,
           \/ Publish \/ Rerun \/ NextRun \/ UNCHANGED vars
           \/ \E q \in queries : Arrive(q) \/ EndQuery(q)
           \/ \E o \in orphans : OrphanSubmits(o)
    PROVE  TypeOK' /\ TriesLeft'
<1>. USE ConstantTypes DEF TypeOK, TriesLeft, Pcs, taskVars, dbtVars, cleanVars, leftVars
<1>1. CASE Publish
  BY <1>1 DEF Publish
<1>2. CASE Rerun
  <2>1. /\ reruns' \in 0..MaxReruns /\ limit' \in Nat /\ try < limit' /\ pc' = "ready"
        /\ unconfirmed' \subseteq Attempt
        /\ UNCHANGED <<run, step, try, dbtVars, cleanVars, orphans, queries, mart>>
    BY <1>2 DEF Rerun
  <2>. QED  BY <2>1
<1>3. CASE NextRun
  <2>1. /\ run' \in Runs /\ step' \in Steps /\ try' = 0 /\ limit' = MaxTries
        /\ pc' = "ready"
        /\ UNCHANGED <<reruns, dbtVars, cleanVars, leftVars, queries, mart>>
    BY <1>3 DEF NextRun, Runs, Steps
  <2>. QED  BY <2>1
<1>4. CASE UNCHANGED vars
  BY <1>4 DEF vars
<1>5. ASSUME NEW q \in queries, Arrive(q) PROVE TypeOK' /\ TriesLeft'
  <2>1. [q EXCEPT !.state = "active"] \in Query
    BY DEF Query
  <2>. QED  BY <1>5, <2>1 DEF Arrive
<1>6. ASSUME NEW q \in queries, EndQuery(q) PROVE TypeOK' /\ TriesLeft'
  <2>1. Work \in Nat
    BY BuildTypes DEF Work
  <2>2. item' \in Nat \ {0} /\ ok' \in BOOLEAN
    BY <1>6, <2>1 DEF EndQuery
  <2>3. mart' \in [Relations -> Attempt \cup {NoAttempt}]
    <3>1. q.tag \in Attempt
      BY QueryFields
    <3>. QED  BY <1>6, <3>1 DEF EndQuery
  <2>. QED  BY <1>6, <2>2, <2>3 DEF EndQuery
<1>7. ASSUME NEW o \in orphans, OrphanSubmits(o) PROVE TypeOK' /\ TriesLeft'
  <2>1. o.tag \in Attempt /\ o.item \in Nat \ {0}
    BY DEF Orphan
  <2>2. PICK i \in o.item..WorkOf(o.tag[2]) :
           /\ queries' = queries \cup {Request(o.tag, i)}
           /\ orphans' = (orphans \ {o}) \cup {[o EXCEPT !.item = i + 1]}
    BY <1>7 DEF OrphanSubmits
  <2>3. i \in Nat \ {0}
    BY <2>1, BuildTypes DEF Attempt
  <2>4. Request(o.tag, i) \in Query
    BY <2>1, <2>3 DEF Query, Request
  <2>5. [o EXCEPT !.item = i + 1] \in Orphan
    <3>1. i + 1 \in Nat \ {0} /\ o \in Orphan
      BY <2>3
    <3>. QED  BY <3>1, OrphanChanges
  <2>6. queries' \subseteq Query /\ orphans' \subseteq Orphan
    BY <2>2, <2>4, <2>5
  <2>7. /\ waited' = (IF o.tag = Tag THEN 0 ELSE waited)
        /\ UNCHANGED <<taskVars, pc, dbtVars, polls, quiet, overdue, unconfirmed, mart>>
    BY <1>7 DEF OrphanSubmits
  <2>. QED  BY <2>6, <2>7
<1>. QED  BY <1>1, <1>2, <1>3, <1>4, <1>5, <1>6, <1>7

-----------------------------------------------------------------------------
(* Tags: an attempt that has begun stays one that has.                     *)

(* What a step does to the task instance.                                  *)
TaskMoves ==
    \/ UNCHANGED <<run, step>> /\ try' \in {try, try + 1}
    \/ run' = run /\ step' = step + 1
    \/ run' = run + 1

LEMMA AttemptFields ==
    ASSUME NEW a \in Attempt
    PROVE  a[1] \in Nat /\ a[2] \in Nat /\ a[3] \in Nat
BY ConstantTypes DEF Attempt, Runs, Steps

LEMMA BegunKept ==
    ASSUME TypeOK, TaskMoves, NEW a \in Attempt, Begun(a)
    PROVE  Begun(a)'
<1>1. run \in Nat /\ step \in Nat /\ try \in Nat
  BY ConstantTypes DEF TypeOK, Runs, Steps
<1>. QED  BY <1>1, AttemptFields DEF TaskMoves, Begun

(* The running attempt has begun, the next one has not.                    *)
LEMMA TagBegins ==
    ASSUME TypeOK
    PROVE  Begun(Tag) /\ ~ Begun(<<run, step, try + 1>>)
<1>1. run \in Nat /\ step \in Nat /\ try \in Nat
  BY ConstantTypes DEF TypeOK, Runs, Steps
<1>. QED  BY <1>1 DEF Begun, Tag

(* Queries and unconfirmed attempts as they are, and no orphan but perhaps *)
(* the running attempt is new.                                             *)
LEMMA TagsStayBegun ==
    ASSUME TypeOK, TagsBegun, TaskMoves,
           \A q \in queries' : \E r \in queries : q.tag = r.tag,
           \A o \in orphans' : o.tag = Tag \/ \E p \in orphans : o.tag = p.tag,
           unconfirmed' \subseteq unconfirmed \cup {Tag},
           Tag \in Attempt \/ (orphans' \subseteq orphans /\ Tag \notin unconfirmed')
    PROVE  TagsBegun'
<1>1. /\ \A q \in queries : q.tag \in Attempt
      /\ \A o \in orphans : o.tag \in Attempt
      /\ unconfirmed \subseteq Attempt
  BY QueryFields DEF TypeOK, Orphan
<1>2. ASSUME NEW a \in Attempt, a = Tag \/ Begun(a) PROVE Begun(a)'
  BY <1>2, TagBegins, BegunKept
<1>3. \A q \in queries' : Begun(q.tag)'
  BY <1>1, <1>2 DEF TagsBegun
<1>4. \A o \in orphans' : Begun(o.tag)'
  BY <1>1, <1>2 DEF TagsBegun
<1>5. \A a \in unconfirmed' : Begun(a)'
  BY <1>1, <1>2 DEF TagsBegun
<1>. QED  BY <1>3, <1>4, <1>5 DEF TagsBegun

-----------------------------------------------------------------------------
(* The slot.                                                               *)

SlotOnly == Fresh /\ TagsBegun /\ OnlyKnown /\ OneAtATime /\ InFlightIsOld

(* The next attempt finds nothing under its tag.                           *)
LEMMA StartKeepsSlot ==
    ASSUME SlotInv, StartAttempt
    PROVE  SlotOnly'
<1>1. /\ pc = "ready" /\ pc' = "dbt" /\ try' = try + 1
      /\ UNCHANGED <<run, step, dbtVars, cleanVars, leftVars, queries>>
  BY DEF StartAttempt
<1>2. Tag' = <<run, step, try + 1>>
  BY <1>1 DEF Tag
<1>3. Tag' \notin {q.tag : q \in queries} /\ ~ Orphaned(Tag')
  BY <1>2, TagBegins DEF SlotInv, TagsBegun, Orphaned
<1>4. TagsBegun'
  <2>1. \A a \in Attempt : Begun(a) => Begun(a)'
    BY <1>1, BegunKept DEF SlotInv, TaskMoves
  <2>2. /\ \A q \in queries : q.tag \in Attempt
        /\ \A o \in orphans : o.tag \in Attempt
        /\ unconfirmed \subseteq Attempt
    BY QueryFields DEF SlotInv, TypeOK, Orphan
  <2>. QED  BY <1>1, <2>1, <2>2 DEF SlotInv, TagsBegun, leftVars
<1>5. OnlyKnown'
  BY <1>1 DEF SlotInv, OnlyKnown, Orphaned, leftVars
<1>6. OneAtATime'
  <2>1. Own' = {}
    BY <1>1, <1>3 DEF Own, QueriesOf
  <2>2. ~ Orphaned(Tag)'
    BY <1>1, <1>3 DEF Orphaned, leftVars
  <2>. QED  BY <1>1, <2>1, <2>2 DEF SlotInv, OneAtATime
<1>7. InFlightIsOld' /\ Fresh'
  BY <1>1 DEF InFlightIsOld, SlotInv, Fresh, cleanVars
<1>. QED  BY <1>4, <1>5, <1>6, <1>7 DEF SlotOnly

(* dbt does one query after another.                                       *)
LEMMA SubmitKeepsSlot ==
    ASSUME SlotInv, Submit
    PROVE  SlotOnly'
<1> DEFINE new == Request(Tag, item)
<1>1. /\ pc = "dbt" /\ item <= Work /\ Own = {} /\ queries' = queries \cup {new}
      /\ UNCHANGED <<taskVars, pc, dbtVars, cleanVars, leftVars>>
  BY DEF Submit
<1>2. new.tag = Tag /\ UNCHANGED <<Tag, Work>> /\ try > 0 /\ TypeOK
  BY <1>1 DEF Request, Tag, Work, WorkOf, taskVars, SlotInv, TriesLeft
<1> HIDE DEF new
<1>3. Own' = {new}
  BY <1>1, <1>2 DEF Own, QueriesOf
<1>4. TagsBegun'
  <2>1. Tag \in Attempt /\ TaskMoves
    BY <1>1, <1>2, TagType DEF TaskMoves, taskVars
  <2>2. Begun(Tag) /\ \A a \in Attempt : Begun(a) => Begun(a)'
    BY <1>2, <2>1, TagBegins, BegunKept
  <2>3. /\ \A q \in queries : q.tag \in Attempt
        /\ \A o \in orphans : o.tag \in Attempt
        /\ unconfirmed \subseteq Attempt
    BY <1>2, QueryFields DEF TypeOK, Orphan
  <2>. QED  BY <1>1, <1>2, <2>1, <2>2, <2>3 DEF SlotInv, TagsBegun, leftVars
<1>5. OnlyKnown'
  BY <1>1, <1>2, <1>3 DEF SlotInv, OnlyKnown, Orphaned, Own, QueriesOf, leftVars,
     taskVars
<1>6. OneAtATime'
  <2>1. ~ Orphaned(Tag)'
    BY <1>1, <1>2 DEF SlotInv, OneAtATime, Orphaned, leftVars
  <2>2. \A q, r \in queries' : q.tag = r.tag => q = r
    BY <1>1, <1>2 DEF SlotInv, OneAtATime, Own, QueriesOf
  <2>3. item \in Nat /\ Work \in Nat
    BY <1>2, BuildTypes DEF TypeOK, Work
  <2>. QED  BY <1>1, <1>2, <2>1, <2>2, <2>3 DEF OneAtATime, dbtVars
<1>7. InFlightIsOld' /\ Fresh'
  BY <1>1 DEF InFlightIsOld, SlotInv, Fresh, cleanVars
<1>. QED  BY <1>4, <1>5, <1>6, <1>7 DEF SlotOnly

(* A dbt that has ended well has no query left; one that has ended badly   *)
(* is cleaned up, its request as old as the empty window.                  *)
LEMMA DbtEndKeepsSlot ==
    ASSUME SlotInv, CompleteStep \/ RefuseResult \/ EndBadly
    PROVE  SlotOnly'
<1>1. TypeOK /\ pc = "dbt" /\ UNCHANGED <<run, unconfirmed, queries>> /\ try > 0
  BY DEF CompleteStep, RefuseResult, EndBadly, Succeeds, NextStep, taskVars, leftVars,
     SlotInv, TriesLeft
<1>2. CASE CompleteStep \/ RefuseResult
  <2>1. /\ Own = {} /\ pc' \in {"ready", "failed", "publish"} /\ Forget
        /\ UNCHANGED <<unconfirmed, orphans>> /\ TaskMoves
    <3>1. Own = {}
      BY <1>2 DEF CompleteStep, RefuseResult, Succeeds, SlotInv, OneAtATime
    <3>2. CASE CompleteStep
      BY <3>1, <3>2 DEF CompleteStep, NextStep, TaskMoves, taskVars, leftVars
    <3>3. CASE RefuseResult
      BY <3>1, <3>3 DEF RefuseResult, Retry, TaskMoves, taskVars, leftVars
    <3>. QED  BY <1>2, <3>2, <3>3
  <2>2. TagsBegun'
    <3>1. Tag \in Attempt
      BY <1>1, TagType
    <3>. QED  BY <1>1, <2>1, <3>1, TagsStayBegun DEF SlotInv
  <2>3. OnlyKnown'
    BY <1>1, <2>1 DEF SlotInv, OnlyKnown, Orphaned
  <2>4. OneAtATime' /\ InFlightIsOld' /\ Fresh'
    BY <1>1, <2>1 DEF SlotInv, OneAtATime, InFlightIsOld, Fresh, Forget
  <2>. QED  BY <2>2, <2>3, <2>4 DEF SlotOnly
<1>3. CASE EndBadly
  <2>1. /\ pc' = "cleanup" /\ UNCHANGED <<Tag, quiet, waited>> /\ TaskMoves
        /\ orphans \subseteq orphans' /\ \A o \in orphans' \ orphans : o.tag = Tag
    BY <1>3 DEF EndBadly, LeaveOrphan, Tag, TaskMoves, taskVars, cleanVars
  <2>2. TagsBegun'
    <3>1. Tag \in Attempt
      BY <1>1, TagType
    <3>. QED  BY <1>1, <2>1, <3>1, TagsStayBegun DEF SlotInv
  <2>3. OnlyKnown'
    BY <1>1, <2>1 DEF SlotInv, OnlyKnown, Orphaned, Own, QueriesOf
  <2>4. OneAtATime' /\ InFlightIsOld' /\ Fresh'
    BY <1>1, <2>1 DEF SlotInv, OneAtATime, InFlightIsOld, Fresh
  <2>. QED  BY <2>2, <2>3, <2>4 DEF SlotOnly
<1>. QED  BY <1>2, <1>3

(* An empty list of a quiet window leaves nothing in flight: a request     *)
(* has waited as long as the window, and requests do not take that long.   *)
LEMMA QuietIsEmpty ==
    ASSUME SlotInv, Poll, Matching = {}, QuietLongEnough, ~ Orphaned(Tag)
    PROVE  Own = {}
<1> SUFFICES ASSUME NEW q \in Own PROVE FALSE
  OBVIOUS
<1>1. q.state = "sent" /\ pc = "cleanup" /\ OwnIn("sent")
  BY DEF Matching, Poll, OwnIn
<1>2. waited >= quiet /\ waited < ArrivalPolls /\ waited \in Nat /\ quiet \in Nat
  BY <1>1 DEF SlotInv, InFlightIsOld, TypeOK, Poll, OnTime
<1>. QED  BY <1>2, ConstantTypes DEF QuietLongEnough

(* A poll changes states of queries only, and only to cancelled.           *)
LEMMA PollQueries ==
    ASSUME SlotInv, Poll
    PROVE  /\ \A q \in queries' : \E r \in queries :
                 /\ q.tag = r.tag /\ q.item = r.item
                 /\ q.state # "cancelled" => q = r
                 /\ q.state # "active" \/ r \notin Own
           /\ \A q, r \in queries' : q.tag = r.tag => q = r
           /\ UNCHANGED Tag /\ pc = "cleanup" /\ try > 0
<1> DEFINE After(q) == IF q \in Own /\ q.state = "active" THEN Cancel(q) ELSE q
<1>1. queries' = {After(q) : q \in queries}
  BY DEF Poll
<1>2. ASSUME NEW q \in queries
      PROVE  /\ After(q).tag = q.tag /\ After(q).item = q.item
             /\ After(q).state # "cancelled" => After(q) = q
             /\ After(q).state # "active" \/ q \notin Own
  BY CancelType DEF SlotInv, TypeOK
<1>3. \A q, r \in queries : q.tag = r.tag => q = r
  BY DEF SlotInv, OneAtATime
<1> HIDE DEF After
<1>4. UNCHANGED Tag /\ pc = "cleanup" /\ try > 0
  BY DEF Poll, Tag, taskVars, SlotInv, TriesLeft
<1>. QED  BY <1>1, <1>2, <1>3, <1>4

(* One iteration of cancel_and_wait.                                       *)
LEMMA PollKeepsSlot ==
    ASSUME SlotInv, Poll
    PROVE  SlotOnly'
<1>1. /\ pc = "cleanup" /\ UNCHANGED <<run, step, try, Tag, orphans>>
      /\ TypeOK /\ try > 0 /\ Tag \in Attempt
  BY PollQueries, TagType DEF Poll, Confirmed, Uncertain, Retry, taskVars, leftVars,
     SlotInv
<1>2. /\ \A q \in queries' : \E r \in queries : q.tag = r.tag
      /\ \A q \in queries' : q.state = "sent" => q \in queries
      /\ \A q, r \in queries' : q.tag = r.tag => q = r
  BY PollQueries
<1>3. \A a \in unconfirmed : a[1] < run
  BY <1>1 DEF SlotInv, OnlyKnown
<1>4. CASE pc' = "cleanup"
  <2>1. /\ UNCHANGED unconfirmed
        /\ quiet' = (IF Matching # {} THEN 0 ELSE quiet + 1)
        /\ OwnIn("sent") => waited' = waited + 1
    BY <1>4 DEF Poll, Confirmed, Retry, Uncertain, leftVars
  <2>2. TagsBegun'
    BY <1>1, <1>2, <2>1, TagsStayBegun DEF SlotInv, TaskMoves
  <2>3. OnlyKnown'
    BY <1>1, <1>2, <1>3, <1>4, <2>1 DEF SlotInv, OnlyKnown, Orphaned, Own, QueriesOf
  <2>4. InFlightIsOld'
    <3>1. OwnIn("sent")' => OwnIn("sent")
      BY <1>1, <1>2 DEF OwnIn, Own, QueriesOf
    <3>2. ASSUME ~ Orphaned(Tag)', OwnIn("sent")'
          PROVE  waited' >= quiet'
      <4>1. waited >= quiet /\ waited' = waited + 1 /\ waited \in Nat /\ quiet \in Nat
        BY <1>1, <2>1, <3>1, <3>2 DEF SlotInv, InFlightIsOld, Orphaned, TypeOK
      <4>. QED  BY <2>1, <4>1
    <3>. QED  BY <3>2 DEF InFlightIsOld
  <2>. QED  BY <1>2, <1>4, <2>2, <2>3, <2>4 DEF SlotOnly, OneAtATime, Fresh
<1>5. CASE pc' # "cleanup"
  <2>1. Matching = {} /\ QuietLongEnough /\ Confirmed /\ Forget
    BY <1>1, <1>5 DEF Poll
  <2>2. /\ pc' \in {"ready", "failed"} /\ unconfirmed' \subseteq unconfirmed \cup {Tag}
        /\ unconfirmed \subseteq unconfirmed'
        /\ Tag \in unconfirmed' => Tag \in unconfirmed \/ pc' = "failed"
        /\ pc' = "failed" \/ unconfirmed' = unconfirmed
    BY <2>1 DEF Confirmed, Retry, Uncertain, leftVars
  <2>3. TagsBegun'
    BY <1>1, <1>2, <2>2, TagsStayBegun DEF SlotInv, TaskMoves
  <2>4. OnlyKnown'
    <3>1. ASSUME NEW q \in queries' PROVE Orphaned(q.tag) \/ q.tag \in unconfirmed'
      <4>1. PICK r \in queries : q.tag = r.tag
        BY <1>2
      <4>2. CASE r \in Own
        <5>1. Orphaned(Tag) /\ r.tag = Tag
          BY <2>1, <4>2, QuietIsEmpty DEF Own, QueriesOf
        <5>. QED  BY <4>1, <5>1
      <4>3. CASE r \notin Own
        BY <2>2, <4>1, <4>3 DEF SlotInv, OnlyKnown
      <4>. QED  BY <4>2, <4>3
    <3>2. \A a \in unconfirmed' : a[1] < run \/ (pc' = "failed" /\ a = Tag)
      BY <1>3, <2>2
    <3>. QED  BY <1>1, <3>1, <3>2 DEF OnlyKnown, Orphaned
  <2>5. OneAtATime' /\ InFlightIsOld' /\ Fresh'
    BY <1>2, <2>1, <2>2 DEF OneAtATime, InFlightIsOld, Fresh, Forget
  <2>. QED  BY <2>3, <2>4, <2>5 DEF SlotOnly
<1>. QED  BY <1>4, <1>5

(* Cleanup fails or the worker dies: the attempt is known to be left over. *)
LEMMA LossKeepsSlot ==
    ASSUME SlotInv, FailCleanup \/ Crash
    PROVE  SlotOnly'
<1>1. /\ pc \in {"dbt", "cleanup"} /\ pc' \in {"ready", "failed"} /\ Forget
      /\ UNCHANGED <<run, step, try, Tag, queries>>
      /\ TypeOK /\ try > 0 /\ Tag \in Attempt
  <2>1. pc \in {"dbt", "cleanup"} /\ pc' \in {"ready", "failed"} /\ Forget
        /\ UNCHANGED <<run, step, try, queries>>
    BY DEF FailCleanup, Uncertain, Crash, Retry, taskVars
  <2>. QED  BY <2>1, TagType DEF Tag, SlotInv, TriesLeft
<1>2. /\ \A a \in unconfirmed : a[1] < run
      /\ \A q \in queries : q.tag = Tag \/ Orphaned(q.tag) \/ q.tag \in unconfirmed
  BY <1>1 DEF SlotInv, OnlyKnown, Own, QueriesOf
<1>3. /\ orphans \subseteq orphans' /\ \A o \in orphans' \ orphans : o.tag = Tag
      /\ \/ pc' = "failed" /\ unconfirmed' = unconfirmed \cup {Tag}
         \/ unconfirmed' = unconfirmed /\ \E o \in orphans' : o.tag = Tag
  <2>1. CASE FailCleanup
    BY <2>1 DEF FailCleanup, Uncertain
  <2>2. CASE Crash
    <3>1. unconfirmed' = unconfirmed /\ (LeaveOrphan \/ (Orphaned(Tag) /\ orphans' = orphans))
      BY <2>2 DEF Crash
    <3>2. CASE LeaveOrphan
      <4> DEFINE left == [tag |-> Tag,
                          item |-> IF pc = "dbt" /\ Own # {} THEN item + 1 ELSE item]
      <4>1. left.tag = Tag /\ orphans' = orphans \cup {left}
        BY <3>2 DEF LeaveOrphan
      <4> HIDE DEF left
      <4>. QED  BY <3>1, <4>1
    <3>3. CASE Orphaned(Tag) /\ orphans' = orphans
      BY <3>1, <3>3 DEF Orphaned
    <3>. QED  BY <3>1, <3>2, <3>3
  <2>. QED  BY <2>1, <2>2
<1>4. TagsBegun'
  BY <1>1, <1>3, TagsStayBegun DEF SlotInv, TaskMoves
<1>5. OnlyKnown'
  BY <1>1, <1>2, <1>3 DEF OnlyKnown, Orphaned
<1>6. OneAtATime' /\ InFlightIsOld' /\ Fresh'
  BY <1>1 DEF SlotInv, OneAtATime, InFlightIsOld, Fresh, Forget
<1>. QED  BY <1>4, <1>5, <1>6 DEF SlotOnly

(* Publication, a clear and the next DAG run.                              *)
LEMMA AroundKeepsSlot ==
    ASSUME SlotInv, Publish \/ Rerun \/ NextRun \/ UNCHANGED vars
    PROVE  SlotOnly'
<1>1. CASE Publish \/ Rerun
  <2>1. /\ pc \in {"publish", "failed"} /\ pc' \in {"done", "ready"} /\ TaskMoves
        /\ UNCHANGED <<run, step, try, Tag, queries, orphans, polls, quiet, waited, item>>
    BY <1>1 DEF Publish, Rerun, taskVars, dbtVars, cleanVars, leftVars, Tag, TaskMoves
  <2>2. \/ pc' = "done" /\ pc = "publish" /\ UNCHANGED unconfirmed
        \/ pc' = "ready" /\ unconfirmed' = unconfirmed \ {Tag}
           /\ (Tag \in unconfirmed => Own = {})
    BY <1>1 DEF Publish, Rerun, leftVars
  <2>3. TagsBegun'
    <3>1. \A a \in Attempt : Begun(a) => Begun(a)'
      BY <2>1, BegunKept DEF SlotInv
    <3>2. /\ \A q \in queries : q.tag \in Attempt
          /\ \A o \in orphans : o.tag \in Attempt
          /\ unconfirmed \subseteq Attempt
      BY QueryFields DEF SlotInv, TypeOK, Orphan
    <3>. QED  BY <2>1, <2>2, <3>1, <3>2 DEF SlotInv, TagsBegun
  <2>4. OnlyKnown'
    BY <2>1, <2>2 DEF SlotInv, OnlyKnown, Orphaned, Own, QueriesOf
  <2>5. OneAtATime' /\ InFlightIsOld' /\ Fresh'
    BY <2>1 DEF SlotInv, OneAtATime, InFlightIsOld, Fresh
  <2>. QED  BY <2>3, <2>4, <2>5 DEF SlotOnly
<1>2. CASE NextRun
  <2>1. /\ pc \in {"done", "failed"} /\ pc' = "ready" /\ run' = run + 1
        /\ UNCHANGED <<queries, orphans, unconfirmed, polls, quiet, waited, item>>
    BY <1>2 DEF NextRun, dbtVars, cleanVars, leftVars
  <2>2. run \in Nat /\ \A a \in Attempt : a[1] \in Nat
    BY AttemptFields, ConstantTypes DEF SlotInv, TypeOK, Runs
  <2>3. TagsBegun'
    <3>1. \A a \in Attempt : Begun(a) => Begun(a)'
      BY <2>1, BegunKept DEF SlotInv, TaskMoves
    <3>2. /\ \A q \in queries : q.tag \in Attempt
          /\ \A o \in orphans : o.tag \in Attempt
          /\ unconfirmed \subseteq Attempt
      BY QueryFields DEF SlotInv, TypeOK, Orphan
    <3>. QED  BY <2>1, <3>1, <3>2 DEF SlotInv, TagsBegun
  <2>4. OnlyKnown'
    <3>1. \A a \in unconfirmed : a[1] < run + 1
      BY <2>2 DEF SlotInv, TypeOK, OnlyKnown, Tag
    <3>. QED  BY <2>1, <3>1 DEF SlotInv, OnlyKnown, Orphaned
  <2>5. OneAtATime' /\ InFlightIsOld' /\ Fresh'
    BY <2>1 DEF SlotInv, OneAtATime, InFlightIsOld, Fresh
  <2>. QED  BY <2>3, <2>4, <2>5 DEF SlotOnly
<1>3. CASE UNCHANGED vars
  BY <1>3 DEF SlotInv, SlotOnly, vars, taskVars, dbtVars, cleanVars, leftVars, Fresh,
     TagsBegun, Begun, OnlyKnown, Orphaned, Own, QueriesOf, Tag, OneAtATime, Work,
     InFlightIsOld, OwnIn
<1>. QED  BY <1>1, <1>2, <1>3

(* Trino takes up and ends queries, whoever sent them.                     *)
LEMMA TrinoKeepsSlot ==
    ASSUME SlotInv, NEW q \in queries, Arrive(q) \/ EndQuery(q)
    PROVE  SlotOnly'
<1>1. /\ UNCHANGED <<run, step, try, pc, quiet, polls, unconfirmed, orphans>>
      /\ UNCHANGED <<Tag, Work>> /\ TaskMoves
  BY DEF Arrive, EndQuery, taskVars, cleanVars, leftVars, Tag, Work, TaskMoves
<1>2. /\ \A r \in queries' : \E p \in queries :
            r.tag = p.tag /\ (r.state = "sent" => r = p)
      /\ \A r, p \in queries' : r.tag = p.tag => r = p
      /\ UNCHANGED waited \/ (q \in Own /\ \A r \in Own' : r.state # "sent")
  <2>1. \A r, p \in queries : r.tag = p.tag => r = p
    BY DEF SlotInv, OneAtATime
  <2>2. CASE Arrive(q)
    <3> DEFINE new == [q EXCEPT !.state = "active"]
    <3>1. new.tag = q.tag /\ new.state = "active"
      BY DEF SlotInv, TypeOK, Query
    <3>2. queries' = (queries \ {q}) \cup {new} /\ waited' = IF q \in Own THEN 0 ELSE waited
      BY <2>2 DEF Arrive
    <3> HIDE DEF new
    <3>3. q \in Own => \A r \in Own' : r.state # "sent"
      BY <1>1, <2>1, <3>1, <3>2 DEF Own, QueriesOf
    <3>. QED  BY <2>1, <3>1, <3>2, <3>3
  <2>3. CASE EndQuery(q)
    <3>1. queries' = queries \ {q} /\ UNCHANGED waited
      BY <2>3 DEF EndQuery, cleanVars
    <3>. QED  BY <2>1, <3>1
  <2>. QED  BY <2>2, <2>3
<1>3. TagsBegun'
  <2>1. \A a \in Attempt : Begun(a) => Begun(a)'
    BY <1>1, BegunKept DEF SlotInv
  <2>2. \A p \in queries : p.tag \in Attempt
    BY QueryFields DEF SlotInv, TypeOK
  <2>3. /\ \A o \in orphans : o.tag \in Attempt
        /\ unconfirmed \subseteq Attempt
    BY DEF SlotInv, TypeOK, Orphan
  <2>. QED  BY <1>1, <1>2, <2>1, <2>2, <2>3 DEF SlotInv, TagsBegun
<1>4. OnlyKnown'
  BY <1>1, <1>2 DEF SlotInv, OnlyKnown, Orphaned, Own, QueriesOf
<1>5. OneAtATime'
  <2>1. pc = "dbt" /\ item' > Work => Own' = {}
    <3> SUFFICES ASSUME pc = "dbt", item' > Work, NEW r \in Own' PROVE FALSE
      OBVIOUS
    <3>1. PICK p \in queries : r.tag = p.tag
      BY <1>2 DEF Own, QueriesOf
    <3>2. p \in Own /\ Own # {}
      BY <1>1, <3>1 DEF Own, QueriesOf
    <3>3. item' # item
      BY <3>2 DEF SlotInv, OneAtATime
    <3>4. EndQuery(q) /\ q \in Own
      BY <3>3 DEF Arrive, EndQuery, dbtVars
    <3>5. p = q /\ queries' = queries \ {q} /\ r \in queries /\ r # q
      BY <3>2, <3>4 DEF EndQuery, SlotInv, OneAtATime, Own, QueriesOf
    <3>. QED  BY <3>1, <3>5 DEF SlotInv, OneAtATime
  <2>. QED  BY <1>1, <1>2, <2>1 DEF SlotInv, OneAtATime, Orphaned
<1>6. InFlightIsOld'
  <2>1. OwnIn("sent")' => OwnIn("sent") /\ UNCHANGED waited
    BY <1>1, <1>2 DEF OwnIn, Own, QueriesOf
  <2>. QED  BY <1>1, <2>1 DEF SlotInv, InFlightIsOld, Orphaned
<1>7. Fresh'
  BY <1>1 DEF SlotInv, Fresh, Arrive, EndQuery, cleanVars, dbtVars
<1>. QED  BY <1>3, <1>4, <1>5, <1>6, <1>7 DEF SlotOnly

(* A dbt left behind sends its next query.                                 *)
LEMMA OrphanKeepsSlot ==
    ASSUME SlotInv, NEW o \in orphans, OrphanSubmits(o)
    PROVE  SlotOnly'
<1>1. /\ UNCHANGED <<run, step, try, pc, item, quiet, polls, unconfirmed>>
      /\ UNCHANGED <<Tag, Work>> /\ TaskMoves
      /\ QueriesOf(o.tag) = {}
      /\ waited' = IF o.tag = Tag THEN 0 ELSE waited
  BY DEF OrphanSubmits, taskVars, dbtVars, Tag, Work, TaskMoves
<1>2. PICK i \in o.item..WorkOf(o.tag[2]) :
         /\ queries' = queries \cup {Request(o.tag, i)}
         /\ orphans' = (orphans \ {o}) \cup {[o EXCEPT !.item = i + 1]}
  BY DEF OrphanSubmits
<1>3. Request(o.tag, i).tag = o.tag /\ [o EXCEPT !.item = i + 1].tag = o.tag
  <2>1. o \in Orphan
    BY DEF SlotInv, TypeOK
  <2>. QED  BY <2>1 DEF Request, Orphan
<1>4. \A a : Orphaned(a)' <=> Orphaned(a)
  BY <1>2, <1>3 DEF Orphaned
<1>5. \A q \in queries' : q \in queries \/ (q.tag = o.tag /\ Orphaned(q.tag))
  BY <1>2, <1>3 DEF Orphaned
<1>6. TagsBegun'
  <2>1. \A a \in Attempt : Begun(a) => Begun(a)'
    BY <1>1, BegunKept DEF SlotInv
  <2>2. \A p \in queries : p.tag \in Attempt
    BY QueryFields DEF SlotInv, TypeOK
  <2>3. /\ \A p \in orphans : p.tag \in Attempt
        /\ unconfirmed \subseteq Attempt
    BY DEF SlotInv, TypeOK, Orphan
  <2>. QED  BY <1>1, <1>2, <1>3, <1>5, <2>1, <2>2, <2>3 DEF SlotInv, TagsBegun
<1>7. OnlyKnown'
  BY <1>1, <1>4, <1>5 DEF SlotInv, OnlyKnown, Own, QueriesOf
<1>8. OneAtATime'
  <2>1. \A q, r \in queries' : q.tag = r.tag => q = r
    <3>1. \A q \in queries : q.tag # o.tag
      BY <1>1 DEF QueriesOf
    <3>2. \A q \in queries' : q.tag = o.tag => q = Request(o.tag, i)
      BY <1>2, <3>1
    <3>3. \A q \in queries' : q.tag # o.tag => q \in queries
      BY <1>5
    <3>. QED  BY <3>2, <3>3 DEF SlotInv, OneAtATime
  <2>2. pc = "dbt" => o.tag # Tag
    BY DEF SlotInv, OneAtATime, Orphaned
  <2>3. pc = "dbt" /\ item > Work => Own' = {}
    BY <1>1, <1>5, <2>2 DEF SlotInv, OneAtATime, Own, QueriesOf
  <2>. QED  BY <1>1, <1>4, <2>1, <2>3 DEF SlotInv, OneAtATime
<1>9. InFlightIsOld' /\ Fresh'
  <2>1. ~ Orphaned(Tag) => o.tag # Tag
    BY DEF Orphaned
  <2>2. ~ Orphaned(Tag) /\ OwnIn("sent")' => OwnIn("sent") /\ UNCHANGED waited
    BY <1>1, <1>5, <2>1 DEF OwnIn, Own, QueriesOf
  <2>3. InFlightIsOld'
    BY <1>1, <1>4, <2>2 DEF SlotInv, InFlightIsOld
  <2>. QED  BY <1>1, <2>3 DEF SlotInv, Fresh
<1>. QED  BY <1>6, <1>7, <1>8, <1>9 DEF SlotOnly

-----------------------------------------------------------------------------
(* Nothing runs initially.                                                 *)
LEMMA SlotInvInit == Init => SlotInv
<1>1. Init => ok \in BOOLEAN /\ overdue \in BOOLEAN
  BY Zenon DEF Init
<1>2. Init => /\ run \in Runs /\ step \in Steps /\ try \in 0..limit /\ limit \in Nat
              /\ reruns \in 0..MaxReruns /\ pc \in Pcs /\ item \in Nat \ {0}
              /\ polls \in 0..MaxPolls /\ quiet \in Nat /\ waited \in Nat
              /\ queries \subseteq Query /\ orphans \subseteq Orphan
              /\ unconfirmed \subseteq Attempt
  BY ConstantTypes DEF Init, Runs, Steps, Pcs
<1>3. Init => mart \in [Relations -> Attempt \cup {NoAttempt}]
  BY DEF Init
<1>4. Init => TypeOK
  BY <1>1, <1>2, <1>3 DEF TypeOK
<1>. QED  BY <1>4, ConstantTypes DEF Init, SlotInv, TriesLeft, Fresh, TagsBegun, OnlyKnown,
          OneAtATime, InFlightIsOld

(* Every step keeps the types.                                             *)
LEMMA TypesStep ==
    ASSUME TypeOK, TriesLeft, [Next]_vars
    PROVE  TypeOK' /\ TriesLeft'
BY DbtKeepsTypes, CleanupKeepsTypes, OthersKeepTypes DEF Next, TaskStep

(* Every step keeps the invariant.                                         *)
LEMMA SlotInvStep ==
    ASSUME SlotInv, [Next]_vars
    PROVE  SlotInv'
<1>1. TypeOK' /\ TriesLeft'
  BY TypesStep DEF SlotInv
<1>2. SlotOnly'
  BY StartKeepsSlot, SubmitKeepsSlot, DbtEndKeepsSlot, PollKeepsSlot, LossKeepsSlot,
     AroundKeepsSlot, TrinoKeepsSlot, OrphanKeepsSlot DEF Next, TaskStep
<1>. QED  BY <1>1, <1>2 DEF SlotInv, SlotOnly

(* Tries, polls, queries and the relations keep their shapes, and no       *)
(* attempt outlives the tries of its task.                                 *)
THEOREM CheckpointTypes == Spec => []TypeOK
<1>1. Init => TypeOK /\ TriesLeft
  BY SlotInvInit DEF SlotInv
<1>2. TypeOK /\ TriesLeft /\ [Next]_vars => TypeOK' /\ TriesLeft'
  BY TypesStep
<1>. QED  BY <1>1, <1>2, PTL DEF Spec

(* The inductive invariant of the checkpoints, types included: whatever    *)
(* Trino runs is of the running attempt or of one known to be left over.   *)
THEOREM SlotInvariant == Spec => []SlotInv
<1>1. SlotInv /\ [Next]_vars => SlotInv'
  BY SlotInvStep
<1>. QED  BY SlotInvInit, <1>1, PTL DEF Spec

(* While a checkpoint runs dbt or the publisher reads the mart, Trino runs *)
(* nothing of another attempt, except of one that was not brought to an    *)
(* end or, from an earlier DAG run, one whose cleanup was not confirmed:   *)
(* run_dbt_command_step and cancel_and_wait.                               *)
THEOREM SlotStaysExclusive == Spec => []SlotIsExclusive
<1>1. SlotInv => SlotIsExclusive
  BY DEF SlotInv, OnlyKnown, SlotIsExclusive, Stray
<1>. QED  BY SlotInvariant, <1>1, PTL

(* From the start of the tests to the end of the publication no relation   *)
(* of the mart changes, except by such a stray attempt.                    *)
THEOREM TestedMartIsFrozen == Spec => MartFrozenWhileRead
<1> DEFINE OnlyStray == \A r \in Relations : mart'[r] # mart[r] => Stray(mart'[r])
<1>1. ASSUME SlotInv, Next, Frozen PROVE OnlyStray
  <2>1. ASSUME NEW q \in queries, EndQuery(q) PROVE OnlyStray
    <3>1. CASE q \in Own /\ pc = "dbt"
      <4>1. q.tag = Tag /\ step > Len(Builds)
        BY <1>1, <3>1 DEF Frozen, Own, QueriesOf
      <4>2. ~ Writes(q)
        BY <1>1, <4>1, ConstantTypes DEF Writes, Tag, SlotInv, TypeOK, Steps
      <4>. QED  BY <2>1, <4>2 DEF EndQuery
    <3>2. CASE ~ (q \in Own /\ pc = "dbt")
      <4>1. Stray(q.tag)
        BY <1>1, <3>2 DEF SlotInv, OnlyKnown, Frozen, Stray
      <4>2. mart \in [Relations -> Attempt \cup {NoAttempt}]
        BY <1>1 DEF SlotInv, TypeOK
      <4>3. \/ mart' = mart
            \/ mart' = [mart EXCEPT ![Target(q)] = q.tag]
        BY <2>1 DEF EndQuery
      <4>. QED  BY <4>1, <4>2, <4>3
    <3>. QED  BY <3>1, <3>2
  <2>2. ASSUME NEW q \in queries, Arrive(q) PROVE UNCHANGED mart
    BY <2>2 DEF Arrive
  <2>3. ASSUME NEW o \in orphans, OrphanSubmits(o) PROVE UNCHANGED mart
    BY <2>3 DEF OrphanSubmits
  <2>. QED  BY <1>1, <2>1, <2>2, <2>3 DEF Next, TaskStep, StartAttempt, Submit,
         CompleteStep, RefuseResult, EndBadly, Poll, FailCleanup, Publish, Crash, Rerun,
         NextRun
<1>2. SlotInv /\ [Next]_vars => [Frozen => OnlyStray]_vars
  BY <1>1
<1>. QED  BY SlotInvariant, <1>2, PTL DEF Spec, MartFrozenWhileRead

-----------------------------------------------------------------------------
(* Who wrote the mart.                                                     *)

(* The attempts whose writes a run has to expect.                          *)
Expected(a) == a[1] = run \/ Stray(a)
Written(s, i) == Expected(mart[Builds[s][i]])

(* Every checkpoint this run has passed has written all it builds; the one *)
(* at hand what lies before its query, unless one has failed.              *)
BuiltEarlier ==
    \A s \in 1..Len(Builds) : s < step => \A i \in 1..Len(Builds[s]) : Written(s, i)
BuiltSoFar ==
    pc = "dbt" /\ ok /\ step <= Len(Builds) =>
        \A i \in 1..Len(Builds[step]) : i < item => Written(step, i)
AtItem == pc = "dbt" => \A q \in Own : q.item = item /\ q.item <= Work
TestedFirst == pc = "publish" => step > Len(Builds)

OwnedParts == BuiltEarlier /\ BuiltSoFar /\ AtItem /\ TestedFirst
OwnedInv == SlotInv /\ OwnedParts

(* Whatever ends in Trino has been expected.                               *)
LEMMA QueriesAreExpected ==
    ASSUME SlotInv, NEW q \in queries
    PROVE  Expected(q.tag)
BY DEF SlotInv, OnlyKnown, Own, QueriesOf, Tag, Expected, Stray

(* Within a DAG run nothing becomes unexpected.                            *)
LEMMA ExpectedStays ==
    ASSUME SlotInv, [Next]_vars, UNCHANGED run, NEW a, Expected(a)
    PROVE  Expected(a)'
<1>1. Tag[1] = run
  BY DEF Tag
<1>2. ASSUME Orphaned(a) PROVE Orphaned(a)'
  <2>1. CASE \E o \in orphans : OrphanSubmits(o)
    <3>1. PICK o \in orphans : OrphanSubmits(o)
      BY <2>1
    <3>2. PICK i : orphans' = (orphans \ {o}) \cup {[o EXCEPT !.item = i + 1]}
      BY <3>1 DEF OrphanSubmits
    <3>3. [o EXCEPT !.item = i + 1].tag = o.tag
      BY DEF SlotInv, TypeOK, Orphan
    <3>. QED  BY <1>2, <3>2, <3>3 DEF Orphaned
  <2>2. CASE ~ \E o \in orphans : OrphanSubmits(o)
    <3>1. orphans \subseteq orphans'
      BY <2>2 DEF Next, TaskStep, StartAttempt, Submit, CompleteStep, RefuseResult,
         EndBadly, Poll, FailCleanup, Publish, Crash, Rerun, NextRun, Arrive, EndQuery,
         LeaveOrphan, Confirmed, Uncertain, leftVars, vars
    <3>. QED  BY <1>2, <3>1 DEF Orphaned
  <2>. QED  BY <2>1, <2>2
<1>3. unconfirmed \ {Tag} \subseteq unconfirmed'
  BY DEF Next, TaskStep, StartAttempt, Submit, CompleteStep, RefuseResult,
     EndBadly, Poll, FailCleanup, Publish, Crash, Rerun, NextRun, Arrive, EndQuery,
     OrphanSubmits, Confirmed, Uncertain, leftVars, vars
<1>. QED  BY <1>1, <1>2, <1>3 DEF Expected, Stray

(* A query leaves every relation as it was or written as expected.         *)
LEMMA EndKeepsExpected ==
    ASSUME SlotInv, NEW q \in queries, EndQuery(q)
    PROVE  \A r \in Relations : Expected(mart[r]) => Expected(mart'[r])
<1>1. mart \in [Relations -> Attempt \cup {NoAttempt}]
  BY DEF SlotInv, TypeOK
<1>2. \/ mart' = mart
      \/ mart' = [mart EXCEPT ![Target(q)] = q.tag]
  BY DEF EndQuery
<1>. QED  BY <1>1, <1>2, QueriesAreExpected

(* A relation that is written stays so in its run, whoever writes.         *)
LEMMA WrittenStays ==
    ASSUME SlotInv, [Next]_vars, UNCHANGED run,
           NEW s \in 1..Len(Builds), NEW i \in 1..Len(Builds[s]), Written(s, i)
    PROVE  Written(s, i)'
<1>1. Builds[s][i] \in Relations
  BY BuildTypes
<1>2. Expected(mart'[Builds[s][i]])
  <2>1. CASE \E q \in queries : EndQuery(q)
    BY <1>1, <2>1, EndKeepsExpected DEF Written
  <2>2. CASE ~ \E q \in queries : EndQuery(q)
    <3>1. mart' = mart
      BY <2>2 DEF Next, TaskStep, StartAttempt, Submit, CompleteStep, RefuseResult,
         EndBadly, Poll, FailCleanup, Publish, Crash, Rerun, NextRun, Arrive,
         OrphanSubmits, vars
    <3>. QED  BY <3>1 DEF Written
  <2>. QED  BY <2>1, <2>2
<1>3. \A a : Expected(a) => Expected(a)'
  BY ExpectedStays
<1>. QED  BY <1>2, <1>3 DEF Written

(* The query at hand ends: if it has written, so has the item.             *)
LEMMA EndKeepsOwned ==
    ASSUME OwnedInv, NEW q \in queries, EndQuery(q)
    PROVE  OwnedParts'
<1> USE DEF OwnedInv, OwnedParts
<1>1. /\ UNCHANGED <<run, step, try, pc, Tag, Work>> /\ queries' = queries \ {q}
      /\ step \in Steps /\ item \in Nat \ {0}
  BY DEF EndQuery, taskVars, SlotInv, TypeOK, Tag, Work
<1>2. TestedFirst'
  BY <1>1 DEF TestedFirst
<1>3. AtItem'
  <2>1. CASE q \in Own
    <3>1. Own' = {}
      BY <1>1, <2>1 DEF SlotInv, OneAtATime, Own, QueriesOf
    <3>. QED  BY <3>1 DEF AtItem
  <2>2. CASE q \notin Own
    <3>1. Own' \subseteq Own /\ item' = item
      BY <1>1, <2>2 DEF EndQuery, Own, QueriesOf
    <3>. QED  BY <1>1, <3>1 DEF AtItem
  <2>. QED  BY <2>1, <2>2
<1>4. \A s \in 1..Len(Builds) : \A i \in 1..Len(Builds[s]) :
         Written(s, i) => Written(s, i)'
  BY <1>1, WrittenStays DEF Next
<1>5. BuiltEarlier'
  BY <1>1, <1>4 DEF BuiltEarlier
<1>6. ASSUME pc = "dbt", ok', step <= Len(Builds),
             NEW i \in 1..Len(Builds[step]), i < item'
      PROVE  Written(step, i)'
  <2>1. step \in 1..Len(Builds)
    BY <1>1, <1>6, ConstantTypes DEF Steps
  <2>2. CASE i < item /\ ok
    <3>1. i < item => Written(step, i)
      BY <1>6, <2>2, Zenon DEF BuiltSoFar
    <3>2. Written(step, i)
      BY <2>2, <3>1, Zenon
    <3>3. Written(step, i) => Written(step, i)'
      BY <1>1, <1>4, <1>6, <2>1 DEF Written
    <3>. QED  BY <3>2, <3>3, Zenon
  <2>3. CASE ~ (i < item /\ ok)
    <3>1. q \in Own
      BY <1>6, <2>3, Zenon DEF EndQuery
    <3>2. PICK written \in BOOLEAN :
             /\ mart' = IF written /\ Writes(q)
                        THEN [mart EXCEPT ![Target(q)] = q.tag] ELSE mart
             /\ item' \in IF written THEN {item + 1} ELSE item + 1 .. Work + 1
             /\ ok' = (ok /\ written)
      BY <1>6, <3>1, Zenon DEF EndQuery
    <3>3. ok /\ written
      BY <1>6, <3>2, Zenon
    <3>4. q.tag[2] = step /\ q.tag[1] = run /\ Writes(q)
      BY <1>6, <3>1 DEF Own, QueriesOf, Tag, Writes
    <3>5. item' = item + 1 /\ mart' = [mart EXCEPT ![Target(q)] = q.tag]
      BY <3>2, <3>3, <3>4
    <3>6. i = item
      <4>1. ~ (i < item)
        BY <2>3, <3>3, Zenon
      <4>. QED  BY <1>1, <1>6, <2>1, <3>5, <4>1, BuildTypes
    <3>7. Target(q) = Builds[step][i] /\ Builds[step][i] \in Relations
      BY <1>6, <2>1, <3>1, <3>4, <3>6, BuildTypes DEF Target, AtItem
    <3>8. mart \in [Relations -> Attempt \cup {NoAttempt}]
      BY DEF SlotInv, TypeOK
    <3>. QED  BY <1>1, <3>4, <3>5, <3>7, <3>8 DEF Written, Expected
  <2>. QED  BY <2>2, <2>3
<1>. QED  BY <1>1, <1>2, <1>3, <1>5, <1>6 DEF BuiltSoFar

(* A checkpoint is passed when all its items are behind.                   *)
LEMMA CompleteKeepsOwned ==
    ASSUME OwnedInv, CompleteStep
    PROVE  OwnedParts'
<1>. USE DEF OwnedInv, OwnedParts
<1>1. /\ pc = "dbt" /\ ok /\ item > Work /\ step \in Steps /\ item \in Nat
      /\ UNCHANGED <<run, mart>> /\ pc' \in {"ready", "publish"}
  BY DEF CompleteStep, Succeeds, NextStep, SlotInv, TypeOK, taskVars
<1>2. \A s \in 1..Len(Builds) : \A i \in 1..Len(Builds[s]) :
         Written(s, i) => Written(s, i)'
  BY <1>1, WrittenStays DEF Next, TaskStep
<1>3. CASE step <= Len(Builds)
  <2>1. step' = step + 1 /\ pc' = "ready"
    BY <1>3 DEF CompleteStep, NextStep
  <2>2. \A i \in 1..Len(Builds[step]) : Written(step, i)
    BY <1>1, <1>3, ConstantTypes, BuildTypes DEF BuiltSoFar, Work, WorkOf, Steps
  <2>. QED  BY <1>1, <1>2, <1>3, <2>1, <2>2, ConstantTypes
            DEF Steps, BuiltEarlier, BuiltSoFar, AtItem, TestedFirst
<1>4. CASE ~ (step <= Len(Builds))
  <2>1. step' = step /\ pc' = "publish"
    BY <1>4 DEF CompleteStep, taskVars
  <2>. QED  BY <1>1, <1>2, <1>4, <2>1, ConstantTypes
            DEF Steps, BuiltEarlier, BuiltSoFar, AtItem, TestedFirst
<1>. QED  BY <1>3, <1>4

(* Every other step.                                                       *)
LEMMA OthersKeepOwned ==
    ASSUME OwnedInv,
           \/ StartAttempt \/ Submit \/ RefuseResult \/ EndBadly \/ Poll
           \/ FailCleanup \/ Crash \/ Publish \/ Rerun \/ NextRun \/ UNCHANGED vars
           \/ \E q \in queries : Arrive(q)
           \/ \E o \in orphans : OrphanSubmits(o)
    PROVE  OwnedParts'
<1>. USE DEF OwnedInv, OwnedParts
<1>1. CASE NextRun
  <2>1. step' = 1 /\ pc' = "ready"
    BY <1>1 DEF NextRun
  <2>. QED  BY <2>1 DEF BuiltEarlier, BuiltSoFar, AtItem, TestedFirst
<1>2. CASE ~ NextRun
  <2>1. UNCHANGED <<run, step>>
    BY <1>2 DEF StartAttempt, Submit, RefuseResult, EndBadly, Poll, FailCleanup, Crash,
       Publish, Rerun, Arrive, OrphanSubmits, taskVars, vars
  <2>2. \A s \in 1..Len(Builds) : \A i \in 1..Len(Builds[s]) :
           Written(s, i) => Written(s, i)'
    BY <1>2, <2>1, WrittenStays DEF Next, TaskStep
  <2>3. BuiltEarlier'
    BY <2>1, <2>2 DEF BuiltEarlier
  <2>4. TestedFirst'
    <3>1. pc' = "publish" => pc = "publish"
      BY <1>2 DEF StartAttempt, Submit, RefuseResult, EndBadly, Poll, FailCleanup, Crash,
         Publish, Rerun, Arrive, OrphanSubmits, Confirmed, Uncertain, Retry, vars
    <3>. QED  BY <2>1, <3>1 DEF TestedFirst
  <2>5. BuiltSoFar'
    <3>1. CASE StartAttempt
      <4>1. item' = 1
        BY <3>1 DEF StartAttempt, dbtVars, SlotInv, Fresh
      <4>. QED  BY <2>1, <4>1, BuildTypes DEF BuiltSoFar
    <3>2. CASE ~ StartAttempt
      <4>1. pc' = "dbt" => pc = "dbt" /\ UNCHANGED <<item, ok>>
        BY <1>2, <3>2 DEF Submit, RefuseResult, EndBadly, Poll, FailCleanup, Crash,
           Publish, Rerun, Arrive, OrphanSubmits, Confirmed, Uncertain, Retry, vars,
           dbtVars
      <4>2. pc' = "dbt" /\ ok' /\ step <= Len(Builds) =>
               \A i \in 1..Len(Builds[step]) : i < item' => Written(step, i)
        BY <4>1, Zenon DEF BuiltSoFar
      <4>3. step \in Nat \ {0}
        BY ConstantTypes DEF SlotInv, TypeOK, Steps
      <4>. QED  BY <2>1, <2>2, <4>2, <4>3, ConstantTypes DEF BuiltSoFar
    <3>. QED  BY <3>1, <3>2
  <2>6. AtItem'
    <3>1. CASE StartAttempt
      <4>1. Own' = {}
        <5>1. Tag' = <<run, step, try + 1>> /\ queries' = queries
          BY <3>1 DEF StartAttempt, Tag
        <5>. QED  BY <5>1, TagBegins DEF SlotInv, TagsBegun, Own, QueriesOf
      <4>. QED  BY <4>1 DEF AtItem
    <3>2. CASE Submit
      <4>1. /\ item <= Work /\ Own = {} /\ UNCHANGED <<Tag, Work, item>>
            /\ queries' = queries \cup {Request(Tag, item)}
        BY <3>2 DEF Submit, taskVars, dbtVars, Tag, Work
      <4>2. Request(Tag, item).item = item
        BY DEF Request
      <4>. QED  BY <4>1, <4>2 DEF AtItem, Own, QueriesOf
    <3>3. CASE \E q \in queries : Arrive(q)
      <4>1. PICK q \in queries : Arrive(q)
        BY <3>3
      <4>2. [q EXCEPT !.state = "active"].tag = q.tag
            /\ [q EXCEPT !.state = "active"].item = q.item
        BY DEF SlotInv, TypeOK, Query
      <4>. QED  BY <4>1, <4>2 DEF Arrive, AtItem, Own, QueriesOf, Tag, Work, taskVars,
                dbtVars
    <3>4. CASE \E o \in orphans : OrphanSubmits(o)
      <4>1. PICK o \in orphans : OrphanSubmits(o)
        BY <3>4
      <4>2. /\ UNCHANGED <<pc, Tag, Work, item>>
            /\ \A q \in queries' : q \in queries \/ q.tag = o.tag
        BY <4>1 DEF OrphanSubmits, Request, taskVars, dbtVars, Tag, Work
      <4>3. pc = "dbt" => o.tag # Tag
        BY DEF SlotInv, OneAtATime, Orphaned
      <4>. QED  BY <4>2, <4>3 DEF AtItem, Own, QueriesOf
    <3>5. CASE UNCHANGED vars
      BY <3>5 DEF vars, AtItem, Own, QueriesOf, Tag, Work, taskVars, dbtVars
    <3>6. CASE RefuseResult \/ EndBadly \/ Poll \/ FailCleanup \/ Crash \/ Publish \/ Rerun
      <4>1. pc' # "dbt"
        BY <3>6 DEF RefuseResult, EndBadly, Poll, FailCleanup, Crash, Publish, Rerun,
           Confirmed, Uncertain, Retry
      <4>. QED  BY <4>1 DEF AtItem
    <3>. QED  BY <1>2, <3>1, <3>2, <3>3, <3>4, <3>5, <3>6
  <2>. QED  BY <2>3, <2>4, <2>5, <2>6
<1>. QED  BY <1>1, <1>2

(* What a run publishes its own checkpoints have written, run after run    *)
(* into the same relations, or an attempt not known to have ended:         *)
(* build_test_dimensional_mart_with_dbt.                                   *)
THEOREM PublishedMartBelongs ==
    ASSUME \A r \in Relations :
              \E s \in 1..Len(Builds) : \E i \in 1..Len(Builds[s]) : Builds[s][i] = r
    PROVE  Spec => []PublishedMartIsOwn
<1>1. Init => OwnedInv
  BY SlotInvInit, ConstantTypes DEF Init, OwnedInv, OwnedParts, BuiltEarlier, BuiltSoFar,
     AtItem, TestedFirst
<1>2. OwnedInv /\ [Next]_vars => OwnedInv'
  BY SlotInvStep, EndKeepsOwned, CompleteKeepsOwned, OthersKeepOwned
     DEF OwnedInv, Next, TaskStep
<1>3. OwnedInv => PublishedMartIsOwn
  <2> SUFFICES ASSUME OwnedInv, pc = "publish", NEW r \in Relations
               PROVE  Expected(mart[r])
    BY DEF PublishedMartIsOwn, Expected
  <2>1. step > Len(Builds) /\ step \in Steps
    BY DEF OwnedInv, OwnedParts, TestedFirst, SlotInv, TypeOK
  <2>2. PICK s \in 1..Len(Builds) : \E i \in 1..Len(Builds[s]) : Builds[s][i] = r
    OBVIOUS
  <2>3. s < step
    BY <2>1, <2>2, ConstantTypes DEF Steps
  <2>. QED  BY <2>2, <2>3 DEF OwnedInv, OwnedParts, BuiltEarlier, Written
<1>. QED  BY <1>1, <1>2, <1>3, PTL DEF Spec

-----------------------------------------------------------------------------
(* The deadline of cancel_and_wait.                                        *)

(* How many polls the attempt's query can have taken to get where it is.   *)
PollsOf ==
    /\ OwnIn("sent") => polls <= waited /\ waited <= ArrivalPolls
    /\ OwnIn("active") => polls <= ArrivalPolls
    /\ OwnIn("cancelled") => polls <= ArrivalPolls + 1 + waited /\ waited <= CancelPolls
    /\ Own = {} => polls <= ArrivalPolls + 1 + CancelPolls + quiet
    /\ quiet < QuietPolls
PollsInv == pc = "cleanup" /\ ~ overdue /\ ~ Orphaned(Tag) => PollsOf

PromptInv == SlotInv /\ PollsInv

LEMMA PollsTypes ==
    ASSUME TypeOK
    PROVE  /\ polls \in Nat /\ quiet \in Nat /\ waited \in Nat /\ queries \subseteq Query
           /\ ArrivalPolls \in Nat /\ QuietPolls \in Nat /\ CancelPolls \in Nat
           /\ ArrivalPolls < QuietPolls
BY CheckpointConstants DEF TypeOK

(* dbt has ended, nothing has been counted yet.                            *)
LEMMA EndStartsPolls ==
    ASSUME PromptInv, EndBadly
    PROVE  PollsInv'
<1>1. polls' = 0 /\ quiet' = 0 /\ waited' = 0
  BY DEF PromptInv, SlotInv, Fresh, EndBadly, cleanVars
<1>. QED  BY <1>1, PollsTypes DEF PollsInv, PollsOf, PromptInv, SlotInv

(* One iteration: the query gets a poll further, or is overdue.            *)
LEMMA PollCounts ==
    ASSUME PromptInv, Poll, pc' = "cleanup"
    PROVE  PollsInv'
<1> SUFFICES ASSUME ~ overdue', ~ Orphaned(Tag)'
             PROVE  PollsOf'
  BY DEF PollsInv
<1>1. /\ pc = "cleanup" /\ UNCHANGED <<Tag, orphans>> /\ polls' = polls + 1 /\ OnTime
      /\ quiet' = (IF Matching # {} THEN 0 ELSE quiet + 1)
      /\ Matching # {} \/ ~ QuietLongEnough
      /\ waited' = (IF OwnIn("sent") \/ (OwnIn("cancelled") /\ ~ Slow)
                    THEN waited + 1 ELSE IF Slow THEN waited ELSE 0)
  BY DEF Poll, PollsDone, Confirmed, Uncertain, Retry, Tag, taskVars, leftVars
<1>2. ~ Slow /\ ~ overdue
  BY DEF Poll, Confirmed, Uncertain, Retry
<1>3. PollsOf
  BY <1>1, <1>2 DEF PromptInv, PollsInv, Orphaned
<1>4. /\ polls \in Nat /\ quiet \in Nat /\ waited \in Nat /\ queries \subseteq Query
      /\ ArrivalPolls \in Nat /\ QuietPolls \in Nat /\ CancelPolls \in Nat
      /\ ArrivalPolls < QuietPolls
  BY PollsTypes DEF PromptInv, SlotInv
<1>5. \A q, r \in Own : q = r
  BY DEF PromptInv, SlotInv, OneAtATime, Own, QueriesOf
<1> DEFINE After(q) == IF q \in Own /\ q.state = "active" THEN Cancel(q) ELSE q
<1>6. /\ queries' = {After(q) : q \in queries}
      /\ \A q \in queries : After(q).tag = q.tag
      /\ \A q \in Own : /\ q.state = "active" => After(q).state = "cancelled"
                        /\ q.state # "active" => After(q).state = q.state
  BY <1>4, CancelType DEF Poll, Own, QueriesOf
<1> HIDE DEF After
<1>7. /\ Own' = {After(q) : q \in Own}
  BY <1>1, <1>6 DEF Own, QueriesOf
<1>8. CASE Own = {}
  <2>1. Own' = {} /\ quiet' = quiet + 1 /\ quiet + 1 < QuietPolls
    BY <1>1, <1>4, <1>7, <1>8 DEF Matching, QuietLongEnough
  <2>. QED  BY <1>1, <1>3, <1>4, <1>8, <2>1 DEF PollsOf, OwnIn
<1>9. ASSUME NEW q \in Own PROVE PollsOf'
  <2>1. q.state \in {"sent", "active", "cancelled"} /\ Own = {q} /\ Own' = {After(q)}
    BY <1>4, <1>5, <1>7, QueryFields DEF Own, QueriesOf
  <2>2. quiet' < QuietPolls
    BY <1>1, <1>4 DEF QuietLongEnough
  <2>3. CASE q.state = "active"
    <3>1. OwnIn("active") /\ \A s : OwnIn(s)' => s = "cancelled"
      BY <1>6, <2>1, <2>3 DEF OwnIn
    <3>2. waited' = 0 /\ polls <= ArrivalPolls
      BY <1>1, <1>2, <1>3, <2>1, <2>3, <3>1 DEF OwnIn, PollsOf
    <3>. QED  BY <1>1, <1>4, <2>1, <2>2, <3>1, <3>2 DEF PollsOf
  <2>4. CASE q.state = "sent"
    <3>1. OwnIn("sent") /\ \A s : OwnIn(s)' => s = "sent"
      BY <1>6, <2>1, <2>4 DEF OwnIn
    <3>2. waited' = waited + 1 /\ waited < ArrivalPolls /\ polls <= waited
      BY <1>1, <1>3, <3>1 DEF OnTime, PollsOf
    <3>. QED  BY <1>1, <1>4, <2>1, <2>2, <3>1, <3>2 DEF PollsOf
  <2>5. CASE q.state = "cancelled"
    <3>1. OwnIn("cancelled") /\ \A s : OwnIn(s)' => s = "cancelled"
      BY <1>6, <2>1, <2>5 DEF OwnIn
    <3>2. waited' = waited + 1 /\ waited < CancelPolls /\ polls <= ArrivalPolls + 1 + waited
      BY <1>1, <1>2, <1>3, <1>4, <3>1 DEF Slow, PollsOf
    <3>. QED  BY <1>1, <1>4, <2>1, <2>2, <3>1, <3>2 DEF PollsOf
  <2>. QED  BY <2>1, <2>3, <2>4, <2>5
<1>. QED  BY <1>8, <1>9

(* Trino starts or ends a query.                                           *)
LEMMA TrinoKeepsPolls ==
    ASSUME PromptInv, NEW q \in queries, Arrive(q) \/ EndQuery(q)
    PROVE  PollsInv'
<1> SUFFICES ASSUME pc = "cleanup", ~ overdue, ~ Orphaned(Tag)
             PROVE  PollsOf'
  BY DEF PollsInv, Arrive, EndQuery, taskVars, cleanVars, leftVars, Orphaned, Tag
<1>1. /\ UNCHANGED <<polls, quiet, Tag>> /\ PollsOf
      /\ polls \in Nat /\ quiet \in Nat /\ waited \in Nat /\ queries \subseteq Query
      /\ ArrivalPolls \in Nat /\ QuietPolls \in Nat /\ CancelPolls \in Nat
  BY PollsTypes DEF PromptInv, PollsInv, SlotInv, Arrive, EndQuery, taskVars, cleanVars, Tag
<1>2. \A r, s \in Own : r = s
  BY DEF PromptInv, SlotInv, OneAtATime, Own, QueriesOf
<1>3. CASE q \notin Own
  <2>1. Own' = Own /\ UNCHANGED waited
    <3>1. [q EXCEPT !.state = "active"].tag = q.tag
      BY <1>1 DEF Query
    <3>. QED  BY <1>1, <1>3, <3>1 DEF Arrive, EndQuery, Own, QueriesOf, cleanVars
  <2>. QED  BY <1>1, <2>1 DEF PollsOf, OwnIn
<1>4. CASE q \in Own /\ Arrive(q)
  <2> DEFINE new == [q EXCEPT !.state = "active"]
  <2>1. new.state = "active" /\ new.tag = q.tag /\ q.state = "sent"
    BY <1>1, <1>4 DEF Arrive, Query
  <2>2. queries' = (queries \ {q}) \cup {new} /\ waited' = 0
    BY <1>4 DEF Arrive
  <2> HIDE DEF new
  <2>3. Own' = {new} /\ OwnIn("sent")
    BY <1>1, <1>2, <1>4, <2>1, <2>2 DEF Own, QueriesOf, OwnIn
  <2>4. \A s : OwnIn(s)' => s = "active"
    BY <2>1, <2>3 DEF OwnIn
  <2>. QED  BY <1>1, <2>3, <2>4 DEF PollsOf
<1>5. CASE q \in Own /\ EndQuery(q)
  <2>1. queries' = queries \ {q} /\ UNCHANGED waited /\ q.state # "sent"
    BY <1>5 DEF EndQuery, cleanVars
  <2>2. Own' = {} /\ \A s : ~ OwnIn(s)'
    BY <1>1, <1>2, <1>5, <2>1 DEF Own, QueriesOf, OwnIn
  <2>3. OwnIn("active") \/ OwnIn("cancelled")
    BY <1>1, <1>5, <2>1, QueryFields DEF OwnIn, Own, QueriesOf
  <2>. QED  BY <1>1, <2>1, <2>2, <2>3 DEF PollsOf
<1>. QED  BY <1>3, <1>4, <1>5

(* Queries of a dbt left behind are not those of the attempt.              *)
LEMMA OrphanKeepsPolls ==
    ASSUME PromptInv, NEW o \in orphans, OrphanSubmits(o)
    PROVE  PollsInv'
<1>1. UNCHANGED <<pc, Tag, polls, quiet, overdue>>
  BY DEF OrphanSubmits, taskVars, Tag
<1>2. Orphaned(Tag)' <=> Orphaned(Tag)
  <2>1. o \in Orphan
    BY DEF PromptInv, SlotInv, TypeOK
  <2>2. PICK i : orphans' = (orphans \ {o}) \cup {[o EXCEPT !.item = i + 1]}
    BY DEF OrphanSubmits
  <2>3. [o EXCEPT !.item = i + 1].tag = o.tag
    BY <2>1 DEF Orphan
  <2>. QED  BY <1>1, <2>2, <2>3 DEF Orphaned
<1>3. CASE o.tag = Tag
  BY <1>2, <1>3 DEF PollsInv, Orphaned
<1>4. CASE o.tag # Tag
  <2>1. Own' = Own /\ UNCHANGED waited
    BY <1>1, <1>4 DEF OrphanSubmits, Request, Own, QueriesOf
  <2>. QED  BY <1>1, <1>2, <2>1 DEF PromptInv, PollsInv, PollsOf, OwnIn
<1>. QED  BY <1>3, <1>4

LEMMA PollsInvStep ==
    ASSUME PromptInv, [Next]_vars
    PROVE  PromptInv'
<1>1. SlotInv'
  BY SlotInvStep DEF PromptInv
<1>2. CASE pc' # "cleanup"
  BY <1>1, <1>2 DEF PromptInv, PollsInv
<1>3. CASE UNCHANGED vars
  BY <1>1, <1>3 DEF vars, taskVars, cleanVars, leftVars, PromptInv, PollsInv, PollsOf, Own,
     QueriesOf, OwnIn, Orphaned, Tag
<1>4. StartAttempt \/ Submit \/ CompleteStep \/ RefuseResult \/ FailCleanup \/ Crash
      \/ Publish \/ Rerun \/ NextRun => pc' # "cleanup"
  BY DEF StartAttempt, Submit, CompleteStep, NextStep, RefuseResult, FailCleanup, Crash,
     Publish, Rerun, NextRun, Uncertain, Retry
<1>. QED  BY <1>1, <1>2, <1>3, <1>4, EndStartsPolls, PollCounts, TrinoKeepsPolls,
          OrphanKeepsPolls DEF Next, TaskStep, PromptInv

(* cancel_and_wait of a dbt that has stopped reaches its deadline only     *)
(* over a query that took longer than CancelPolls to end, if its polls     *)
(* suffice for a late arrival, the cancellation and the quiet window, one  *)
(* after the other.                                                        *)
THEOREM DeadlineIsFair ==
    ASSUME ArrivalPolls + 1 + CancelPolls + QuietPolls <= MaxPolls
    PROVE  Spec => []DeadlineSparesPromptQueries
<1>1. Init => PromptInv
  BY SlotInvInit DEF Init, PromptInv, PollsInv
<1>2. PromptInv /\ [Next]_vars => PromptInv'
  BY PollsInvStep
<1>3. PromptInv => DeadlineSparesPromptQueries
  <2> SUFFICES ASSUME PromptInv, pc = "cleanup", polls = MaxPolls, ~ overdue,
                      ~ Orphaned(Tag)
               PROVE  FALSE
    BY DEF DeadlineSparesPromptQueries
  <2>1. /\ polls \in Nat /\ quiet \in Nat /\ waited \in Nat /\ queries \subseteq Query
        /\ ArrivalPolls \in Nat /\ QuietPolls \in Nat /\ CancelPolls \in Nat
        /\ ArrivalPolls < QuietPolls
    BY PollsTypes DEF PromptInv, SlotInv
  <2>2. PollsOf
    BY DEF PromptInv, PollsInv
  <2>3. Own = {} \/ OwnIn("sent") \/ OwnIn("active") \/ OwnIn("cancelled")
    BY <2>1, QueryFields DEF OwnIn, Own, QueriesOf
  <2>. QED  BY <2>1, <2>2, <2>3 DEF PollsOf
<1>. QED  BY <1>1, <1>2, <1>3, PTL DEF Spec
=============================================================================
