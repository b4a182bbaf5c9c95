# Verification of the industrial energy data pipelines

TLA+ models of the batch pipeline of this repository, checked with TLC on small
instances, with theorems about them checked by TLAPS for every value of the
constants. The models are written from the Python code, one action per request
a task sends or per pass of an algorithm. `PROJECT.json` maps every definition to
the lines it models and lists runs, mutants, theorems, findings and hazards.

- [1. The system](#1-the-system)
- [2. Modules and what they correspond to](#2-modules-and-what-they-correspond-to)
- [3. Runs](#3-runs)
- [4. Fairness](#4-fairness)
- [5. Proofs](#5-proofs)
- [6. Where the code and its documents disagree](#6-where-the-code-and-its-documents-disagree)
- [7. Abstractions](#7-abstractions)
- [8. Not modelled](#8-not-modelled)
- [9. Plan](#9-plan)

## 1. The system

An Airflow DAG processes one date range at a time. Its tasks generate synthetic
source files, save them in R2, validate them, load accepted rows into Iceberg
through Trino, reconcile counts, declare the range covered, build and test a
dimensional mart with dbt (several checkpoints), publish the mart to ClickHouse,
and remove old ClickHouse versions. An API answers clients from ClickHouse.

| Component | State it keeps | Operations | What makes it correct |
|---|---|---|---|
| Row validation (`validation.py`) | issues and replay marks on the rows of one bundle | passes over the bundle, quarantine | accepted rows are closed under references, free of overlapping periods, one payload per revision, and every event has one context |
| Raw landing (`storage.py`, `land_raw_bundle`) | immutable R2 objects | conditional PUT, compare with what is there | a retry writes the same bytes |
| Iceberg loader (`trino_loader.py`) | validated tables | read identities, compare, insert-only MERGE, confirm, count | one row per identity, replays are no conflicts, counts are honest |
| Reconciliation and coverage (`workflow.py`, `coverage_control.py`) | summaries in R2, `batch_run_coverage` | compare counts, declare | a range is declared only over tables that hold it all |
| dbt checkpoints (`dbt_build.py`) | the process group of dbt, its Trino queries, the mart | run dbt, stop it, cancel and wait | apart from attempts whose end nobody confirmed, no query of one attempt runs beside another; the tested mart is the published one |
| ClickHouse publisher (`clickhouse_publisher.py`) | candidate rows, audit rows, ready markers | clone, delete, insert, validate, audit, mark | a visible version is complete; an exact retry is reused |
| ClickHouse retention (`clickhouse_retention.py`) | the same tables | list, drop markers, drop rows | the newest versions stay, what it leaves is only them |
| API repository (`clickhouse_repository.py`) | the version a client has pinned | resolve a version, read its rows | a client never sees part of a version |
| Daily schedule (`daily_schedule.py`, daily DAG) | daily runs with their requests, the queue of the manual DAG | choose the date, trigger the manual DAG, wait, judge lateness | one complete date per interval, also when clocks change; success means on time; a miss shows |
| Knowledge history (`transformations/`) | histories of revisions, windows of results | SQL over accepted revisions | every cutoff gets what was known then; a later build rewrites nothing; the open end is the current fact |
| Generator, API layer, web application, infrastructure | | | see section 8 |

The components meet in five places. Airflow's XCom results order the tasks of
one run. The manual DAG has one active run, for which daily and manual requests
queue. The one-slot pool `iceberg_writer` keeps load, coverage, dbt, publish and
cleanup tasks apart. The tables in Iceberg and ClickHouse are shared by every
run. A request that its client has given up on (a timeout, a lost answer, a dead
worker) may still be applied: it is the one actor that respects no pool.

The hard behaviours follow from these: a task fails between any two
requests and is started again from its first one; a failed request may have been
applied, or be applied later; an operator clears tasks of a run that has gone
further; the host clock steps back between publications; the disposable ClickHouse
copy loses rows; a client's two queries have a cleanup in between; three time
limits race a child run that waits in a queue; corrections arrive late, out of
order, and from several sources. The list of hazards with lines is in
`PROJECT.json`.

## 2. Modules and what they correspond to

Arrows read "extends".

    ServingSystem -> ServingRetention -> ServingPublisher -> ServingStore
                  -> ServingReader    -> ServingStore
    IngestionSystem -> RunCoverage -> SourceLoad -> IngestionStore
    DbtCheckpoints
    BundleValidation
    KnowledgeHistory -> SourceHistory
    DailySchedule
    ServingVersions, SourceRevisions      abstract specifications
    VersionProofs -> LoadProofs -> ServingProofs -> ServingSystem
    IngestionProofs, DbtProofs, ValidationProofs, KnowledgeProofs, DailyProofs
    MCServing, MCIngestion, MCDbt, MCValidation, MCKnowledge, MCDaily

### Serving

`ServingStore` holds the four ClickHouse tables: `rows` (the current and the history
table), `summaries` (the audit rows), `markers` (the ready markers), and the
requests still in flight. A `Write` is one SQL statement; `Apply` says what it
does. `Perform` lets a request succeed; `GiveUp` lets it fail: not applied, applied
with its answer lost, or kept in `inFlight` to be applied by `ApplyLate`.
`ServingPublisher` is `ServingPublisher.publish`: `pubPc` names its next request,
its locals (`pubBase`, `pubSource`, the plan of keys to delete and rows to insert)
are the ones the method holds. A reuse is a lookup, a read-back of each dataset and
the read of the audit rows (`FindReady`, `MatchStored`, `ReuseReady`), and the search for
a base is split alike (`FindBase`, `ReadBaseCurrent`, `LoadIncrementally`), so damage and
late requests fall between them. The dbt checkpoints before it are `BuildCurrent`,
`BuildHistory` and `TestMart`, each with the pool to itself; a cleared publish task of an
older run may meet a mart that is half built. `ServingRetention` is
`cleanup(apply=True)`. `ServingReader` has clients that resolve a version, with
any request, pinned or the latest, in one step and read its rows in another, and
the readiness check. `ServingSystem` composes them with the pool, adds `Damage`, the loss of
rows behind the back of the code, and notes what others changed of a version after
the task read that piece to reuse it (`changed`).
`ServingVersions` is what readers are promised: complete immutable versions that
appear and disappear in one step, and disappear only when `Keep` newer exist.

### Ingestion

`IngestionStore` holds the validated tables, coverage, R2 objects and requests in
flight. `SourceLoad` has `land_raw_bundle` and `load_records`: for each chunk a
`check` of what is stored, a `merge` of what is not, a `confirm` when `updateCount`
does not account for all. `RunCoverage` has `reconcile_run` and the publication of
coverage. `IngestionSystem` adds DAG runs, failing tasks, and an operator who
clears tasks. `SourceRevisions` is the promise: revisions are recorded once and
never change, and a bundle is declared only when all of it is recorded.

### dbt checkpoints

`DbtCheckpoints` has the task of one checkpoint after another. dbt (external)
sends one query at a time; a query is `sent`, `active` or `cancelled` and carries the
tag of its attempt. `Poll` is one iteration of `cancel_and_wait`: list the tagged
queries, DELETE those not yet cancelled, or count a quiet poll; `waited` counts polls
since its query was sent, began or was cancelled. `FailCleanup` is the deadline or
an error and puts the attempt among the `unconfirmed`. `Crash` is a worker that dies;
its attempt, like one whose dbt survives SIGKILL, is among the `orphans`, and its dbt may
send the queries it has left (`OrphanSubmits`). `StartAttempt` has no guard but its
turn, as `run_dbt_command_step` looks for nothing of earlier attempts. `Stray` says which
attempts may therefore write beside the holder of the slot; the properties name them as
the exception and say that there is no other. `mart[r]` is the attempt that wrote
relation `r` last.

### Validation

`BundleValidation` has one action per pass of `_validate_candidates`, in the order
the code runs them, and `BuildResult`. `rows` never changes; `flawed` and
`replays` are the issues and replay marks. `Current` is
`_current_episode_candidates`, which counts quarantined revisions too. A revision
is a number and whether it is written as a decimal: 1 and 1.0 are both integers to
JSON Schema and to `int()` (`validation.py:558`), but two identities to `str()` (350-354).

### Knowledge history

`SourceHistory` is the two macros: of the eligible revisions of an entity one per
clock (`OnePerClock`), of those the ones higher than all known before
(`RecordBreakers`), of capacity assessments no provisional one after an official one
(`Transitions`). `InForce(H, t)` is what `known_from_utc <= t < known_to_utc` selects.
`Current` is the `int_current` models, which never look at clocks, and `NewestKnown`
the definition both are compared with. `KnowledgeHistory` loads bundles and builds:
`ResultRows` is the join of one interval at one time, a row for each combination of
what it joins; `ChangePoints` are the points at which the build evaluates it.
`HistoryFact` leaves one row per point after the folding of rows equal to the row
before; `WindowStarts` are the windows. `TestsPass` is the tests of the facts that rows can
fail: current keys and keys of folded windows are unique (`OneCurrentRow`,
`OneRowPerWindow`), and the last window is the current row (`LastIsCurrent`). `mart` holds the
rows behind the last build that passed.

### Daily schedule

`DailySchedule` has one daily run per calendar day and one an operator starts by
hand. `Midnight` gives the calendar, in units of five minutes, so a day may have 23,
24 or 25 hours. `ChooseCompletedOperatingDate`, `RunExistingPipeline`, `SeeChild` and
`CheckFinishedOnTime` are the tasks; the trigger task defers and polls its child.
`WaitLimit`, `RunLimit` and `ChildLimit` are the three time limits. Children are runs
of the manual DAG, one at a time, the ones of an operator among them. An operator
may clear a daily run, only its check, or a child; `Stop` and `Restart` are Airflow's.

## 3. Runs

| Run | Module | Instance | States (distinct) | What it shows |
|---|---|---|---|---|
| `tasks` | MCServing | 2 runs, 3 attempts, 2 marts of 2 keys, 1 failing request, clock steps back, operator clears, one client | 2.1 M | every visible version is complete and audited, the incremental load and its audit are exact, retries reuse, cleanup leaves only what it keeps, the newest by time stay, the client never sees part of a version and is refused one only after `Keep` newer ones; the tasks implement `ServingVersions` |
| `hidden` | MCServing | as `tasks`, without failures and clock steps | violation | section 6 |
| `live` | MCServing | 2 runs, 5 attempts, 3 marts, one failing request that may be applied late, one row, audit or marker lost | 201 k | every tested run is published and cleaned up after, and what its task reports is a stored copy of the tested mart but for what others changed after it was read back |
| `retries` | MCIngestion | 2 runs over 5 bundles, 2 failing requests | 113 k | one row per identity, honest counts, no false conflict, refinement of `SourceRevisions`, and every run that contradicts nothing is covered |
| `overlap` | MCIngestion | 2 runs over 3 bundles, one clear, MERGE that does not see later commits | 342 k | duplicates may enter the tables, but no range is declared over missing or contradictory rows |
| `replay` | MCIngestion | one run, one clear | violation | section 6 |
| `checkpoints` | MCDbt | 2 runs of 2 checkpoints, 2 tries, one clear, one attempt left behind | 716 k | apart from unconfirmed and orphaned attempts the writer slot is exclusive, the mart stands still from tests to publication and belongs to the run; a prompt cancellation meets the deadline, every run ends |
| `validation` | MCValidation | 9 rows, one may be missing, up to 2 of 38 added | 54 k | the five properties of section 1 |
| `orders` | MCValidation | one row added | violation | section 6 |
| `history` | MCKnowledge | any of 8 bundles in any order, builds between them, all cutoffs | 4 k | histories are record highs, windows answer every cutoff, the open end is the current fact, no hindsight |
| `official` | MCKnowledge | up to 18 assessments of one place and time | violation | section 6 |
| `daily` | MCDaily | 2 noons, a 23- and a 25-hour day, one manual run, one disturbance | 175 k | success means on time, no day is refused, prompt children are awaited, misses show, children end |

Why the bounds are enough for the cases to occur:

- Serving. Two keys and two marts give inserts, updates and deletions; the third
  of `live` has an empty dataset. `Keep = 2` is the least the code accepts; three
  attempts, of two runs and a clear, let the third version retire the first, and with
  one failing request two of them are tries of one task. `DeleteBatchSize = 1`
  makes a deletion of two ids or keys two requests.
- Ingestion. Bundles share rows (`b1`, `b2`), repeat a row inside a chunk and across
  chunks, contradict another bundle (`b3`) or themselves (`b4`), and regenerate the
  same raw file (`b5`). `ChunkSize = 2` splits every bundle of three rows. Two
  failures allow a late MERGE beside a failing retry of the same task.
- dbt. `QuietPolls = 2` and `ArrivalPolls = 1` are the least numbers with a request
  in flight during a quiet poll (the code waits for five, 0.5 s apart); `MaxPolls = 5` lets a prompt cancellation finish.
  One checkpoint builds a table, the other tests it. dbt has one query at a time
  and a write touches one relation, so more of either repeats the case; two runs with two
  tries, one clear and one attempt left behind let every kind of stray query
  meet a retry, a later checkpoint and the next run.
- Knowledge history. The eight bundles hold corrections known early and late, two
  orders for one slot, one corrected too late and one moved to another slot, a
  customer suspended and reinstated by a lower revision approved later, terms that
  end, continue, move or overlap, and a change of customer. Builds that fail the parity
  test, duplicates that are folded away and windows left stale all occur. Cutoffs are all
  times up to the last clock, so each lies before, at or between change points. A
  build may follow any load.
- Daily schedule. The first interval lasts 23 hours and the second 25. Time moves to
  the next instant of interest: noon, an hour later, 16:00, five minutes later,
  five hours later, and the end of every limit that runs. One disturbance is enough
  for each hazard listed; two noons, for a daily run behind the one before it.
- Validation. Two added rows make three copies of one revision, a superseding
  row with an overlap, and a lost parent of a lost parent; a row of the base is
  missing in six of the seven kernels.

Deadlock is not checked: every system here stops when its bounded runs are done
or Airflow's retries are used up, and the validation stops at its result (a history
can always load again, so there it is checked). `tasks` and `live` use separate bounds
because the product of clients, clock steps, late writes and damage exceeds what TLC
explores in minutes. Liveness does not depend on clients, which only read.

The type invariants of serving, dbt, history and daily, the inductive invariants
of section 5, and `ResultStands`, `OneRequestPerDate` and `ConflictIsReported` were
checked with TLC while the proofs were written, on the instances above, and are not
in a run: TLAPS proves them.

Every property has a mutant in `PROJECT.json`: a plausible bug in a mapped
definition under which TLC finds that property violated. The definitions marked
`wrong` in the modules are these mutants; no specification uses them.

## 4. Fairness

- `live`: weak fairness of the started publish and cleanup tasks and of starting
  them. Airflow runs a started task to its end and retries it (`retries=2`), and
  `MaxFaults = 1` keeps failures within that. A dead request need never be applied.
  A run is excused when a later one supersedes it or when the audit rows of the
  version it would reuse are lost: the code then fails on every retry (a hazard).
- `retries`: weak fairness of the next task of the active run. Triggering, clearing,
  failing and late application are never obliged. The default is one retry per
  task; with `MaxFaults = 2` one task may fail twice, which the model allows and
  Airflow answers with a manual clear. `RunIsCovered` therefore says: if the tasks
  are started again, and for a run whose rows contradict no run so far.
- `checkpoints`: the task goes on, at the latest when the limit of the subprocess or
  the cleanup deadline passes, and requests arrive. Trino need not end any query, and
  no query left behind is waited for.
- `daily`: time passes, a stopped Airflow is started again, and its scheduler starts
  due runs, runs the daily tasks and enforces limits. Nothing obliges a child to
  succeed or to end before its limit. Between two ticks the scheduler does all that
  is due (`Overdue` blocks `Tick`), as it looks every few seconds and a tick is five
  minutes or more; only the check may be late, since a worker must be free for it.

## 5. Proofs

`tlapm` checks every theorem from the assumptions on the constants alone, and from
those a theorem names.

**Serving** (`ServingProofs`, `LoadProofs`, `VersionProofs`). Three theorems hold with
damage and late writes, one with damage; the others assume `Quiet`: `LateWrites` is
FALSE and `MaxDamage` is 0. All hold for every number of runs, attempts, faults, clients, clears,
batch sizes and `Keep`.

- `TypeCorrect`, and `ReportsAreTested`: `ReportedVersionIsTestedMart`. `ReadyInv` is
  false here: a table that loses rows, or a marker applied after cleanup, leaves
  incomplete versions. `CertifiedInv` says instead that nobody else can name the
  candidate: every marker, row and request in flight, and every id cleanup
  has listed, belongs to an attempt handed out before, and the candidate's id is the
  last one handed out (`CandidateApart`). So what was validated cannot change before
  its marker. A reused version is looked up and read back by several requests; the
  theorem allows what others change of a piece after the request that read it, no
  more. Damage is the loss of rows of published versions, which a candidate is not yet.
- `VersionsAppearWhole`, by the same invariant and `AuditPrepared`: a marker appears over
  the tested mart and its audit, or it is an INSERT given up on and applied late.
- `VersionsStayWhole`, for `LateWrites = FALSE` and any damage: nothing but damage changes
  a version while it is visible. Cleanup deletes rows only of ids it has seen
  unmarked after it listed them (`CleanupApart`), and damage never adds a marker. The two
  say what is left of `ReadyComplete` when the copy loses rows: every incomplete
  version was complete when it appeared and was damaged since. With late writes an
  INSERT of a marker may fall between cleanup's list and its deletions.
- `ReadyCorrect`: `[]ReadyComplete`. It is not inductive: the marker is written several
  requests after the validation, and cleanup deletes rows some requests after it
  listed the versions. `ReadyInv` (`ReadyInvariant`) adds that attempt ids are fresh
  (`FreshAttempts`), that what was validated stays so up to the marker
  (`CandidateReady`), that cleanup still knows every marker (`CleanupSafe`), and that
  the pool keeps the two apart (`OneWriter`).
- `LoadIsExact`: the invariant says at each request of the load which rows of the base
  are still in the clone and which of the plan are already inserted; deleting the
  changed keys and inserting the replacements gives the source (`PlanIsExact`).
- `AuditIsExact`: rows have one per key in every dataset, so the parts of a plan are
  disjoint and their cardinalities add up; the counts are kept until the marker.
- `ReadersSeeWholeVersions`: whatever a client resolved was ready once, and the rows of
  a version that was ready are either whole or gone.
- `NewestVersionsStay` and `OnlyOvertakenVanish`: cleanup retires what it did not see
  among the `Keep` newest by publication time; with fewer than `Keep` newer versions
  ever published a version is always among them, however the clock stepped.
- `RetriesReuse`: between the lookup of a ready version and the marker nobody else
  writes one, so two markers of one run and mart cannot appear.
- `CleanupIsComplete`: with times that differ there are at most `Keep` newest
  (`FewNewest`), and the rows cleanup does not list belong to versions it keeps.
- `TasksImplementVersions`: the refinement of `ServingVersions`. The marker INSERT is
  the abstract publication, the deletion of markers the abstract retirement, and
  every other request a stutter; the guard of the retirement is `EnoughNewest`.

**Ingestion** (`IngestionProofs`). `CoverageIsHonest` and `CoverageIsConsistent`
hold for any bundles, chunk size, faults, late requests and clears, whether or not
a late MERGE sees what was committed since. The invariant `CoverInv` collects every
*claim* that some result rests on: rows a running load has seen, loads without
conflicts, reconciled bundles, coverage in flight and in the table. Claimed
records are stored and agree. Tables only grow, so a claim once true stays true,
and each step makes a claim only from what it has just read.

With `AtomicMerge`, `NoDuplicateRows`: a MERGE inserts only identities the table does
not have, late or not. `RecordIsImplemented` is the refinement of `SourceRevisions`,
where a late MERGE is the abstract recording and a coverage row the declaration; it
needs the claims (a declared bundle is recorded in full), one row per identity, and
that every row was brought by a bundle that landed (`BroughtInv`).

What the tasks count and refuse rests on `TypeInv`, which adds to `IngestionTypes`
(`[]TypeOK`) the shape of every request and object, and which results each point of
a task has: where a task reads the one result of another, there is one. From it, with
no further assumption:

- `LoadCountsAddUp` (`CountsInv`): the lines a load has passed are the sum of its three
  counts, and while a chunk is merged, of these and the occurrences of its new
  records. The parts of a chunk are disjoint and their sizes add up, with repeated
  lines and with an `updateCount` that is smaller than the chunk or left out.
- `OnlyContradictionsConflict` (`ConflictsInv`): every row in a table or on its way is
  of a bundle that some run so far was started with, so what a load takes for a
  contradiction is one between two of these bundles, or of one with itself.
- `InsertsAreClaimedOnce` (`InsertInv`): every finished load, and the one in progress, can
  be given rows that it alone claims. What a chunk may insert was absent when it
  was read, so no claim is about it yet: its MERGE, or what `confirm` finds after a lost
  count, can be claimed anew.

With `AtomicMerge`, `ReplayInvariant` says what a repeated request would write: evidence
quotes the time of its raw object, a coverage row the time of its evidence and the
count of its bundle, and there is one object per key. `RetriesAreAccepted`: whatever fails, is
late or is cleared, a task refuses only contradicting bundles and summaries
that differ; `OneCoverageRowPerBundle` follows too. Without `AtomicMerge` it fails: two MERGEs
that miss each other leave duplicate rows, which a replay refuses. `SummariesAgree`: with
`MaxClears = 0` the summaries never differ, as the runs keep their one load and quote its
counts; finding 1 of section 6 is the counterexample with one clear, so this is
as far as the documented promise goes. Together they give `ReplaysAreAccepted`: with
both assumptions, `[]ReplaysAreNotConflicts`.

**dbt** (`DbtProofs`). `SlotStaysExclusive` and `TestedMartIsFrozen` hold if requests
arrive within the quiet window (`ArrivalPolls < QuietPolls`, assumed of the
deployment in `CheckpointConstants`), for any number of attempts left behind.
`SlotInv` says whose queries Trino may run: the running attempt's, those of attempts
not brought to an end, and those of unconfirmed ones, which within their own DAG run are
the last attempt (`OnlyKnown`). That a confirmed cleanup leaves nothing rests on
`InFlightIsOld`: a request in flight during cleanup has waited at least as many polls as
were quiet; at the end of the window it would be older than a request can be. With it,
`PublishedMartBelongs` (every relation is built by some checkpoint, or a mart could
keep one of an earlier run) and `DeadlineIsFair`, which says what the configured
deadline must leave room for: a request to arrive, one poll to see it, a prompt
cancellation, and the quiet window. `PollsInv` bounds the polls used so far by the
polls that the one query there can be has waited.

**Validation** (`ValidationProofs`). For every bundle: `TypeCorrect`,
`ReferencesAlwaysClosed`, `OnePayloadAccepted`, `PeriodsAlwaysDisjoint` and
`ContextAlwaysCertain`. The invariant says which fact each pass establishes
(`PassInv`), and one lemma per pass that later passes keep it. Facts about all rows
of a set survive because passes only take valid rows away (`MarkKeeps`); closure and
context, which need rows to be *there*, survive because the passes after the second
reference check take away only events (`CertainKept`).

**Knowledge history** (`KnowledgeProofs`). For any rows, clocks, bundles and orders of
loading, from `HistoryConstants` and `BundleConstants` (events are keyed by their
place, as the validation ensures): `HistoriesAreRecordHighs`, `OfficialAssessmentsStand`,
`ResultsChangeAtChangePoints`, `WindowsAnswerEveryCutoff`, `TerminalIsCurrent` and
`HistoriesHaveNoHindsight`. The inductive part is small (`RowsInv`: what is in the mart
was loaded, one row per revision). The rest is about sets of revisions and
a least or greatest clock, which `WellFoundedInduction` provides: a row is
in force unless a record breaker follows it; between two change points no row that
an interval joins comes or goes, unless an order or party moved away from it
(`MovedAway`, the exception both window properties name; section 6); hence the window
before a cutoff has a row of its result. `RowsInv` also says that the rows of the mart
passed their tests, from which a folded duplicate is a row of the point before.

**Daily schedule** (`DailyProofs`). For any calendar of days of 23 to 25 hours, any
number of days, manual runs, disturbances and instants: `SuccessMeansOnTime`,
`DatesAreAskedOnce`, `ConflictsNeverSucceed` and `EveryDayIsAccepted`. `DailyInv` says for each
daily run that its request is the one the calendar gives, that a run that checks
has seen its child succeed, and for each date that a child that succeeded has its
first success recorded and not in the future. `WaitsCoverTheChildLimit` proves
`PromptChildrenAreAwaited` from `PromptInv`: until the first stop, clear or run by hand,
no running child is past its limit, as time does not pass a due timeout. A wait
lasts an hour longer than a child may run; so when it ends, a child that still runs
started over an hour after its trigger.

Only model-checked: liveness (`TestedRunIsPublished`, `PublishedRunIsCleaned`,
`RunIsCovered`, `RunEnds`, `MissIsVisible`, `ChildrenEnd`), which is out of the prover's
reach. Every other property of a passing run is a theorem.

## 6. Where the code and its documents disagree

Four runs find a violation; each quotes the document in `PROJECT.json`.

1. `replay`: the reconciliation key names bundle and DAG run, its content the counts
   of one load. Clearing the load task of a reconciled run makes every further
   attempt of the reconciliation fail, where
   `bounded-airflow-r2-iceberg-pipeline.md:221` calls the replay safe.
2. `orders`: an excess order is accepted although the commitment it was checked
   against is quarantined by the same loop.
3. `official`: the greatest approved final capacity assessment is not always the
   official one, as `09-phase-2-physical-source-contracts.md:942` says: a provisional
   revision that is dropped itself still keeps a later final one with a lower number
   out of the history.
4. `hidden`: the API resolves a version and reads its rows in two queries. When
   cleanup hides the version in between, the client gets an empty success that names
   the version, where `apps/api/README.md:110` promises `data_version_unavailable`.
   `NeverPartial` says what the code does keep: all rows or none, and none only of a
   version that `Keep` newer ones have overtaken.

More were met while modelling and have no run of their own. The models contain
the behaviour; where a constant decides, it is named:

- One row whose `source_revision` is no number stops the validation of its whole
  bundle (`validation.py:558`), where the docstring (1351) speaks of quarantining rows.
- When the copy kept of a repeated row is quarantined by a later pass, its other
  copies are still reported as replays, of an accepted line 0 (`validation.py:1044`);
  `KeptLine` has that case, and `OnePayloadPerRevision` is about the others.
- Revisions 1 and 1.0 of one record are one number, but two identities: both
  may be accepted, with different payloads (`decimal` in `BundleValidation`).
- Two versions of one owner whose knowledge periods overlapped at a past point give
  two rows there, which no correction takes back. The uniqueness test fails on every
  later build, unless one of the two equals the row before and is folded away; then
  the build passes and the history shows the other one.
- A higher revision that names another delivery slot (order line) or another party
  (customer or site version) ends the row before it without a change point for the
  interval that row was in, whose window stays as it was until its next change
  point, against DBT-006 (`10-phase-2-dbt-physical-model-workshop.md:242-249`). No rule
  of the validation forbids such a revision. If no later change point exists, the
  history no longer ends in the current row, and the parity test
  (`assert_history_terminal_matches_current.sql`) fails every build until another revision
  of that interval arrives. `history` reaches both; `WindowsReproduceCutoffs` names the
  case as its exception (`MovedAway`).
- When the answer to the marker INSERT is lost, the task fails although the API
  already serves the new version, where
  `clickhouse-frontend-serving-layer.md:164` says that a failed publication leaves the
  previous one in place. The retry recognises and reuses it (`ExactRetryReuses`).
- With `LateWrites = TRUE` an abandoned marker INSERT may be applied after cleanup
  removed its rows: an empty version becomes visible. With one late request it is
  never the newest; with two it can be. `ReadyComplete` is therefore claimed for
  `LateWrites = FALSE` only; liveness is checked with late writes.
- After an unconfirmed cleanup the task fails without automatic retry, but the next
  DAG run may start, and nothing in it looks for leftovers: the old query may run
  beside its checkpoints and write into its mart. After the death of a worker, which
  runs no cleanup, even the automatic retry may overlap the query left behind.
  `orchestration/README.md:128-130` says that an unconfirmed query cannot overlap the next
  writer; that holds for the retry of an unconfirmed attempt and for nothing else.
  `checkpoints` reaches both overlaps; its properties name them as exceptions (`Stray`).

## 7. Abstractions

- Content. A serving row is a key and a value; profile hashes are sets of rows; a
  source record is an identity and a payload. SHA-256 is taken not to collide.
- Number of like things. The nine validated tables are one (an identity includes
  its dataset); raw file, envelope and manifest are one object of each kind;
  ClickHouse has the current and the history dataset.
- Reads. The publisher reads the two marts, and later the two datasets of its
  candidate, in one step each; no other writer of either has the pool then. The count
  query of `get_intervals` (566-575), a third one under the same visibility rule,
  is left out.
- Engines. Trino, Iceberg, R2, ClickHouse and dbt are external: what a request does
  is taken from the statement the code sends. `AtomicMerge = TRUE` assumes that a
  MERGE sees what was committed before it; `overlap` and the ingestion theorems do
  not. ClickHouse applies a synchronous mutation at once when its request succeeds.
- Airflow. `max_active_runs = 1`, the pool, and no zombie tasks beside a retry,
  except in `DbtCheckpoints`, where a worker may die and leave its query behind.
- Validation. JSON and JSON Schema are a row's `form`; decimals, alignment and
  capacity arithmetic are its `sound` flag; status fields are `active` and
  `operative`; times count half-hours. Which issue code a row gets is left out:
  only whether it has one decides anything.
- Knowledge history. A row stands for its payload: two results are equal when the
  same rows are joined. Slots of a master row are the intervals its effective period
  covers while it is active. Customer and site are both parties. The filter of current
  boundaries on the register type never matters, as the validation refuses other types.
  `assert_one_active_delivery_point_per_site_interval` is left out: it can only make more
  builds fail. One source system;
  the publication and approval times are the row's two clocks. Coverage is a set of
  slots, and loading refuses contradicting rows as `SourceLoad` does.
- Daily schedule. Airflow is external: its cron timetable without catchup, the queue
  of `max_active_runs = 1`, deferred tasks that survive a stop of Airflow, running
  tasks that fail with it (a run between two of its tasks goes on), limits enforced within a unit of five minutes. Clocks change in the
  early morning, so afternoons are counted back from the next midnight. What the
  tasks of a child do is in the other modules.
- Bounds. `MaxRuns`, `MaxAttempts`, `MaxFaults`, `MaxDamage`, `MaxClears`, `MaxReruns`,
  `MaxTries` and `MaxPolls` bound TLC's behaviours; the theorems hold for all values.

## 8. Not modelled

| Part | Why |
|---|---|
| Synthetic generator, run planning | deterministic functions of a request; their output stands as bundles |
| Interval calculations and marts | row-wise SQL arithmetic; a mart is the attempt that wrote it |
| API service, filters, pagination, authentication, logging, operational check | functions of one query or request, without shared state |
| Web application | rendering; its pinned version is `pin` in `ServingReader` |
| Infrastructure, contracts, rebuild script | configuration and schemas; what the code relies on is in the external definitions |
| Stream ingestion, AI evaluations | placeholders |

A writer started from a shell outside the pool is not modelled; the 180 minutes that
may end a manual run in any of its tasks are a failing task in the models of those
tasks, and a limit in `DailySchedule`. A validation attempt that stops while it
replaces its nineteen output files leaves a mixture that nobody reads: the next
attempt writes all of them again before any is uploaded.

Two hazards have no property. A row whose revision is no number stops the validation
(`Fail` in `BundleValidation`): nothing prevents it. A valid older revision is accepted
and becomes current downstream while the newest one is quarantined: no line of the
repository says which of the two is meant, so `EventsHaveOneContext` speaks of the
revision the validator counts, and `HighestKnownInForce` of the rows dbt sees.

## 9. Plan

Done: serving with its readers, ingestion, dbt checkpoints, validation, the knowledge
history and the daily schedule; each with an inductive invariant and its proof; both
refinements, checked and proved. Left:

1. API rules: the status predicates and pagination over a version. They are functions
   of one query; a model would compare page sequences with the pinned version.
2. Run planning (`models.py`): pure checks, worth a reference definition for the dates
   and hashes of a plan.
3. Proofs: what damage leaves of the theorems about readers, retries and cleanup, as
   `VersionsStayWhole` says it for the versions themselves.
4. Runs answer distinct questions. A new one replaces or joins an existing one when
   both ask about the same instance, as the invariants of `tasks` do.
