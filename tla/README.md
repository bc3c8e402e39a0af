# BinnAgent: TLA+ models and proofs

BinnAgent is an English-learning backend: FastAPI handlers and background
workers around one PostgreSQL database, with language models as external
services. Its hard behaviour is transactional: handlers read, await, and write;
several sessions touch the same rows; workers crash; deliveries repeat. The
modules here model that control and abstract the data (texts, prompts, scores).
Paths are relative to the repository; the Python packages are under
`src/src/`.

## 1. The system

| component | state | operations | hard behaviour | what makes it correct |
|---|---|---|---|---|
| Exercise pool and worker (`knowledge/exercise_pool.py`, `exercise_worker.py`) | published questions of a unit, `exercise_generation_runs` | request, enqueue, claim, generate, publish, archive, follow up, fail, retry | leases, crashes, concurrent enqueues, deletion under a worker | one active run per key, exclusive claims, every run settles once, refilling reaches the target |
| Learning evidence (`mastery/engine.py`, `adaptive/correction.py`, `tools/learning_tools.py`) | evidence rows, one knowledge state and one FSRS row per learner and point | record, block, replay, revoke | unlocked read and write of the state, correction racing a recorder | an attempt counts once, a state is the fold of its valid evidence |
| Daily lesson (`learning/orchestrator.py`, `graph/checkpoint_store.py`) | episodes, checkpoints | start, wait, resume, grade, verify, complete, abandon | nothing is locked before it is read: two answers to one checkpoint, abandonment during grading | after a recorded answer no new one is graded, what is graded waits for nothing |
| Chat (`api/chat.py`) | threads, numbered messages, summary, memories | send, stream, side effects | turns interleave, side effects fail alone | questions directly before their answers, side effects only of committed turns |
| Expression lab (`expression_lab/`) | sessions, actions, attempts | generate, retry, regenerate a block, act, attempt, complete, delete | background generation against completion, savepoints, two lock orders | an action takes effect once and stays applied, a generating session is attended |
| Group learning (`group_learning/`, `api/group_learning.py`) | sources, messages, signals, cursor and import summary | synchronise with Feishu, answer help, import, draft, accept, dismiss, clean up | overlapping and failing syncs that write in the chat, double acceptance | a message counts once, none is lost, one help request is answered once |
| Vocabulary practice (`api/vocabulary_learning.py`, `vocabulary/learning.py`) | sessions, items, attempts | submit, next, complete | retried submissions, unlocked counters | an idempotency key counts once |
| Reading workshop (`api/reading.py`) | materials, attempts, reading states | save, generate, complete | the same text saved twice, retried completion | one material per text, one attempt per client attempt id |
| Registration (`api/email_verifications.py`) | challenges | request, confirm | failed guesses counted by requests that end in an error, resend cooldown | at most five guesses per code, one token per code |
| Textbook parsing and review (`knowledge/processor.py`, `review_queue.py`, `api/knowledge.py`) | sources, parser runs, review items, points, the gate's count | ingest, re-parse, review, delete | in-process background task with a failure session, deletion under it | the points are those of one completed run, nothing outlives a deletion |
| Tool catalog (`tools/catalog.py`) | bindings, revision | refresh, enable, execute | refresh during an execution, timeouts | an execution reports the binding it ran |
| Memory system (`memory/curator.py`, `api/memory.py`, `api/writing_phrases.py`) | events, error patterns, phrase masteries, episodes, claims about the learner | attempt at a phrase, reflect, delete a phrase, deny, correct or mark a claim as improved | reflections overlap and race the learner's corrections, a failed reflection leaves rows in the attempt's session | what the learner deleted stays so, and what was denied but for one race; an attempt is recorded whatever becomes of its reflection |
| Base dictionary, prompts, providers, recommendation, classroom, simulation, frontend | | | mostly pure data processing, external calls or user interface | not modelled, see section 7 |

The components meet in the database: handlers run in one session that
`get_db`/`get_db_session` commits after the handler returns and rolls back on
an exception; workers and background tasks open their own. Units of the
knowledge base own questions and generation runs (the exercise pool); graded
exercises, daily lessons, the learning tools and group learning all write
learning evidence or mastery; the expression lab and group learning share
signals.

## 2. Plan

| order | module | what | status |
|---|---|---|---|
| 1 | `RefillQueue`, `ExercisePool`, `MCExercisePool`, `ExercisePoolProofs`, `PoolAuditProofs` | the exercise pool, its abstract queue, the proofs | done |
| 2 | `EvidenceLedger`, `LearningEvidence`, `MCLearningEvidence`, `LearningEvidenceProofs` | recorders and corrections of one learner's state, transactions by statement; refines the ledger; the proofs | done |
| 3 | `ActionLedger`, `ExpressionLab`, `MCExpressionLab`, `ExpressionLabProofs` | one session with its actions, row locks, savepoints and background generations; refines the ledger; the proofs | done |
| 4 | `HttpRequests` and one module per service: `DailyLesson`, `VocabularyPractice`, `ChatThread`, `EmailVerification`, `GroupLearning`, `FeishuSync`, `TextbookReview`, `ReadingWorkshop`, `PhraseMemory`; `MCServices` | the request-driven services | done |
| 5 | `StudyProofs` (of `VocabularyPractice`, `ChatThread`, `TextbookReview`), `ServiceProofs` (of `EmailVerification`, `ReadingWorkshop`, `PhraseMemory`), `GroupLessonProofs` (of `DailyLesson`, `GroupLearning`, `FeishuSync`), `MCServicesProofs` (of their composition) | their proofs | done |
| 6 | the analysis status of group messages and its starvation; the scores and statuses of reflections | | open |

Composition: `ExercisePool` instantiates `RefillQueue`, `LearningEvidence`
instantiates `EvidenceLedger` and `ExpressionLab` instantiates `ActionLedger`,
each under a refinement mapping. The services extend
`HttpRequests` and are put side by side in `MCServices`.

All runs:

| run | module | expects | section |
|---|---|---|---|
| `PoolLease`, `PoolShortLease`, `PoolLiveness` | `MCExercisePool` | pass | 3 |
| `PoolPoison`, `PoolEnqueue` | `MCExercisePool` | a documented promise violated | 3 |
| `EvidenceRaces` | `MCLearningEvidence` | pass | 4 |
| `EvidenceCorrection` | `MCLearningEvidence` | a documented promise violated | 4 |
| `LabSession` | `MCExpressionLab` | pass | 5 |
| `LabRegenerated` | `MCExpressionLab` | a guard of the code contradicted by another path | 5 |
| `Services` | `MCServices` | pass | 6 |
| `HelpReplies` | `FeishuSync` | a documented promise violated | 6 |
| `EpisodeKeys` | `PhraseMemory` | a documented promise violated | 6 |

## 3. The exercise pool

### Modules

`ExercisePool` models the whole life of a refill. A step is one SQL statement
or one commit. The writes of an open transaction live in the actor's record
until it commits; reads see the last commit, as PostgreSQL's READ COMMITTED
does. Row locks (`RowLocked`), the wait of an insert for a transaction that may
still decide the unique index (`KeyInDoubt`) and the columns the ORM really
writes (`Flush`) are explicit, because the races hang on them.

| variable | code |
|---|---|
| `live`, `points` | `CurriculumNode` rows, the hash of a node's generation points |
| `pool` | counts of published, accepted questions by origin: curated (always eligible), legacy (generated, never reviewed), current (this generator) |
| `runs` | `ExerciseGenerationRun` rows: status, priority, requested, attempts, lease, accepted |
| `wk` | each worker's place in `run_exercise_worker_once`, the row its session loaded, its unflushed batch and follow-up |
| `rq` | each request's place in `get_exercise_pool` and its answer |
| `crashes` | kills so far, to bound them and to charge attempts to them |

| actions | code |
|---|---|
| `ReqLoad` `ReqNoEnqueue` `ReqWantsRefill` `ReqNotEnqueued` `ReqDedupe` `ReqInsert` `ReqCommit` `ReqAbort` | `get_exercise_pool`, `enqueue_exercise_refill`, `get_db` |
| `Claim` `Poll` | `claim_next_exercise_run` and its commit, the loop's sleep |
| `LoadRun` `GenerationFails` `WriteResult` | the work session up to the flush of the batch, the archive and the completed run |
| `CommitWork` `CommitWorkAndFollow` `FollowUpConflicts` | `maybe_enqueue_followup_refill` and the commit |
| `FailLoad` `FailWrite` | the failure session and `mark_exercise_run_failed`; its errors escape the loop |
| `Crash` `Restart` | a killed process, the compose file's restart policy |
| `LeaseExpires` `EditPoints` `DeleteNode` | time, editors and the parser, deletion with its cascades |

`RefillQueue` is the abstract promise: a job is submitted, then closed once, by
one delivery to its unit's stock (which may submit the next job in the same
instant) or by giving up; only removing the unit voids it. `ExercisePool`
implements it under the mapping `Job`/`JobState`: queued and running are open;
claims, leases, retries and crashes are stutters.

Definitions with an underscore suffix (`Claimable_LeaseIgnored`, ...) are
faulty variants. No action uses them; substituting one for the definition it
is named after makes the property listed with it in `PROJECT.json` fail, which
shows that the property watches that line of the code.

### Assumptions and bounds

- Question counts are in units of eight: the default 8, 16, 24 (ready,
  refill, target) become 1, 2, 3, and the minimum publishable batch is 1. In
  `PoolLease` the ready size is 2, above the smallest publishable batch, which
  the settings allow and without which the archive rule is never put to the
  test.
- `LeaseCoversWork` is the operating assumption of section 7 of
  `docs/architecture/exercise-generation-pool.md` (the lease is set to the longest
  normal generation; ownership tokens are future work): a lease does not
  expire while its claimant is alive. `PoolShortLease` drops it.
- `RunIds` bounds the rows ever inserted; a commit that would need another row
  is not taken. Three rows allow a run, its follow-up and a fresh request, two
  keys (points edited between enqueues), and a follow-up against a request.
  Two workers and two requests are the least that race. One unit suffices for
  safety because every operation concerns one unit, and the proofs are for
  any number.
- `MaxCrashes` is 1 (2 in `PoolPoison`).
- Symmetry over runs, workers and requests is used only in the safety runs.

### Runs

| run | checks | shows |
|---|---|---|
| `PoolLease` | `TypeOK` `ExclusiveClaim` `AttemptsPaidFor` `AuditMatchesPool` `LoopSurvives` `TerminalRunIsFinal` `ImplementsRefillQueue` | safety and refinement with a crash, edits, deletion, two requests, two workers (about 500 000 states) |
| `PoolShortLease` | `OneActiveRunPerKey` `AuditNeverOverstates` | what is left when two workers work on one run |
| `PoolLiveness` | `RunSettles` `PromiseKept` `PoolRefills` | runs settle, the 202 answer is honoured, the pool fills |
| `PoolPoison` | `AttemptsBounded` is violated | max attempts does not bound a run that kills its worker |
| `PoolEnqueue` | `EnqueueIdempotent` is violated | the second of two concurrent enqueues fails with the unique index |

Fairness (`FairSpec`): each worker's and each request's next step, and each
lease's expiry, is weakly fair. Calls to the model have timeouts, the loop has
no exit, the supervisor restarts a dead worker and time passes. Nothing is
assumed about learners, editors, crashes or deletions. The liveness run has
one request and no edits to another version beyond what the properties allow
for (points may vanish: `PoolRefills` asks for them to stay).

### Findings

The two violated properties are quotations of the design document, see
`PROJECT.json`: the claim does not look at `attempt_count`; a concurrent
enqueue fails instead of being idempotent. A third divergence is visible in the
model without a run of its own: a unit with questions whose points are gone
answers `ready` although a refill is needed and cannot be enqueued
(`exercise_pool.py:316`, `exercise-generation-pool.md:49`).

### Proofs

`ExercisePoolProofs` and `PoolAuditProofs` prove, for every value of the
constants:

| theorem | of | needs `LeaseCoversWork` |
|---|---|---|
| `TypeCorrect` | `TypeOK` | no |
| `OneRunPerKey` | `OneActiveRunPerKey` | no |
| `MutualExclusion` | `ExclusiveClaim` | yes |
| `NoStrandedRun` | `RunningHasLease` | yes |
| `RetriesBounded` | `AttemptsPaidFor` | yes |
| `BoundedUnlessKilled` | `AttemptsBounded`, while no worker is killed | yes |
| `WorkerLoopSurvives` | `LoopSurvives` | yes |
| `OutcomesAreFinal` | `TerminalRunIsFinal` | yes |
| `QueueImplemented` | `ImplementsRefillQueue` | yes |
| `AuditIsCovered` | `AuditNeverOverstates` | no |
| `AuditIsExact` | `AuditMatchesPool` | yes |

The argument is one induction in three layers.
`WellTyped` adds to `TypeOK` which fields are not null at which program
counter. `KeysUnique` adds to `OneActiveRunPerKey` the open transactions: at
most one request holds an uncommitted insert of a key (`PendingUnique`), and
while it does no run of that key is active (`PendingFree`); without them the
commit of an insert could not be shown to keep the index. `LeaseSafe` states,
row by row, that a run is held at most once, by a worker whose loaded copy
agrees with the table, that a held run is running under a live lease, that
its attempts are within the budget, and that a running run has a lease;
exclusivity alone is not inductive, since it is the live lease that keeps a
second worker from claiming and the agreement of the loaded copy that makes
`Flush` write what the failure and success paths intend. The refinement then
classifies each step as a stutter, a submission, a delivery, a give-up or a
removal (`StepOnRuns`).

`BoundedUnlessKilled` is the other side of the finding of `PoolPoison`: with no
kills, the attempts are bounded by the maximum after all.

The audit invariants sum a column over the runs of a unit. The model counts the
questions themselves, the pairs of a run and a number up to its `accepted`
(`Audited`), so a sum is a cardinality, a commit adds a batch to the set, and no
induction over sets is needed. `AuditNeverOverstates` is not inductive: without
the lease a late failure requeues a completed run, whose questions leave the
sum and come back with a later success. `Covered` counts the questions of all
runs of the unit, and a step adds to them at most what it publishes. With the
lease, `Exact` has the completed runs alone and equality; `LeaseSafe` says that
the run a worker commits is not completed yet, so its batch is new to the sum.

Only checked by TLC: the three liveness properties of `PoolLiveness`, since
fairness is out of the prover's reach.

### Not modelled

The contents of questions (lint, review scores, ranking, the choice of eight
for a learner), metrics and error messages, and two generator versions deployed at
once (the version is a constant of the dedupe key).

## 4. Learning evidence

### Modules

`LearningEvidence` models the tool `record_learning_evidence` for one learner:
an event with its observations is recorded, or an earlier event is revoked.
One tool call is one transaction (`get_db_session`). A step is one statement
that reads shared rows, takes a row lock, inserts into a unique index or
commits; what a session wrote stays in its record `tx[q]` until it commits.

A mastery state or a review schedule is a number in the code. Here it is how
often it folds in each piece of evidence (`Uses`): live updates fold one row
into what was read, `replay_evidence` folds each valid row once into nothing.
That is all the properties need; the order of folding, which also decides the
numbers, is left out. For the mastery the model follows the `mastery_score` and
`ability` columns: an update that happens to leave such a value unchanged is
not written by the ORM, which the model ignores.

| variable | code |
|---|---|
| `event` | `LearningEvidenceEvent` rows: recorded (whatever the summary status), revoked |
| `evidence` | `AssessmentEvidence` rows: applied, blocked by the confidence threshold, void |
| `mastery` | `LearnerKnowledgeState` rows and whether they exist |
| `fsrs` | `FSRSReviewState` rows |
| `tx` | each session: its statement, its observations, its identity map (`known`), inserted state rows (`added`), row locks (`locked`, `frozen`), written schedules (`plan`) |

| actions | code |
|---|---|
| `Look` `Envelope` | the lookup of the event and the insert that settles a duplicate |
| `LoadState` `AddState` | the unlocked read of the state; the insert of a new one, flushed by the next query |
| `Block` | evidence below the threshold |
| `Apply` `Schedule` | the new mastery, whose UPDATE is flushed by the query for the schedule; the schedule |
| `LookRevoke` `Freeze` `LockState` `Replay` | `_revoke_event`, `invalidate_and_recompute` for each of the event's evidence rows |
| `CommitRecord` `CommitRevoke` `Fail` | commit; rollback for whatever reason |

`Fail` may happen at any statement. It stands for exceptions, lost connections,
deadlocks (two corrections lock evidence and states in an order of their own)
and time-outs: `ToolCatalog.execute` catches them all, but a cancelled statement
invalidates its connection and a failed flush its session, so the commit that
follows cannot keep a part.

The observations of an event are a constant of the event id: a caller that
sends other observations under the same id is answered from the first. An
exercise submitted directly (`api/knowledge.py`) folds its evidence in by the
same statements and behaves as an event of one observation that is sent once
and never revoked. Left out: attempts without a difficulty prior, which change
a state without evidence; several tool calls in one session, whose identity map
is then older than a call.

`EvidenceLedger` is the abstract specification, without sessions or locks: an
event is recorded at most once and revoked at most once, and in the same step
its observations above the threshold enter the schedules of their points or
leave them. `LearningEvidence` implements it under `status <- event` and
`schedule <- fsrs` (`ImplementsEvidenceLedger`): a commit is a ledger step, a
second correction of a revoked event and every other step stutter. There is no
ledger of the mastery, for which this is false (see the finding).

### Bounds

`EvidenceRaces`: two events, five observations on two points, so that one event
observes a point twice (the identity map), two events share a point (the
races), events touch two points (lock orders, deadlocks) and one observation is
below the threshold. Three sessions serve any number of calls, so there are
two recorders against a correction, two corrections against a recorder, and
duplicates of each. About 40 000 states, symmetric in the sessions. There is no
liveness property: nothing retries a failed call.

### Runs

| run | checks | shows |
|---|---|---|
| `EvidenceRaces` | `TypeOK` `ScheduleIsValidEvidence` `MasteryFromEvidence` `EventsAreWhole` `CorrectionRebuilds` `ImplementsEvidenceLedger` | what survives every interleaving of recorders and corrections |
| `EvidenceCorrection` | `RevokedStaysOut` is violated | revoked evidence returns to the mastery |

The two derived states differ. The schedule is read after the flush has locked
the knowledge state, so it is serialised and stays exactly the valid evidence.
The mastery is read before: of two recorders one may be lost, and a recorder
that read before a correction undoes it. The documentation promises that a
correction rebuilds both; the finding quotes it.

### Proofs

`LearningEvidenceProofs` proves, for any events, evidence, points and sessions:

| theorem | of |
|---|---|
| `TypeCorrectness` | `TypeOK` |
| `SchedulesAreValidEvidence` | `ScheduleIsValidEvidence` |
| `MasteryIsGrounded` | `MasteryFromEvidence` |
| `EventsTakeEffectWhole` | `EventsAreWhole` |
| `CorrectionsRebuild` | `CorrectionRebuilds` |
| `ActsAsLedger` | `ImplementsEvidenceLedger` |

None of them is inductive: a committed table is only as good as the plans that
will be committed into it. `IInv` (`InvariantHolds`) adds, for every session,
where it is with its event (`Progress`), that its event is still unrecorded or
still there (`OnEvent`), that a recorder's plan for a point is the replay of the
committed valid rows and its own (`RecorderPlan`), that a correction's plan is
the replay of the valid rows less its own and covers every point it locked
(`CorrectorPlan`), and that the states in its identity map are made of recorded
evidence and its own (`KnownGrounded`). For every pair of sessions it adds that
their locks are disjoint and their new events differ (`Apart`). A plan exists
only under a lock, and a commit changes the valid rows only of points it has
plans for (`CommitTouches`), so the commit of one session leaves the plans of
the others true (`CommitOthers`). The refinement follows: the schedules are a
function of the valid rows, before and after a step, and those change only with
the status of one event. The assumption is `EvidenceAssumption`: every
observation has an event and a point, and `None` is none of the values.

Two more theorems locate the finding. `LoadsApart` says that no two sessions
have the state of one point in their identity maps, which is what a row lock on
the load in `_update_knowledge` would give and what holds whenever calls do not
overlap on a point. Under it the committed mastery is exactly the replay of the
valid evidence (`MasteryExactApart`), as the schedule always is, and revoked
evidence stays out (`RevokedStaysOutApart`, the conclusion that
`EvidenceCorrection` refutes without it). So the unlocked read is the one cause
of the drift: failures, repeats, foreign corrections and the order of commits
play no part.

## 5. The expression lab

### Modules

`ExpressionLab` models one session: the background task that generates its
interface, the learning actions the interface offers, practice attempts,
completion and deletion. Requests and tasks are transactions of their own; a
step is a statement that reads shared rows or waits for a row lock, or a commit.

| variable | code |
|---|---|
| `session` | `expression_lab_sessions.status` |
| `action` | `expression_lab_actions.status` of each action id |
| `effect` | how often the action's executor ran and was committed |
| `attempts` | `expression_lab_attempts` |
| `crashed` | the process died since the last generation was queued |
| `tx` | each request and task: its place, the action in hand, the lock it holds on the session's row, the statuses it will write (`plan`, `out`) |

| actions | code |
|---|---|
| `Create` `Retry` | `create_session`, `retry_generation` and the queued background task |
| `Begin` `BeginMissing` `Generate` `CommitGeneration` | `generate_expression_lab_session_task`, `generate_and_store`, `_materialize_actions` |
| `GenerationFails` `LoadFailed` `MarkError` | the task's exception and its failure session |
| `Rework` `Reworked` `CommitRework` | `regenerate_block` |
| `Load` `Execute` `LockAction` `MarkCompleted` `CreatePractice` `ActionFails` `CommitAction` | `execute_action`: the row lock, the savepoint, the executors, the event, the commit |
| `Answer` `CommitAnswer` `Complete` `Delete` | attempts, `complete_session`, `delete_session` |
| `Abort` `Crash` | rollback for whatever reason, a dead process |

Four details of the code carry the properties and are easy to lose:

- Actions are applied without a lock on the session. What keeps a generation
  from rewriting an applied row is the foreign key of the event that
  `execute_action` inserts: it takes the session's row `FOR KEY SHARE`, which
  waits for the generation's `FOR UPDATE` (`EventAllowed`).
- The generation of a practice takes only the lock of an `UPDATE`, for which the
  event does not wait. It may give an id of its own to a failed action that
  another request has just applied, so the ids it may propose (`PracticeIds`)
  are excepted from the properties (`Lasting`).
- The ORM writes a column only if it differs from the row it read (`plan` is
  `None` otherwise), so a transaction does not undo what it did not touch.
- An action locks its own row and then needs the session's; a generation does
  the opposite. The deadlock is broken by PostgreSQL: `Abort`,
  `GenerationFails`. A superseded action may still be executed, as in the code.

`ActionLedger` is the abstract promise: each action is taken or dismissed at
most once, taking it has its effect once, and when the session goes the actions
go and the effects stay. `ExpressionLab` implements it for the actions in
`Lasting`; pending, applying, failed and superseded rows are all open.

### Bounds and runs

`LabSession`: one action of each kind (save, dismiss, practice, complete), two
requests, two generations and one attempt, 730 369 distinct states. Two requests
give two clicks on one action, a click against completion, deletion or a
regeneration of a block; two tasks give a retry that overlaps the generation it
replaces. `MaxAttempts` bounds a counter that nothing else reads. No fairness is
assumed and no liveness claimed: after a restart only the learner's retry
revives a session.

| run | checks | shows |
|---|---|---|
| `LabSession` | `TypeOK` `EffectsMatchActions` `GeneratingIsAttended` `AttemptsWhileOpen` `ImplementsLedger` | actions take effect once under clicks, retried generations and savepoints; a generating session is attended |
| `LabRegenerated` | `CompletedStays` is violated | a generation queued by a retry opens a completed session again, which the retry itself refuses to do |

### Proofs

`ExpressionLabProofs` proves, for any actions, requests and tasks under
`LabAssumption` (the kinds are the four of the code, requests are not tasks,
practice ids belong to blocks, `None` is no status):

| theorem | of |
|---|---|
| `TypeCorrectness` | `TypeOK` |
| `ActionsTakeEffectOnce` | `EffectsMatchActions` |
| `GenerationsAreAttended` | `GeneratingIsAttended` |
| `AttemptsInOpenSessions` | `AttemptsWhileOpen` |
| `LabImplementsLedger` | `ImplementsLedger` |

`IInv` (`InvariantHolds`) says of each open transaction that it holds a lock
only on a row that exists and only where the code takes one (`LockedExists`,
`LockHeld`), that the action in hand is executable (`RowInHand`), that its plan
leaves applied and dismissed rows alone (`Untouched`), and what its outcome may
be (`OutcomePlanned`, `OutcomeOfTask`, `RewritePlanned`, `Graded`); of pairs,
that the locks on the session and on an action are held once (`LockUnique`,
`RowUnique`). `Untouched` is what a commit of another transaction could break;
the invariant rules it out with the lock that the other one must have had.
The steps fall in three families with a lemma each: steps that change only
their own transaction, steps that settle it, and the commits.

`CompletedStaysApart` locates the finding of `LabRegenerated`: if every
generation has ended whenever a session is completed (`CompletedSettled`), a
completed session changes only by being deleted. No request is to blame: the one
that would write ready, the regeneration of a block, holds the lock of a ready
session from its check to its commit (`ReworkedReady`).

### Not modelled

The text of the interface, its blocks and their validation; acceptance of
signals (section 6 has it for grammar signals), events, memory and episodes;
`copy_expression`, which is applied without a target (its effect is an event); a
database that is down
while the failure session runs.

## 6. The services

Nine parts of the system are handlers that read some rows, wait, and write
them. `HttpRequests` has what they share: one transaction per call
(`get_db_session` in `api/deps.py`), committed on return and rolled back on an
exception. In each module a set of `Requests` makes any number of calls; a
request's record `...Tx[r]` has what its session has read and not yet
committed, and an `...Abort` action rolls back at any place, for a refusal, an
exception or a lost connection. `MCServices` puts the modules side by side:
they share no rows, so a behaviour is one of one service, chosen initially
(`service`). `FeishuSync` takes the import, which `GroupLearning` models
message by message, as one step.

| module | variables and what they are | actions and what they are |
|---|---|---|
| `DailyLesson` | `checkpoint`, `episode`: the two status columns; `graded`: attempts on record | `StartLesson` `StartEmpty` `FindWaiting` `CommitStart`: `start_task`; `SubmitAnswer` `MarkResumed` `CommitAnswered`: `submit_answer`; `LookAtLesson` `AbandonSuperseded`: `get_daily_lesson_status` |
| `VocabularyPractice` | `cursor`, `practice`, `correct`: the session row; `reviews`: the items' counters; `attempts` | `OpenAttempt` `LoadWord` `InsertAttempt` `CommitAttempt`: `submit_practice_attempt`; `OpenAdvance` `CommitAdvance`: `advance_practice_session` and the too-easy mark |
| `ChatThread` | `messages` with their numbers, `summary` (the turns it tells of), `memories` | `ReadThread`: the history before the model is asked, sent or streamed; `LockThread` `CommitTurn`: `_persist_chat_messages`; `FinishTurn`: `_persist_chat_side_effects` |
| `EmailVerification` | `codes`, `sentAt`, `tries`, `verified`: the challenges; `answered`, `confirmed`: what callers were told | `OpenRequest` `CommitCode`: a code is asked for and sent; `OpenConfirm` `LockCode` `WrongGuess` `RightGuess`: `confirm_email_verification` |
| `GroupLearning` | `stored` messages, `reuses` events, `reuseCount`, `signal` status, `opened` count of the progress item | `OpenImport` `ImportNew` `ImportDuplicate` `CommitImport`: `import_group_messages`; `OpenAccept` `CommitAccept`, `OpenMark` `CommitMark`: the signal's actions |
| `FeishuSync` | `posted` and `answers`: the chat itself; `lastCursor`, `remembered`: the source row; `imported` | `OpenSync` `ListPage` `AnswerHelp` `ImportPage` `CommitSync`: `sync_source`; `ReplaceSummary`: a placeholder sync or another import |
| `TextbookReview` | `uploaded`, `parse` (parser runs), `points`, `pending` (review items), `gate` (the pending count in the source's metadata), `task` (the in-process tasks) | `OpenIngest` `CommitIngest`; `StartParse` `DeleteOldPoints` `CommitParse` `ParseFails` `MarkFailed`: the background parse and its failure session; `OpenDecision` `CountPending` `CommitDecision`; `OpenDelete` `CommitDelete`; `ReviewCrash` |
| `ReadingWorkshop` | `materials` per text, `completions` per text and client id | `OpenSave` `InsertMaterial` `CommitInsert`; `OpenComplete` `LockMaterial` `CommitComplete` |
| `PhraseMemory` | `noted`: the events of attempts; `masteries`, `patternRows`, `claim`: what is derived from them; `deleted`, `denied`: what the learner did; `overtaken`: the denial found a reflection about to write the status; `lost`: attempts rolled back by their reflection | `OpenPhraseAttempt`: `record_phrase_attempt`; `OpenCuration`: `curate_memory`; `ReflectPatterns` `ReflectPhrases` `ReflectClaims`: `MemoryCurator.reflect`; `CommitMemory` `RefuseMemory`: the flush; `DeletePhrase`; `DenyClaim`, `CorrectClaim`, `MarkImproved`: the controls of a claim |

What is checked, and what makes it hold:

| property | says | rests on |
|---|---|---|
| `GradedOnce` | a lesson is graded again only by answers that overlap; graded lessons wait for nothing | nothing is locked first: the resumed row is never seen committed, and an abandoned lesson is refused |
| `CountsAreAttempts` | no word or session counter exceeds the attempts on record | the unique idempotency key; increments may be lost |
| `NoWordSkipped` | clicks that overlap skip no word | the cursor is written from what was read, so it may go back |
| `TurnsAreWhole` | messages are numbered without gaps, each question before its own answer | the thread's row lock around numbering |
| `SideEffectsFollowCommit` | memories and summaries are of committed turns | the second transaction |
| `GuessesAreLimited`, `CodesAreSpent` | every answered guess is on the row, at most the maximum; one token per code | the row lock, and the commit before the error is raised |
| `ImportedOnce` | repeated and overlapping deliveries store and count a message once | the unique constraints |
| `AppliedByOverlap` | a signal is applied again only by accepts that overlap or after the learner took it back | the early return for an accepted signal |
| `SyncLosesNothing` | what is before the cursor is stored, what is stored was answered | the cursor is committed with the page, and only when a next page exists |
| `IngestIsAttended` | a queued run has a task, unless a restart lost it | the failure session |
| `TextbookIsOneParse`, `DeletionIsFinal` | the points are those of one completed run; nothing survives a deletion | the source's row lock, taken by the first progress of a parse |
| `ReadOnce` | one material per text, one attempt per client id | the unique constraint under a savepoint, the material's lock |
| `DeletedIsForgotten` | no reflection of the events of a deleted phrase brings its mastery back, and a mastery is that of a recorded attempt | the foreign key, which refuses the mastery that the curator adds |
| `DeniedStaysDenied` | a denied claim stays dismissed, unless a reflection under way had loaded it as improving when it was denied | the curator leaves a dismissed claim alone, and over one it loaded as active it writes no status, since the ORM writes only the columns that change |

What the models do that a reader might not expect, because the code does it:

- `DailyLesson`: an UPDATE waits for the row and then writes what was decided
  before; `completed` stands for all the statuses a verification report gives;
  the episode of a superseded lesson stays waiting until its status is asked.
- `VocabularyPractice`: the attempt is compared with the current word before its
  key is looked up, so a retry after the session moved on is refused with 409
  (`docs/architecture/11-vocabulary-learning.md:575` calls attempts idempotent).
- `ChatThread`: the `FOR UPDATE` of `chat_send` does not refresh the metadata it
  loaded earlier, so a newer summary can be replaced by an older one. The
  summary is therefore promised to be true, not to be the latest.
- `EmailVerification`: two overlapping requests both pass the cooldown.
- `GroupLearning`: two stored messages that both match make the lookup raise
  and the import fail. The lock on participants is left out, which only adds
  interleavings.
- `TextbookReview`: a re-ingest leaves the pending items of the earlier run,
  while the gate counts those of the new one; two decisions at once each count
  the other's item as pending, so the gate can stay at one with nothing pending,
  although `docs/architecture/textbook-parsing-quality.md:89-96` has it recounted
  after every decision; a run lost in a restart stays queued. No property is
  stated of the gate.

- `PhraseMemory`: what a transaction flushes is applied when it commits, since
  the row locks and unique constraints it holds from the flush on hide it until
  then. The first attempt at a phrase always ends its reflection with an
  exception (the new mastery has no numbers before the flush), which the handler
  passes over; the mastery is kept, the rest of the reflection left out.
  `error_patterns` has no unique constraint: two first reflections at once
  insert a pattern twice (`patternRows` reaches 2), and every later look-up
  raises, although `docs/english-learning-companion-agent-architecture.md:540`
  has repeated patterns merged. The text of a claim that the learner corrected is
  overwritten by the next reflection, although
  `docs/memory-architecture-v2.md:121` gives the learner's words priority.
- `PhraseMemory`, what a denial does not withstand: the learner marks a claim as
  improved; a reflection loads it as improving and sets it to active; the
  learner denies it and that commits; the reflection flushes, and since the
  status differs from what it loaded the ORM writes active over dismissed. The
  model has this behaviour (one request is enough),
  and `overtaken` marks it: `DeniedStaysDenied` promises nothing about such a
  denial, and everything about any other. What is recalled later is not
  affected, since the retriever also excludes the targets of the recorded
  delete and disable operations (`memory/retriever.py:183`); the learner's list
  of memories shows the claim as active.

### Findings

`HelpReplies` is one help request and one sync after another. The import of a
sync replaces the summary that holds the answered ids before they are read to be
carried over, so the second sync forgets what the first recorded and the third
answers the same message again. The specification of the group source promises
that the ids are recorded so that this does not happen; the test of it replaces
the import by a mock.

`EpisodeKeys` is one phrase and seven attempts. `record_phrase_attempt` means
the attempt to be recorded whether or not its reflection succeeds, but the two
share a session, so a row that the database refuses takes the attempt with it:
the episode of seven attempts, whose key joins their ids and no longer fits its
column, or, with a second phrase, a mastery that the curator adds for a deleted
one.

### Bounds

Two requests in `Services` (about 836 000 distinct states in all): every race of
these modules is between two calls, and each place makes call after call. Three lessons (one
superseded, one superseding, one more), two words and two keys, four turns with
a history of two, two codes with two guesses and a clock of three values, two
message ids with two texts, two help messages on pages of one (so that there is
a next page and a last one) with three answers each, two parser runs with two
kinds of flaw, two texts with two client ids, two
phrases with three attempts. `EpisodeLimit`, the events whose ids fit in a key,
is six in the code and two in `Services`, so that the overflow happens there; the
run of the finding has six. `MaxTries` bounds the attempts. The requests and the phrases are symmetric sets.
Deadlock is not checked, since bounded calls end. There is no liveness property:
handlers answer or fail and nothing retries.

### Proofs

| module | theorems | invariant |
|---|---|---|
| `ServiceProofs` (email) | `GuessesLimited`, `CodesSpentOnce` | a request that holds a challenge has loaded its counter (`InHand`), and holds it alone (`OneHolder`) |
| `ServiceProofs` (reading) | `ReadAndRecordedOnce` | what each place implies of the rows (`ReadingSound`), and whom lock and constraint exclude (`Exclusive`) |
| `ServiceProofs` (memory) | `ForgottenForGood`, `DenialStands` | what a reflection is about to write was told by events that stay on record (`Grounded`); while a denial stands that overtook no reflection, no open one is about to write the claim's status (`DenialHolds`: a reflection that starts leaves a dismissed claim alone); open attempts have numbers of their own (`OwnAttempts`) |
| `StudyProofs` (vocabulary) | `CountersNeverRunAhead`, `EveryWordIsLeft` | the counters a request has read are covered by attempts other than its own (`VocabCovered`); open attempts have keys of their own (`KeysUnique`) |
| `StudyProofs` (textbook) | `RunsAreAttended`, `RunsNeverMix`, `DeletedForGood` | one parse holds the source (`LockOfSource`), it has deleted all the points that are there (`DeletedAll`), its run is still queued (`RunOfTask`), points and items are of completed runs (`OnePoint`, `OfCompleted`) |
| `GroupLessonProofs` (lessons) | `LessonsGradedByOverlap` | the answers in progress to a lesson and its gradings are together at most the requests (`Answering`), since an answer opens only on a lesson with no grading; one request starts a lesson (`OneStarter`) |
| `GroupLessonProofs` (imports) | `MessagesImportedOnce` | what open imports have inserted is unlike all that is stored and each other's (`GroupSound`, `InDoubtUnlike`), and each has recorded the reuse of just that |
| `GroupLessonProofs` (signal) | `SignalsAppliedByOverlap` | the accepts in progress are counted with those applied, and a signal that is not accepted leaves room for one of each request (`AcceptsAreCounted`) |
| `GroupLessonProofs` (sync) | `NothingIsLost` | what a sync has listed, answered and loaded stays so (`Placed`, `Syncing`), so its commit may move the cursor past its page |
| `StudyProofs` (chat) | `TurnsStayWhole`, `SideEffectsAreOfCommittedTurns` | the numbers are those of `n` committed turns, and with the open ones they are at most the turns begun (`Numbered`, `Uncommitted`); one request writes (`OneWriter`) and what it has read is still there (`ChatSound`) |

Each proves its properties for any requests and bounds, from the named
assumptions of the module and `RequestsAssumption` (there are finitely many
places for requests), by an inductive invariant with one step per action.

Some of these invariants leave room on purpose: counters may lose increments, a
lesson may be graded by two answers at once, a signal applied by two accepts.
Four theorems say what the room is for. Each assumes a state predicate that
holds whenever the calls in question do not overlap, and proves the exact
statement from it:

| theorem | while | then |
|---|---|---|
| `CountersExactApart` | no two vocabulary calls are open (`VocabAlone`) | the counters are the attempts on record and the session never goes back (`SessionExact`) |
| `GradedOnceApart` | no two answers to one lesson are in progress (`AnswersApart`); starts and status requests may overlap | a lesson is graded once |
| `GroupExactApart` | no two calls on the group's rows are open (`GroupAlone`) | the reuse counter is the messages stored, the progress item counts the acceptances, a signal is accepted once each time it is not (`GroupExact`) |
| `AttemptsKeptApart` | no two memory calls are open, no phrase was deleted, the events fit in a key (`Untroubled`) | no attempt is lost with its reflection and an error pattern is one row (`MemoryWhole`) |

The last one names the three causes of what `EpisodeKeys` refutes and shows that
there is no fourth. Such a predicate is a hypothesis about the schedule and not
a claim about the code, which takes no lock that would give it.

`MCServicesProofs` is about the composition. Every behaviour of `MCServices` is
one of each service's own specification (`ServicesComposed`: in every step the
other services' variables stand still), so what is proved of a service alone
holds beside the others: the type invariant of the run (`ServicesTypeCorrect`)
and all its safety invariants (`ServicesKeepPromises`), `DeniedStaysDenied` in
its conditional form.

The properties of the passing run `Services` are all proved; that `HelpReplies`
and `EpisodeKeys` violate theirs is what TLC shows.

### Not modelled in the services

The graph's nodes, events and tool calls of an episode; hints, confidence,
mastery and schedule of a word; skills and the vocabulary agent of a chat turn;
of the memory system, retrieval, teaching strategies, events of other skills
and of the learner's own controls,
scores and confidences (every reflection applies the deltas of all events
again), the statuses of error patterns, claims of deleted patterns, settings and
the reset of the plan; registration with a token and log-in; drafting of signals,
language-model analysis (it takes the oldest pending messages first, which every
sync requeues: the newest may starve), retention clean-up and participants of a group, the
DELETE of a signal's row, the synchronisation of members, paused sources, the
filter of `allowed_senders` and two help messages with one text (the importer
drops a message whose hash it has, so what is stored is meant by its text);
text extraction, quality scoring and blocker rules of a parse, what a decision
patches, and a failure session that fails itself; the analysis of sentences, the
validation of evidence and the generation of a text.

## 7. Not modelled

| component | why |
|---|---|
| Tool catalog | an in-memory registry of one event loop, rebuilt from files; its tools that write are in section 4 |
| Base dictionary | an operator's command: one transaction that locks the build of its version |
| Prompt executor and model providers | calls to external models; a module that makes one has its outcomes as a choice |
| Recommendation, explore and classroom | mostly reads; the writes are of single rows, the last one wins |
| Simulation and evaluation harness | test tooling |
| Web frontend and browser extension | the interface; its calls are the boundary of the models |
