# Integrity-Tech: TLA+ models and proofs

Integrity-Tech is a platform for psychometric examinations. A candidate claims
an invitation, answers in the browser (which may be offline), and hands the exam
in; a backend (NestJS, PostgreSQL through Prisma, Redis with Bull) queues, grades
and consolidates the answers; psychologists write, review and publish the
versions of items and assessments. There is also an adaptive test (CAT).

This directory models the parts whose correctness depends on the order in which
things happen, checks the models with TLC on small instances, and proves the
main results with TLAPS for every value of the constants.

Contents: [inventory](#inventory) · [modules](#modules-and-code) ·
[runs](#runs) · [fairness](#fairness) · [proofs](#proofs) ·
[what only TLC shows](#what-only-tlc-shows) · [disagreements](#disagreements-between-code-and-documentation) ·
[not modelled](#not-modelled-and-why) · [plan](#plan)

Paths: `backend/` is `src/integrity-tech-backend/src/modules/`, `frontend/` is
`src/integrity-tech-frontend/src/`.

## Inventory

For each part: the state it keeps, its operations, its partners, what is hard,
and what makes it correct. `PROJECT.json` has the same list with the source
files and, under `hazards`, the lines where things can go wrong.

| Part | State | Operations | Works with | Hard because | Correct when |
|---|---|---|---|---|---|
| Answer pipeline (`evaluation-queue.producer`, `answers-queue.processor`, `finalize.service`) | `exam_attempts` (status, score, submittedAt), `answer_submissions`, Bull jobs in Redis | submit, handle job, consolidate, finalize | browser, version workflow | workers, submits and finalizes interleave between database calls; jobs are retried or stall; processes die | the score settles on what is stored; no attempt is left closed and unscored |
| Offline answer queue (`frontend/services/sync-engine.ts`) | IndexedDB, one flag, one timer | queue an answer, process the queue, back off, reload | exam page, submit endpoint | `await`s let everything in; stale local copies; lost replies | no question is forgotten; calls never run side by side |
| Exam page (`frontend/app/exam/[attemptId]/page.tsx`) | exam status in the store, the calls of `triggerFinalSubmit` | answer, click, time up, flush, finalize, reload | sync engine, finalize endpoint | the button stays enabled, the timer fires on its own, requests are lost | finalize only after the flush; "handed in" only when it is so |
| Entry to an exam (login page, consent, session, `useSecureTimer`, `exam.store`) | the form, the token, the persisted store, the timer | verify, claim, accept, load, tick, restore, hand in | invitations, finalize endpoint | answers are lost, the store is restored late, the timer runs before the consent | questions are shown for the duration of the exam, and what the system's clock was ahead, per load; nothing is handed in before the consent (it can be: see [disagreements](#disagreements-between-code-and-documentation)) |
| Version workflow (`editorial-console`, `psychometric-versioning`, the immutability trigger) | status, content, approval, publication of versions; item links; `exams.is_published` | create, edit, link items, transitions, publish, retire | invitations, attempts, staff pages | check and write are separate statements; an edit may write any column | published rows are frozen; nothing is published but from APPROVED, nor without an approver (it can be, after an edit: see [disagreements](#disagreements-between-code-and-documentation)) |
| Staff pages that edit versions (test builder, detail page, console, item bank) | the detail, the lists and the ticked items a page has loaded | load, tick, save, clone, create, act on a version | version workflow | whole blueprints are sent from what was loaded; answers come late or not at all; pages are left while their requests go on | what was acknowledged stays; items stay with their version |
| Invitations (`invitation.service.ts`) | `candidate_invitations` | create, expire, claim | version workflow, attempts | the claim reads before its transaction | an invitation is used up exactly by an attempt; attempts keep their content |
| Adaptive test (`cat.service.ts`, `item-selector.service.ts`) | `cat_sessions`, `cat_responses`, exposure counters | start, respond, select | theta estimator (numerics) | three statements per response and no transaction; shared counters | positions count the responses; no item comes twice; exposure is a rate; sessions end |
| Results (`iga-calculator`, business rules, reports) | `resultados_test`, `resultados_globales`, trace | calculate on demand, recalculate | parameters, norms, versions | rows are written one by one, without a transaction | the index has its rows and names its versions; every table reads an ability alike |
| Parameters, calibration and norms (`theta-calculator`, `cron-calibration`, `psicometria.controller`) | `parametros_items`, a cache per process, an advisory lock, norms | look up, reload, calibrate by hand and at night, regenerate norms | results | a session-level lock on pooled connections; queries awaited next to writes | one session calibrates; the cache catches up |
| Rate limiting (`rate-limit.guard`, `redis-rate-limit.store`) | counters in Redis, counters in memory | count, expire, refuse | all endpoints | the counter and its expiry are two calls; processes die | at most two windows' worth in a window; windows end |
| Staff access (`iam`, the guards) | users, roles, `user_sessions`, tokens | login, refresh, logout, authenticate, authorize | all endpoints | checks and tokens around an `await` while sessions end | an ended session opens nothing |
| Proctoring telemetry (`useProctoring`, the sync engine's second queue, `proctoring.controller`, `proctoring-queue.processor`) | a sequence number, a second IndexedDB queue, Bull jobs, `attempt_logs` | observe and sign, batch, send, check the sequence, store, count losses of focus | sync engine | the number is read again behind an `await`; a refused batch is deleted; jobs have no id; workers count side by side | no event is lost unless something failed; duplicates come from repetitions; the alert follows the table |
| Private storage and snapshots (`storage.service`, `response.service`) | objects, `private_files`, lifecycle records, entries of `attempt_logs` | upload, read, move on | proctoring, governance | four writes without a transaction | every entry has its file |
| Data governance (`data-deletion`, `data-export`) | deletion plans, exports | ask, read table by table, write down, approve | storage, audit | rows come in while tables are read | a list is complete for the time it was asked for |
| Seeds, backfill, defaults (`prisma/*.ts`, `prisma.service.ts`) | all tables of an exam, defaults | upsert, break off, run again, start a process | invitations, version workflow | long sequences without a transaction, beside each other and beside a claim; the trigger | a run that ends has left nothing out; a claimed attempt is whole and stays |
| Exams, LTI, analytics, statistics scripts, shared infrastructure, recruiter and science pages, deployment | rows written once, or none | single inserts, reads, I/O | – | little, or outside the model | – |

How the modelled parts meet (a solid arrow is EXTENDS or a refinement):

```
 VersionWorkflow --EXTENDS--> InvitationClaim  . . starts . .> an attempt
       . retires item versions                                  .
       v                                                        v
 AttemptScoring <. . submit, finalize . . ExamPage --EXTENDS--> SyncEngine
       | refines                             ^
       v                                     . opens
 AnswerRegister        ExamEntry . . . . . . .

 CatSession --EXTENDS--> ItemSelector        ProctoringQueue
 Calibration --EXTENDS--> ParameterCache     ResultCalculation --EXTENDS--> ResultRules
 DataGovernance --EXTENDS--> PrivateStorage  RateLimit  StaffSessions  Seeding  TestBuilder

 MCServices       = AttemptScoring, ResultCalculation, DataGovernance, Seeding, TestBuilder,
                    ExamEntry
 MCInfrastructure = Calibration, RateLimit, StaffSessions
```

## Modules and code

An action is one handler, or the part of it between two points where others get
in: a call to the database, to Redis or to the server, an `await` in the browser.
Definitions keep the source's names where they can. The variables and operators
are matched with lines of the source in `PROJECT.json` (`map`).

**AttemptScoring** – one attempt on the backend. `checked` holds the submit
requests between `verifyActiveAttempt` and the `add` to Bull; `jobState`,
`jobAnswer`, `tries` and `stalls` are the job of each question; `lock` and
`snapshot` are the consolidation transaction (`SELECT … FOR UPDATE`, then the
read of the submissions, one step because nothing can tell them apart);
`finalize` is the progress of each finalize request. Bull is modelled from how it
is used: an add with an existing id is ignored, a failed job is retried up to
`attempts` and then kept, a stalled job is run again. A first upsert waits for the
row lock (the foreign key), an update does not. The grading strategies are the
constant `Grade`. The late-answer window is one Boolean that a commit sets anew.

**AnswerRegister** – the abstract specification: per question, an answer is held
until it is stored, and only the held one is stored.
`AttemptScoring!ImplementsRegister` is the refinement.

**SyncEngine** – the answers queue of the browser. An answer is its time stamp.
`queue` is IndexedDB, `run`, `items` and `item` are each call of `processAnswers`
with its stale local copy, `timer` is the one retry timer, `stray` holds requests
that outlive their connection. The server is reduced to the last answer it took.
The proctoring queue appears here only through the retry timer it shares; its own
model is ProctoringQueue.

**ExamPage** – `triggerFinalSubmit` and `flushAnswers` on top of SyncEngine, with
the click and the timer as two callers, the finalize request with its failures,
and the reload of the page.

**ProctoringQueue** – the supervision events of one attempt, from `logEvent` to
`attempt_logs` and the alert. An event is its index in `events`; what matters of it
is the order of its time and the sequence number it was given (`Observe` is
`logEvent` up to the `await` of the signature, `Put` what follows). A batch is a
sequence of events. `Wake` stands for the shared retry timer and for the
continuation half a second after a full batch; `waiting` holds the events whose
back-off is not over. `jobs` are the Bull jobs and the transaction of each,
`CountFocus` and `Commit`; a transaction sees only what others have committed.
`expired` is how far the five minutes of the alert have moved on. `disturbed`,
`replays` and `overlapped` are history variables that say which executions were
undisturbed. Not in it: the clock of the browser going wrong, and batches that mix
several attempts.

**VersionWorkflow** – assessment and item versions. `request` is what a staff
request has decided after its reads; the write comes later, by id, and meets only
`TriggerAllows`, the database trigger. A content is the number of the edit that
wrote it. The data of an edit is an untyped record that nothing filters, so `WriteEdit`
may write every column of `Row` (status, approval, date of publication) and the item
links besides the content. What nested writes may do to rows of other tables is left
out; a status outside the list, which an edit may write too, allows no transition and
is like RETIRED. `publication` (the number of its last publication) and `bypassed` (an
edit has written its status or its approval) are history variables.

**InvitationClaim** – invitations and claims on top of VersionWorkflow. `claim` is
what a claim has read; `StartAttempt` is its transaction.

**ItemSelector** – `selectNextItem` with the exposure counters, for several
callers. The order of information is any order; the lot is a choice.

**CatSession** – `startSession`, `processResponse` and the client-driven
`selectNextItem` on top of ItemSelector. Ability and standard error are abstracted
to whether the error has reached the target. `overlapped` and `failures` are
history variables that say which executions were undisturbed.

**ExamEntry** – one browser from the code of an invitation to the questions.
`form` is the login page with what it awaits, `examPage` the page with its timer,
`store` and `saved` the persisted store in memory and in IndexedDB (`Restore` may come
after the page has written to it), `token` whose token the browser keeps. A tick
stands for minutes, so `Restore` comes before the first. `SetClock` is a change of the
clock that `useSecureTimer` takes for manipulation when it lasts until the next tick;
`drift` is how far it is set forward since the page was mounted. `Loaded` takes the end
from that clock (`Date.now()`), and the timer counts down to it from the mount by the
monotonic one: what the clock was ahead then is added to the exam, and `ahead` records it.

**ResultRules** – the tables that turn abilities into percentiles, categories and
recommendations, as functions: the `DO` block of the nightly norms, the continuous
norms, the cut scores, and the search for the most specific norm. Abilities are
tenths of a logit.

**ResultCalculation** – `calcularIga` in its steps (`Look`, `ReadRows`, `ComputeTest`
per test, `WriteGlobal`, `WriteVersions`, `BuildTrace`, `AttachTrace`) and the
historical recalculation (`RewriteRow`), for several requests, while answers come
late and norms and versions change. A row is its percentile and its versions.

**ParameterCache**, **Calibration** – the rows of `parametros_items` are the number of
the calibration that wrote them. A look-up and a reload await their query and write
the cache later. `held` is the advisory lock, counted per database session; each
statement picks any connection of the pool, also the one that gives the lock back and
the one that sets the organization. The nightly job goes through the organizations.

**RateLimit** – the guard with `INCR`, `PEXPIRE` and `PTTL` as three calls, the
counter in memory where Redis is not required, connections that are lost and processes
that die between two calls. `passed` is the history of what was let through: of each
endpoint, the ticks since each request was counted, with a number that tells requests
of one age apart.

**StaffSessions** – login, refresh, logout and both guards, with an `await` after each
query. A token is a session and an expiry. `after` records, for each request, whether
its session had ended when it came.

**PrivateStorage**, **DataGovernance** – a snapshot is an object, a row, a lifecycle
record and a log entry, written one after another; deletion requests and exports read
table by table what is then written down.

**Seeding** – each script is the sequence of its upserts; `Upsert` does the next one
unless the immutability trigger refuses it, `Break` ends the run anywhere. Two runs and
the claim of the seeded invitation interleave. `CountRows` and `CreateMany` are the
two halves of the defaults a starting process creates.

**TestBuilder** – `page` is the test builder, `sheet` the detail page, `listed` the
console; `call` are the requests under way, each with a read and a write on the server
and an answer that may be lost or come late. A handler whose connection is lost, or whose
page is left, loaded or opened again, dies or goes on in a slot of `Stray`, where nobody
waits for it: its check and its update by id may come after later requests have been
answered. A blueprint is the set of the edits in it; `acknowledged` records which edits a
page was told are saved, with their version; `outrun` that a blueprint was sent while a
stray handler still had one to write, `overlapped` that the builder had two requests under
way.

`MC*.tla` give the constants their small values. `MCServices` and `MCInfrastructure`
put components that share nothing beside each other: the variable `part` chooses, in
the initial state, which one runs, and the others stay where they are, so a run
checks each of them completely and none of their products. `*Proofs.tla` hold the
theorems. In each module the operators marked `Mutant` are plausible mistakes; none is
part of a specification, and each shows that a property would notice it.

## Runs

| Run | Instance | Shows |
|---|---|---|
| `attempt_liveness` | 2 questions, 1 response, 1 finalize request that does not die after its mark, 1 try | the inductive invariant `IndInv`; stale scores are corrected, submitted attempts consolidated, queued answers handled |
| `page_safety` | 2 questions, 3 answers, click and timer, 2 faults, reloads, strays | one call at a time; no question answered is forgotten; finalize is posted only when every answered question has been received; "handed in" only for a closed attempt |
| `page_liveness` | 1 question, click and timer, 1 fault | every `triggerFinalSubmit` ends; without strays the server never takes an older answer |
| `proctoring` | 3 events, batches of 2, 1 fault, 2 tries, 1 stall | nothing is lost while undisturbed; duplicates come from repetitions; the alert follows the table |
| `workflow_safety` | 1 version, 1 item, 2 staff requests, 1 edit of any columns, 2 publications, 1 code, 2 claims | published rows are frozen, publication comes from APPROVED, attempts keep their version, an invitation is used by an attempt |
| `cat_session` | 2 items, 2 concurrent requests, 1 failure, with and without exposure control | the invariant of the session, no item twice while undisturbed, sessions with a time limit end |
| `services` | the components of `MCServices`, one at a time | `SettledScore`: the score settles on the stored answers, `ImplementsRegister`: the queue refines the register (scoring); `TablesAgree`, `IndexHasRows`, `CompleteUndisturbed`, `TraceNamesTheVersions` (results); `EvidenceExists`, `ListsAreComplete` (files and governance); `CompleteWhenDone`, `SeededClaimIsWhole`, `ClaimSurvives`, `DefaultsOnce` (seeds); `NoLostEdit`, `ItemsStayWithTheirVersion` (staff pages); `TimeIsBounded` (entry) |
| `infrastructure` | the three components of `MCInfrastructure`, one at a time | `OneSessionCalibrates`, `CacheCatchesUp`, `BoundedPerWindow`, `Unblocks`, `EndedSessionsStayOut` |
| `proctoring_recorded`, `claim_once`, `handed_in_unseen`, `published_unreviewed` | as above or smaller | four statements of messages and documents that the code does not keep: see [below](#disagreements-between-code-and-documentation) |

`CHECK_DEADLOCK FALSE` is set everywhere: an attempt, an exam page, a session or a
publication really ends, and the bounds on answers, edits and faults stop a model too.

### Bounds, and why they are enough

* Retries, stalls, faults, failures and edits are bounded by small constants. The
  invariants do not mention the numbers, and the proofs hold for all of them;
  TLC needs each kind of event once, and twice where a second one meets the first.
* `services`, scoring: one question, two responses, two finalize requests that may fail,
  two tries, one stall, late answers, so that a newer answer meets a job of an older one;
  `attempt_liveness` has two questions and one response, so two workers and a finalize
  request compete for the lock. One run with both is too large; the proofs have no bound.
* `SyncEngine`: in the runs of the page the delays are 1 and 2 seconds
  instead of 5 and 30. What matters is that the timer may fire before or after an
  entry's back-off.
* `proctoring`: a batch of 2 of 3 events leaves one for a second batch, as 10 of 11
  do; a limit of 1 loss of focus is passed by two events of two jobs. Disconnections
  and the passing of five minutes count as faults. Every event is a loss of focus
  (`Kinds`): the others are never counted, so they only make the limit harder to reach.
* `workflow_safety` has one version and one edit: with two of either the model is too large
  for TLC. The edit may be of the version or of its item, before or after the approval,
  and leaves the date of publication or clears it (`Stamp`). Which of several published
  versions is "newest", and edits after edits, are therefore exercised by the proof only.
* `cat_session`: a maximum rate of 1/4, at most two valid responses;
  `MaxEligible` bounds the tries after which the client-driven selection starts no
  new one, `MaxRows` the responses in time. With exposure control the run takes no
  response before the time limit, without it two: together the control and the
  responses make too many states, and each half is complete. Once time is up responses are not bounded.
* `services`, results: two tests that may raise an alert, two concurrent requests, one
  change of norms or versions (`MaxChanges`), a general and a Mexican norm. The
  tables are read for abilities from −1.6 to 1.6 logits in tenths, every pair of
  quantiles (equal ones included) and three curves: steep, flat and uneven, so that
  both ends and every joint of a curve are met. The properties of the index and of the
  trace are proved for any number of tests, requests and changes.
* `services`, files: one snapshot and a full log (`MaxLogs` = 2, numbers from the
  browser included), then one request or export beside one snapshot that does not fail;
  `EvidenceExists` and `ListsAreComplete` are proved without bounds.
* `services`, seeds: any two scripts next to each other with two items, and, apart,
  two processes that start while a script runs. The properties of the seeds are proved for
  any number of runs, processes and items.
* `services`, staff pages: at most 3 versions, 2 edits, 2 items and 2 writing requests
  (`MaxPosts`); the builder alone (a new item comes before the second version
  or the second request, and after an `overlapped` only the items count, not the
  edits), the builder with the detail page, and the detail page with the console. Two edits and two versions are needed for one to undo another or to
  stray. The handler that goes on behind its page is of one blueprint (`FewStrays`: in
  "two pages" the next one waits for it, since `NoLostEdit` says nothing after an
  `outrun`) or, in "console", of any post. `NoLostEdit` and `ItemsStayWithTheirVersion`
  are proved without bounds and for any number of such handlers.
* `services`, entry: two codes, `Wait` = `Duration` = 2 ticks, two loads, a clock set by one
  tick (`MaxDrift`); either the login in full with a clock set to or fro, or exams reached
  by their links, one code before the other (they are alike), with a clock set forward
  before anything else is loaded. `TimeIsBounded` is
  proved without bounds.
* `infrastructure`: two connections, one organization, one calibration of it
  (`MaxRounds`) and a lock taken at most twice (`MaxHeld`): two calibrations by hand with
  lost sessions ("locks"), or one by hand and the nightly one with a reader ("cache").
  `OneSessionCalibrates` is proved without bounds; several organizations add only
  entries of the cache that do not touch each other.
* `infrastructure`, rate limit: two endpoints with one counter and limits 1 and 2, two
  requests, each at its own process, a window of 2 ticks; `BoundedPerWindow` is proved
  for any requests, processes, endpoints, limits and window. Sessions: one user, one
  session, two requests; a second session would not change what the first one opens,
  and `EndedSessionsStayOut` is proved for all.
* `MaxAnswers`, `MaxFaults`, `MaxRetries`, `MaxEdits`, `MaxPublications`,
  `MaxEligible`, `MaxRows`, `MaxFailures`, `MaxEvents`, `Kinds`, `MaxChanges`, `MaxLogs`,
  `MaxVersions`, `MaxItems` of TestBuilder, `MaxPosts`, `MaxDrift`, `MaxLoads`, `MaxRounds` and
  `MaxHeld` are bounds of the models. `MaxAttempts`, `MaxStalled`, `RetryDelay`,
  `MaxBackoff`, `BatchSize`, `FocusLimit`, `MaxTries`, `MinItems`, `MaxItems` of
  CatSession, `Limit`, `Window`, `Duration`, `Wait`, `AccessTicks` and `SessionTicks`
  are parameters of the code.

## Fairness

* **AttemptScoring**: weak fairness of each worker (Bull hands out waiting jobs, a
  handler goes on) and of a finalize request that holds the lock; strong fairness
  of the steps that wait for the row lock, because PostgreSQL queues for it. A
  finalize request may die before it marks the attempt, and with `FinalizeMayFail` later,
  too: `SubmittedIsConsolidated` is checked without that, since nobody would take up the
  attempt again. No
  fairness of submits, of the editors, or of a finalize request being made.
* **ExamPage**: the browser runs its callbacks and timers, the network
  comes back, the server answers every request it does not lose. Losses are limited
  by `MaxFaults`. The deadline of `flushAnswers` is real time and passes however
  often the loop goes round (strong fairness of `FlushTimesOut`).
* **CatSession**: requests get their turn, time passes, and the candidate goes on
  answering. Nothing is assumed of which item the lot picks.

* **Calibration** (`Refreshes`): the cron of the cache goes on starting reloads (weak
  fairness), a reload whose query keeps being repeated succeeds at some time (strong
  fairness of `SwapMap`: a single load may fail), and a query that is awaited is
  answered. Nothing is assumed of calibrations.
* **RateLimit** (`LimiterFairness`): time passes, and a call to Redis that is awaited
  ends, by an answer or an error, however often connections come and go.

The other components have safety properties only.

## Proofs

All proofs are checked by TLAPS with SMT, Zenon and, for the temporal steps, PTL.
Besides the assumptions named in each module (finite sets, distinct model values,
natural numbers) they assume nothing.

**AttemptScoringProofs.** `SettledScore` is not inductive: a completed attempt may
well have a stale score for a while. The strengthening is the reason why that is
harmless. `StaleScoreHasRepair`: a stale score always has a job in Redis that has
stored its answer and still owes a consolidation, or an open transaction of a
worker that read everything. `LateWriteHasRepair`: while a consolidation is open, an
answer stored after its read belongs to such a job. A finalize request does not
count as repair, since nobody notices when it dies. With `LockHolder`,
`OpenIsUnscored`, `StoredAnswerIsOwn` and `JobsCarryAnswers` this is `IndInv`
(`Invariance`); it gives `ScoreSettles`. `NotReopened`, `SubmittedPasses` and the
refinement `RegisterImplemented` follow step by step.

**SyncEngineProofs.** The queue of the browser and the page on top of it. `IndInv` says
that `isProcessingAnswers` is a lock (`OneCallAtATime`), what a call may hold at each
point (`CallShape`), and that what it holds is in the queue, as it was or newer
(`HeldIsQueued`): nobody else deletes an entry that is being sent. `NoQuestionForgotten`
follows. `ServerNeverGoesBack` adds `OrderInv` and the hypothesis that no request
outlives its connection. Every step of the page is a step of the engine, or touches only
what the engine's invariant does not speak of, so `IndInv` carries over to the
composition (`PageKeepsQueue`). `SubmittedIsClosed` needs one more fact, that a finalize
request answered 2xx has closed the attempt (`ConfirmedIsClosed`), which a reload, a
second caller and a stray request keep. `NothingLeftBehind` combines the two: finalize is
posted from an empty queue, and what is not in the queue was received.

**ServicesProofs.** Components of `MCServices`, one after another; they share nothing.
Entry: `TimeIsBounded` is not inductive. `TimeIsLeft`: what was on the
screen, and what the timer still gives, never exceeds the duration, and what the clock was
ahead, for each load: a load gives the timer no more than it adds to that (`GivesNoMore`),
and a clock set at another time stops the timer or changes nothing. It
needs `TimerRuns`, that questions on the screen have a timer that runs: a store
restored late, which could put the status back, is restored before the first tick.
Files: `UploadsInOrder` says what an upload has written at each point, which with the
fact that nothing is taken back gives `EvidenceExists`. Lists: `RowsGrow` is the heart of
`ListsAreComplete`: a query that comes later finds what there was before, and what it
finds stays (`ListedSoFar`); a row that could be deleted would break it.
Results: `IndexHasRows` holds however requests overlap and fail. For the other two,
`RowsOnTheWay` and `VersionsOnTheWay` say what the rows are while the only request
(`Alone`) is at each of its places: without an index and before the first row there is
no row, during a calculation rows and tests still to do make up the answered ones; and
the version goes from the request to the index, to the rows, to the trace, in that
order. The hypotheses (`disturbances`) are needed: a failure leaves some rows, and the
next calculation takes them for all. Tables: `TablesAreRead` is about one state, for
quantiles and curves of any size. The rows of a norm meet end to end, so the first one
that ends above an ability is the only one around it (`OneRow`); the cut scores and the
rules of the report put every ability at the same of four places (`OnePlace`); a rounded
point of a line lies between the percentiles at its ends (`AlongALine`), which keeps the
order where lines meet and where the curve is cut off. It assumes that quantiles are in
order and that the points of a curve differ (`TablesAssumption`), as
`continuous_norming.py` makes them: with equal points at an end the code divides by zero.

**ProctoringProofs.** `ProctoringInv` says why the integrity check refuses nothing
while events come one at a time. `OneAtATime`: the number of an event is its place
in the order of observation, and the queue is always the end of that order, without
a gap; `SendsOldest`: a batch is the start of the queue. So whichever way the queue
is cut into batches, each one counts up by one (`NothingLostUndisturbed`). One gap is
enough to break it: an event taken out of the middle would leave its neighbours in
one batch. `AcceptedIsInRedis` carries an event over from the browser to Redis and
to the table; jobs may fail, stall and overlap, which loses nothing.
`RepetitionsAreCounted` counts the chances an event has to be stored: its rows, the
jobs that will store it and the queue entry that may be sent make no more than one,
and one for each repetition. For `AlertIsRight`, a transaction that has
counted and raised nothing still counts no more than the limit (`AlertInv`) while
nobody commits inside it. The number of events, the batch
size and the faults are arbitrary.

**InvitationClaimProofs.** The proof has a lemma per kind of step (a status
written, an edit written, a claim reading, a claim starting). `RowsAreGoverned`
says what a status implies about the other columns, `ClaimsAreGoverned` that what a
claim holds has been published. Frozen rows are what makes
`AttemptsKeepTheirVersion` inductive: an edit that was checked before a publication
is stopped by the trigger, whatever columns it writes. Before the publication nothing stops
it, so what `RowsAreGoverned` says of the approval excepts the rows whose status or
approval an edit has written (`bypassed`); an edit cannot make a row PUBLISHED unless it
was APPROVED, which is why every publication is on record (`publication`).

**CatSessionProofs.** For the counters, `Given(i)` adds to `timesAdministered` the
requests between the lot and the count, and those that failed there. Every draw
moves `Given` and `timesEligible` together, or, when the item is passed over, only
the latter, and that happens only above the maximum. So for any number of
concurrent requests the share of an item's tries that gave it is at most 1
(`ExposureBounded`) and at least `maxExposureRate` (`MaximumIsAMinimum`): the
"maximum" is a lower bound. Nothing bounds the share from above, since an item over
the maximum is still given with probability at least 1/10, and when every item has
been passed over the most informative one is given all the same.
`SessionInvariance` proves the bookkeeping of a session whose responses come
one at a time, with failures between any two statements. `ItemsAreNew` adds what the
request in progress knows (`FreshInv`): the item it has recorded is among those it
excludes, the item it is about to give is not among the rows, and between requests
the current item is new.

**InfrastructureProofs.** Three components. The statement that gives the advisory lock
back may run on any session: on one that does not hold the lock it changes nothing,
and one that holds it is the session of every calibration that runs. So a session
never holds the lock less often than calibrations run on it (`LockInv`,
`LockIsCounted`), which gives `CalibrationsExclude`; it needs that no session of a
running calibration is lost. For the sessions of staff, an ended session stays ended
whoever uses or refreshes it meanwhile, and a token is worth what its session is when
it is looked up (`AfterIsEnded`): `EndedSessionsAreShut`.
*Rate limit.* `BoundedPerWindow` says nothing of the counter, of requests between `INCR`
and the decision, or of when the counter began. `TwoCounts` says that there is, for each
key, a number of ticks `c` for which the counter has counted (`CountsSince`). Of the
requests counted since then, those let pass and those still in the guard with a count
within the limit are at most the counter says, and at most the limit of their endpoint;
those counted earlier that are still in the window are at most the limit, too; and a
counter that expires does so only when the earlier ones have left the window. `INCR` adds
one to both sides, or gives a count beyond the limit; a decision only moves a request
from those in the guard to those let pass; a late `PEXPIRE` makes the counter last
longer; a tick adds one to `c`, and when the counter expires what it counted becomes the
earlier part. A counter without expiry, whose process died before `PEXPIRE`, counts on.
The two parts are at most twice the limit (`WindowsAreBounded`). The limits are
numbers, the window is not 0, and requests are finite in number (`LimiterAssumption`).

**ContentProofs.** The seeds, then the staff pages; they share nothing.
*Scripts.* Whether a run that ends well is complete cannot be seen from the rows alone,
since runs stop anywhere and others write the same rows. `NothingLeftOut` says of each
run that what it is there for is written or still ahead of it; no step takes a row back,
so `CompleteWhenDone` follows (`ScriptsComplete`). `QuestionsHaveExam` is what a backfill
that reads the exams relies on. *Seeded invitation.* The invitation is the last row of
`seed-e2e.ts` (`InvitationIsLast`), and a run that finds the version published is refused
before it gets there: it still has the version ahead (`Held`). `OneGetsThere` says that all
runs but one are held, and that this one comes when there is no invitation yet; so where
there is an invitation there are the items (`InvitationIsWhole`). A backfill offers a newer
version only after the seed has run again (`NewerIsLater`). These make
`SeededClaimIsWhole` inductive (`SeededClaimsAreWhole`), for any number of runs and items.
*Defaults.* `CountedIsThere`: unless two processes have counted together, who has found a
table empty still finds it so when it creates (`DefaultsAreCreatedOnce`).
*Staff pages.* `Shape` says what pages, requests and answers are and that the versions
they name exist; `OneAtATime` that the history of overlaps is complete. `NoLostEdit`
fails with two savers, overlapping requests, or a blueprint sent while the handler of a lost
one has its update ahead, and what holds without them depends on who saves: while only the builder does, the detail it shows and every blueprint under way have
all acknowledged edits of their version (`BuilderKeepsUp`), except while a detail is being
loaded, when the answer has them; while only the detail page does, its draft has them
(`SheetKeepsUp`). An acknowledgement comes from a request that had written what it sent
(`Saved`), so `SavedEdits` is kept (`EditsStay`). A page that is left starts empty
(`OpenedSaving`); a blueprint under way that becomes a stray one has all acknowledged edits
and goes on having them until it is written, since no other is sent before
(`StraysKeepUp`). For `ItemsStayWithTheirVersion`
(`ItemsStay`), which holds with overlaps too, the ticked items belong to the version
shown, and a request holds the version it was made for (`ItemsBelong`).

### What only TLC shows

Liveness (`StaleScoreIsCorrected`, `SubmittedIsConsolidated`,
`QueuedAnswersAreHandled`, `FinalSubmitEnds`, `SessionEnds`, `CacheCatchesUp`,
`Unblocks`): fairness and ENABLED are beyond the prover. Every invariant and every
action property that a passing run checks is also the conclusion of a theorem.

## Disagreements between code and documentation

Each is a run that TLC ends with a counterexample; `PROJECT.json` quotes the lines.

1. `proctoring_recorded` – a switch of tabs is two events at once; both take the
   second one's sequence number, the batch is refused with 400, and the browser
   deletes what was refused.
2. `claim_once` – two claims of one code at the same time start two attempts.
3. `published_unreviewed` – the data of an edit is not filtered: a DRAFT edited to the status
   APPROVED is published without an approver.
4. `handed_in_unseen` – the timer runs while the consent is on the screen, with ten
   minutes and a status of IN_PROGRESS: it hands the exam in, and the attempt is closed
   and scored before a question was shown.

Seen while reading or modelling, without a run of their own:

* Answers. A second answer to a question whose job is still in Redis is answered 202
  ("received and in the queue") and dropped by Bull. After a failed send,
  `incrementRetry` writes the older answer back over a newer one queued meanwhile
  (`docs/e2e-testing.md:90` promises the newest). An answer queued during a send
  starts nothing and waits for the next trigger. The description of the finalize
  endpoint calls it idempotent, yet a slow second request takes a COMPLETED attempt
  back to SUBMITTED for the time of a consolidation; every consolidation of a late
  answer restarts the late window.
* Exam page and entry. The page of an expired exam says that it is closed and processed,
  also when the automatic submit has given up (`page.tsx:292`). The code in the link
  wins over the typed one when the claim is made (`login/page.tsx:98`), and the field
  stays editable while a code is verified: an invitation may be claimed under the
  details of another. A claim whose answer is lost leaves the candidate with a used
  code. The timer starts over at each load. `useSecureTimer.ts:43` calls the elapsed time
  resistant to changes of the system's clock, and `:64` the remaining seconds the real ones;
  the end they count down to is taken from that clock when the session is loaded, so a clock
  set forward for the moment of the load, and back before the next tick, lengthens the exam
  unnoticed. Candidates and staff share `auth-token`.
* Proctoring. The queue is not flushed before finalize; an event refused with 401, 403
  or 404 is deleted; losses of focus that arrive more than five minutes late never raise
  the alert, because its window is taken when the job runs.
* Versions. An exam stays published when its last version is retired. Items made in the
  console remain `DRAFT` in the bank, so an assessment with them cannot be published. An
  edit checked in INTERNAL_REVIEW may be written after the approval
  (`editorial-console.service.ts:500`). `docs/psychometric-governance.md` says that
  there are no SQL triggers yet, next to their description. Copying a published version
  copies no items. In the test builder, the save buttons are not held back while a
  request is under way: a second save from the old detail undoes the first, and
  a save whose connection was lost may still be written over a later one that was
  acknowledged, since the update is by id; after cloning, the select shows another version than the detail; the refresh after
  creating an item drops its tick.
* Results. The narrative report classifies by the attempt's score, the index by its own
  bounds; the index of all tests is never calculated again; without a matching norm
  there is no fallback to the general one, which comments announce. `calibrate.py`
  writes `item_id`s of questions, while `calcularIga` looks up versions of items; the
  cache is cleared before the nightly script runs, not after. A cache entry without an
  organization holds the rows of all of them. Two calibrations on one pooled connection
  both get the lock, and `psicometria.controller.ts:76` logs that it was given back also
  when the statement ran on another session.
* Access. A counter whose process dies between `INCR` and `PEXPIRE` never expires and refuses
  its key for good. Refresh tokens are never rotated, and the frontend never uses them; nobody
  deactivates users; endpoints with different limits share the counter
  `psychometrics-write`.
* Governance. Only tests call its services. Approving a deletion request does not look
  at its status, and nothing carries it out; transitions are unchecked and replace the
  metadata; registering a resource again makes a deleted one ACTIVE; an export stays
  RUNNING after a crash; two snapshot uploads may get the same sequence number.
* Seeds. Versions are published before their items are linked, so a run that died there
  is never finished: the trigger refuses every later one, which has changed users by
  then. `SeededClaimIsWhole` excepts the case where the seed was started again: the
  date of the exam then makes the empty version of a backfill the newest (`smoke.ts` has
  a check for a session without questions).

Hazards that are not among the forty listed: an item linked to a version while it is being
published (`assessment_version_items` has no trigger, `editorial-console.service.ts:193`),
a publication whose update of the exam fails (`:559`), a version retired between its
resolution and the start of the attempt (`invitation.service.ts:114`).

## Not modelled, and why

* Numerics (Fisher information, EAP, IRT calibration, equating, DIF, validity, person
  fit): real numbers; the models use only what the control flow asks of them.
* Password hashing, token signing, encryption, storage providers, the LMS: libraries
  and services. LTI launches are refused by the code.
* Exams and attempts that do not come from an invitation: single inserts behind checks;
  such an attempt has no version and its session is refused.
* Analytics, adverse impact, ROI, the recruiter and science pages: reads and arithmetic.
* Health, metrics, validation of forms, error texts, logging, configuration, deployment.
* Within the modelled parts: organizations where every query is scoped to one, the form
  of blueprints, norm, scoring and report template versions (the same transition code),
  generation of access codes, retention policies, asset versions and backup events
  (single writes), the wording of reports, person fit and rapid guessing tables, the
  query of the audit log.

## Plan

Done: the answer pipeline, the browser (queue, page, entry, proctoring), versions and
the pages that edit them, invitations, adaptive tests, results, parameters and
calibration, rate limit, staff sessions, files and governance, seeds.

Left, in this order:

1. Two versions in `workflow_safety`, with a smaller number of requests, so that the
   newest of several published versions is met by TLC, too.
2. ExamEntry on top of ExamPage: the flush before an exam is handed in by the timer, and
   the page that says "closed" (`page.tsx:292`).
3. Retention policies and asset versions, once something other than tests calls them.
