--------------------------- MODULE AttemptScoring ---------------------------
(***************************************************************************)
(* One exam attempt on the backend: the submit endpoint that queues        *)
(* answers in Bull, the workers that grade and persist them, the finalize  *)
(* endpoint, and the consolidation transaction that both run to recompute  *)
(* the score (evaluation-queue.producer.ts, answers-queue.processor.ts,    *)
(* finalize.service.ts, attempt.repository.ts).                            *)
(*                                                                         *)
(* Any number of submit requests, one worker per job and one process per   *)
(* finalize request interleave between their database and Redis calls.     *)
(* Redis, Bull and PostgreSQL (READ COMMITTED) keep what they hold across  *)
(* a crash of the Node process; the process keeps nothing.                 *)
(***************************************************************************)
EXTENDS Naturals, FiniteSets, Functions

CONSTANTS
    Question,       \* item versions linked to the attempt's assessment version
    Response,       \* the responses a candidate may give
    Grade,          \* Grade[q][r]: points the grading strategy gives r on q
    Finalizer,      \* finalize requests that may run concurrently
    MaxAttempts,    \* Bull "attempts": 5 in the code
    MaxStalled,     \* Bull's maxStalledCount: times a crashed job is re-run
    LateAnswers,    \* LATE_ANSWER_WINDOW_MS > 0
    FinalizeMayFail, \* a request may die after it marked the attempt, too
    Unanswered,     \* no row in answer_submissions
    Nobody,         \* nobody holds the row lock of the attempt
    NoScore         \* exam_attempts.score IS NULL

ASSUME ConstantsAssumption ==
    /\ IsFiniteSet(Question)
    /\ Grade \in [Question -> [Response -> Nat]]
    /\ Question \cap Finalizer = {}
    /\ Nobody \notin Question \cup Finalizer
    /\ Unanswered \notin Response
    /\ MaxAttempts \in Nat \ {0}
    /\ MaxStalled \in Nat
    /\ LateAnswers \in BOOLEAN
    /\ FinalizeMayFail \in BOOLEAN

VARIABLES
    status,      \* exam_attempts.status
    score,       \* exam_attempts.score
    submission,  \* answer_submissions: the response persisted per question
    live,        \* questions whose item version is still ACTIVE or PUBLISHED
    windowOpen,  \* Date.now() - submittedAt <= LATE_ANSWER_WINDOW_MS
    checked,     \* submit requests past verifyActiveAttempt, not yet queued
    jobState,    \* the Bull job `ans:<attempt>:<question>`, or "none"
    jobAnswer,   \* job.data.response
    tries,       \* job.attemptsMade
    stalls,      \* how often the job was found stalled
    finalize,    \* progress of each finalize request
    lock,        \* who holds SELECT ... FOR UPDATE on the attempt
    snapshot     \* what the holder's transaction read with findMany

jobVars == <<jobState, jobAnswer, tries, stalls>>
txVars == <<lock, snapshot>>
vars == <<status, score, submission, live, windowOpen, checked, jobVars,
          finalize, txVars>>

-----------------------------------------------------------------------------
Submissions == [Question -> Response \cup {Unanswered}]
NoSubmissions == [q \in Question |-> Unanswered]

Points(s, q) == IF s[q] = Unanswered THEN 0 ELSE Grade[q][s[q]]

\* totalScore: the sum of the points of the persisted submissions.
Total(s) == SumFunction([q \in Question |-> Points(s, q)])

\* A total is a number, never NULL.
ASSUME ScoreAssumption == NoScore \notin {Total(s) : s \in Submissions}

Scores == {NoScore} \cup {Total(s) : s \in Submissions}

\* The handler's progress is part of the job's state: "waiting" also stands
\* for delayed (backoff); the last five belong to a running worker but failed.
JobStates == {"none", "waiting", "saving", "checking", "consolidating",
              "locked", "completing", "failed"}
Running == {"saving", "checking", "consolidating", "locked", "completing"}

FinalizeStates == {"idle", "marking", "consolidating", "locked"}

Closed == {"SUBMITTED", "COMPLETED"}

AcceptsAnswers ==
    \/ status = "IN_PROGRESS"
    \/ status \in Closed /\ windowOpen

-----------------------------------------------------------------------------
Init ==
    /\ status = "IN_PROGRESS"
    /\ score = NoScore
    /\ submission = NoSubmissions
    /\ live = Question
    /\ windowOpen = FALSE
    /\ checked = {}
    /\ jobState = [q \in Question |-> "none"]
    /\ jobAnswer = [q \in Question |-> Unanswered]
    /\ tries = [q \in Question |-> 0]
    /\ stalls = [q \in Question |-> 0]
    /\ finalize = [f \in Finalizer |-> "idle"]
    /\ lock = Nobody
    /\ snapshot = NoSubmissions

-----------------------------------------------------------------------------
(***************************************************************************)
(* The environment: the late window runs out, and the editorial console    *)
(* retires an item version while the attempt is under way.                 *)
(***************************************************************************)
LateWindowCloses ==
    /\ windowOpen
    /\ windowOpen' = FALSE
    /\ UNCHANGED <<status, score, submission, live, checked, jobVars,
                   finalize, txVars>>

RetireItem(q) ==
    /\ q \in live
    /\ live' = live \ {q}
    /\ UNCHANGED <<status, score, submission, windowOpen, checked, jobVars,
                   finalize, txVars>>

-----------------------------------------------------------------------------
(***************************************************************************)
(* POST .../submit.  verifyActiveAttempt reads the attempt and the link of *)
(* the item; the job is added by a later call, so both may have changed.   *)
(***************************************************************************)
VerifyActiveAttempt(q, r) ==
    /\ AcceptsAnswers
    /\ q \in live
    /\ checked' = checked \cup {<<q, r>>}
    /\ UNCHANGED <<status, score, submission, live, windowOpen, jobVars,
                   finalize, txVars>>

\* Bull ignores an add whose jobId exists; the caller is answered 202 anyway.
AddJob(q, r) ==
    /\ jobState' = [jobState EXCEPT ![q] = "waiting"]
    /\ jobAnswer' = [jobAnswer EXCEPT ![q] = r]
    /\ tries' = [tries EXCEPT ![q] = 0]
    /\ stalls' = [stalls EXCEPT ![q] = 0]

\* Mutant: Bull replaces the data of a job that is still there.
EnqueueReplacing(q, r) ==
    /\ <<q, r>> \in checked
    /\ checked' = checked \ {<<q, r>>}
    /\ AddJob(q, r)
    /\ UNCHANGED <<status, score, submission, live, windowOpen, finalize,
                   txVars>>

EnqueueAnswer(q, r) ==
    /\ <<q, r>> \in checked
    /\ checked' = checked \ {<<q, r>>}
    /\ IF jobState[q] = "none" THEN AddJob(q, r) ELSE UNCHANGED jobVars
    /\ UNCHANGED <<status, score, submission, live, windowOpen, finalize,
                   txVars>>

-----------------------------------------------------------------------------
(***************************************************************************)
(* handleSaveAnswer, one action per database call.                         *)
(***************************************************************************)
JobMoves(q, from, to) ==
    /\ jobState[q] = from
    /\ jobState' = [jobState EXCEPT ![q] = to]
    /\ UNCHANGED <<jobAnswer, tries, stalls>>

\* The item version is found and still governed by the attempt's assessment.
StartJob(q) ==
    /\ q \in live
    /\ JobMoves(q, "waiting", "saving")
    /\ UNCHANGED <<status, score, submission, live, windowOpen, checked,
                   finalize, txVars>>

\* The upsert.  The first one inserts a row that references the attempt, and
\* the foreign key check waits for a holder of FOR UPDATE; an update does not.
UpsertSubmission(q) ==
    /\ submission[q] = Unanswered => lock = Nobody
    /\ JobMoves(q, "saving", "checking")
    /\ submission' = [submission EXCEPT ![q] = jobAnswer[q]]
    /\ UNCHANGED <<status, score, live, windowOpen, checked, finalize,
                   txVars>>

\* Mutants: the worker overlooks one of the two closed statuses.
ReadStatusOnly(q, closed) ==
    /\ JobMoves(q, "checking",
                IF status = closed THEN "consolidating" ELSE "completing")
    /\ UNCHANGED <<status, score, submission, live, windowOpen, checked,
                   finalize, txVars>>
ReadCompletedOnly(q) == ReadStatusOnly(q, "COMPLETED")
ReadSubmittedOnly(q) == ReadStatusOnly(q, "SUBMITTED")

ReadAttemptStatus(q) ==
    /\ JobMoves(q, "checking",
                IF status \in Closed THEN "consolidating" ELSE "completing")
    /\ UNCHANGED <<status, score, submission, live, windowOpen, checked,
                   finalize, txVars>>

\* removeOnComplete: the job leaves Redis once the handler has returned.
CompleteJob(q) ==
    /\ JobMoves(q, "completing", "none")
    /\ UNCHANGED <<status, score, submission, live, windowOpen, checked,
                   finalize, txVars>>

\* The transaction of a process that dies or throws is rolled back.
Unlock(p) ==
    IF lock = p THEN lock' = Nobody /\ snapshot' = NoSubmissions
                ELSE UNCHANGED txVars

\* Mutant: the attempt is not counted, so the job is retried for ever.
ThrowUncounted(q) ==
    /\ jobState' = [jobState EXCEPT ![q] = "waiting"]
    /\ Unlock(q)
    /\ UNCHANGED <<status, score, submission, live, windowOpen, checked,
                   jobAnswer, tries, stalls, finalize>>

\* The handler rethrows: Bull delays the job, or keeps it as failed.
Throw(q) ==
    /\ tries' = [tries EXCEPT ![q] = @ + 1]
    /\ jobState' = [jobState EXCEPT ![q] =
                      IF tries[q] + 1 < MaxAttempts THEN "waiting" ELSE "failed"]
    /\ Unlock(q)
    /\ UNCHANGED <<status, score, submission, live, windowOpen, checked,
                   jobAnswer, stalls, finalize>>

\* validateItemVersionBelongsToAttempt is false for a retired item version.
ValidationFails(q) ==
    /\ jobState[q] = "waiting"
    /\ q \notin live
    /\ Throw(q)

JobThrows(q) ==
    /\ jobState[q] \in {"saving", "checking", "consolidating", "locked"}
    /\ Throw(q)

\* The worker's process dies: Bull finds the job stalled and queues it again,
\* or fails it when that has happened too often.
JobStalls(q) ==
    /\ jobState[q] \in Running
    /\ IF stalls[q] < MaxStalled
         THEN /\ jobState' = [jobState EXCEPT ![q] = "waiting"]
              /\ stalls' = [stalls EXCEPT ![q] = @ + 1]
         ELSE /\ jobState' = [jobState EXCEPT ![q] = "failed"]
              /\ UNCHANGED stalls
    /\ Unlock(q)
    /\ UNCHANGED <<status, score, submission, live, windowOpen, checked,
                   jobAnswer, tries, finalize>>

-----------------------------------------------------------------------------
(***************************************************************************)
(* consolidateAttemptScore: lock the attempt and read the submissions, add *)
(* the points up, write score, COMPLETED and submittedAt, commit.  Nothing *)
(* else can tell the lock from the read, so they are one step.             *)
(***************************************************************************)
\* Mutant: SELECT without FOR UPDATE.
ReadWithoutLock(p) ==
    /\ lock' = p
    /\ snapshot' = submission

LockAttempt(p) ==
    /\ lock = Nobody
    /\ lock' = p
    /\ snapshot' = submission

\* Mutant: the score is written and the status is not.
CommitScoreOnly(p) ==
    /\ lock = p
    /\ score' = Total(snapshot)
    /\ UNCHANGED <<status, windowOpen>>
    /\ lock' = Nobody
    /\ snapshot' = NoSubmissions

CommitScore(p) ==
    /\ lock = p
    /\ score' = Total(snapshot)
    /\ status' = "COMPLETED"
    /\ windowOpen' = LateAnswers
    /\ lock' = Nobody
    /\ snapshot' = NoSubmissions

WorkerLocks(q) ==
    /\ JobMoves(q, "consolidating", "locked")
    /\ LockAttempt(q)
    /\ UNCHANGED <<status, score, submission, live, windowOpen, checked,
                   finalize>>

WorkerCommits(q) ==
    /\ JobMoves(q, "locked", "completing")
    /\ CommitScore(q)
    /\ UNCHANGED <<submission, live, checked, finalize>>

-----------------------------------------------------------------------------
(***************************************************************************)
(* POST .../finalize.  The status is read once, before anything is locked. *)
(***************************************************************************)
FinalizeMoves(f, from, to) ==
    /\ finalize[f] = from
    /\ finalize' = [finalize EXCEPT ![f] = to]

\* COMPLETED is answered at once and changes nothing, so it has no action.
FinalizeAttempt(f) ==
    /\ \/ status = "IN_PROGRESS" /\ FinalizeMoves(f, "idle", "marking")
       \/ status = "SUBMITTED" /\ FinalizeMoves(f, "idle", "consolidating")
    /\ UNCHANGED <<status, score, submission, live, windowOpen, checked,
                   jobVars, txVars>>

\* The update names only the id: whatever the status is, it becomes SUBMITTED.
MarkSubmitted(f) ==
    /\ lock = Nobody
    /\ FinalizeMoves(f, "marking", "consolidating")
    /\ status' = "SUBMITTED"
    /\ windowOpen' = LateAnswers
    /\ UNCHANGED <<score, submission, live, checked, jobVars, txVars>>

FinalizerLocks(f) ==
    /\ FinalizeMoves(f, "consolidating", "locked")
    /\ LockAttempt(f)
    /\ UNCHANGED <<status, score, submission, live, windowOpen, checked,
                   jobVars>>

FinalizerCommits(f) ==
    /\ FinalizeMoves(f, "locked", "idle")
    /\ CommitScore(f)
    /\ UNCHANGED <<submission, live, checked, jobVars>>

\* The process dies or a query fails: the request ends with an error.
FinalizeAborts(f) ==
    /\ finalize[f] # "idle"
    /\ FinalizeMayFail \/ finalize[f] = "marking"
    /\ finalize' = [finalize EXCEPT ![f] = "idle"]
    /\ Unlock(f)
    /\ UNCHANGED <<status, score, submission, live, windowOpen, checked,
                   jobVars>>

-----------------------------------------------------------------------------
Environment ==
    \/ LateWindowCloses
    \/ \E q \in Question : RetireItem(q)

Submit == \E q \in Question, r \in Response :
    VerifyActiveAttempt(q, r) \/ EnqueueAnswer(q, r)

Worker(q) ==
    \/ StartJob(q)
    \/ UpsertSubmission(q)
    \/ ReadAttemptStatus(q)
    \/ WorkerLocks(q)
    \/ WorkerCommits(q)
    \/ CompleteJob(q)
    \/ ValidationFails(q)

WorkerFault(q) == JobThrows(q) \/ JobStalls(q)

FinalizeProgress(f) ==
    \/ MarkSubmitted(f)
    \/ FinalizerLocks(f)
    \/ FinalizerCommits(f)

Next ==
    \/ Environment
    \/ Submit
    \/ \E q \in Question : Worker(q) \/ WorkerFault(q)
    \/ \E f \in Finalizer :
         FinalizeAttempt(f) \/ FinalizeProgress(f) \/ FinalizeAborts(f)

\* Bull keeps handing out waiting jobs, a running handler goes on, and
\* PostgreSQL grants a row lock in the order in which it was asked for.
Fairness ==
    /\ \A q \in Question :
         /\ WF_vars(Worker(q))
         /\ SF_vars(WorkerLocks(q))
         /\ SF_vars(UpsertSubmission(q))
    /\ \A f \in Finalizer :
         /\ WF_vars(FinalizerCommits(f))
         /\ SF_vars(MarkSubmitted(f))
         /\ SF_vars(FinalizerLocks(f))

Spec == Init /\ [][Next]_vars
FairSpec == Spec /\ Fairness

-----------------------------------------------------------------------------
(* Every variable of the attempt has a value the code can give it; a score *)
(* that is not NULL is the total of some set of submissions.               *)
TypeOK ==
    /\ status \in {"IN_PROGRESS"} \cup Closed
    /\ score \in Scores
    /\ submission \in Submissions
    /\ live \in SUBSET Question
    /\ windowOpen \in BOOLEAN
    /\ checked \in SUBSET (Question \X Response)
    /\ jobState \in [Question -> JobStates]
    /\ jobAnswer \in Submissions
    /\ tries \in [Question -> Nat]
    /\ stalls \in [Question -> Nat]
    /\ finalize \in [Finalizer -> FinalizeStates]
    /\ lock \in Question \cup Finalizer \cup {Nobody}
    /\ snapshot \in Submissions

\* The job of q has stored its answer, or stored it on an earlier try, and has
\* yet to go through a consolidation.
Owes(q) ==
    /\ jobState[q] \notin {"none", "locked", "completing"}
    /\ submission[q] = jobAnswer[q]

\* A completed attempt whose score is not the total of its submissions.
Stale == status = "COMPLETED" /\ score # Total(submission)

(* Once every job has left the queue, the score of a completed attempt is  *)
(* the total of the submissions stored for it, however the workers, the    *)
(* late answers and the finalize requests were interleaved: the last       *)
(* consolidation to commit never hides an answer that came after its read. *)
SettledScore ==
    status = "COMPLETED" /\ (\A q \in Question : jobState[q] = "none")
      => score = Total(submission)

(* The reason SettledScore holds: a stale score always has a job in Redis  *)
(* that will consolidate again, or a worker's transaction open that will    *)
(* correct it.  A finalize request does not count: it may die unnoticed.   *)
StaleScoreHasRepair ==
    Stale => \/ \E q \in Question : Owes(q)
             \/ lock \in Question /\ snapshot = submission

(* While a consolidation is open, an answer stored after its read belongs  *)
(* to a job that will consolidate after it.                                *)
LateWriteHasRepair ==
    lock # Nobody /\ snapshot # submission => \E q \in Question : Owes(q)

(* A row lock is held exactly by the handler that is inside its            *)
(* transaction.                                                            *)
LockHolder ==
    /\ \A q \in Question : jobState[q] = "locked" <=> lock = q
    /\ \A f \in Finalizer : finalize[f] = "locked" <=> lock = f

(* Nothing is consolidated, and no worker is on its way to it, before a    *)
(* finalize request has marked the attempt SUBMITTED.                      *)
OpenIsUnscored ==
    status = "IN_PROGRESS" =>
      /\ score = NoScore
      /\ lock = Nobody
      /\ \A q \in Question : jobState[q] \notin {"consolidating", "locked"}
      /\ \A f \in Finalizer : finalize[f] \notin {"consolidating", "locked"}

(* A handler past its upsert runs with its own answer in the database: no  *)
(* other job of the question can have stored another one meanwhile.        *)
StoredAnswerIsOwn == \A q \in Question :
    jobState[q] \in {"checking", "consolidating", "locked", "completing"}
      => submission[q] = jobAnswer[q]

\* A job that exists carries an answer.
JobsCarryAnswers == \A q \in Question :
    jobState[q] # "none" => jobAnswer[q] \in Response

(* The inductive invariant behind the theorems of AttemptScoringProofs.    *)
IndInv ==
    /\ TypeOK
    /\ LockHolder
    /\ OpenIsUnscored
    /\ StoredAnswerIsOwn
    /\ JobsCarryAnswers
    /\ StaleScoreHasRepair
    /\ LateWriteHasRepair

(* When no finalize request fails once it has marked the attempt, this is  *)
(* SUBMITTED only while one of them is on its way to consolidate it: none  *)
(* is left closed to the candidate and without a score.                    *)
SubmittedIsTransient ==
    status = "SUBMITTED" /\ ~FinalizeMayFail
      => \E f \in Finalizer : finalize[f] \in {"consolidating", "locked"}

(* An attempt never goes back to IN_PROGRESS and a score, once given, is   *)
(* replaced but never taken away.                                          *)
NeverReopened ==
    [][ /\ status \in Closed => status' \in Closed
        /\ score # NoScore => score' # NoScore ]_vars

\* The answer on its way: what the job of the question carries.
Held == [q \in Question |->
           IF jobState[q] = "none" THEN Unanswered ELSE jobAnswer[q]]

Register == INSTANCE AnswerRegister WITH stored <- submission, held <- Held

(* The queue implements a register per question: a queued answer is never  *)
(* replaced, reordered or dropped, whatever crashes and retries, before it *)
(* is in the database (AnswerRegister).                                    *)
ImplementsRegister == Register!Spec

(* A stale score is corrected, unless the job that owes it has failed for  *)
(* good (attempts exhausted).                                              *)
StaleScoreIsCorrected ==
    Stale ~> (~Stale \/ \E q \in Question : jobState[q] = "failed")

(* A submitted attempt is consolidated, if no request dies after its mark. *)
SubmittedIsConsolidated == status = "SUBMITTED" ~> status = "COMPLETED"

(* A queued answer is stored or its job ends up failed; it never waits for *)
(* ever behind the consolidations of the other questions.                  *)
QueuedAnswersAreHandled == \A q \in Question :
    jobState[q] \notin {"none", "failed"} ~> jobState[q] \in {"none", "failed"}
=============================================================================
