------------------------ MODULE AttemptScoringProofs ------------------------
(***************************************************************************)
(* Proofs about AttemptScoring for every set of questions, responses and   *)
(* finalize requests, every grading function and every number of retries.  *)
(***************************************************************************)
EXTENDS AttemptScoring, TLAPS

\* An attempt without answers is a possible set of submissions.
LEMMA NoSubmissionsType == NoSubmissions \in Submissions
BY DEF NoSubmissions, Submissions

\* What a transaction read has a total, and that is a possible score.
LEMMA TotalIsScore ==
    ASSUME NEW s \in Submissions
    PROVE  Total(s) \in Scores
BY DEF Scores

\* A total is a number, never the NULL of an attempt without a score.
LEMMA TotalIsNotNull ==
    ASSUME NEW s \in Submissions
    PROVE  Total(s) # NoScore
BY ScoreAssumption

\* Storing a response, or the answer of a job, keeps the submissions typed.
LEMMA SubmissionsUpdate ==
    ASSUME NEW s \in Submissions, NEW q \in Question,
           NEW r \in Response \cup {Unanswered}
    PROVE  [s EXCEPT ![q] = r] \in Submissions
BY DEF Submissions

-----------------------------------------------------------------------------
(* The attempt starts with typed variables.                                *)
LEMMA InitTypeOK == Init => TypeOK
<1>1. NoSubmissions \in Submissions
  BY NoSubmissionsType
<1>2. [q \in Question |-> Unanswered] \in Submissions
  BY DEF Submissions
<1>3. NoScore \in Scores
  BY DEF Scores
<1>4. /\ [q \in Question |-> "none"] \in [Question -> JobStates]
      /\ [q \in Question |-> 0] \in [Question -> Nat]
      /\ [f \in Finalizer |-> "idle"] \in [Finalizer -> FinalizeStates]
  BY DEF JobStates, FinalizeStates
<1>. QED
  BY <1>1, <1>2, <1>3, <1>4
     DEF Init, TypeOK, Closed

(* Every action of the environment, of a submit request, of a worker and   *)
(* of a finalize request keeps the variables typed.                        *)
LEMMA NextTypeOK == TypeOK /\ [Next]_vars => TypeOK'
<1>. SUFFICES ASSUME TypeOK, [Next]_vars PROVE TypeOK'
  OBVIOUS
<1>. USE ConstantsAssumption, NoSubmissionsType, TotalIsScore
<1>1. CASE Environment
  BY <1>1 DEF Environment, LateWindowCloses, RetireItem, TypeOK, jobVars, txVars
<1>2. CASE Submit
  <2>1. ASSUME NEW q \in Question, NEW r \in Response, VerifyActiveAttempt(q, r)
        PROVE  TypeOK'
    BY <2>1 DEF VerifyActiveAttempt, TypeOK, jobVars, txVars
  <2>2. ASSUME NEW q \in Question, NEW r \in Response, EnqueueAnswer(q, r)
        PROVE  TypeOK'
    <3>1. jobAnswer' \in Submissions
      BY <2>2 DEF EnqueueAnswer, AddJob, jobVars, TypeOK, Submissions
    <3>2. jobState' \in [Question -> JobStates]
      BY <2>2 DEF EnqueueAnswer, AddJob, jobVars, TypeOK, JobStates
    <3>3. /\ tries' \in [Question -> Nat]
          /\ stalls' \in [Question -> Nat]
      <4>1. tries \in [Question -> Nat] /\ stalls \in [Question -> Nat]
        BY DEF TypeOK
      <4>2. CASE jobState[q] = "none"
        BY <2>2, <4>1, <4>2 DEF EnqueueAnswer, AddJob
      <4>3. CASE jobState[q] # "none"
        BY <2>2, <4>1, <4>3 DEF EnqueueAnswer, jobVars
      <4>. QED
        BY <4>2, <4>3
    <3>. QED
      BY <2>2, <3>1, <3>2, <3>3 DEF EnqueueAnswer, TypeOK, txVars
  <2>. QED
    BY <1>2, <2>1, <2>2 DEF Submit
<1>3. CASE \E q \in Question : Worker(q) \/ WorkerFault(q)
  <2>. PICK q \in Question : Worker(q) \/ WorkerFault(q)
    BY <1>3
  <2>1. CASE StartJob(q) \/ ReadAttemptStatus(q) \/ CompleteJob(q)
    BY <2>1 DEF StartJob, ReadAttemptStatus, CompleteJob, JobMoves, TypeOK,
                JobStates, txVars
  <2>2. CASE UpsertSubmission(q)
    <3>1. submission' \in Submissions
      BY <2>2 DEF UpsertSubmission, TypeOK, Submissions
    <3>. QED
      BY <2>2, <3>1 DEF UpsertSubmission, JobMoves, TypeOK, JobStates, txVars
  <2>3. CASE WorkerLocks(q)
    BY <2>3 DEF WorkerLocks, LockAttempt, JobMoves, TypeOK, JobStates
  <2>4. CASE WorkerCommits(q)
    BY <2>4 DEF WorkerCommits, CommitScore, JobMoves, TypeOK, JobStates, Closed
  <2>5. ASSUME Throw(q)
        PROVE  TypeOK'
    <3>1. tries' \in [Question -> Nat]
      BY <2>5 DEF Throw, TypeOK
    <3>2. jobState' \in [Question -> JobStates]
      BY <2>5 DEF Throw, TypeOK, JobStates
    <3>. QED
      BY <2>5, <3>1, <3>2 DEF Throw, Unlock, TypeOK, txVars
  <2>6. CASE JobStalls(q)
    <3>1. stalls' \in [Question -> Nat]
      <4>1. stalls \in [Question -> Nat]
        BY DEF TypeOK
      <4>2. CASE stalls[q] < MaxStalled
        BY <2>6, <4>1, <4>2 DEF JobStalls
      <4>3. CASE ~(stalls[q] < MaxStalled)
        BY <2>6, <4>1, <4>3 DEF JobStalls
      <4>. QED
        BY <4>2, <4>3
    <3>2. jobState' \in [Question -> JobStates]
      BY <2>6 DEF JobStalls, TypeOK, JobStates
    <3>. QED
      BY <2>6, <3>1, <3>2 DEF JobStalls, Unlock, TypeOK, txVars
  <2>. QED
    BY <2>1, <2>2, <2>3, <2>4, <2>5, <2>6
       DEF Worker, WorkerFault, ValidationFails, JobThrows
<1>4. CASE \E f \in Finalizer :
             FinalizeAttempt(f) \/ FinalizeProgress(f) \/ FinalizeAborts(f)
  BY <1>4 DEF FinalizeAttempt, FinalizeProgress, MarkSubmitted, FinalizerLocks,
       FinalizerCommits, FinalizeAborts, FinalizeMoves, LockAttempt, CommitScore,
       Unlock, TypeOK, Closed, FinalizeStates, jobVars, txVars
<1>5. CASE UNCHANGED vars
  BY <1>5 DEF vars, jobVars, txVars, TypeOK
<1>. QED
  BY <1>1, <1>2, <1>3, <1>4, <1>5 DEF Next

(* Spec keeps every variable typed.                                        *)
THEOREM TypeCorrect == Spec => []TypeOK
BY InitTypeOK, NextTypeOK, PTL DEF Spec

-----------------------------------------------------------------------------
\* The part of IndInv that a typed step has to preserve.
Repairs ==
    /\ LockHolder
    /\ OpenIsUnscored
    /\ StoredAnswerIsOwn
    /\ JobsCarryAnswers
    /\ StaleScoreHasRepair
    /\ LateWriteHasRepair

(* Nothing is owed, locked or scored when the attempt starts.              *)
LEMMA InitRepairs == Init => Repairs
BY ConstantsAssumption
   DEF Init, Repairs, LockHolder, OpenIsUnscored, StoredAnswerIsOwn,
       JobsCarryAnswers, StaleScoreHasRepair, LateWriteHasRepair, Stale

(* The environment and a request that only checks the attempt change       *)
(* nothing the invariant looks at.                                         *)
LEMMA QuietStepRepairs ==
    ASSUME Repairs,
           UNCHANGED <<status, score, submission, jobVars, finalize, txVars>>
    PROVE  Repairs'
BY DEF Repairs, LockHolder, OpenIsUnscored, StoredAnswerIsOwn,
       JobsCarryAnswers, StaleScoreHasRepair, LateWriteHasRepair, Stale, Owes,
       Total, Points, jobVars, txVars

(* Queueing an answer: only a question without a job gets one.             *)
LEMMA EnqueueRepairs ==
    ASSUME IndInv, NEW q \in Question, NEW r \in Response, EnqueueAnswer(q, r)
    PROVE  Repairs'
<1>1. CASE jobState[q] # "none"
  <2>1. UNCHANGED <<status, score, submission, jobVars, finalize, txVars>>
    BY <1>1 DEF EnqueueAnswer
  <2>. QED
    BY <2>1, QuietStepRepairs DEF IndInv, Repairs
<1>2. CASE jobState[q] = "none"
  <2>1. /\ jobState \in [Question -> JobStates]
        /\ jobAnswer \in [Question -> Response \cup {Unanswered}]
    BY DEF IndInv, TypeOK, Submissions
  <2>2. /\ jobState' = [jobState EXCEPT ![q] = "waiting"]
        /\ jobAnswer' = [jobAnswer EXCEPT ![q] = r]
        /\ UNCHANGED <<status, score, submission, finalize, lock, snapshot>>
    BY <1>2 DEF EnqueueAnswer, AddJob, txVars
  <2>3. \A p \in Question : Owes(p) => Owes(p)'
    BY <1>2, <2>1, <2>2 DEF Owes
  <2>4. LockHolder' /\ OpenIsUnscored'
    BY <1>2, <2>1, <2>2 DEF IndInv, LockHolder, OpenIsUnscored
  <2>5. StoredAnswerIsOwn' /\ JobsCarryAnswers'
    BY <2>1, <2>2 DEF IndInv, StoredAnswerIsOwn, JobsCarryAnswers
  <2>6. StaleScoreHasRepair' /\ LateWriteHasRepair'
    <3>1. Stale' => Stale
      BY <2>2 DEF Stale, Total, Points
    <3>. QED
      BY <2>2, <2>3, <3>1 DEF IndInv, StaleScoreHasRepair, LateWriteHasRepair
  <2>. QED
    BY <2>4, <2>5, <2>6 DEF Repairs
<1>. QED
  BY <1>1, <1>2

(* A worker that takes a job, reads the status or returns.  Reading        *)
(* IN_PROGRESS lets it return without a consolidation: nothing is scored   *)
(* or locked then, so nothing can be stale.                                *)
LEMMA WorkerReadRepairs ==
    ASSUME IndInv, NEW q \in Question,
           StartJob(q) \/ ReadAttemptStatus(q) \/ CompleteJob(q)
    PROVE  Repairs'
<1>1. /\ jobState \in [Question -> JobStates]
      /\ status \in {"IN_PROGRESS"} \cup Closed
  BY DEF IndInv, TypeOK
<1>2. UNCHANGED <<status, score, submission, jobAnswer, finalize, lock, snapshot>>
  BY DEF StartJob, ReadAttemptStatus, CompleteJob, JobMoves, txVars
<1>3. \A p \in Question : p # q => jobState'[p] = jobState[p]
  BY <1>1 DEF StartJob, ReadAttemptStatus, CompleteJob, JobMoves
<1>4. \/ jobState[q] = "waiting" /\ jobState'[q] = "saving"
      \/ jobState[q] = "checking" /\ jobState'[q] = "consolidating" /\ status \in Closed
      \/ jobState[q] = "checking" /\ jobState'[q] = "completing" /\ status = "IN_PROGRESS"
      \/ jobState[q] = "completing" /\ jobState'[q] = "none"
  BY <1>1 DEF StartJob, ReadAttemptStatus, CompleteJob, JobMoves
<1>5. (Stale \/ lock # Nobody) => \A p \in Question : Owes(p) => Owes(p)'
  BY <1>1, <1>2, <1>3, <1>4 DEF Owes, Stale, IndInv, OpenIsUnscored
<1>6. LockHolder' /\ OpenIsUnscored'
  BY <1>1, <1>2, <1>3, <1>4 DEF IndInv, LockHolder, OpenIsUnscored, Closed
<1>7. StoredAnswerIsOwn' /\ JobsCarryAnswers'
  BY <1>1, <1>2, <1>3, <1>4 DEF IndInv, StoredAnswerIsOwn, JobsCarryAnswers
<1>8. StaleScoreHasRepair' /\ LateWriteHasRepair'
  <2>1. Stale' => Stale
    BY <1>2 DEF Stale, Total, Points
  <2>. QED
    BY <1>2, <1>5, <2>1 DEF IndInv, StaleScoreHasRepair, LateWriteHasRepair
<1>. QED
  BY <1>6, <1>7, <1>8 DEF Repairs

(* The upsert: from now on the job owes a consolidation.                   *)
LEMMA UpsertRepairs ==
    ASSUME IndInv, NEW q \in Question, UpsertSubmission(q)
    PROVE  Repairs'
<1>1. /\ jobState \in [Question -> JobStates]
      /\ submission \in [Question -> Response \cup {Unanswered}]
  BY DEF IndInv, TypeOK, Submissions
<1>2. /\ jobState[q] = "saving"
      /\ jobState' = [jobState EXCEPT ![q] = "checking"]
      /\ submission' = [submission EXCEPT ![q] = jobAnswer[q]]
      /\ UNCHANGED <<status, score, jobAnswer, finalize, lock, snapshot>>
  BY DEF UpsertSubmission, JobMoves, txVars
<1>3. Owes(q)'
  BY <1>1, <1>2 DEF Owes
<1>4. LockHolder' /\ OpenIsUnscored'
  BY <1>1, <1>2 DEF IndInv, LockHolder, OpenIsUnscored
<1>5. StoredAnswerIsOwn' /\ JobsCarryAnswers'
  BY <1>1, <1>2 DEF IndInv, StoredAnswerIsOwn, JobsCarryAnswers
<1>6. StaleScoreHasRepair' /\ LateWriteHasRepair'
  BY <1>3 DEF StaleScoreHasRepair, LateWriteHasRepair
<1>. QED
  BY <1>4, <1>5, <1>6 DEF Repairs

(* A handler that throws or dies leaves its job in Redis, waiting or       *)
(* failed, and PostgreSQL rolls its transaction back.  A job that was      *)
(* inside the transaction owes the consolidation again.                    *)
LEMMA ReleaseRepairs ==
    ASSUME IndInv, NEW q \in Question, jobState[q] # "none",
           NEW to \in {"waiting", "failed"},
           jobState' = [jobState EXCEPT ![q] = to], Unlock(q),
           UNCHANGED <<status, score, submission, jobAnswer, finalize>>
    PROVE  Repairs'
<1>1. jobState \in [Question -> JobStates]
  BY DEF IndInv, TypeOK
<1>2. /\ lock = q => lock' = Nobody
      /\ lock # q => UNCHANGED <<lock, snapshot>>
      /\ jobState[q] = "locked" <=> lock = q
  BY DEF Unlock, txVars, IndInv, LockHolder
<1>3. \A p \in Question : Owes(p) => Owes(p)'
  BY <1>1 DEF Owes
<1>4. lock = q => Owes(q)'
  BY <1>1, <1>2 DEF Owes, IndInv, StoredAnswerIsOwn
<1>5. LockHolder' /\ OpenIsUnscored'
  BY <1>1, <1>2, ConstantsAssumption DEF IndInv, LockHolder, OpenIsUnscored
<1>6. StoredAnswerIsOwn' /\ JobsCarryAnswers'
  BY <1>1 DEF IndInv, StoredAnswerIsOwn, JobsCarryAnswers
<1>7. StaleScoreHasRepair' /\ LateWriteHasRepair'
  <2>1. Stale' => Stale
    BY DEF Stale, Total, Points
  <2>2. StaleScoreHasRepair'
    BY <1>2, <1>3, <1>4, <2>1 DEF IndInv, StaleScoreHasRepair
  <2>3. LateWriteHasRepair'
    BY <1>2, <1>3 DEF IndInv, LateWriteHasRepair
  <2>. QED
    BY <2>2, <2>3
<1>. QED
  BY <1>5, <1>6, <1>7 DEF Repairs

(* Throwing, and being found stalled, are such releases.                   *)
LEMMA FaultRepairs ==
    ASSUME IndInv, NEW q \in Question, ValidationFails(q) \/ WorkerFault(q)
    PROVE  Repairs'
<1>1. CASE ValidationFails(q) \/ JobThrows(q)
  <2>1. jobState[q] # "none" /\ Throw(q)
    BY <1>1 DEF ValidationFails, JobThrows
  <2>. DEFINE to == IF tries[q] + 1 < MaxAttempts THEN "waiting" ELSE "failed"
  <2>2. jobState' = [jobState EXCEPT ![q] = to] /\ to \in {"waiting", "failed"}
    BY <2>1 DEF Throw
  <2>. QED
    BY <2>1, <2>2, ReleaseRepairs DEF Throw
<1>2. CASE JobStalls(q)
  <2>. DEFINE to == IF stalls[q] < MaxStalled THEN "waiting" ELSE "failed"
  <2>1. jobState[q] # "none"
    BY <1>2 DEF JobStalls, Running
  <2>2. jobState' = [jobState EXCEPT ![q] = to] /\ to \in {"waiting", "failed"}
    BY <1>2 DEF JobStalls
  <2>. QED
    BY <1>2, <2>1, <2>2, ReleaseRepairs DEF JobStalls
<1>. QED
  BY <1>1, <1>2 DEF WorkerFault

-----------------------------------------------------------------------------
(* A worker enters its transaction: it reads every submission there is, so *)
(* the score it will write is up to date as of now.                        *)
LEMMA WorkerLocksRepairs ==
    ASSUME IndInv, NEW q \in Question, WorkerLocks(q)
    PROVE  Repairs'
<1>1. jobState \in [Question -> JobStates]
  BY DEF IndInv, TypeOK
<1>2. /\ jobState[q] = "consolidating" /\ lock = Nobody
      /\ jobState' = [jobState EXCEPT ![q] = "locked"]
      /\ lock' = q /\ snapshot' = submission
      /\ UNCHANGED <<status, score, submission, jobAnswer, finalize>>
  BY DEF WorkerLocks, JobMoves, LockAttempt
<1>3. LockHolder' /\ OpenIsUnscored'
  BY <1>1, <1>2, ConstantsAssumption DEF IndInv, LockHolder, OpenIsUnscored
<1>4. StoredAnswerIsOwn' /\ JobsCarryAnswers'
  BY <1>1, <1>2 DEF IndInv, StoredAnswerIsOwn, JobsCarryAnswers
<1>5. StaleScoreHasRepair' /\ LateWriteHasRepair'
  BY <1>2 DEF StaleScoreHasRepair, LateWriteHasRepair
<1>. QED
  BY <1>3, <1>4, <1>5 DEF Repairs

(* A finalize request enters its transaction.  Whoever owed a              *)
(* consolidation still owes it: the request may fail.                      *)
LEMMA FinalizerLocksRepairs ==
    ASSUME IndInv, NEW f \in Finalizer, FinalizerLocks(f)
    PROVE  Repairs'
<1>1. finalize \in [Finalizer -> FinalizeStates]
  BY DEF IndInv, TypeOK
<1>2. /\ finalize[f] = "consolidating" /\ lock = Nobody
      /\ finalize' = [finalize EXCEPT ![f] = "locked"]
      /\ lock' = f /\ snapshot' = submission
      /\ UNCHANGED <<status, score, submission, jobState, jobAnswer>>
  BY DEF FinalizerLocks, FinalizeMoves, LockAttempt, jobVars
<1>3. LockHolder' /\ OpenIsUnscored'
  BY <1>1, <1>2, ConstantsAssumption DEF IndInv, LockHolder, OpenIsUnscored
<1>4. StoredAnswerIsOwn' /\ JobsCarryAnswers'
  BY <1>2 DEF IndInv, StoredAnswerIsOwn, JobsCarryAnswers
<1>5. \A p \in Question : Owes(p) => Owes(p)'
  BY <1>2 DEF Owes
<1>6. StaleScoreHasRepair' /\ LateWriteHasRepair'
  <2>1. Stale' => Stale
    BY <1>2 DEF Stale, Total, Points
  <2>2. lock \notin Question
    BY <1>2, ConstantsAssumption
  <2>. QED
    BY <1>2, <1>5, <2>1, <2>2 DEF IndInv, StaleScoreHasRepair, LateWriteHasRepair
<1>. QED
  BY <1>3, <1>4, <1>6 DEF Repairs

(* A commit writes the total of what the transaction read.  If that is no  *)
(* longer what is stored, the job that stored the difference still owes.   *)
LEMMA CommitLeavesRepair ==
    ASSUME IndInv, NEW p, p # Nobody, CommitScore(p), UNCHANGED submission,
           \A q \in Question : Owes(q) => Owes(q)'
    PROVE  StaleScoreHasRepair' /\ LateWriteHasRepair'
<1>1. lock' = Nobody /\ lock # Nobody /\ score' = Total(snapshot)
  BY DEF CommitScore
<1>2. CASE snapshot = submission
  <2>1. Total(snapshot) = Total(submission)'
    BY <1>2 DEF Total, Points
  <2>. QED
    BY <1>1, <2>1 DEF StaleScoreHasRepair, LateWriteHasRepair, Stale
<1>3. CASE snapshot # submission
  <2>1. \E q \in Question : Owes(q)'
    BY <1>1, <1>3 DEF IndInv, LateWriteHasRepair
  <2>. QED
    BY <2>1 DEF StaleScoreHasRepair, LateWriteHasRepair
<1>. QED
  BY <1>2, <1>3

LEMMA WorkerCommitsRepairs ==
    ASSUME IndInv, NEW q \in Question, WorkerCommits(q)
    PROVE  Repairs'
<1>1. jobState \in [Question -> JobStates]
  BY DEF IndInv, TypeOK
<1>2. /\ jobState[q] = "locked" /\ lock = q
      /\ jobState' = [jobState EXCEPT ![q] = "completing"]
      /\ lock' = Nobody /\ status' = "COMPLETED"
      /\ UNCHANGED <<submission, jobAnswer, finalize>>
  BY DEF WorkerCommits, JobMoves, CommitScore
<1>3. LockHolder' /\ OpenIsUnscored'
  BY <1>1, <1>2, ConstantsAssumption DEF IndInv, LockHolder, OpenIsUnscored
<1>4. StoredAnswerIsOwn' /\ JobsCarryAnswers'
  BY <1>1, <1>2 DEF IndInv, StoredAnswerIsOwn, JobsCarryAnswers
<1>5. \A p \in Question : Owes(p) => Owes(p)'
  BY <1>1, <1>2 DEF Owes
<1>6. StaleScoreHasRepair' /\ LateWriteHasRepair'
  BY <1>2, <1>5, CommitLeavesRepair, ConstantsAssumption DEF WorkerCommits
<1>. QED
  BY <1>3, <1>4, <1>6 DEF Repairs

(* The steps of a finalize request.                                        *)
LEMMA FinalizerRepairs ==
    ASSUME IndInv, NEW f \in Finalizer,
           FinalizeAttempt(f) \/ MarkSubmitted(f) \/ FinalizerCommits(f)
             \/ FinalizeAborts(f)
    PROVE  Repairs'
<1>1. /\ finalize \in [Finalizer -> FinalizeStates]
      /\ finalize[f] = "locked" <=> lock = f
      /\ f \notin Question /\ f # Nobody
  BY ConstantsAssumption DEF IndInv, TypeOK, LockHolder
<1>2. UNCHANGED <<submission, jobState, jobAnswer>>
  BY DEF FinalizeAttempt, MarkSubmitted, FinalizerCommits, FinalizeAborts, jobVars
<1>3. StoredAnswerIsOwn' /\ JobsCarryAnswers'
  BY <1>2 DEF IndInv, StoredAnswerIsOwn, JobsCarryAnswers
<1>4. \A q \in Question : Owes(q) => Owes(q)'
  BY <1>2 DEF Owes
<1>5. LockHolder' /\ OpenIsUnscored'
  BY <1>1, <1>2, ConstantsAssumption
     DEF FinalizeAttempt, MarkSubmitted, FinalizerCommits, FinalizeAborts,
         FinalizeMoves, CommitScore, Unlock, txVars, IndInv, LockHolder,
         OpenIsUnscored, FinalizeStates
<1>6. StaleScoreHasRepair' /\ LateWriteHasRepair'
  <2>1. CASE FinalizerCommits(f)
    BY <1>1, <1>4, <2>1, CommitLeavesRepair DEF FinalizerCommits
  <2>2. CASE MarkSubmitted(f)
    BY <2>2 DEF MarkSubmitted, txVars, StaleScoreHasRepair, LateWriteHasRepair, Stale
  <2>3. CASE FinalizeAttempt(f) \/ FinalizeAborts(f)
    <3>1. /\ UNCHANGED <<status, score>>
          /\ lock' = Nobody \/ UNCHANGED <<lock, snapshot>>
          /\ lock \in Question => UNCHANGED <<lock, snapshot>>
      BY <1>1, <2>3 DEF FinalizeAttempt, FinalizeAborts, Unlock, txVars
    <3>2. Stale' => Stale
      BY <1>2, <3>1 DEF Stale, Total, Points
    <3>. QED
      BY <1>2, <1>4, <3>1, <3>2 DEF IndInv, StaleScoreHasRepair, LateWriteHasRepair
  <2>. QED
    BY <2>1, <2>2, <2>3
<1>. QED
  BY <1>3, <1>5, <1>6 DEF Repairs

-----------------------------------------------------------------------------
(* Every step keeps the inductive invariant.                               *)
LEMMA NextIndInv == IndInv /\ [Next]_vars => IndInv'
<1>. SUFFICES ASSUME IndInv, [Next]_vars PROVE IndInv'
  OBVIOUS
<1>1. TypeOK'
  BY NextTypeOK DEF IndInv
<1>2. Repairs'
  <2>. USE DEF Next, jobVars, txVars
  <2>0. Repairs
    BY DEF IndInv, Repairs
  <2>1. CASE Environment \/ UNCHANGED vars
    BY <2>0, <2>1, QuietStepRepairs DEF Environment, LateWindowCloses, RetireItem, vars
  <2>2. CASE Submit
    <3>. PICK q \in Question, r \in Response :
               VerifyActiveAttempt(q, r) \/ EnqueueAnswer(q, r)
      BY <2>2 DEF Submit
    <3>1. CASE VerifyActiveAttempt(q, r)
      BY <2>0, <3>1, QuietStepRepairs DEF VerifyActiveAttempt
    <3>2. CASE EnqueueAnswer(q, r)
      BY <3>2, EnqueueRepairs
    <3>. QED
      BY <3>1, <3>2
  <2>3. ASSUME NEW q \in Question, Worker(q) \/ WorkerFault(q)
        PROVE  Repairs'
    BY <2>3, WorkerReadRepairs, UpsertRepairs, WorkerLocksRepairs,
       WorkerCommitsRepairs, FaultRepairs DEF Worker
  <2>4. ASSUME NEW f \in Finalizer,
               FinalizeAttempt(f) \/ FinalizeProgress(f) \/ FinalizeAborts(f)
        PROVE  Repairs'
    BY <2>4, FinalizerRepairs, FinalizerLocksRepairs DEF FinalizeProgress
  <2>. QED
    BY <2>1, <2>2, <2>3, <2>4
<1>. QED
  BY <1>1, <1>2 DEF IndInv, Repairs

(* The inductive invariant holds throughout.                               *)
THEOREM Invariance == Spec => []IndInv
<1>1. Init => IndInv
  BY InitTypeOK, InitRepairs DEF IndInv, Repairs
<1>. QED
  BY <1>1, NextIndInv, PTL DEF Spec

(* Once every job has left the queue, the score of a completed attempt is  *)
(* the total of its submissions.                                           *)
THEOREM ScoreSettles == Spec => []SettledScore
<1>1. IndInv => SettledScore
  <2>. SUFFICES ASSUME IndInv, status = "COMPLETED",
                       \A q \in Question : jobState[q] = "none"
                PROVE  score = Total(submission)
    BY DEF SettledScore
  <2>1. \A q \in Question : ~Owes(q)
    BY DEF Owes
  <2>2. lock \notin Question
    BY DEF IndInv, LockHolder
  <2>. QED
    BY <2>1, <2>2 DEF IndInv, StaleScoreHasRepair, Stale
<1>. QED
  BY <1>1, Invariance, PTL

-----------------------------------------------------------------------------
(* An attempt never goes back to IN_PROGRESS and never loses its score.    *)
THEOREM NotReopened == Spec => NeverReopened
<1>1. IndInv /\ [Next]_vars =>
        [ /\ status \in Closed => status' \in Closed
          /\ score # NoScore => score' # NoScore ]_vars
  <2>. SUFFICES ASSUME IndInv, Next
                PROVE  /\ status \in Closed => status' \in Closed
                       /\ score # NoScore => score' # NoScore
    BY DEF vars
  <2>1. CASE UNCHANGED <<status, score>>
    BY <2>1
  <2>2. ASSUME NEW f \in Finalizer, MarkSubmitted(f)
        PROVE  status' \in Closed /\ UNCHANGED score
    BY <2>2 DEF MarkSubmitted, Closed
  <2>3. ASSUME NEW p, CommitScore(p)
        PROVE  status' \in Closed /\ score' # NoScore
    <3>1. score' = Total(snapshot) /\ snapshot \in Submissions
      BY <2>3 DEF CommitScore, IndInv, TypeOK
    <3>. QED
      BY <2>3, <3>1, TotalIsNotNull DEF CommitScore, Closed
  <2>. QED
    BY <2>1, <2>2, <2>3
       DEF Next, Environment, LateWindowCloses, RetireItem, Submit,
           VerifyActiveAttempt, EnqueueAnswer, Worker, WorkerFault, StartJob,
           UpsertSubmission, ReadAttemptStatus, WorkerLocks, WorkerCommits,
           CompleteJob, ValidationFails, JobThrows, Throw, JobStalls,
           FinalizeAttempt, FinalizeProgress, FinalizerLocks, FinalizerCommits,
           FinalizeAborts
<1>. QED
  BY <1>1, Invariance, PTL DEF Spec, NeverReopened

(* When no finalize request fails after its mark, a SUBMITTED attempt has  *)
(* one on its way to consolidate it.                                       *)
THEOREM SubmittedPasses == Spec => []SubmittedIsTransient
<1>1. Init => SubmittedIsTransient
  BY DEF Init, SubmittedIsTransient
<1>2. IndInv /\ SubmittedIsTransient /\ [Next]_vars => SubmittedIsTransient'
  <2>. SUFFICES ASSUME IndInv, SubmittedIsTransient, [Next]_vars, ~FinalizeMayFail
                PROVE  SubmittedIsTransient'
    BY DEF SubmittedIsTransient
  <2>0. finalize \in [Finalizer -> FinalizeStates]
    BY DEF IndInv, TypeOK
  <2>1. CASE UNCHANGED <<status, finalize>>
    BY <2>1 DEF SubmittedIsTransient
  <2>2. ASSUME NEW p, CommitScore(p)
        PROVE  SubmittedIsTransient'
    BY <2>2 DEF CommitScore, SubmittedIsTransient
  <2>3. ASSUME NEW f \in Finalizer,
               \/ FinalizeAttempt(f) \/ MarkSubmitted(f)
               \/ FinalizerLocks(f) \/ FinalizeAborts(f)
        PROVE  SubmittedIsTransient'
    BY <2>0, <2>3 DEF FinalizeAttempt, MarkSubmitted, FinalizerLocks, FinalizeMoves,
                      FinalizeAborts, SubmittedIsTransient
  <2>. QED
    BY <2>1, <2>2, <2>3
       DEF Next, vars, Environment, LateWindowCloses, RetireItem, Submit,
           VerifyActiveAttempt, EnqueueAnswer, Worker, WorkerFault, StartJob,
           UpsertSubmission, ReadAttemptStatus, WorkerLocks, WorkerCommits,
           CompleteJob, ValidationFails, JobThrows, Throw, JobStalls,
           FinalizeProgress, FinalizerCommits
<1>. QED
  BY <1>1, <1>2, Invariance, PTL DEF Spec

-----------------------------------------------------------------------------
(* A job that stands for an answer on its way holds it in the register.    *)
LEMMA InitRegister == Init => Register!Init
BY DEF Init, Register!Init, NoSubmissions, Held

LEMMA StepRegister == IndInv /\ [Next]_vars => [Register!Next]_(Register!vars)
<1>. SUFFICES ASSUME IndInv, [Next]_vars
              PROVE  Register!Next \/ UNCHANGED <<submission, Held>>
  BY DEF Register!vars
<1>. USE DEF Held
<1>1. /\ jobState \in [Question -> JobStates]
      /\ jobAnswer \in [Question -> Response \cup {Unanswered}]
      /\ submission \in [Question -> Response \cup {Unanswered}]
  BY DEF IndInv, TypeOK, Submissions
<1>2. CASE UNCHANGED <<submission, jobState, jobAnswer>>
  BY <1>2
<1>3. ASSUME NEW q \in Question, NEW r \in Response, EnqueueAnswer(q, r)
      PROVE  Register!Next \/ UNCHANGED <<submission, Held>>
  <2>1. CASE jobState[q] = "none"
    <3>1. Held[q] = Unanswered /\ Held' = [Held EXCEPT ![q] = r] /\ UNCHANGED submission
      BY <1>1, <1>3, <2>1 DEF EnqueueAnswer, AddJob
    <3>. QED
      BY <3>1 DEF Register!Next, Register!Take
  <2>2. CASE jobState[q] # "none"
    BY <1>3, <2>2 DEF EnqueueAnswer, jobVars
  <2>. QED
    BY <2>1, <2>2
<1>4. ASSUME NEW q \in Question, UpsertSubmission(q)
      PROVE  Register!Next \/ UNCHANGED <<submission, Held>>
  <2>1. /\ jobState[q] = "saving" /\ jobState' = [jobState EXCEPT ![q] = "checking"]
        /\ submission' = [submission EXCEPT ![q] = jobAnswer[q]]
        /\ UNCHANGED jobAnswer
    BY <1>4 DEF UpsertSubmission, JobMoves
  <2>2. UNCHANGED Held
    BY <1>1, <2>1
  <2>3. Held[q] = jobAnswer[q] /\ jobAnswer[q] # Unanswered
    BY <1>1, <2>1, ConstantsAssumption DEF IndInv, JobsCarryAnswers
  <2>. QED
    BY <2>1, <2>2, <2>3 DEF Register!Next, Register!Store
<1>5. ASSUME NEW q \in Question, CompleteJob(q)
      PROVE  Register!Next \/ UNCHANGED <<submission, Held>>
  <2>1. /\ jobState[q] = "completing" /\ jobState' = [jobState EXCEPT ![q] = "none"]
        /\ UNCHANGED <<submission, jobAnswer>>
    BY <1>5 DEF CompleteJob, JobMoves
  <2>2. Held' = [Held EXCEPT ![q] = Unanswered]
    BY <1>1, <2>1
  <2>3. Held[q] # Unanswered /\ submission[q] = Held[q]
    BY <1>1, <2>1, ConstantsAssumption DEF IndInv, JobsCarryAnswers, StoredAnswerIsOwn
  <2>. QED
    BY <2>1, <2>2, <2>3 DEF Register!Next, Register!Release
<1>6. ASSUME NEW q \in Question, NEW to \in JobStates \ {"none"},
             jobState[q] # "none", jobState' = [jobState EXCEPT ![q] = to],
             UNCHANGED <<submission, jobAnswer>>
      PROVE  UNCHANGED <<submission, Held>>
  BY <1>1, <1>6
<1>7. ASSUME NEW q \in Question, StartJob(q) \/ ReadAttemptStatus(q) \/ WorkerLocks(q)
               \/ WorkerCommits(q) \/ ValidationFails(q) \/ WorkerFault(q)
      PROVE  UNCHANGED <<submission, Held>>
  <2>1. jobState[q] # "none" /\ UNCHANGED <<submission, jobAnswer>>
    BY <1>7 DEF StartJob, ReadAttemptStatus, WorkerLocks, WorkerCommits, ValidationFails,
                WorkerFault, JobThrows, Throw, JobStalls, JobMoves, Running
  <2>2. \E to \in JobStates \ {"none"} : jobState' = [jobState EXCEPT ![q] = to]
    BY <1>7 DEF StartJob, ReadAttemptStatus, WorkerLocks, WorkerCommits, ValidationFails,
                WorkerFault, JobThrows, Throw, JobStalls, JobMoves, JobStates
  <2>. QED
    BY <1>6, <2>1, <2>2
<1>. QED
  BY <1>2, <1>3, <1>4, <1>5, <1>7
     DEF Next, vars, jobVars, Environment, LateWindowCloses, RetireItem, Submit,
         VerifyActiveAttempt, Worker, FinalizeAttempt, FinalizeProgress,
         MarkSubmitted, FinalizerLocks, FinalizerCommits, FinalizeAborts

(* The queue, its workers and the database implement AnswerRegister.       *)
THEOREM RegisterImplemented == Spec => ImplementsRegister
BY InitRegister, StepRegister, Invariance, PTL
   DEF Spec, ImplementsRegister, Register!Spec
=============================================================================
