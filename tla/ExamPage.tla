------------------------------ MODULE ExamPage ------------------------------
(***************************************************************************)
(* The exam page (app/exam/[attemptId]/page.tsx) on top of the SyncEngine: *)
(* the button and the timer that hand the exam in, each by flushing the    *)
(* queue and posting the finalize request, and the reload of the page.     *)
(* The backend is its attempt's status: see AttemptScoring for the rest.   *)
(*                                                                         *)
(* A flusher is one call of triggerFinalSubmit; "timer" is the one that    *)
(* handleTimeUp makes.  The button is never disabled, so several calls can *)
(* be under way.                                                           *)
(***************************************************************************)
EXTENDS SyncEngine

CONSTANT LateAnswers   \* LATE_ANSWER_WINDOW_MS > 0

VARIABLES
    page,     \* status in exam.store, or "UNAVAILABLE"
    submit,   \* progress of each triggerFinalSubmit
    attempt,  \* exam_attempts.status
    strayFinalize  \* a finalize request under way that no call waits for

pageVars == <<page, submit, attempt, strayFinalize>>
allVars == <<vars, pageVars>>

ASSUME PageAssumption == "timer" \in Flusher /\ LateAnswers \in BOOLEAN

PageInit ==
    /\ Init
    /\ page = "IN_PROGRESS"
    /\ submit = [f \in Flusher |-> "idle"]
    /\ attempt = "IN_PROGRESS"
    /\ strayFinalize = FALSE

GoTo(f, state) == submit' = [submit EXCEPT ![f] = state]

-----------------------------------------------------------------------------
\* The questions are on the screen only while the status is IN_PROGRESS.
Answer(q) ==
    /\ page = "IN_PROGRESS"
    /\ QueueAnswer(q)
    /\ UNCHANGED pageVars

ClickFinalize(f) ==
    /\ page = "IN_PROGRESS"
    /\ f # "timer"
    /\ submit[f] = "idle"
    /\ GoTo(f, "flushing")
    /\ UNCHANGED <<vars, page, attempt, strayFinalize>>

\* handleTimeUp, also called by handleClockTampered at any time.
TimeUp ==
    /\ page = "IN_PROGRESS"
    /\ submit["timer"] = "idle"
    /\ page' = "EXPIRED"
    /\ GoTo("timer", "flushing")
    /\ UNCHANGED <<vars, attempt, strayFinalize>>

-----------------------------------------------------------------------------
(***************************************************************************)
(* flushAnswers: process, look, wait and process again until the deadline. *)
(***************************************************************************)
FlushProcess(f) ==
    /\ submit[f] = "flushing"
    /\ run[f] = "idle"
    /\ Trigger(f)
    /\ GoTo(f, IF processing \/ ~online THEN "checking" ELSE "awaiting")
    /\ UNCHANGED <<answered, queue, items, item, timer, online, clock, serverVars,
                   faults, page, attempt, strayFinalize>>

FlushAwaited(f) ==
    /\ submit[f] = "awaiting"
    /\ run[f] = "idle"
    /\ GoTo(f, "checking")
    /\ UNCHANGED <<vars, page, attempt, strayFinalize>>

\* Mutant: triggerFinalSubmit does not look at what flushAnswers returns.
PostAnyway(f) ==
    /\ submit[f] = "checking"
    /\ GoTo(f, "posting")
    /\ UNCHANGED <<vars, page, attempt, strayFinalize>>

FlushDone(f) ==
    /\ submit[f] = "checking"
    /\ Queued = {}
    /\ GoTo(f, "posting")
    /\ UNCHANGED <<vars, page, attempt, strayFinalize>>

FlushAgain(f) ==
    /\ submit[f] = "checking"
    /\ Queued # {}
    /\ GoTo(f, "flushing")
    /\ UNCHANGED <<vars, page, attempt, strayFinalize>>

\* Mutant: flushAnswers goes on until the queue is empty.
NoDeadline(f) ==
    /\ FALSE
    /\ GoTo(f, "idle")
    /\ UNCHANGED <<vars, page, attempt, strayFinalize>>

\* After 6 seconds the candidate is told to try again.
FlushTimesOut(f) ==
    /\ submit[f] = "checking"
    /\ Queued # {}
    /\ GoTo(f, "idle")
    /\ UNCHANGED <<vars, page, attempt, strayFinalize>>

-----------------------------------------------------------------------------
(***************************************************************************)
(* POST .../finalize.                                                      *)
(***************************************************************************)
\* Once the attempt is closed, answers are taken in the late window only.
CloseAttempt(status) ==
    /\ attempt' = status
    /\ accepting' = IF attempt = "IN_PROGRESS" THEN LateAnswers ELSE accepting

FinalizeSucceeds(f) ==
    /\ submit[f] = "posting"
    /\ CloseAttempt("COMPLETED")
    /\ GoTo(f, "confirmed")
    /\ UNCHANGED <<engineVars, online, received, stray, faults, page,
                   strayFinalize>>

\* markSubmitted commits, the consolidation fails: the page shows an error.
FinalizeBreaks(f) ==
    /\ submit[f] = "posting"
    /\ attempt \in {"IN_PROGRESS", "SUBMITTED"}
    /\ Fault
    /\ CloseAttempt("SUBMITTED")
    /\ GoTo(f, "idle")
    /\ UNCHANGED <<engineVars, online, received, stray, page, strayFinalize>>

\* The request or its reply is lost, or 429 or 5xx answers it.
FinalizeLost(f) ==
    /\ submit[f] \in {"posting", "confirmed"}
    /\ Fault
    /\ \/ UNCHANGED strayFinalize
       \/ strayFinalize' = (Strays /\ submit[f] = "posting")
    /\ GoTo(f, "idle")
    /\ UNCHANGED <<engineVars, online, serverVars, page, attempt>>

StrayFinalize ==
    /\ strayFinalize
    /\ strayFinalize' = FALSE
    /\ CloseAttempt("COMPLETED")
    /\ UNCHANGED <<engineVars, online, received, stray, faults, page, submit>>

\* Mutant: the page shows "Examen Entregado" before the server has answered.
ConfirmEarly(f) ==
    /\ submit[f] \in {"posting", "confirmed"}
    /\ GoTo(f, "idle")
    /\ page' = "SUBMITTED"
    /\ UNCHANGED <<vars, attempt, strayFinalize>>

Confirm(f) ==
    /\ submit[f] = "confirmed"
    /\ GoTo(f, "idle")
    /\ page' = "SUBMITTED"
    /\ UNCHANGED <<vars, attempt, strayFinalize>>

-----------------------------------------------------------------------------
\* The session endpoint refuses a COMPLETED attempt.
Loaded == IF attempt = "COMPLETED" THEN "UNAVAILABLE" ELSE attempt

\* loadSession; the timer starts over with the whole duration.
ReloadPage ==
    /\ online
    /\ ReloadEngine
    /\ page' = Loaded
    /\ strayFinalize' = (strayFinalize \/
         (Strays /\ \E f \in Flusher : submit[f] = "posting"))
    /\ submit' = [f \in Flusher |-> "idle"]
    /\ UNCHANGED attempt

LateWindowCloses ==
    /\ attempt # "IN_PROGRESS"
    /\ accepting
    /\ accepting' = FALSE
    /\ UNCHANGED <<engineVars, online, received, stray, faults, pageVars>>

EngineStep ==
    /\ \/ \E c \in Caller : CallStep(c)
       \/ \E i \in stray : StrayArrives(i)
       \/ Failure
       \/ Timing
    /\ UNCHANGED pageVars

SubmitStep(f) ==
    \/ FlushProcess(f)
    \/ FlushAwaited(f)
    \/ FlushDone(f)
    \/ FlushTimesOut(f)
    \/ FinalizeSucceeds(f)
    \/ Confirm(f)

PageNext ==
    \/ EngineStep
    \/ \E q \in Question : Answer(q)
    \/ \E f \in Flusher :
         \/ ClickFinalize(f)
         \/ SubmitStep(f)
         \/ FlushAgain(f)
         \/ FinalizeBreaks(f)
         \/ FinalizeLost(f)
    \/ TimeUp
    \/ StrayFinalize
    \/ ReloadPage
    \/ LateWindowCloses

PageSpec == PageInit /\ [][PageNext]_allVars

\* The deadline of flushAnswers is real time: it passes however often the
\* loop goes round.
FairPageSpec ==
    /\ PageSpec
    /\ \A c \in Caller : WF_allVars(CallProgress(c) /\ UNCHANGED pageVars)
    /\ WF_allVars(Timing /\ UNCHANGED pageVars)
    /\ \A f \in Flusher :
         /\ WF_allVars(SubmitStep(f))
         /\ SF_allVars(FlushTimesOut(f))
         /\ WF_allVars(FlushAgain(f))

-----------------------------------------------------------------------------
(* A finalize request leaves the page only when the server has taken an    *)
(* answer to every question answered so far, with clicks, the timer, a new *)
(* answer and the background loop sharing the queue.                       *)
FlushedBeforeFinalize ==
    [][\A f \in Flusher : submit[f] # "posting" /\ submit'[f] = "posting"
         => \A q \in Question : answered[q] # 0 => received[q] # 0]_allVars

(* The page says that the exam has been handed in only if the attempt is   *)
(* closed on the server, also after reloads and lost replies.              *)
HandedInIsClosed == page = "SUBMITTED" => attempt # "IN_PROGRESS"

(* Every triggerFinalSubmit ends, by handing in or with an error, even     *)
(* when the server refuses the queued answers for good.                    *)
FinalSubmitEnds == \A f \in Flusher : submit[f] # "idle" ~> submit[f] = "idle"
=============================================================================
