----------------------------- MODULE ExamEntry -----------------------------
(***************************************************************************)
(* How a candidate gets from the code of an invitation to the questions:   *)
(* the login page (app/exam/login/page.tsx), the loading of the exam page  *)
(* (app/exam/[attemptId]/page.tsx) with its timer (useSecureTimer.ts) and  *)
(* its persisted store (exam.store.ts), and the handlers they call.        *)
(*                                                                         *)
(* One browser.  A request is handled when it is answered or lost; what    *)
(* happens to the answers is in ExamPage and SyncEngine.  A tick of the    *)
(* clock stands for minutes: the store has been read before the first.     *)
(***************************************************************************)
EXTENDS Integers, FiniteSetsExt

CONSTANTS
    Code,           \* access codes; each was sent to a candidate of its own
    NoOne,
    Wait,           \* ticks of the timer until the session is there
    Duration,       \* ticks of an exam
    MaxDrift,       \* bound: ticks the clock of the system is set to or fro
    MaxLoads        \* bound: sessions the browser loads

ASSUME TimerAssumption == Wait \in Nat \ {0} /\ Duration \in Nat \ {0} /\ MaxDrift \in Nat

VARIABLES
    invited,        \* the status of each invitation
    attempts,       \* the attempt of each invitation: its status and candidate
    consent,        \* the attempts with a consent
    token,          \* whose token the browser keeps
    form,           \* the login page
    examPage,       \* the exam page
    store,          \* exam.store: its status, what it is being restored to
    saved,          \* the status of the store in IndexedDB
    submitting,     \* a triggerFinalSubmit is under way
    loads,          \* history: how often the session of each attempt was loaded
    ahead,          \* history: how far ahead the clock was when it was loaded
    time            \* history: ticks its questions were on the screen

accessVars == <<invited, attempts, consent>>
storeVars == <<store, saved>>
tallyVars == <<loads, ahead, time>>
entryVars == <<accessVars, token, form, examPage, storeVars, submitting, tallyVars>>

Blank == [link |-> NoOne, typed |-> NoOne, verifying |-> NoOne, details |-> NoOne, claim |-> <<>>]

\* drift is what the clock of the system has been set forward since the page
\* was mounted; up to three seconds, which the timer lets pass, are none.
NoPage == [of |-> NoOne, at |-> "closed", left |-> 0, ticking |-> FALSE, drift |-> 0]

EntryInit ==
    /\ invited = [c \in Code |-> "PENDING"]
    /\ attempts = [c \in Code |-> [status |-> "none", user |-> NoOne]]
    /\ consent = {}
    /\ token = NoOne
    /\ form = Blank
    /\ examPage = NoPage
    /\ store = [status |-> "IN_PROGRESS", read |-> "IN_PROGRESS", restored |-> TRUE]
    /\ saved = "IN_PROGRESS"
    /\ submitting = FALSE
    /\ loads = [c \in Code |-> 0]
    /\ ahead = [c \in Code |-> 0]
    /\ time = [c \in Code |-> 0]

-----------------------------------------------------------------------------
\* The login page, opened by its link, which is verified at once, or without.
OpenLogin(link) ==
    /\ form' = [Blank EXCEPT !.link = link, !.typed = link, !.verifying = link]
    /\ examPage' = NoPage
    /\ submitting' = FALSE
    /\ UNCHANGED <<accessVars, token, storeVars, tallyVars>>

OnForm == examPage = NoPage

\* The field stays open while a code is verified.
Type(c) ==
    /\ OnForm /\ form.details = NoOne
    /\ form' = [form EXCEPT !.typed = c]
    /\ UNCHANGED <<accessVars, token, examPage, storeVars, submitting, tallyVars>>

Verify ==
    /\ OnForm /\ form.details = NoOne /\ form.verifying = NoOne
    /\ form.typed # NoOne
    /\ form' = [form EXCEPT !.verifying = form.typed]
    /\ UNCHANGED <<accessVars, token, examPage, storeVars, submitting, tallyVars>>

\* verifyInvitation.
Details(code) == {c \in {code} : invited[c] = "PENDING"}

\* A refusal and a lost answer look the same.
Verified ==
    /\ form.verifying # NoOne
    /\ \E details \in {NoOne} \cup Details(form.verifying) :
        form' = [form EXCEPT !.details = details, !.verifying = NoOne]
    /\ UNCHANGED <<accessVars, token, examPage, storeVars, submitting, tallyVars>>

Back ==
    /\ OnForm /\ form.details # NoOne
    /\ form' = [form EXCEPT !.details = NoOne]
    /\ UNCHANGED <<accessVars, token, examPage, storeVars, submitting, tallyVars>>

\* The code of the link comes before the one typed; name and email are those
\* of the details on the screen.
AskToClaim ==
    /\ OnForm /\ form.details # NoOne /\ form.claim = <<>>
    /\ form' = [form EXCEPT !.claim = <<IF form.link # NoOne THEN form.link ELSE form.typed, form.details>>]
    /\ UNCHANGED <<accessVars, token, examPage, storeVars, submitting, tallyVars>>

\* The exam page of an attempt, by the router or by loading it again.
Entered(c) ==
    /\ examPage' = [of |-> c, at |-> "asking", left |-> Wait, ticking |-> TRUE, drift |-> 0]
    /\ store' = [status |-> "IN_PROGRESS", read |-> saved, restored |-> FALSE]
    /\ form' = Blank
    /\ submitting' = FALSE

NotClaimed ==
    /\ form' = [form EXCEPT !.claim = <<>>]
    /\ UNCHANGED <<token, examPage, store, submitting>>

\* claimInvitation: the invitation is used, the attempt belongs to whoever
\* has the email, and the answer with the token may be lost.
Claimed ==
    LET code == form.claim[1]
        user == form.claim[2]
        claimable == invited[code] = "PENDING"
    IN
    /\ form.claim # <<>>
    /\ \/ /\ claimable
          /\ invited' = [invited EXCEPT ![code] = "USED"]
          /\ attempts' = [attempts EXCEPT ![code] = [status |-> "IN_PROGRESS", user |-> user]]
          /\ \/ Entered(code) /\ token' = user
             \/ NotClaimed
       \/ NotClaimed /\ UNCHANGED <<invited, attempts>>
    /\ UNCHANGED <<consent, saved, tallyVars>>

\* expiresAt has passed.
Expire(c) ==
    /\ invited[c] = "PENDING"
    /\ invited' = [invited EXCEPT ![c] = "EXPIRED"]
    /\ UNCHANGED <<attempts, consent, token, form, examPage, storeVars, submitting, tallyVars>>

-----------------------------------------------------------------------------
\* assertCandidateAttempt.
Mine(c) == attempts[c].status # "none" /\ attempts[c].user = token

GoOn(where) == examPage' = [examPage EXCEPT !.at = where]

Reload ==
    /\ examPage # NoPage
    /\ Entered(examPage.of)
    /\ UNCHANGED <<accessVars, token, saved, tallyVars>>

\* getConsentStatus is answered, or fails.
ConsentAsked ==
    /\ examPage.at = "asking"
    /\ \/ Mine(examPage.of) /\ GoOn(IF examPage.of \in consent THEN "loading" ELSE "consent")
       \/ GoOn("failed")
    /\ UNCHANGED <<accessVars, token, form, storeVars, submitting, tallyVars>>

Accept ==
    /\ examPage.at = "consent"
    /\ GoOn("accepting")
    /\ UNCHANGED <<accessVars, token, form, storeVars, submitting, tallyVars>>

\* acceptConsent, which keeps a consent that is there.
Accepted ==
    /\ examPage.at = "accepting"
    /\ \/ Mine(examPage.of) /\ consent' = consent \cup {examPage.of} /\ GoOn("loading")
       \/ Mine(examPage.of) /\ consent' = consent \cup {examPage.of} /\ GoOn("consent")
       \/ UNCHANGED consent /\ GoOn("consent")
    /\ UNCHANGED <<invited, attempts, token, form, storeVars, submitting, tallyVars>>

\* getAttemptSession.
Offered ==
    attempts[examPage.of].status \in {"IN_PROGRESS", "SUBMITTED"} /\ Mine(examPage.of) /\ examPage.of \in consent

SetStatus(status) == store' = [store EXCEPT !.status = status] /\ saved' = status

\* What an end gives the timer, which sees it at its next tick at the earliest.
Given(n) == IF n > 0 THEN n ELSE 1

\* A session is loaded with the clock set forward, or not.
Counts ==
    /\ loads' = [loads EXCEPT ![examPage.of] = @ + 1]
    /\ ahead' = [ahead EXCEPT ![examPage.of] = IF examPage.drift > 0 THEN @ + examPage.drift ELSE @]

\* Mutant: the duration is added to the end there was.
LoadedLater ==
    /\ examPage.at = "loading" /\ Offered
    /\ MapThenSumSet(LAMBDA c : loads[c], Code) < MaxLoads
    /\ examPage' = [examPage EXCEPT !.at = "shown", !.ticking = TRUE, !.left = @ + Duration]
    /\ SetStatus("IN_PROGRESS")
    /\ UNCHANGED submitting
    /\ Counts
    /\ UNCHANGED <<accessVars, token, form, time>>

\* The end is taken from the clock of the system, and the timer counts to it
\* from the mount by the other clock.  The effect of the timer runs again;
\* when nothing was left before, it calls handleTimeUp before anything is
\* shown.
Loaded ==
    LET status == IF attempts[examPage.of].status = "SUBMITTED" THEN "SUBMITTED" ELSE "IN_PROGRESS"
        over == examPage.left = 0 /\ status = "IN_PROGRESS"
        end == Duration + examPage.drift
    IN
    /\ examPage.at = "loading" /\ Offered
    /\ MapThenSumSet(LAMBDA c : loads[c], Code) < MaxLoads
    /\ examPage' = [examPage EXCEPT !.at = "shown", !.ticking = examPage.left > 0, !.left = IF @ > 0 THEN Given(end) ELSE 0]
    /\ SetStatus(IF over THEN "EXPIRED" ELSE status)
    /\ submitting' = (submitting \/ over)
    /\ Counts
    /\ UNCHANGED <<accessVars, token, form, time>>

NotLoaded ==
    /\ examPage.at = "loading"
    /\ GoOn("failed")
    /\ UNCHANGED <<accessVars, token, form, storeVars, submitting, tallyVars>>

-----------------------------------------------------------------------------
\* The store has been read from IndexedDB and is written back.
Restore ==
    /\ ~store.restored
    /\ store' = [store EXCEPT !.status = store.read, !.restored = TRUE]
    /\ saved' = store.read
    /\ UNCHANGED <<accessVars, token, form, examPage, submitting, tallyVars>>

\* The clock of the system is set forward or back.
SetClock(d) ==
    /\ examPage # NoPage /\ examPage.drift # d
    /\ examPage' = [examPage EXCEPT !.drift = d]
    /\ UNCHANGED <<accessVars, token, form, storeVars, submitting, tallyVars>>

\* handleTimeUp, whatever is on the screen.
HandleTimeUp ==
    IF store.status = "IN_PROGRESS"
    THEN SetStatus("EXPIRED") /\ submitting' = TRUE
    ELSE UNCHANGED <<storeVars, submitting>>

OnScreen == examPage.at = "shown" /\ store.status = "IN_PROGRESS"

\* The interval of useSecureTimer; it ends with a drift or with the time.
Tick ==
    LET drifts == examPage.drift # 0
        left == IF examPage.ticking /\ ~drifts THEN examPage.left - 1 ELSE examPage.left
        up == examPage.ticking /\ (drifts \/ left = 0)
    IN
    /\ examPage # NoPage /\ store.restored
    /\ examPage.ticking \/ OnScreen
    /\ examPage' = [examPage EXCEPT !.left = left, !.ticking = @ /\ ~up]
    /\ IF up THEN HandleTimeUp ELSE UNCHANGED <<storeVars, submitting>>
    /\ time' = IF OnScreen THEN [time EXCEPT ![examPage.of] = @ + 1] ELSE time
    /\ UNCHANGED <<accessVars, token, form, loads, ahead>>

\* "Finalizar y Entregar"; what is flushed before is left out.
ClickFinalize ==
    /\ OnScreen
    /\ submitting' = TRUE
    /\ UNCHANGED <<accessVars, token, form, examPage, storeVars, tallyVars>>

\* finalizeAttempt: the attempt is closed, and scored unless that fails.
Finalized ==
    /\ submitting
    /\ submitting' = FALSE
    /\ \/ /\ attempts[examPage.of].status # "none" /\ token # NoOne
          /\ \E status \in {"SUBMITTED", "COMPLETED"} :
              /\ attempts[examPage.of].status = "COMPLETED" => status = "COMPLETED"
              /\ attempts' = [attempts EXCEPT ![examPage.of].status = status]
              /\ \/ status = "COMPLETED" /\ SetStatus("SUBMITTED")
                 \/ UNCHANGED storeVars
       \/ UNCHANGED <<attempts, storeVars>>
    /\ UNCHANGED <<invited, consent, token, form, examPage, tallyVars>>

EntryNext ==
    \/ \E link \in Code \cup {NoOne} : OpenLogin(link)
    \/ \E c \in Code : Type(c) \/ Expire(c)
    \/ Verify \/ Verified \/ Back \/ AskToClaim \/ Claimed
    \/ Reload \/ ConsentAsked \/ Accept \/ Accepted \/ Loaded \/ NotLoaded
    \/ \E d \in -MaxDrift .. MaxDrift : SetClock(d)
    \/ Restore \/ Tick \/ ClickFinalize \/ Finalized

EntrySpec == EntryInit /\ [][EntryNext]_entryVars

-----------------------------------------------------------------------------
(***************************************************************************)
(* Questions are on the screen for the duration of the exam and what the   *)
(* clock of the system was ahead, for every time the session was loaded:   *)
(* however long the candidate was kept waiting, whatever the store is      *)
(* restored to and when, and even when handing in fails.  The clock gives  *)
(* time only at a load, and nothing else but another load does.            *)
(***************************************************************************)
TimeIsBounded == \A c \in Code : time[c] <= Duration * loads[c] + ahead[c]

(***************************************************************************)
(* "Debes aceptar el consentimiento informado antes de iniciar la          *)
(* evaluación" (session.service.ts:38): no attempt is closed before.       *)
(***************************************************************************)
ClosedAfterConsent == \A c \in Code : attempts[c].status \in {"SUBMITTED", "COMPLETED"} => c \in consent
=============================================================================
