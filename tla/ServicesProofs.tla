--------------------------- MODULE ServicesProofs ---------------------------
(***************************************************************************)
(* Proofs about components of MCServices, which share nothing: the time of *)
(* an exam, the evidence of private files, the lists of deletion plans and *)
(* exports, the results of an attempt and the tables they are read off,    *)
(* for any number of codes, files, requests, tests and quantiles.          *)
(*                                                                         *)
(* Entry: what the questions of an attempt were on the screen, and what    *)
(* the timer still gives them, never exceeds the duration and what the     *)
(* clock was ahead for each load (TimeIsLeft).  This needs that questions on the screen have a timer     *)
(* that runs (TimerRuns): only handleTimeUp and a session loaded after the *)
(* end stop it for good, both take the status away from IN_PROGRESS, and a *)
(* store that is restored later, which could put it back, is restored      *)
(* before the first tick.                                                  *)
(*                                                                         *)
(* Files: each write of an upload comes after the one it relies on         *)
(* (UploadsInOrder), and nothing is taken back.  Lists: rows only grow, so *)
(* what a query finds covers what there was before (ListedSoFar).          *)
(* Results: without an overlap and without a failure the rows are those of *)
(* one calculation, and where it is tells which of them there are          *)
(* (RowsSoFar) and which versions they have (VersionsSoFar).               *)
(*                                                                         *)
(* Tables: what is read for one ability needs no steps, but the rounded    *)
(* quotients of a line lie between its ends (Rounded), and the first row   *)
(* that ends above an ability is the only one around it (OneRow).          *)
(***************************************************************************)
EXTENDS ExamEntry, DataGovernance, ResultCalculation, SequenceTheorems, FiniteSetTheorems,
        WellFoundedInduction, TLAPS

Statuses == {"IN_PROGRESS", "EXPIRED", "SUBMITTED"}

SomeCode == Code \cup {NoOne}

FormType ==
    [link : SomeCode, typed : SomeCode, verifying : SomeCode, details : SomeCode,
     claim : {<<>>} \cup (SomeCode \X SomeCode)]

PageType ==
    [of : SomeCode, left : Nat, ticking : BOOLEAN, drift : Int,
     at : {"closed", "asking", "consent", "accepting", "loading", "shown", "failed"}]

StoreType == [status : Statuses, read : Statuses, restored : BOOLEAN]

USE DEF FormType, PageType, StoreType

EntryTypeOK ==
    /\ form \in FormType
    /\ examPage \in PageType
    /\ store \in StoreType
    /\ saved \in Statuses
    /\ loads \in [Code -> Nat]
    /\ ahead \in [Code -> Nat]
    /\ time \in [Code -> Nat]

TimerRuns ==
    /\ examPage.at = "closed" => examPage = NoPage
    /\ examPage.ticking => examPage.left > 0
    /\ examPage.at # "closed" /\ ~examPage.ticking
         => store.restored /\ store.status # "IN_PROGRESS"

\* What the timer still gives the questions on the screen.
Left(c) == IF examPage.of = c /\ examPage.at = "shown" /\ examPage.ticking THEN examPage.left ELSE 0

TimeIsLeft == \A c \in Code : time[c] + Left(c) <= Duration * loads[c] + ahead[c]

EntryInv == EntryTypeOK /\ TimerRuns /\ TimeIsLeft

\* Another load gives the duration once more.
LEMMA OneMore ==
    ASSUME NEW n \in Nat
    PROVE  /\ Duration * n \in Nat
           /\ Duration * (n + 1) = Duration * n + Duration
  BY TimerAssumption

LEMMA EntryInitInv == EntryInit => EntryInv
<1> SUFFICES ASSUME EntryInit PROVE EntryInv
  OBVIOUS
<1> USE DEF EntryInit, NoPage
<1>1. EntryTypeOK
  BY DEF EntryTypeOK, SomeCode, Statuses, Blank
<1>2. TimerRuns
  BY DEF TimerRuns
<1>3. TimeIsLeft
  BY TimerAssumption DEF TimeIsLeft, Left
<1> QED
  BY <1>1, <1>2, <1>3 DEF EntryInv

\* The exam page and the counts stay as they are, and so may the store.
LEMMA PageRests ==
    ASSUME EntryInv, UNCHANGED <<examPage, loads, ahead, time>>, EntryTypeOK',
           \/ UNCHANGED store
           \/ ~store.restored /\ store'.restored
           \/ store'.restored = store.restored /\ store'.status # "IN_PROGRESS"
    PROVE  EntryInv'
<1>1. TimerRuns'
  BY DEF EntryInv, EntryTypeOK, TimerRuns
<1>2. TimeIsLeft'
  BY DEF EntryInv, TimeIsLeft, Left
<1> QED
  BY <1>1, <1>2 DEF EntryInv

\* The page is opened anew, or left for the login.
LEMMA PageOpens ==
    ASSUME EntryInv, NEW c \in SomeCode, Entered(c), saved' \in Statuses, UNCHANGED tallyVars
    PROVE  EntryInv'
<1> USE DEF Entered, tallyVars
<1>1. EntryTypeOK'
  <2>1. form' \in FormType
    BY DEF Blank, SomeCode
  <2>2. examPage' \in PageType
    BY TimerAssumption
  <2>3. store' \in StoreType
    BY DEF EntryInv, EntryTypeOK, Statuses
  <2> QED
    BY <2>1, <2>2, <2>3 DEF EntryInv, EntryTypeOK
<1>2. TimerRuns'
  BY TimerAssumption DEF TimerRuns
<1>3. TimeIsLeft'
  <2>1. ASSUME NEW d \in Code PROVE time'[d] + Left(d)' <= Duration * loads'[d] + ahead'[d]
    <3>1. Left(d)' = 0 /\ Left(d) \in Nat /\ time[d] \in Nat /\ ahead[d] \in Nat
      BY DEF Left, EntryInv, EntryTypeOK
    <3>2. time[d] + Left(d) <= Duration * loads[d] + ahead[d] /\ Duration * loads[d] \in Nat
      BY OneMore DEF EntryInv, EntryTypeOK, TimeIsLeft
    <3> QED
      BY <3>1, <3>2
  <2> QED
    BY <2>1 DEF TimeIsLeft
<1> QED
  BY <1>1, <1>2, <1>3 DEF EntryInv

LEMMA PageCloses ==
    ASSUME EntryInv, NEW link \in SomeCode, OpenLogin(link)
    PROVE  EntryInv'
<1> USE DEF OpenLogin, accessVars, storeVars, tallyVars
<1>1. EntryTypeOK'
  <2>1. form' \in FormType
    BY DEF Blank, SomeCode
  <2>2. examPage' \in PageType
    BY DEF NoPage, SomeCode
  <2> QED
    BY <2>1, <2>2 DEF EntryInv, EntryTypeOK
<1>2. TimerRuns'
  BY DEF TimerRuns, NoPage
<1>3. TimeIsLeft'
  <2>1. ASSUME NEW d \in Code PROVE time'[d] + Left(d)' <= Duration * loads'[d] + ahead'[d]
    <3>1. Left(d)' = 0 /\ Left(d) \in Nat /\ time[d] \in Nat /\ ahead[d] \in Nat
      BY DEF Left, EntryInv, EntryTypeOK, NoPage
    <3>2. time[d] + Left(d) <= Duration * loads[d] + ahead[d] /\ Duration * loads[d] \in Nat
      BY OneMore DEF EntryInv, EntryTypeOK, TimeIsLeft
    <3> QED
      BY <3>1, <3>2
  <2> QED
    BY <2>1 DEF TimeIsLeft
<1> QED
  BY <1>1, <1>2, <1>3 DEF EntryInv

\* The page goes on to something that shows no questions.
LEMMA PageGoesOn ==
    ASSUME EntryInv, examPage.at # "closed", examPage.at # "shown",
           NEW where \in {"asking", "consent", "accepting", "loading", "failed"},
           GoOn(where), UNCHANGED <<form, storeVars, tallyVars>>
    PROVE  EntryInv'
<1> USE DEF GoOn, storeVars, tallyVars
<1>1. EntryTypeOK'
  BY DEF EntryInv, EntryTypeOK
<1>2. TimerRuns'
  BY DEF EntryInv, EntryTypeOK, TimerRuns
<1>3. TimeIsLeft'
  BY DEF EntryInv, EntryTypeOK, TimeIsLeft, Left
<1> QED
  BY <1>1, <1>2, <1>3 DEF EntryInv

-----------------------------------------------------------------------------
\* What the end gives: the duration and, at most, what the clock was ahead.
LEMMA GivesNoMore ==
    ASSUME NEW d \in Int
    PROVE  /\ Given(Duration + d) \in Nat /\ Given(Duration + d) > 0
           /\ Given(Duration + d) <= Duration + (IF d > 0 THEN d ELSE 0)
  BY TimerAssumption DEF Given

LEMMA LoadedKeeps == ASSUME EntryInv, Loaded PROVE EntryInv'
<1> DEFINE n == examPage.left
           page == examPage.of
           d == examPage.drift
           forward == IF d > 0 THEN d ELSE 0
           given == Given(Duration + d)
<1>1. n \in Nat /\ (n = 0 => ~examPage.ticking /\ store.restored)
  BY DEF Loaded, EntryInv, EntryTypeOK, TimerRuns
<1>2. examPage' = [examPage EXCEPT !.at = "shown", !.ticking = n > 0, !.left = IF n > 0 THEN given ELSE 0]
  BY DEF Loaded
<1>10. d \in Int /\ forward \in Nat /\ given \in Nat /\ given > 0 /\ given <= Duration + forward
  <2>1. d \in Int
    BY DEF EntryInv, EntryTypeOK
  <2> QED
    BY <2>1, GivesNoMore
<1> HIDE DEF given
<1>3. \/ n > 0 /\ examPage' = [examPage EXCEPT !.at = "shown", !.ticking = TRUE, !.left = given]
      \/ n = 0 /\ examPage' = [examPage EXCEPT !.at = "shown", !.ticking = FALSE, !.left = 0]
  <2>1. CASE n > 0
    <3>1. (n > 0) = TRUE /\ (IF n > 0 THEN given ELSE 0) = given
      BY <2>1
    <3> QED
      BY <1>2, <2>1, <3>1
  <2>2. CASE ~(n > 0)
    <3>1. (n > 0) = FALSE /\ (IF n > 0 THEN given ELSE 0) = 0 /\ n = 0
      BY <1>1, <2>2
    <3> QED
      BY <1>2, <3>1
  <2> QED
    BY <2>1, <2>2
<1>4. PICK status \in Statuses :
        /\ store' = [store EXCEPT !.status = status]
        /\ saved' = status
        /\ n = 0 => status # "IN_PROGRESS"
  <2> DEFINE before == IF attempts[page].status = "SUBMITTED" THEN "SUBMITTED" ELSE "IN_PROGRESS"
             over == n = 0 /\ before = "IN_PROGRESS"
  <2>1. SetStatus(IF over THEN "EXPIRED" ELSE before)
    BY DEF Loaded
  <2>2. CASE over
    BY <2>1, <2>2 DEF SetStatus, Statuses
  <2>3. CASE ~over
    BY <2>1, <2>3 DEF SetStatus, Statuses
  <2> QED
    BY <2>2, <2>3
<1>5. examPage \in PageType /\ store \in StoreType /\ Duration \in Nat /\ Duration > 0
  BY TimerAssumption DEF EntryInv, EntryTypeOK
<1>6. /\ examPage' \in PageType
      /\ examPage'.of = page
      /\ examPage'.at = "shown"
      /\ \/ examPage'.ticking = TRUE /\ examPage'.left = given
         \/ examPage'.ticking = FALSE /\ n = 0
  <2>1. CASE /\ n > 0
             /\ examPage' = [examPage EXCEPT !.at = "shown", !.ticking = TRUE, !.left = given]
    BY <1>5, <1>10, <2>1
  <2>2. CASE /\ n = 0
             /\ examPage' = [examPage EXCEPT !.at = "shown", !.ticking = FALSE, !.left = 0]
    BY <1>5, <2>2
  <2> QED
    BY <1>3, <2>1, <2>2
<1>7. EntryTypeOK'
  <2>1. store' \in StoreType /\ saved' \in Statuses
    BY <1>4, <1>5
  <2>2. /\ loads' = [loads EXCEPT ![page] = @ + 1] /\ time' = time /\ form' = form
        /\ ahead' = [ahead EXCEPT ![page] = IF d > 0 THEN @ + d ELSE @]
    BY DEF Loaded, Counts
  <2>3. loads' \in [Code -> Nat]
    <3>1. \A c \in Code : loads[c] + 1 \in Nat
      BY DEF EntryInv, EntryTypeOK
    <3> HIDE DEF page
    <3> QED
      BY <2>2, <3>1 DEF EntryInv, EntryTypeOK
  <2>4. ahead' \in [Code -> Nat]
    <3>1. \A c \in Code : ahead[c] \in Nat /\ (d > 0 => ahead[c] + d \in Nat)
      BY <1>10 DEF EntryInv, EntryTypeOK
    <3> HIDE DEF page, d
    <3> QED
      BY <2>2, <3>1 DEF EntryInv, EntryTypeOK
  <2> QED
    BY <1>6, <2>1, <2>2, <2>3, <2>4 DEF EntryInv, EntryTypeOK
<1>8. TimerRuns'
  <2>1. n = 0 => store'.restored /\ store'.status # "IN_PROGRESS"
    BY <1>1, <1>4, <1>5
  <2> QED
    BY <1>5, <1>6, <1>10, <2>1 DEF TimerRuns
<1>9. ASSUME NEW c \in Code PROVE time'[c] + Left(c)' <= Duration * loads'[c] + ahead'[c]
  <2>1. time[c] \in Nat /\ loads[c] \in Nat /\ ahead[c] \in Nat /\ time'[c] = time[c] /\ Left(c) \in Nat
    BY DEF Loaded, EntryInv, EntryTypeOK, Left
  <2>2. time[c] + Left(c) <= Duration * loads[c] + ahead[c] /\ Duration * loads[c] \in Nat
    BY <2>1, OneMore DEF EntryInv, TimeIsLeft
  <2>3. CASE page = c
    <3>1. loads'[c] = loads[c] + 1 /\ ahead'[c] = ahead[c] + forward
      BY <1>10, <2>1, <2>3 DEF Loaded, Counts, EntryInv, EntryTypeOK
    <3>2. Left(c)' \in Nat /\ Left(c)' <= Duration + forward
      BY <1>5, <1>6, <1>10 DEF Left
    <3> HIDE DEF forward
    <3> QED
      BY <1>10, <2>1, <2>2, <3>1, <3>2, OneMore, TimerAssumption
  <2>4. CASE page # c
    <3>1. loads'[c] = loads[c] /\ ahead'[c] = ahead[c]
      BY <2>4 DEF Loaded, Counts, EntryInv, EntryTypeOK
    <3>2. Left(c)' = 0
      BY <1>6, <2>4 DEF Left
    <3> QED
      BY <2>1, <2>2, <3>1, <3>2
  <2> QED
    BY <2>3, <2>4
<1> QED
  BY <1>7, <1>8, <1>9 DEF EntryInv, TimeIsLeft

LEMMA RestoreKeeps == ASSUME EntryInv, Restore PROVE EntryInv'
<1>1. EntryTypeOK'
  BY DEF Restore, EntryInv, EntryTypeOK, tallyVars, accessVars
<1> QED
  BY <1>1, PageRests DEF Restore, EntryInv, EntryTypeOK, tallyVars

LEMMA SetClockKeeps == ASSUME EntryInv, NEW d \in Int, SetClock(d) PROVE EntryInv'
<1> USE DEF SetClock, storeVars, tallyVars
<1>1. examPage.at # "closed" /\ examPage' = [examPage EXCEPT !.drift = d]
  BY DEF EntryInv, TimerRuns
<1>2. EntryTypeOK'
  BY DEF EntryInv, EntryTypeOK
<1>3. TimerRuns'
  BY <1>1 DEF EntryInv, EntryTypeOK, TimerRuns
<1>4. TimeIsLeft'
  BY DEF EntryInv, EntryTypeOK, TimeIsLeft, Left
<1> QED
  BY <1>2, <1>3, <1>4 DEF EntryInv

LEMMA TickKeeps == ASSUME EntryInv, Tick PROVE EntryInv'
<1>1. /\ examPage.at # "closed"
      /\ store.restored
      /\ OnScreen => examPage.ticking
      /\ examPage.ticking
      /\ examPage.left \in Nat /\ examPage.left > 0
  BY DEF Tick, EntryInv, EntryTypeOK, TimerRuns, OnScreen
<1>2. \/ /\ examPage.drift = 0 /\ examPage.left > 1
         /\ examPage' = [examPage EXCEPT !.left = @ - 1, !.ticking = TRUE]
         /\ UNCHANGED storeVars
      \/ /\ examPage.drift = 0 /\ examPage.left = 1
         /\ examPage' = [examPage EXCEPT !.left = 0, !.ticking = FALSE]
         /\ HandleTimeUp
      \/ /\ examPage.drift # 0
         /\ examPage' = [examPage EXCEPT !.ticking = FALSE]
         /\ HandleTimeUp
  <2> DEFINE left == IF examPage.ticking /\ examPage.drift = 0 THEN examPage.left - 1 ELSE examPage.left
             up == examPage.ticking /\ (examPage.drift # 0 \/ left = 0)
  <2>1. /\ examPage' = [examPage EXCEPT !.left = left, !.ticking = @ /\ ~up]
        /\ IF up THEN HandleTimeUp ELSE UNCHANGED <<storeVars, submitting>>
    BY DEF Tick
  <2>2. CASE examPage.drift # 0
    <3>1. up /\ left = examPage.left
      BY <1>1, <2>2
    <3>2. (examPage.ticking /\ ~up) = FALSE
      BY <3>1
    <3>3. examPage' = [examPage EXCEPT !.left = examPage.left, !.ticking = FALSE]
      BY <2>1, <3>1, <3>2
    <3> HIDE DEF left, up
    <3> QED
      BY <2>1, <2>2, <3>1, <3>3 DEF EntryInv, EntryTypeOK
  <2>3. CASE examPage.drift = 0 /\ examPage.left = 1
    <3>1. up /\ left = 0
      BY <1>1, <2>3
    <3>2. (examPage.ticking /\ ~up) = FALSE
      BY <3>1
    <3> HIDE DEF left, up
    <3> QED
      BY <2>1, <2>3, <3>1, <3>2
  <2>4. CASE examPage.drift = 0 /\ examPage.left > 1
    <3>1. ~up /\ left = examPage.left - 1
      BY <1>1, <2>4
    <3>2. (examPage.ticking /\ ~up) = TRUE
      BY <1>1, <3>1
    <3> HIDE DEF left, up
    <3> QED
      BY <2>1, <2>4, <3>1, <3>2
  <2> QED
    BY <1>1, <2>2, <2>3, <2>4
<1>3. /\ HandleTimeUp => \E status \in Statuses \ {"IN_PROGRESS"} :
                            store' = [store EXCEPT !.status = status]
      /\ HandleTimeUp => saved' \in Statuses
  <2>1. CASE store.status = "IN_PROGRESS"
    BY <2>1 DEF HandleTimeUp, SetStatus, Statuses
  <2>2. CASE store.status # "IN_PROGRESS"
    <3>1. store.status \in Statuses /\ store = [store EXCEPT !.status = store.status]
      BY DEF EntryInv, EntryTypeOK
    <3> QED
      BY <2>2, <3>1 DEF HandleTimeUp, storeVars, EntryInv, EntryTypeOK
  <2> QED
    BY <2>1, <2>2
<1>4. examPage \in PageType /\ store \in StoreType /\ saved \in Statuses
  BY DEF EntryInv, EntryTypeOK
<1>5. /\ examPage' \in PageType
      /\ examPage'.of = examPage.of
      /\ examPage'.at = examPage.at
      /\ \/ /\ examPage'.ticking = TRUE
            /\ examPage'.left = examPage.left - 1
            /\ examPage'.left > 0
            /\ UNCHANGED storeVars
         \/ /\ examPage'.ticking = FALSE
            /\ HandleTimeUp
  <2>1. CASE /\ examPage.drift = 0 /\ examPage.left > 1
             /\ examPage' = [examPage EXCEPT !.left = @ - 1, !.ticking = TRUE]
             /\ UNCHANGED storeVars
    <3>1. examPage.left - 1 \in Nat /\ examPage.left - 1 > 0
      BY <1>1, <2>1
    <3> QED
      BY <1>4, <2>1, <3>1
  <2>2. CASE /\ examPage.drift = 0 /\ examPage.left = 1
             /\ examPage' = [examPage EXCEPT !.left = 0, !.ticking = FALSE]
             /\ HandleTimeUp
    BY <1>4, <2>2
  <2>3. CASE /\ examPage.drift # 0
             /\ examPage' = [examPage EXCEPT !.ticking = FALSE]
             /\ HandleTimeUp
    BY <1>4, <2>3
  <2> QED
    BY <1>2, <2>1, <2>2, <2>3
<1>6. EntryTypeOK'
  <2>1. store' \in StoreType /\ saved' \in Statuses
    <3>1. CASE UNCHANGED storeVars
      BY <1>4, <3>1 DEF storeVars
    <3>2. CASE HandleTimeUp
      BY <1>3, <1>4, <3>2
    <3> QED
      BY <1>5, <3>1, <3>2
  <2>2. loads' = loads /\ ahead' = ahead /\ form' = form
        /\ time' = IF OnScreen THEN [time EXCEPT ![examPage.of] = @ + 1] ELSE time
    BY DEF Tick
  <2>3. time' \in [Code -> Nat]
    <3>1. \A c \in Code : time[c] + 1 \in Nat
      BY DEF EntryInv, EntryTypeOK
    <3> QED
      BY <2>2, <3>1 DEF EntryInv, EntryTypeOK
  <2> QED
    BY <1>5, <2>1, <2>2, <2>3 DEF EntryInv, EntryTypeOK
<1>7. TimerRuns'
  <2>1. HandleTimeUp => store'.restored /\ store'.status # "IN_PROGRESS"
    BY <1>1, <1>3, <1>4
  <2> QED
    BY <1>1, <1>5, <2>1 DEF TimerRuns
<1>8. ASSUME NEW c \in Code PROVE time'[c] + Left(c)' <= Duration * loads'[c] + ahead'[c]
  <2>1. time[c] \in Nat /\ loads[c] \in Nat /\ Left(c) \in Nat /\ loads'[c] = loads[c]
        /\ ahead[c] \in Nat /\ ahead'[c] = ahead[c]
    BY DEF Tick, EntryInv, EntryTypeOK, Left
  <2>2. time[c] + Left(c) <= Duration * loads[c] + ahead[c] /\ Duration * loads[c] \in Nat
    BY <2>1, OneMore DEF EntryInv, TimeIsLeft
  <2>3. CASE OnScreen /\ examPage.of = c
    <3>1. time'[c] = time[c] + 1
      BY <2>3 DEF Tick, EntryInv, EntryTypeOK
    <3>2. Left(c) = examPage.left
      BY <1>1, <2>3 DEF Left, OnScreen
    <3>3. Left(c)' \in Nat /\ Left(c)' <= examPage.left - 1
      BY <1>1, <1>5, <2>3 DEF Left, OnScreen
    <3> QED
      BY <1>1, <2>1, <2>2, <3>1, <3>2, <3>3
  <2>4. CASE ~(OnScreen /\ examPage.of = c)
    <3>1. time'[c] = time[c]
      BY <2>4 DEF Tick, EntryInv, EntryTypeOK
    <3>2. Left(c)' \in Nat /\ Left(c)' <= Left(c)
      BY <1>1, <1>5 DEF Left
    <3> QED
      BY <2>1, <2>2, <3>1, <3>2
  <2> QED
    BY <2>3, <2>4
<1> QED
  BY <1>6, <1>7, <1>8 DEF EntryInv, TimeIsLeft

LEMMA ClaimedKeeps == ASSUME EntryInv, Claimed PROVE EntryInv'
<1>1. form.claim[1] \in SomeCode
  BY DEF Claimed, EntryInv, EntryTypeOK
<1>2. CASE Entered(form.claim[1])
  BY <1>1, <1>2, PageOpens DEF Claimed, EntryInv, EntryTypeOK
<1>3. CASE NotClaimed
  <2>1. EntryTypeOK'
    BY <1>3 DEF Claimed, NotClaimed, EntryInv, EntryTypeOK, tallyVars
  <2> QED
    BY <1>3, <2>1, PageRests DEF Claimed, NotClaimed, tallyVars
<1> QED
  BY <1>2, <1>3 DEF Claimed

\* What happens on the login page.
LEMMA FormKeeps ==
    ASSUME EntryInv,
           (\E c \in Code : Type(c) \/ Expire(c)) \/ Verify \/ Verified \/ Back \/ AskToClaim
    PROVE  EntryInv'
<1> DEFINE FormMoves ==
      /\ form' \in FormType
      /\ UNCHANGED <<examPage, storeVars, tallyVars>>
<1>1. FormMoves
  <2>1. ASSUME NEW c \in Code, Type(c) \/ Expire(c) PROVE FormMoves
    BY <2>1 DEF Type, Expire, EntryInv, EntryTypeOK, SomeCode
  <2>2. CASE Verify \/ Back
    BY <2>2 DEF Verify, Back, EntryInv, EntryTypeOK, SomeCode
  <2>3. CASE Verified
    BY <2>3 DEF Verified, Details, EntryInv, EntryTypeOK, SomeCode
  <2>4. CASE AskToClaim
    BY <2>4 DEF AskToClaim, EntryInv, EntryTypeOK
  <2> QED
    BY <2>1, <2>2, <2>3, <2>4
<1>2. EntryTypeOK'
  BY <1>1 DEF EntryInv, EntryTypeOK, storeVars, tallyVars
<1> QED
  BY <1>1, <1>2, PageRests DEF storeVars, tallyVars

LEMMA FinalizedKeeps == ASSUME EntryInv, Finalized PROVE EntryInv'
<1>1. UNCHANGED storeVars \/ SetStatus("SUBMITTED")
  BY DEF Finalized
<1>2. EntryTypeOK'
  BY <1>1 DEF Finalized, SetStatus, EntryInv, EntryTypeOK, storeVars, tallyVars, Statuses
<1> QED
  BY <1>1, <1>2, PageRests DEF Finalized, SetStatus, EntryInv, EntryTypeOK, storeVars, tallyVars

-----------------------------------------------------------------------------
LEMMA EntryNextInv == EntryInv /\ [EntryNext]_entryVars => EntryInv'
<1> SUFFICES ASSUME EntryInv, [EntryNext]_entryVars PROVE EntryInv'
  OBVIOUS
<1>1. CASE UNCHANGED entryVars \/ ClickFinalize
  <2>1. EntryTypeOK' /\ UNCHANGED <<examPage, store, loads, ahead, time>>
    BY <1>1 DEF entryVars, ClickFinalize, accessVars, storeVars, tallyVars, EntryInv, EntryTypeOK
  <2> QED
    BY <2>1, PageRests
<1>2. ASSUME NEW link \in Code \cup {NoOne}, OpenLogin(link) PROVE EntryInv'
  BY <1>2, PageCloses DEF SomeCode
<1>3. CASE (\E c \in Code : Type(c) \/ Expire(c)) \/ Verify \/ Verified \/ Back \/ AskToClaim
  BY <1>3, FormKeeps
<1>4. CASE Claimed
  BY <1>4, ClaimedKeeps
<1>5. CASE Reload
  BY <1>5, PageOpens DEF Reload, EntryInv, EntryTypeOK
<1>6. CASE ConsentAsked \/ Accept \/ Accepted \/ NotLoaded
  BY <1>6, PageGoesOn DEF ConsentAsked, Accept, Accepted, NotLoaded, storeVars, tallyVars
<1>7. CASE Loaded
  BY <1>7, LoadedKeeps
<1>8. CASE Restore \/ Tick \/ Finalized
  BY <1>8, RestoreKeeps, TickKeeps, FinalizedKeeps
<1>9. ASSUME NEW d \in -MaxDrift .. MaxDrift, SetClock(d) PROVE EntryInv'
  BY <1>9, SetClockKeeps
<1> QED
  BY <1>1, <1>2, <1>3, <1>4, <1>5, <1>6, <1>7, <1>8, <1>9 DEF EntryNext

(***************************************************************************)
(* Every variable keeps its type, and questions on the screen have a timer *)
(* that runs.                                                              *)
(***************************************************************************)
THEOREM EntryInvariance == EntrySpec => []EntryInv
  BY EntryInitInv, EntryNextInv, PTL DEF EntrySpec

(***************************************************************************)
(* For any duration and however the clock is set, the questions of an      *)
(* attempt are never on the screen for longer than the duration, and what  *)
(* the clock was ahead, for each time the session was loaded.              *)
(***************************************************************************)
THEOREM TimeStaysBounded == EntrySpec => []TimeIsBounded
<1>1. EntryInv => TimeIsBounded
  <2> SUFFICES ASSUME EntryInv, NEW c \in Code PROVE time[c] <= Duration * loads[c] + ahead[c]
    BY DEF TimeIsBounded
  <2>1. Left(c) \in Nat /\ time[c] \in Nat /\ ahead[c] \in Nat
    BY DEF EntryInv, EntryTypeOK, Left
  <2>2. time[c] + Left(c) <= Duration * loads[c] + ahead[c] /\ Duration * loads[c] \in Nat
    BY OneMore DEF EntryInv, EntryTypeOK, TimeIsLeft
  <2> QED
    BY <2>1, <2>2
<1> QED
  BY <1>1, EntryInvariance, PTL

-----------------------------------------------------------------------------
(***************************************************************************)
(* Private files.                                                          *)
(***************************************************************************)
UploadState ==
    [pc : {"new", "row", "register", "number", "done", "failed"}]
      \cup [pc : {"log"}, sequence : Int]

LogEntry == [sequence : Int, file : File \cup {None}]

StorageTypeOK ==
    /\ upload \in [File -> UploadState]
    /\ lifecycle \in [File -> Later \cup {"ACTIVE", None}]
    /\ logs \in Seq(LogEntry)

\* What an upload has written so far.
UploadsInOrder == \A f \in File :
    /\ upload[f].pc = "row" => f \in objects
    /\ upload[f].pc \in {"register", "number", "log"} => f \in files
    /\ upload[f].pc \in {"number", "log"} => lifecycle[f] # None

StorageInv == StorageTypeOK /\ UploadsInOrder /\ EvidenceExists

\* An entry put somewhere among the others.
LEMMA InsertedAmong ==
    ASSUME NEW S, NEW s \in Seq(S), NEW e \in S, NEW i \in 1 .. Len(s) + 1
    PROVE  /\ InsertAt(s, i, e) \in Seq(S)
           /\ DOMAIN s \subseteq DOMAIN InsertAt(s, i, e)
           /\ \A k \in DOMAIN InsertAt(s, i, e) :
                InsertAt(s, i, e)[k] = e \/ \E m \in DOMAIN s : InsertAt(s, i, e)[k] = s[m]
<1>. DEFINE before == SubSeq(s, 1, i - 1)
            after == SubSeq(s, i, Len(s))
            start == before \o <<e>>
<1>1. Len(s) \in Nat /\ DOMAIN s = 1 .. Len(s) /\ \A k \in 1 .. Len(s) : s[k] \in S
  BY LenProperties
<1>2. /\ before \in Seq(S) /\ Len(before) = i - 1
      /\ \A k \in 1 .. i - 1 : before[k] = s[k]
  <2>1. /\ before \in Seq(S) /\ Len(before) = IF 1 <= i - 1 THEN (i - 1) - 1 + 1 ELSE 0
        /\ \A k \in 1 .. (i - 1) - 1 + 1 : before[k] = s[1 + k - 1]
    BY <1>1, SubSeqProperties
  <2>. HIDE DEF before
  <2>. QED
    BY <1>1, <2>1
<1>3. /\ after \in Seq(S) /\ Len(after) = Len(s) - i + 1
      /\ \A k \in 1 .. Len(s) - i + 1 : after[k] = s[i + k - 1]
  <2>1. /\ after \in Seq(S) /\ Len(after) = IF i <= Len(s) THEN Len(s) - i + 1 ELSE 0
        /\ \A k \in 1 .. Len(s) - i + 1 : after[k] = s[i + k - 1]
    BY <1>1, SubSeqProperties
  <2>. HIDE DEF after
  <2>. QED
    BY <1>1, <2>1
<1>. HIDE DEF before, after
<1>4. <<e>> \in Seq(S) /\ Len(<<e>>) = 1 /\ <<e>>[1] = e
  OBVIOUS
<1>5. /\ start \in Seq(S) /\ Len(start) = i
      /\ \A k \in 1 .. i : start[k] = IF k <= i - 1 THEN before[k] ELSE <<e>>[k - (i - 1)]
  BY <1>1, <1>2, <1>4, ConcatProperties
<1>6. \A k \in 1 .. i : start[k] = e \/ (k <= i - 1 /\ start[k] = s[k])
  BY <1>1, <1>2, <1>4, <1>5
<1>. HIDE DEF start
<1>. DEFINE new == start \o after
<1>7. /\ new \in Seq(S) /\ Len(new) = Len(s) + 1
      /\ \A k \in 1 .. Len(s) + 1 : new[k] = IF k <= i THEN start[k] ELSE after[k - i]
  <2>1. /\ new \in Seq(S) /\ Len(new) = Len(start) + Len(after)
        /\ \A k \in 1 .. Len(start) + Len(after) :
             new[k] = IF k <= Len(start) THEN start[k] ELSE after[k - Len(start)]
    BY <1>3, <1>5, ConcatProperties
  <2>. HIDE DEF new
  <2>2. Len(start) + Len(after) = Len(s) + 1
    BY <1>1, <1>3, <1>5
  <2>. QED
    BY <1>5, <2>1, <2>2
<1>. HIDE DEF new
<1>8. ASSUME NEW k \in 1 .. Len(s) + 1
      PROVE  new[k] = e \/ \E m \in 1 .. Len(s) : new[k] = s[m]
  <2>1. CASE k <= i
    BY <1>1, <1>6, <1>7, <2>1
  <2>2. CASE k > i
    <3>1. new[k] = after[k - i] /\ k - i \in 1 .. Len(s) - i + 1
      BY <1>1, <1>7, <2>2
    <3>2. after[k - i] = s[i + (k - i) - 1] /\ i + (k - i) - 1 \in 1 .. Len(s)
      BY <1>1, <1>3, <2>2, <3>1
    <3>. QED
      BY <3>1, <3>2
  <2>. QED
    BY <1>1, <2>1, <2>2
<1>9. DOMAIN new = 1 .. Len(s) + 1
  BY <1>7, LenProperties
<1>10. InsertAt(s, i, e) = new
  BY DEF InsertAt, new, start, before, after
<1>. QED
  BY <1>1, <1>7, <1>8, <1>9, <1>10

LEMMA StorageStart == StorageInit => StorageInv
  BY StorageAssumption DEF StorageInit, StorageInv, StorageTypeOK, UploadsInOrder, EvidenceExists,
     UploadState, New

\* The entries after one more.
LEMMA OneMoreEntry ==
    ASSUME StorageTypeOK, NEW e \in LogEntry, NEW i \in 1 .. Len(logs) + 1,
           logs' = InsertAt(logs, i, e)
    PROVE  /\ logs' \in Seq(LogEntry)
           /\ DOMAIN logs \subseteq DOMAIN logs'
           /\ \A k \in DOMAIN logs' : logs'[k] = e \/ \E m \in DOMAIN logs : logs'[k] = logs[m]
BY InsertedAmong DEF StorageTypeOK

LEMMA NextSequenceType == StorageTypeOK => NextSequence \in Int
<1>. SUFFICES ASSUME StorageTypeOK, logs # <<>> PROVE Last(logs).sequence \in Int
  BY DEF NextSequence
<1>1. Len(logs) \in 1 .. Len(logs)
  BY EmptySeq, LenProperties DEF StorageTypeOK
<1>2. logs[Len(logs)] \in LogEntry
  BY <1>1, ElementOfSeq DEF StorageTypeOK
<1>. QED
  BY <1>2 DEF Last, LogEntry

LEMMA CreateLogKeeps ==
    ASSUME StorageInv, NEW f \in File, CreateLog(f)
    PROVE  StorageInv' /\ DOMAIN logs \subseteq DOMAIN logs'
<1>. DEFINE e == [sequence |-> upload[f].sequence, file |-> f]
<1>1. upload[f] \in UploadState /\ upload[f].pc = "log"
  BY DEF CreateLog, StorageInv, StorageTypeOK
<1>2. e \in LogEntry /\ e.file = f
  BY <1>1 DEF UploadState, LogEntry
<1>3. PICK i \in 1 .. Len(logs) + 1 : logs' = InsertAt(logs, i, e)
  BY DEF CreateLog
<1>. HIDE DEF e
<1>4. /\ logs' \in Seq(LogEntry) /\ DOMAIN logs \subseteq DOMAIN logs'
      /\ \A k \in DOMAIN logs' : logs'[k] = e \/ \E m \in DOMAIN logs : logs'[k] = logs[m]
  BY <1>2, <1>3, OneMoreEntry DEF StorageInv
<1>5. f \in files /\ lifecycle[f] # None
  BY <1>1 DEF StorageInv, UploadsInOrder
<1>6. UNCHANGED <<objects, files, lifecycle>> /\ upload' = [upload EXCEPT ![f] = [pc |-> "done"]]
  BY DEF CreateLog
<1>7. EvidenceExists'
  BY <1>2, <1>4, <1>5, <1>6 DEF EvidenceExists, StorageInv
<1>8. StorageTypeOK'
  BY <1>4, <1>6 DEF StorageTypeOK, StorageInv, UploadState
<1>9. UploadsInOrder'
  BY <1>6 DEF UploadsInOrder, StorageInv, StorageTypeOK
<1>. QED
  BY <1>4, <1>7, <1>8, <1>9 DEF StorageInv

LEMMA ProctoringLogKeeps ==
    ASSUME StorageInv, NEW n \in FromBrowser, ProctoringLog(n)
    PROVE  StorageInv' /\ DOMAIN logs \subseteq DOMAIN logs'
<1>. DEFINE e == [sequence |-> n, file |-> None]
<1>1. e \in LogEntry /\ e.file = None
  BY StorageAssumption DEF LogEntry
<1>2. PICK i \in 1 .. Len(logs) + 1 : logs' = InsertAt(logs, i, e)
  BY DEF ProctoringLog
<1>. HIDE DEF e
<1>3. /\ logs' \in Seq(LogEntry) /\ DOMAIN logs \subseteq DOMAIN logs'
      /\ \A k \in DOMAIN logs' : logs'[k] = e \/ \E m \in DOMAIN logs : logs'[k] = logs[m]
  BY <1>1, <1>2, OneMoreEntry DEF StorageInv
<1>4. UNCHANGED <<objects, files, lifecycle, upload>>
  BY DEF ProctoringLog
<1>5. EvidenceExists'
  BY <1>1, <1>3, <1>4 DEF EvidenceExists, StorageInv
<1>. QED
  BY <1>3, <1>4, <1>5 DEF StorageInv, StorageTypeOK, UploadsInOrder

\* A step of one upload that adds no entry.
LEMMA UploadKeeps ==
    ASSUME StorageInv, NEW f \in File,
           PutObject(f) \/ CreateRow(f) \/ RegisterActiveResource(f) \/ ReadSequence(f) \/ FailUpload(f)
    PROVE  StorageInv' /\ logs' = logs
<1>1. /\ upload[f] \in UploadState /\ logs' = logs /\ NextSequence \in Int
      /\ upload \in [File -> UploadState]
      /\ upload[f].pc # "log" => upload[f] = [pc |-> upload[f].pc]
  BY NextSequenceType DEF StorageInv, StorageTypeOK, PutObject, CreateRow, RegisterActiveResource,
     ReadSequence, FailUpload, UploadState
<1>2. ASSUME NEW from \in {"new", "row", "register"}, NEW to \in {"row", "register", "number"},
             Steps(f, from, to)
      PROVE  /\ upload[f].pc = from /\ upload' = [upload EXCEPT ![f] = [pc |-> to]]
             /\ upload' \in [File -> UploadState]
  <2>1. upload[f].pc = from /\ upload' = [upload EXCEPT ![f].pc = to] /\ upload[f] = [pc |-> from]
    BY <1>1, <1>2 DEF Steps
  <2>2. [upload[f] EXCEPT !.pc = to] = [pc |-> to]
    BY <2>1
  <2>3. [pc |-> to] \in UploadState
    BY DEF UploadState
  <2>. QED
    BY <1>1, <2>1, <2>2, <2>3
<1>3. CASE PutObject(f)
  <2>1. /\ upload[f].pc = "new" /\ upload' = [upload EXCEPT ![f] = [pc |-> "row"]]
        /\ upload' \in [File -> UploadState]
    BY <1>2, <1>3 DEF PutObject
  <2>. QED
    BY <1>1, <1>3, <2>1
       DEF PutObject, StorageInv, StorageTypeOK, UploadsInOrder, EvidenceExists
<1>4. CASE CreateRow(f)
  <2>1. /\ upload[f].pc = "row" /\ upload' = [upload EXCEPT ![f] = [pc |-> "register"]]
        /\ upload' \in [File -> UploadState]
    BY <1>2, <1>4 DEF CreateRow
  <2>. QED
    BY <1>1, <1>4, <2>1
       DEF CreateRow, StorageInv, StorageTypeOK, UploadsInOrder, EvidenceExists
<1>5. CASE RegisterActiveResource(f)
  <2>1. /\ upload[f].pc = "register" /\ upload' = [upload EXCEPT ![f] = [pc |-> "number"]]
        /\ upload' \in [File -> UploadState]
    BY <1>2, <1>5 DEF RegisterActiveResource
  <2>. QED
    BY <1>1, <1>5, <2>1, StorageAssumption
       DEF RegisterActiveResource, StorageInv, StorageTypeOK, UploadsInOrder, EvidenceExists
<1>6. CASE ReadSequence(f)
  <2>1. [pc |-> "log", sequence |-> NextSequence] \in UploadState
    BY <1>1 DEF UploadState
  <2>. QED
    BY <1>1, <1>6, <2>1
       DEF ReadSequence, StorageInv, StorageTypeOK, UploadsInOrder, EvidenceExists
<1>7. CASE FailUpload(f)
  <2>1. [pc |-> "failed"] \in UploadState
    BY DEF UploadState
  <2>. QED
    BY <1>1, <1>7, <2>1
       DEF FailUpload, StorageInv, StorageTypeOK, UploadsInOrder, EvidenceExists
<1>. QED
  BY <1>1, <1>3, <1>4, <1>5, <1>6, <1>7

LEMMA StorageRests ==
    ASSUME StorageInv, UNCHANGED <<objects, files, lifecycle, logs, upload>>
    PROVE  StorageInv'
BY DEF StorageInv, StorageTypeOK, UploadsInOrder, EvidenceExists

\* A step keeps the invariant, and entries are only added.
LEMMA StorageKeeps ==
    ASSUME StorageInv, StorageStep
    PROVE  StorageInv' /\ DOMAIN logs \subseteq DOMAIN logs' /\ audit \subseteq audit'
<1>1. ASSUME NEW f \in File, NEW state \in Later, Transition(f, state)
      PROVE  StorageInv' /\ logs' = logs
  BY <1>1, StorageAssumption
     DEF Transition, StorageInv, StorageTypeOK, UploadsInOrder, EvidenceExists
<1>2. ASSUME NEW f \in File, NEW person \in Person, ReadFile(person, f)
      PROVE  StorageInv' /\ logs' = logs
  BY <1>2, StorageRests DEF ReadFile
<1>3. audit \subseteq audit'
  BY DEF StorageStep, PutObject, CreateRow, RegisterActiveResource, ReadSequence, CreateLog,
         FailUpload, ReadFile, Transition, ProctoringLog, Record
<1>. QED
  BY <1>1, <1>2, <1>3, UploadKeeps, CreateLogKeeps, ProctoringLogKeeps DEF StorageStep

LEMMA GovernedStorage ==
    ASSUME StorageInv, [GovernanceNext]_privateDataVars
    PROVE  StorageInv' /\ DOMAIN logs \subseteq DOMAIN logs' /\ audit \subseteq audit'
<1>1. CASE StorageStep
  BY <1>1, StorageKeeps
<1>2. ASSUME NEW j \in Job, JobStep(j)
      PROVE  UNCHANGED <<objects, files, lifecycle, logs, upload>> /\ audit \subseteq audit'
  BY <1>2 DEF JobStep, Ask, ReadNext, ReadTables, Fail, BreakOff, WriteDown, Approve, Record,
              storageVars
<1>3. CASE Live \/ UNCHANGED privateDataVars
  BY <1>3, StorageRests DEF Live, privateDataVars, storageVars
<1>. QED
  BY <1>1, <1>2, <1>3, StorageRests DEF GovernanceNext

(***************************************************************************)
(* Wherever uploads fail, an entry of the attempt has its file and the     *)
(* file its row, its lifecycle record and its object, for any number of    *)
(* uploads next to each other and next to deletions and exports.           *)
(***************************************************************************)
THEOREM EvidenceIsThere == GovernanceSpec => []EvidenceExists
<1>1. StorageInv => EvidenceExists
  BY DEF StorageInv
<1>2. GovernanceInit => StorageInv
  BY StorageStart DEF GovernanceInit
<1>3. StorageInv /\ [GovernanceNext]_privateDataVars => StorageInv'
  BY GovernedStorage
<1>. QED
  BY <1>1, <1>2, <1>3, PTL DEF GovernanceSpec

-----------------------------------------------------------------------------
(***************************************************************************)
(* Deletions and exports.                                                  *)
(***************************************************************************)
Subject == {"CANDIDATE", "ATTEMPT"}

\* The rows a list about each subject must not miss, as they are now.
RowsNow == [subject \in Subject |-> [t \in Promised(subject) |-> RowsOf(subject, t)]]

Grown(old, new) == \A subject \in Subject : \A t \in Promised(subject) :
    old[subject][t] \subseteq new[subject][t]

\* What a request has read of the rows there are: none lost, none made up.
Lists(r, rows) == r = Unasked \/
    /\ r = [pc |-> r.pc, kind |-> r.kind, subject |-> r.subject, status |-> r.status,
            found |-> r.found, before |-> r.before]
    /\ r.subject \in Subject /\ r.kind \in {"delete", "export"}
    /\ r.pc = "written" => Promised(r.subject) \subseteq DOMAIN r.found
    /\ \A t \in Promised(r.subject) :
        /\ r.before[t] \subseteq rows[r.subject][t]
        /\ t \in DOMAIN r.found =>
            r.before[t] \subseteq r.found[t] /\ r.found[t] \subseteq rows[r.subject][t]

ListedSoFar ==
    /\ DOMAIN job = Job
    /\ \A j \in Job : Lists(job[j], RowsNow)

ListInv ==
    /\ StorageInv
    /\ consents \in {{}, {"consent"}} /\ sessions \in {{}, {"session"}}
    /\ ListedSoFar

LEMMA ListsStay ==
    ASSUME NEW r, NEW old, NEW new, Lists(r, old), Grown(old, new)
    PROVE  Lists(r, new)
BY DEF Lists, Grown

LEMMA ListsOfOne ==
    ASSUME ListedSoFar, Grown(RowsNow, RowsNow'), NEW j \in Job,
           DOMAIN job' = Job, \A k \in Job \ {j} : job'[k] = job[k],
           Lists(job'[j], RowsNow')
    PROVE  ListedSoFar'
<1>1. ASSUME NEW k \in Job PROVE Lists(job'[k], RowsNow')
  <2>1. CASE k = j
    BY <2>1
  <2>2. CASE k # j
    <3>1. Lists(job[k], RowsNow) /\ job'[k] = job[k]
      BY <2>2 DEF ListedSoFar
    <3>. QED
      BY <3>1, ListsStay
  <2>. QED
    BY <2>1, <2>2
<1>. QED
  BY <1>1 DEF ListedSoFar

\* Rows are only added.
LEMMA RowsGrow ==
    ASSUME ListInv, [GovernanceNext]_privateDataVars
    PROVE  /\ Grown(RowsNow, RowsNow')
           /\ consents' \in {{}, {"consent"}} /\ sessions' \in {{}, {"session"}}
<1>1. /\ consents \subseteq consents' /\ consents' \in {{}, {"consent"}}
      /\ sessions \subseteq sessions' /\ sessions' \in {{}, {"session"}}
      /\ answers \subseteq answers'
  <2>1. CASE (StorageStep /\ UNCHANGED governanceVars) \/ UNCHANGED privateDataVars
    BY <2>1 DEF ListInv, governanceVars, privateDataVars
  <2>2. ASSUME NEW j \in Job, JobStep(j) PROVE UNCHANGED <<answers, consents, sessions>>
    BY <2>2 DEF JobStep, Ask, ReadNext, ReadTables, Fail, BreakOff, WriteDown, Approve
  <2>3. CASE Live
    BY <2>3 DEF Live, ListInv
  <2>. QED
    BY <2>1, <2>2, <2>3 DEF GovernanceNext, ListInv
<1>2. DOMAIN logs \subseteq DOMAIN logs' /\ audit \subseteq audit'
  BY GovernedStorage DEF ListInv
<1>3. ASSUME NEW subject \in Subject, NEW t \in Promised(subject)
      PROVE  RowsOf(subject, t) \subseteq RowsOf(subject, t)'
  BY <1>1, <1>2 DEF RowsOf, Promised, Subject
<1>4. ASSUME NEW subject \in Subject, NEW t \in Promised(subject)
      PROVE  RowsNow[subject][t] \subseteq RowsNow'[subject][t]
  BY <1>3 DEF RowsNow
<1>. QED
  BY <1>1, <1>4 DEF Grown

LEMMA AskKeeps ==
    ASSUME ListedSoFar, Grown(RowsNow, RowsNow'), NEW j \in Job,
           NEW kind \in {"delete", "export"}, NEW subject \in Subject, Ask(j, kind, subject)
    PROVE  ListedSoFar'
<1>1. /\ DOMAIN job' = Job /\ \A k \in Job \ {j} : job'[k] = job[k]
      /\ job'[j] = [pc |-> "read", kind |-> kind, subject |-> subject,
                    status |-> IF kind = "export" THEN "RUNNING" ELSE "none",
                    found |-> [t \in {} |-> {}],
                    before |-> [t \in Promised(subject) |-> RowsOf(subject, t)]]
  BY DEF Ask, ListedSoFar
<1>2. \A t \in Promised(subject) : RowsNow[subject][t] = RowsOf(subject, t)
  BY DEF RowsNow
<1>3. /\ job'[j] = [pc |-> job'[j].pc, kind |-> job'[j].kind, subject |-> job'[j].subject,
                    status |-> job'[j].status, found |-> job'[j].found, before |-> job'[j].before]
      /\ job'[j].pc = "read" /\ job'[j].kind = kind /\ job'[j].subject = subject
      /\ DOMAIN job'[j].found = {}
      /\ \A t \in Promised(subject) : job'[j].before[t] = RowsNow[subject][t]
  BY <1>1, <1>2
<1>4. Lists(job'[j], RowsNow)
  BY <1>3 DEF Lists
<1>. QED
  BY <1>1, <1>4, ListsStay, ListsOfOne

LEMMA ReadTablesKeeps ==
    ASSUME ListedSoFar, Grown(RowsNow, RowsNow'), NEW j \in Job, NEW tables, ReadTables(j, tables)
    PROVE  ListedSoFar'
<1>. DEFINE r == job[j]
            now == [t \in DOMAIN r.found \cup tables |->
                      IF t \in tables THEN RowsOf(r.subject, t) ELSE r.found[t]]
<1>1. /\ Lists(r, RowsNow) /\ r.pc = "read" /\ r # Unasked
      /\ DOMAIN job' = Job /\ \A k \in Job \ {j} : job'[k] = job[k]
      /\ job'[j] = [r EXCEPT !.found = now]
  BY DEF ReadTables, ListedSoFar, Unasked
<1>. HIDE DEF r
<1>2. /\ DOMAIN now = DOMAIN r.found \cup tables
      /\ \A t \in DOMAIN now : now[t] = IF t \in tables THEN RowsOf(r.subject, t) ELSE r.found[t]
  OBVIOUS
<1>. HIDE DEF now
<1>3. r = [pc |-> "read", kind |-> r.kind, subject |-> r.subject, status |-> r.status,
           found |-> r.found, before |-> r.before]
  BY <1>1 DEF Lists
<1>4. job'[j] = [pc |-> "read", kind |-> r.kind, subject |-> r.subject, status |-> r.status,
                 found |-> now, before |-> r.before]
  BY <1>1, <1>3
<1>5. \A t \in Promised(r.subject) : RowsNow[r.subject][t] = RowsOf(r.subject, t)
  BY <1>1 DEF RowsNow, Lists
<1>6. /\ job'[j] = [pc |-> job'[j].pc, kind |-> job'[j].kind, subject |-> job'[j].subject,
                    status |-> job'[j].status, found |-> job'[j].found, before |-> job'[j].before]
      /\ job'[j].pc = "read" /\ job'[j].kind = r.kind /\ job'[j].subject = r.subject
      /\ job'[j].found = now /\ job'[j].before = r.before
  BY <1>4
<1>7. ASSUME NEW t \in Promised(r.subject)
      PROVE  /\ r.before[t] \subseteq RowsNow[r.subject][t]
             /\ t \in DOMAIN now =>
                 r.before[t] \subseteq now[t] /\ now[t] \subseteq RowsNow[r.subject][t]
  <2>1. /\ r.before[t] \subseteq RowsNow[r.subject][t]
        /\ t \in DOMAIN r.found =>
            r.before[t] \subseteq r.found[t] /\ r.found[t] \subseteq RowsNow[r.subject][t]
    BY <1>1 DEF Lists
  <2>. QED
    BY <1>2, <1>5, <2>1
<1>8. r.subject \in Subject /\ r.kind \in {"delete", "export"}
  BY <1>1 DEF Lists
<1>9. Lists(job'[j], RowsNow)
  BY <1>6, <1>7, <1>8 DEF Lists
<1>. QED
  BY <1>1, <1>9, ListsStay, ListsOfOne

\* Only what is being done and the status of a request change.
Moves(r, pc, status) ==
    [pc |-> pc, kind |-> r.kind, subject |-> r.subject, status |-> status,
     found |-> r.found, before |-> r.before]

LEMMA MoveLists ==
    ASSUME NEW r, NEW rows, NEW pc, NEW status, Lists(r, rows), r # Unasked,
           pc = "written" => Promised(r.subject) \subseteq DOMAIN r.found
    PROVE  Lists(Moves(r, pc, status), rows)
<1>. DEFINE m == Moves(r, pc, status)
<1>1. /\ m = [pc |-> m.pc, kind |-> m.kind, subject |-> m.subject, status |-> m.status,
              found |-> m.found, before |-> m.before]
      /\ m.pc = pc /\ m.kind = r.kind /\ m.subject = r.subject
      /\ m.found = r.found /\ m.before = r.before
  BY DEF Moves
<1>. HIDE DEF m
<1>2. /\ r.subject \in Subject /\ r.kind \in {"delete", "export"}
      /\ \A t \in Promised(r.subject) :
          /\ r.before[t] \subseteq rows[r.subject][t]
          /\ t \in DOMAIN r.found =>
              r.before[t] \subseteq r.found[t] /\ r.found[t] \subseteq rows[r.subject][t]
  BY DEF Lists
<1>3. Lists(m, rows)
  BY <1>1, <1>2 DEF Lists
<1>. QED
  BY <1>3 DEF m

LEMMA RequestEnds ==
    ASSUME ListedSoFar, Grown(RowsNow, RowsNow'), NEW j \in Job,
           Fail(j) \/ BreakOff(j) \/ \E p \in Staff : WriteDown(j, p) \/ Approve(j, p)
    PROVE  ListedSoFar'
<1>. DEFINE r == job[j]
<1>1. /\ Lists(r, RowsNow) /\ r # Unasked
      /\ DOMAIN job' = Job /\ \A k \in Job \ {j} : job'[k] = job[k]
  BY DEF ListedSoFar, Fail, BreakOff, WriteDown, AllRead, Approve, Unasked
<1>2. r = [pc |-> r.pc, kind |-> r.kind, subject |-> r.subject, status |-> r.status,
           found |-> r.found, before |-> r.before]
  BY <1>1 DEF Lists
<1>3. CASE Fail(j)
  <2>1. job'[j] = Moves(r, "failed", IF r.status = "RUNNING" THEN "FAILED" ELSE r.status)
    BY <1>2, <1>3 DEF Fail, Moves, ListedSoFar
  <2>. QED
    BY <1>1, <2>1, MoveLists, ListsStay, ListsOfOne
<1>4. CASE BreakOff(j)
  <2>1. job'[j] = Moves(r, "failed", r.status)
    BY <1>2, <1>4 DEF BreakOff, Moves, ListedSoFar
  <2>. QED
    BY <1>1, <2>1, MoveLists, ListsStay, ListsOfOne
<1>5. ASSUME NEW p \in Staff, WriteDown(j, p) PROVE ListedSoFar'
  <2>1. job'[j] = Moves(r, "written", IF r.kind = "delete" THEN "PENDING_REVIEW" ELSE "COMPLETED")
    BY <1>2, <1>5 DEF WriteDown, Moves, ListedSoFar
  <2>2. Promised(r.subject) \subseteq DOMAIN r.found
    BY <1>1, <1>5
       DEF WriteDown, AllRead, Lists, Tables, PlannedTables, ExportedTables, Promised, Subject
  <2>. QED
    BY <1>1, <2>1, <2>2, MoveLists, ListsStay, ListsOfOne
<1>6. ASSUME NEW p \in Staff, Approve(j, p) PROVE ListedSoFar'
  <2>1. job'[j] = Moves(r, "written", "APPROVED")
    BY <1>2, <1>6 DEF Approve, Moves, ListedSoFar
  <2>2. Promised(r.subject) \subseteq DOMAIN r.found
    BY <1>1, <1>6 DEF Approve, Lists
  <2>. QED
    BY <1>1, <2>1, <2>2, MoveLists, ListsStay, ListsOfOne
<1>. QED
  BY <1>3, <1>4, <1>5, <1>6

LEMMA ListNextInv == ListInv /\ [GovernanceNext]_privateDataVars => ListInv'
<1> SUFFICES ASSUME ListInv, [GovernanceNext]_privateDataVars PROVE ListInv'
  OBVIOUS
<1>1. /\ StorageInv' /\ consents' \in {{}, {"consent"}} /\ sessions' \in {{}, {"session"}}
      /\ Grown(RowsNow, RowsNow') /\ ListedSoFar
  BY GovernedStorage, RowsGrow DEF ListInv
<1>2. CASE UNCHANGED job
  <2>1. ASSUME NEW j \in Job PROVE Lists(job'[j], RowsNow')
    <3>1. Lists(job[j], RowsNow)
      BY <1>1 DEF ListedSoFar
    <3>. QED
      BY <1>1, <1>2, <3>1, ListsStay
  <2>. QED
    BY <1>1, <1>2, <2>1 DEF ListInv, ListedSoFar
<1>3. ASSUME NEW j \in Job, JobStep(j) PROVE ListedSoFar'
  BY <1>1, <1>3, AskKeeps, ReadTablesKeeps, RequestEnds DEF JobStep, ReadNext, Subject
<1>4. UNCHANGED job \/ \E j \in Job : JobStep(j)
  BY DEF GovernanceNext, governanceVars, privateDataVars, Live
<1>. QED
  BY <1>1, <1>2, <1>3, <1>4 DEF ListInv

(***************************************************************************)
(* A plan or an export lists all rows there were when it was asked for and *)
(* none there is not, for any number of requests, uploads and answers at   *)
(* the same time.                                                          *)
(***************************************************************************)
THEOREM ListsMissNothing == GovernanceSpec => []ListsAreComplete
<1>1. ListInv => ListsAreComplete
  <2> SUFFICES ASSUME ListInv, NEW j \in Job, job[j].pc = "written",
                      NEW t \in Promised(job[j].subject)
               PROVE  /\ t \in DOMAIN job[j].found
                      /\ job[j].before[t] \subseteq job[j].found[t]
                      /\ job[j].found[t] \subseteq RowsOf(job[j].subject, t)
    BY DEF ListsAreComplete
  <2>1. Lists(job[j], RowsNow) /\ job[j] # Unasked
    BY DEF ListInv, ListedSoFar, Unasked
  <2>2. RowsNow[job[j].subject][t] = RowsOf(job[j].subject, t)
    BY <2>1 DEF Lists, RowsNow
  <2>. QED
    BY <2>1, <2>2 DEF Lists
<1>2. GovernanceInit => ListInv
  BY StorageStart DEF GovernanceInit, ListInv, ListedSoFar, Lists
<1>. QED
  BY <1>1, <1>2, ListNextInv, PTL DEF GovernanceSpec

-----------------------------------------------------------------------------
(***************************************************************************)
(* Results.                                                                *)
(***************************************************************************)
RowShape(r) ==
    \/ r = Unwritten
    \/ r = [percentile |-> r.percentile, version |-> r.version] /\ r.version \in Nat

RequestShape(r) ==
    \/ r = NoRequest
    \/ /\ r = [pc |-> "read", profile |-> r.profile, version |-> r.version]
       /\ r.version \in Nat
    \/ /\ r = [pc |-> "compute", profile |-> r.profile, version |-> r.version,
               percentiles |-> r.percentiles, todo |-> r.todo]
       /\ r.version \in Nat /\ r.todo \subseteq Test
    \/ r = [pc |-> "versions", version |-> r.version] /\ r.version \in Nat
    \/ r = [pc |-> "trace"]
    \/ r = [pc |-> "attach", trace |-> r.trace]

Indexed == global # Unwritten

ResultsShape ==
    /\ answered \subseteq Test /\ published \in Nat
    /\ DOMAIN results = Test /\ \A t \in Test : RowShape(results[t])
    /\ DOMAIN request = Caller /\ \A c \in Caller : RequestShape(request[c])
    /\ Indexed => DOMAIN global.percentiles # {} /\ global.version \in Nat

\* Only one request is on its way.
Alone == \A c, d \in Caller : request[c].pc # "idle" /\ request[d].pc # "idle" => c = d

\* What a calculation that nothing comes between has of the answers.
RowsOnTheWay ==
    /\ Alone
    /\ Indexed => WithRow = answered /\ DOMAIN global.percentiles = answered
    /\ \A c \in Caller : request[c].pc = "compute" =>
        DOMAIN request[c].percentiles = WithRow /\ WithRow \cup request[c].todo = answered
    /\ ~Indexed /\ (\A c \in Caller : request[c].pc \in {"idle", "read"}) => WithRow = {}

RowsSoFar == disturbances \subseteq {"change"} => RowsOnTheWay

RowsHaveVersion == \A t \in WithRow : results[t].version = global.version

\* How far the versions of an index have come to its rows and its trace.
VersionsOnTheWay ==
    /\ Alone
    /\ \A c \in Caller :
        /\ request[c].pc = "compute" /\ Indexed => request[c].todo = {}
        /\ request[c].pc = "versions" => request[c].version = global.version
        /\ request[c].pc \in {"trace", "attach"} => RowsHaveVersion
        /\ request[c].pc = "attach" => request[c].trace = global.version
    /\ Indexed /\ (\A c \in Caller : request[c].pc \in {"idle", "read", "compute"}) =>
        RowsHaveVersion /\ trace = global.version

VersionsSoFar == disturbances \subseteq {"change", "answer"} => VersionsOnTheWay

ResultsInv == ResultsShape /\ IndexHasRows /\ RowsSoFar /\ VersionsSoFar

\* A request that waits for nothing is one that is not there.
LEMMA IdleIsNone ==
    ASSUME NEW r, RequestShape(r)
    PROVE  /\ r = NoRequest <=> r.pc = "idle"
           /\ r.pc \in {"idle", "read", "compute", "versions", "trace", "attach"}
           /\ r.pc = "read" =>
                r = [pc |-> "read", profile |-> r.profile, version |-> r.version] /\ r.version \in Nat
           /\ r.pc = "compute" =>
                /\ r = [pc |-> "compute", profile |-> r.profile, version |-> r.version,
                        percentiles |-> r.percentiles, todo |-> r.todo]
                /\ r.version \in Nat /\ r.todo \subseteq Test
           /\ r.pc = "versions" => r = [pc |-> "versions", version |-> r.version] /\ r.version \in Nat
BY DEF RequestShape, NoRequest

LEMMA Progress ==
    ASSUME ResultsShape
    PROVE  InProgress <=> \E c \in Caller : request[c].pc # "idle"
BY IdleIsNone DEF InProgress, ResultsShape

LEMMA ResultsStart == ResultsInit => ResultsInv
<1> SUFFICES ASSUME ResultsInit PROVE ResultsInv
  OBVIOUS
<1>1. /\ WithRow = {} /\ ~Indexed
      /\ \A c \in Caller : request[c] = NoRequest /\ request[c].pc = "idle"
  BY DEF ResultsInit, WithRow, Indexed, NoRequest
<1>2. ResultsShape
  <2>1. \A t \in Test : RowShape(results[t])
    BY DEF ResultsInit, RowShape
  <2>2. \A c \in Caller : RequestShape(request[c])
    BY <1>1 DEF RequestShape
  <2>. QED
    BY <1>1, <2>1, <2>2 DEF ResultsInit, ResultsShape
<1>3. IndexHasRows
  BY <1>1 DEF IndexHasRows, Indexed
<1>4. RowsSoFar /\ VersionsSoFar
  BY <1>1 DEF RowsSoFar, VersionsSoFar, RowsOnTheWay, VersionsOnTheWay, Alone
<1>. QED
  BY <1>2, <1>3, <1>4 DEF ResultsInv

\* One request gets to another place.
LEMMA OneRequest ==
    ASSUME ResultsShape, NEW c \in Caller, NEW r, RequestShape(r),
           request' = [request EXCEPT ![c] = r]
    PROVE  /\ DOMAIN request' = Caller /\ request'[c] = r
           /\ \A d \in Caller \ {c} : request'[d] = request[d]
           /\ \A d \in Caller : RequestShape(request'[d])
BY DEF ResultsShape

\* Rows stay rows when no statement writes them.
LEMMA SameRows ==
    ASSUME UNCHANGED results
    PROVE  WithRow' = WithRow
BY DEF WithRow

LEMMA AnswerKeeps == ASSUME ResultsInv, NEW t \in Test, Answer(t) PROVE ResultsInv'
<1>1. /\ UNCHANGED <<published, results, global, trace, request>> /\ answered' = answered \cup {t}
      /\ WithRow' = WithRow /\ Indexed' = Indexed
      /\ disturbances \subseteq disturbances' /\ (Started => "answer" \in disturbances')
  BY DEF Answer, Disturb, resultVars, WithRow, Indexed
<1>2. ResultsShape' /\ IndexHasRows'
  BY <1>1 DEF ResultsInv, ResultsShape, IndexHasRows, Indexed
<1>3. VersionsSoFar'
  <2>1. VersionsOnTheWay => VersionsOnTheWay'
    BY <1>1 DEF VersionsOnTheWay, Alone, RowsHaveVersion
  <2>. QED
    BY <1>1, <2>1 DEF ResultsInv, VersionsSoFar
<1>4. ASSUME ~Started PROVE RowsSoFar'
  <2>1. WithRow = {} /\ ~Indexed /\ \A c \in Caller : request[c].pc = "idle"
    BY <1>4, Progress DEF Started, WithRow, Indexed, ResultsInv
  <2>. QED
    BY <1>1, <2>1 DEF RowsSoFar, RowsOnTheWay, Alone
<1>5. ASSUME Started PROVE RowsSoFar'
  <2>1. ~(disturbances' \subseteq {"change"})
    BY <1>1, <1>5
  <2>. QED
    BY <2>1 DEF RowsSoFar
<1>. QED
  BY <1>2, <1>3, <1>4, <1>5 DEF ResultsInv

LEMMA ChangeKeeps == ASSUME ResultsInv, Change PROVE ResultsInv'
<1>1. /\ UNCHANGED <<answered, results, global, trace, request>> /\ published' \in Nat
      /\ WithRow' = WithRow /\ Indexed' = Indexed /\ disturbances \subseteq disturbances'
  BY DEF Change, Disturb, resultVars, WithRow, Indexed, ResultsInv, ResultsShape
<1>2. ResultsShape' /\ IndexHasRows'
  BY <1>1 DEF ResultsInv, ResultsShape, IndexHasRows, Indexed
<1>3. RowsOnTheWay => RowsOnTheWay'
  BY <1>1 DEF RowsOnTheWay, Alone
<1>4. VersionsOnTheWay => VersionsOnTheWay'
  BY <1>1 DEF VersionsOnTheWay, Alone, RowsHaveVersion
<1>. QED
  BY <1>1, <1>2, <1>3, <1>4 DEF ResultsInv, RowsSoFar, VersionsSoFar

\* Look and Recalculate.
LEMMA BeginKeeps ==
    ASSUME ResultsInv, NEW c \in Caller, Look(c) \/ \E p \in Profile : Recalculate(c, p)
    PROVE  ResultsInv'
<1>1. /\ UNCHANGED <<answered, published, results, global, trace>>
      /\ WithRow' = WithRow /\ Indexed' = Indexed
      /\ disturbances \subseteq disturbances' /\ (InProgress => "overlap" \in disturbances')
      /\ request[c] = NoRequest
  BY DEF Look, Recalculate, Disturb, attemptVars, resultVars, WithRow, Indexed
<1>2. PICK profile : request' = [request EXCEPT ![c] =
                       [pc |-> "read", profile |-> profile, version |-> published]]
  BY DEF Look, Recalculate
<1>. DEFINE r == [pc |-> "read", profile |-> profile, version |-> published]
<1>3. RequestShape(r) /\ r.pc = "read"
  BY DEF RequestShape, ResultsInv, ResultsShape
<1>. HIDE DEF r
<1>4. /\ DOMAIN request' = Caller /\ request'[c] = r
      /\ \A d \in Caller \ {c} : request'[d] = request[d]
      /\ \A d \in Caller : RequestShape(request'[d])
  BY <1>2, <1>3, OneRequest DEF ResultsInv, r
<1>5. ResultsShape'
  BY <1>1, <1>4 DEF ResultsInv, ResultsShape, Indexed
<1>6. IndexHasRows'
  BY <1>1, <1>3, <1>4 DEF ResultsInv, IndexHasRows, Indexed
<1>7. CASE ~InProgress
  <2>1. \A d \in Caller : request[d].pc = "idle"
    BY <1>7, Progress DEF ResultsInv
  <2>2. \A d \in Caller : request'[d].pc = IF d = c THEN "read" ELSE "idle"
    BY <1>3, <1>4, <2>1
  <2>3. RowsOnTheWay => RowsOnTheWay'
    BY <1>1, <2>1, <2>2 DEF RowsOnTheWay, Alone
  <2>4. VersionsOnTheWay => VersionsOnTheWay'
    BY <1>1, <2>1, <2>2 DEF VersionsOnTheWay, Alone, RowsHaveVersion
  <2>. QED
    BY <1>1, <1>5, <1>6, <2>3, <2>4 DEF ResultsInv, RowsSoFar, VersionsSoFar
<1>8. CASE InProgress
  <2>1. ~(disturbances' \subseteq {"change"}) /\ ~(disturbances' \subseteq {"change", "answer"})
    BY <1>1, <1>8
  <2>. QED
    BY <1>5, <1>6, <2>1 DEF ResultsInv, RowsSoFar, VersionsSoFar
<1>. QED
  BY <1>7, <1>8

LEMMA FailCallKeeps == ASSUME ResultsInv, NEW c \in Caller, FailCall(c) PROVE ResultsInv'
<1>1. /\ UNCHANGED <<answered, published, results, global, trace>>
      /\ WithRow' = WithRow /\ Indexed' = Indexed /\ "failure" \in disturbances'
  BY DEF FailCall, Disturb, attemptVars, resultVars, WithRow, Indexed
<1>2. /\ DOMAIN request' = Caller /\ request'[c] = NoRequest
      /\ \A d \in Caller \ {c} : request'[d] = request[d]
      /\ \A d \in Caller : RequestShape(request'[d])
  BY OneRequest DEF FailCall, RequestShape, ResultsInv
<1>3. ResultsShape'
  BY <1>1, <1>2 DEF ResultsInv, ResultsShape, Indexed
<1>4. IndexHasRows'
  BY <1>1, <1>2 DEF ResultsInv, IndexHasRows, Indexed, NoRequest
<1>5. ~(disturbances' \subseteq {"change"}) /\ ~(disturbances' \subseteq {"change", "answer"})
  BY <1>1
<1>. QED
  BY <1>3, <1>4, <1>5 DEF ResultsInv, RowsSoFar, VersionsSoFar

LEMMA ReadRowsKeeps == ASSUME ResultsInv, NEW c \in Caller, ReadRows(c) PROVE ResultsInv'
<1>1. /\ UNCHANGED <<answered, published, results, global, trace, disturbances>>
      /\ WithRow' = WithRow /\ Indexed' = Indexed /\ request[c].pc = "read"
  BY DEF ReadRows, attemptVars, resultVars, disturbanceVars, WithRow, Indexed
<1>2. PICK percentiles : /\ DOMAIN percentiles = WithRow
                         /\ request' = [request EXCEPT ![c] =
                              [pc |-> "compute", profile |-> request[c].profile,
                               version |-> request[c].version, percentiles |-> percentiles,
                               todo |-> IF WithRow = {} THEN answered ELSE {}]]
  <2>. DEFINE percentile(t) == IF NormPercentiles(t) = {} THEN results[t].percentile
                               ELSE CHOOSE p \in NormPercentiles(t) : TRUE
              found == [t \in WithRow |-> percentile(t)]
  <2>1. DOMAIN found = WithRow
    OBVIOUS
  <2>2. request' = [request EXCEPT ![c] =
                      [pc |-> "compute", profile |-> request[c].profile,
                       version |-> request[c].version, percentiles |-> found,
                       todo |-> IF WithRow = {} THEN answered ELSE {}]]
    BY DEF ReadRows
  <2>. HIDE DEF found
  <2>. QED
    BY <2>1, <2>2
<1>. DEFINE r == [pc |-> "compute", profile |-> request[c].profile,
                  version |-> request[c].version, percentiles |-> percentiles,
                  todo |-> IF WithRow = {} THEN answered ELSE {}]
<1>3. /\ RequestShape(r) /\ r.pc = "compute" /\ r.percentiles = percentiles
      /\ r.todo = IF WithRow = {} THEN answered ELSE {}
  <2>1. request[c].version \in Nat /\ answered \subseteq Test
    BY <1>1, IdleIsNone DEF ResultsInv, ResultsShape
  <2>. QED
    BY <2>1 DEF RequestShape
<1>. HIDE DEF r
<1>4. /\ DOMAIN request' = Caller /\ request'[c] = r
      /\ \A d \in Caller \ {c} : request'[d] = request[d]
      /\ \A d \in Caller : RequestShape(request'[d])
  BY <1>2, <1>3, OneRequest DEF ResultsInv, r
<1>5. ResultsShape'
  BY <1>1, <1>4 DEF ResultsInv, ResultsShape, Indexed
<1>6. IndexHasRows'
  BY <1>1, <1>2, <1>3, <1>4 DEF ResultsInv, ResultsShape, IndexHasRows, Indexed
<1>7. ASSUME Alone PROVE Alone' /\ \A d \in Caller \ {c} : request'[d].pc = "idle" /\ request[d].pc = "idle"
  BY <1>1, <1>4, <1>7 DEF Alone
<1>8. RowsOnTheWay => RowsOnTheWay'
  BY <1>1, <1>2, <1>3, <1>4, <1>7 DEF RowsOnTheWay
<1>9. VersionsOnTheWay => VersionsOnTheWay'
  <2>1. Indexed => WithRow # {}
    BY DEF ResultsInv, ResultsShape, IndexHasRows, Indexed
  <2>2. RowsHaveVersion' <=> RowsHaveVersion
    BY <1>1 DEF RowsHaveVersion
  <2>. QED
    BY <1>1, <1>3, <1>4, <1>7, <2>1, <2>2 DEF VersionsOnTheWay
<1>. QED
  BY <1>1, <1>5, <1>6, <1>8, <1>9 DEF ResultsInv, RowsSoFar, VersionsSoFar

LEMMA ComputeTestKeeps ==
    ASSUME ResultsInv, NEW c \in Caller, NEW t \in Test, ComputeTest(c, t)
    PROVE  ResultsInv'
<1>. DEFINE q == request[c]
<1>1. /\ UNCHANGED <<answered, published, global, trace, disturbances>>
      /\ Indexed' = Indexed /\ q.pc = "compute" /\ t \in q.todo /\ results[t] = Unwritten
  BY DEF ComputeTest, attemptVars, disturbanceVars, Indexed
<1>2. /\ q = [pc |-> "compute", profile |-> q.profile, version |-> q.version,
              percentiles |-> q.percentiles, todo |-> q.todo]
      /\ q.version \in Nat /\ q.todo \subseteq Test
  BY <1>1, IdleIsNone DEF ResultsInv, ResultsShape
<1>3. PICK p, percentiles :
        /\ results' = [results EXCEPT ![t] = [percentile |-> p, version |-> q.version]]
        /\ DOMAIN percentiles = DOMAIN q.percentiles \cup {t}
        /\ request' = [request EXCEPT ![c].percentiles = percentiles, ![c].todo = q.todo \ {t}]
  <2>1. PICK p :
          /\ results' = [results EXCEPT ![t] = [percentile |-> p, version |-> q.version]]
          /\ request' = [request EXCEPT
               ![c].percentiles = [u \in DOMAIN @ \cup {t} |-> IF u = t THEN p ELSE @[u]],
               ![c].todo = @ \ {t}]
    BY DEF ComputeTest
  <2>. DEFINE counted == [u \in DOMAIN q.percentiles \cup {t} |->
                            IF u = t THEN p ELSE q.percentiles[u]]
  <2>2. request' = [request EXCEPT ![c].percentiles = counted, ![c].todo = q.todo \ {t}]
    BY <2>1
  <2>3. DOMAIN counted = DOMAIN q.percentiles \cup {t}
    OBVIOUS
  <2>. HIDE DEF counted
  <2>. QED
    BY <2>1, <2>2, <2>3
<1>. DEFINE r == [pc |-> "compute", profile |-> q.profile, version |-> q.version,
                  percentiles |-> percentiles, todo |-> q.todo \ {t}]
<1>4. /\ DOMAIN request' = Caller /\ request'[c] = r
      /\ \A d \in Caller \ {c} : request'[d] = request[d]
  <2>1. DOMAIN request = Caller
    BY DEF ResultsInv, ResultsShape
  <2>2. DOMAIN request' = Caller /\ \A d \in Caller \ {c} : request'[d] = request[d]
    BY <1>3, <2>1
  <2>3. q = [pc |-> q.pc, profile |-> q.profile, version |-> q.version,
             percentiles |-> q.percentiles, todo |-> q.todo]
    BY <1>2
  <2>4. request'[c] = [pc |-> q.pc, profile |-> q.profile, version |-> q.version,
                       percentiles |-> percentiles, todo |-> q.todo \ {t}]
    BY <1>3, <2>1, <2>3
  <2>. QED
    BY <1>1, <2>2, <2>4
<1>6. /\ RequestShape(r) /\ r.pc = "compute" /\ r.todo = q.todo \ {t}
      /\ DOMAIN r.percentiles = DOMAIN q.percentiles \cup {t}
  BY <1>2, <1>3 DEF RequestShape
<1>. HIDE DEF r
<1>7. /\ DOMAIN results' = Test
      /\ results'[t] = [percentile |-> p, version |-> q.version]
      /\ \A u \in Test \ {t} : results'[u] = results[u]
  BY <1>3 DEF ResultsInv, ResultsShape
<1>8. results'[t] # Unwritten /\ RowShape(results'[t]) /\ results'[t].version = q.version
  BY <1>2, <1>7 DEF Unwritten, NoVersion, RowShape
<1>9. WithRow' = WithRow \cup {t} /\ t \notin WithRow
  BY <1>1, <1>7, <1>8 DEF WithRow
<1>10. ResultsShape'
  <2>1. \A u \in Test : RowShape(results'[u])
    BY <1>7, <1>8 DEF ResultsInv, ResultsShape
  <2>2. \A d \in Caller : RequestShape(request'[d])
    BY <1>4, <1>6 DEF ResultsInv, ResultsShape
  <2>. QED
    BY <1>1, <1>4, <1>7, <2>1, <2>2 DEF ResultsInv, ResultsShape, Indexed
<1>11. IndexHasRows'
  BY <1>1, <1>2, <1>4, <1>6, <1>9 DEF ResultsInv, IndexHasRows, Indexed
<1>12. \A d \in Caller : request'[d].pc = request[d].pc
  BY <1>1, <1>4, <1>6
<1>13. ASSUME Alone PROVE Alone' /\ \A d \in Caller \ {c} : request[d].pc = "idle"
  BY <1>1, <1>12, <1>13 DEF Alone
<1>14. RowsOnTheWay => RowsOnTheWay'
  BY <1>1, <1>4, <1>6, <1>9, <1>12, <1>13 DEF RowsOnTheWay
<1>15. VersionsOnTheWay => VersionsOnTheWay'
  <2>1. VersionsOnTheWay => ~Indexed
    BY <1>1 DEF VersionsOnTheWay
  <2>. QED
    BY <1>1, <1>4, <1>6, <1>12, <1>13, <2>1 DEF VersionsOnTheWay
<1>. QED
  BY <1>1, <1>10, <1>11, <1>14, <1>15 DEF ResultsInv, RowsSoFar, VersionsSoFar

LEMMA WriteGlobalKeeps == ASSUME ResultsInv, NEW c \in Caller, WriteGlobal(c) PROVE ResultsInv'
<1>. DEFINE q == request[c]
            r == [pc |-> "versions", version |-> q.version]
<1>1. /\ UNCHANGED <<answered, published, results, trace, disturbances>> /\ WithRow' = WithRow
      /\ q.pc = "compute" /\ q.todo = {} /\ DOMAIN q.percentiles # {}
      /\ request' = [request EXCEPT ![c] = r]
  BY DEF WriteGlobal, attemptVars, disturbanceVars, WithRow
<1>2. PICK recomendacion, alertas :
        global' = [percentiles |-> q.percentiles, version |-> q.version,
                   recomendacion |-> recomendacion, alertas |-> alertas]
  BY DEF WriteGlobal
<1>3. q.version \in Nat /\ DOMAIN q.percentiles \subseteq WithRow
  BY <1>1, IdleIsNone DEF ResultsInv, ResultsShape, IndexHasRows
<1>4. /\ global'.version = q.version /\ global'.percentiles = q.percentiles /\ Indexed'
  BY <1>2, <1>3 DEF Indexed, Unwritten, NoVersion
<1>5. RequestShape(r) /\ r.pc = "versions" /\ r.version = q.version
  BY <1>3 DEF RequestShape
<1>. HIDE DEF r
<1>6. /\ DOMAIN request' = Caller /\ request'[c] = r
      /\ \A d \in Caller \ {c} : request'[d] = request[d]
      /\ \A d \in Caller : RequestShape(request'[d])
  BY <1>1, <1>5, OneRequest DEF ResultsInv
<1>7. ResultsShape'
  BY <1>1, <1>3, <1>4, <1>6 DEF ResultsInv, ResultsShape
<1>8. IndexHasRows'
  BY <1>1, <1>3, <1>4, <1>5, <1>6 DEF ResultsInv, IndexHasRows, Indexed
<1>9. ASSUME Alone PROVE Alone' /\ \A d \in Caller \ {c} : request'[d].pc = "idle"
  BY <1>1, <1>6, <1>9 DEF Alone
<1>10. RowsOnTheWay => RowsOnTheWay'
  BY <1>1, <1>4, <1>5, <1>6, <1>9 DEF RowsOnTheWay
<1>11. VersionsOnTheWay => VersionsOnTheWay'
  BY <1>1, <1>4, <1>5, <1>6, <1>9 DEF VersionsOnTheWay
<1>. QED
  BY <1>1, <1>7, <1>8, <1>10, <1>11 DEF ResultsInv, RowsSoFar, VersionsSoFar

LEMMA WriteVersionsKeeps ==
    ASSUME ResultsInv, NEW c \in Caller, WriteVersions(c)
    PROVE  ResultsInv'
<1>. DEFINE q == request[c]
            r == [pc |-> "trace"]
<1>1. /\ UNCHANGED <<answered, published, global, trace, disturbances>> /\ Indexed' = Indexed
      /\ q.pc = "versions" /\ request' = [request EXCEPT ![c] = r]
      /\ results' = [t \in Test |-> IF results[t] = Unwritten THEN Unwritten
                                    ELSE [results[t] EXCEPT !.version = q.version]]
  BY DEF WriteVersions, attemptVars, disturbanceVars, Indexed
<1>2. q.version \in Nat /\ Indexed
  BY <1>1, IdleIsNone DEF ResultsInv, ResultsShape, IndexHasRows, Indexed
<1>3. RequestShape(r) /\ r.pc = "trace"
  BY DEF RequestShape
<1>. HIDE DEF r
<1>4. /\ DOMAIN request' = Caller /\ request'[c] = r
      /\ \A d \in Caller \ {c} : request'[d] = request[d]
      /\ \A d \in Caller : RequestShape(request'[d])
  BY <1>1, <1>3, OneRequest DEF ResultsInv
<1>5. ASSUME NEW t \in Test
      PROVE  /\ results[t] = Unwritten => results'[t] = Unwritten
             /\ results[t] # Unwritten =>
                  results'[t] = [percentile |-> results[t].percentile, version |-> q.version]
  BY <1>1 DEF ResultsInv, ResultsShape, RowShape
<1>6. ASSUME NEW t \in Test
      PROVE  /\ RowShape(results'[t])
             /\ results[t] = Unwritten <=> results'[t] = Unwritten
             /\ results'[t] # Unwritten => results'[t].version = q.version
  <2>1. CASE results[t] = Unwritten
    BY <1>5, <2>1 DEF RowShape
  <2>2. CASE results[t] # Unwritten
    <3>. DEFINE row == results'[t]
    <3>1. row = [percentile |-> row.percentile, version |-> row.version] /\ row.version = q.version
      <4>1. row = [percentile |-> results[t].percentile, version |-> q.version]
        BY <1>5, <2>2
      <4>. QED
        BY <4>1
    <3>2. results'[t] # Unwritten
      BY <1>2, <3>1 DEF Unwritten, NoVersion
    <3>. QED
      BY <1>2, <2>2, <3>1, <3>2 DEF RowShape
  <2>. QED
    BY <2>1, <2>2
<1>7. WithRow' = WithRow /\ \A t \in WithRow : results'[t].version = q.version
  BY <1>6 DEF WithRow
<1>8. ResultsShape'
  BY <1>1, <1>4, <1>6 DEF ResultsInv, ResultsShape
<1>9. IndexHasRows'
  BY <1>1, <1>2, <1>3, <1>4, <1>7 DEF ResultsInv, IndexHasRows, Indexed
<1>10. ASSUME Alone PROVE Alone' /\ \A d \in Caller \ {c} : request'[d].pc = "idle"
  BY <1>1, <1>4, <1>10 DEF Alone
<1>11. RowsOnTheWay => RowsOnTheWay'
  BY <1>1, <1>2, <1>3, <1>4, <1>7, <1>10 DEF RowsOnTheWay
<1>12. VersionsOnTheWay => VersionsOnTheWay'
  BY <1>1, <1>3, <1>4, <1>7, <1>10 DEF VersionsOnTheWay, RowsHaveVersion
<1>. QED
  BY <1>1, <1>8, <1>9, <1>11, <1>12 DEF ResultsInv, RowsSoFar, VersionsSoFar

LEMMA BuildTraceKeeps == ASSUME ResultsInv, NEW c \in Caller, BuildTrace(c) PROVE ResultsInv'
<1>. DEFINE r == [pc |-> "attach", trace |-> global.version]
<1>1. /\ UNCHANGED <<answered, published, results, global, trace, disturbances>>
      /\ WithRow' = WithRow /\ Indexed' = Indexed
      /\ request[c].pc = "trace" /\ request' = [request EXCEPT ![c] = r]
  BY DEF BuildTrace, attemptVars, resultVars, disturbanceVars, Indexed, WithRow
<1>2. RequestShape(r) /\ r.pc = "attach" /\ r.trace = global.version
  BY DEF RequestShape
<1>. HIDE DEF r
<1>3. /\ DOMAIN request' = Caller /\ request'[c] = r
      /\ \A d \in Caller \ {c} : request'[d] = request[d]
      /\ \A d \in Caller : RequestShape(request'[d])
  BY <1>1, <1>2, OneRequest DEF ResultsInv
<1>4. ResultsShape'
  BY <1>1, <1>3 DEF ResultsInv, ResultsShape, Indexed
<1>5. IndexHasRows'
  BY <1>1, <1>2, <1>3 DEF ResultsInv, IndexHasRows, Indexed
<1>6. Alone => Alone'
  BY <1>1, <1>3 DEF Alone
<1>7. RowsOnTheWay => RowsOnTheWay'
  BY <1>1, <1>2, <1>3, <1>6 DEF RowsOnTheWay
<1>8. VersionsOnTheWay => VersionsOnTheWay'
  BY <1>1, <1>2, <1>3, <1>6 DEF VersionsOnTheWay, RowsHaveVersion
<1>. QED
  BY <1>1, <1>4, <1>5, <1>7, <1>8 DEF ResultsInv, RowsSoFar, VersionsSoFar

LEMMA AttachTraceKeeps == ASSUME ResultsInv, NEW c \in Caller, AttachTrace(c) PROVE ResultsInv'
<1>1. /\ UNCHANGED <<answered, published, results, global, disturbances>>
      /\ WithRow' = WithRow /\ Indexed' = Indexed
      /\ request[c].pc = "attach" /\ trace' = request[c].trace
  BY DEF AttachTrace, attemptVars, disturbanceVars, Indexed, WithRow
<1>2. RequestShape(NoRequest) /\ NoRequest.pc = "idle"
  BY DEF RequestShape, NoRequest
<1>3. /\ DOMAIN request' = Caller /\ request'[c] = NoRequest
      /\ \A d \in Caller \ {c} : request'[d] = request[d]
      /\ \A d \in Caller : RequestShape(request'[d])
  BY <1>2, OneRequest DEF ResultsInv, AttachTrace
<1>4. ResultsShape'
  BY <1>1, <1>3 DEF ResultsInv, ResultsShape, Indexed
<1>5. IndexHasRows' /\ Indexed
  BY <1>1, <1>2, <1>3 DEF ResultsInv, IndexHasRows, Indexed
<1>6. Alone => Alone'
  BY <1>1, <1>2, <1>3 DEF Alone
<1>7. RowsOnTheWay => RowsOnTheWay'
  BY <1>1, <1>2, <1>3, <1>5, <1>6 DEF RowsOnTheWay
<1>8. VersionsOnTheWay => VersionsOnTheWay'
  BY <1>1, <1>2, <1>3, <1>6 DEF VersionsOnTheWay, RowsHaveVersion
<1>. QED
  BY <1>1, <1>4, <1>5, <1>7, <1>8 DEF ResultsInv, RowsSoFar, VersionsSoFar

LEMMA RewriteRowKeeps == ASSUME ResultsInv, NEW t \in Test, RewriteRow(t) PROVE ResultsInv'
<1>1. /\ UNCHANGED <<answered, published, global, trace, request, disturbances>>
      /\ Indexed' = Indexed /\ results[t] # Unwritten
  BY DEF RewriteRow, attemptVars, disturbanceVars, Indexed
<1>2. PICK p : results' = [results EXCEPT ![t].percentile = p]
  BY DEF RewriteRow
<1>3. /\ DOMAIN results' = Test /\ \A u \in Test \ {t} : results'[u] = results[u]
      /\ results'[t] = [percentile |-> p, version |-> results[t].version]
      /\ results[t].version \in Nat
  BY <1>1, <1>2 DEF ResultsInv, ResultsShape, RowShape
<1>4. /\ RowShape(results'[t]) /\ results'[t] # Unwritten
      /\ results'[t].version = results[t].version
  BY <1>3 DEF RowShape, Unwritten, NoVersion
<1>5. WithRow' = WithRow /\ \A u \in WithRow : results'[u].version = results[u].version
  BY <1>1, <1>3, <1>4 DEF WithRow
<1>6. ResultsShape'
  <2>1. \A u \in Test : RowShape(results'[u])
    BY <1>3, <1>4 DEF ResultsInv, ResultsShape
  <2>. QED
    BY <1>1, <1>3, <2>1 DEF ResultsInv, ResultsShape
<1>7. IndexHasRows'
  BY <1>1, <1>5 DEF ResultsInv, IndexHasRows
<1>8. RowsOnTheWay => RowsOnTheWay'
  BY <1>1, <1>5 DEF RowsOnTheWay, Alone
<1>9. VersionsOnTheWay => VersionsOnTheWay'
  BY <1>1, <1>5 DEF VersionsOnTheWay, RowsHaveVersion, Alone
<1>. QED
  BY <1>1, <1>6, <1>7, <1>8, <1>9 DEF ResultsInv, RowsSoFar, VersionsSoFar

LEMMA ResultsNextInv == ResultsInv /\ [ResultsNext]_calculationVars => ResultsInv'
<1> SUFFICES ASSUME ResultsInv, [ResultsNext]_calculationVars PROVE ResultsInv'
  OBVIOUS
<1>1. CASE UNCHANGED calculationVars
  <2>1. /\ UNCHANGED <<answered, norms, published, results, global, trace, request, disturbances>>
        /\ WithRow' = WithRow /\ Indexed' = Indexed
    BY <1>1 DEF calculationVars, attemptVars, resultVars, disturbanceVars, WithRow, Indexed
  <2>2. ResultsShape' /\ IndexHasRows'
    BY <2>1 DEF ResultsInv, ResultsShape, IndexHasRows, Indexed
  <2>3. RowsSoFar' /\ VersionsSoFar'
    BY <2>1 DEF ResultsInv, RowsSoFar, VersionsSoFar, RowsOnTheWay, VersionsOnTheWay, Alone,
                RowsHaveVersion
  <2>. QED
    BY <2>2, <2>3 DEF ResultsInv
<1>2. ASSUME NEW c \in Caller, Calculates(c) PROVE ResultsInv'
  BY <1>2, ReadRowsKeeps, FailCallKeeps, WriteGlobalKeeps, WriteVersionsKeeps, BuildTraceKeeps,
     AttachTraceKeeps, ComputeTestKeeps DEF Calculates
<1>. QED
  BY <1>1, <1>2, BeginKeeps, AnswerKeeps, RewriteRowKeeps, ChangeKeeps DEF ResultsNext

LEMMA ResultsInvariance == ResultsSpec => []ResultsInv
  BY ResultsStart, ResultsNextInv, PTL DEF ResultsSpec

(***************************************************************************)
(* Whoever made the rows and whatever failed, the index counts only tests  *)
(* that have a row, for any number of tests and of requests at once.       *)
(***************************************************************************)
THEOREM TheIndexHasRows == ResultsSpec => []IndexHasRows
<1>1. ResultsInv => IndexHasRows
  BY DEF ResultsInv
<1>. QED
  BY <1>1, ResultsInvariance, PTL

(***************************************************************************)
(* An index made while nothing came between counts the answered tests.     *)
(***************************************************************************)
THEOREM TheIndexIsComplete == ResultsSpec => []CompleteUndisturbed
<1>1. ResultsInv => CompleteUndisturbed
  BY DEF ResultsInv, RowsSoFar, RowsOnTheWay, CompleteUndisturbed, Indexed
<1>. QED
  BY <1>1, ResultsInvariance, PTL

(***************************************************************************)
(* After a calculation nothing came between, the trace names the versions  *)
(* of the index and of its rows, however many calculations there were.     *)
(***************************************************************************)
THEOREM TheTraceIsTrue == ResultsSpec => []TraceNamesTheVersions
<1>1. ResultsInv => TraceNamesTheVersions
  <2> SUFFICES ASSUME ResultsInv, Indexed, ~InProgress, disturbances \subseteq {"change", "answer"}
               PROVE  /\ trace = global.version
                      /\ \A t \in DOMAIN global.percentiles : results[t].version = trace
    BY DEF TraceNamesTheVersions, Indexed
  <2>1. \A c \in Caller : request[c].pc = "idle"
    BY Progress DEF ResultsInv
  <2>2. RowsHaveVersion /\ trace = global.version
    BY <2>1 DEF ResultsInv, VersionsSoFar, VersionsOnTheWay
  <2>3. DOMAIN global.percentiles \subseteq WithRow
    BY DEF ResultsInv, IndexHasRows, Indexed
  <2>. QED
    BY <2>2, <2>3 DEF RowsHaveVersion
<1>. QED
  BY <1>1, ResultsInvariance, PTL

-----------------------------------------------------------------------------
(***************************************************************************)
(* The tables: quotients and least numbers, first.                         *)
(***************************************************************************)
LEMMA DivBound ==
  ASSUME NEW a \in Int, NEW k \in Int, NEW n \in Nat, n > 0
  PROVE  /\ a \div n \in Int
         /\ k * n <= a <=> k <= a \div n
  <1>. DEFINE q == a \div n
             r == a % n
  <1>1. q \in Int /\ r \in 0..(n - 1) /\ a = n * q + r
    OBVIOUS
  <1>. HIDE DEF q, r
  <1>2. ASSUME k <= q PROVE k * n <= a
    <2>1. k * n <= q * n
      BY <1>1, <1>2
    <2>. QED BY <1>1, <2>1
  <1>3. ASSUME k > q PROVE k * n > a
    <2>1. (q + 1) * n <= k * n
      BY <1>1, <1>3
    <2>2. (q + 1) * n = n * q + n
      BY <1>1
    <2>. QED BY <1>1, <2>1, <2>2
  <1>4. k <= q <=> k * n <= a
    BY <1>1, <1>2, <1>3
  <1>. QED BY <1>1, <1>4 DEF q

LEMMA MinIs ==
  ASSUME NEW S, S \subseteq Int, NEW x \in S, \A y \in S : x <= y
  PROVE  Min(S) = x
  <1>. DEFINE m == Min(S)
  <1>1. m \in S /\ \A y \in S : m <= y
    BY DEF Min
  <1>. HIDE DEF m
  <1>2. m <= x /\ x <= m /\ m \in Int /\ x \in Int
    BY <1>1
  <1>3. m = x
    BY <1>2
  <1>. QED
    BY <1>3 DEF m

LEMMA LeastOf ==
  ASSUME NEW T, T \subseteq Nat, T # {}
  PROVE  \E x \in T : \A y \in T : x <= y
  <1>1. PICK x \in T : \A y \in T : ~(<<y, x>> \in OpToRel(<, Nat))
    BY WFMin, NatLessThanWellFounded
  <1>2. ASSUME NEW y \in T PROVE x <= y
    <2>1. ~(y < x)
      BY <1>1 DEF OpToRel
    <2>. QED
      BY <2>1
  <1>. QED
    BY <1>2

\* A norm has one row for each ability.
LEMMA OneRow ==
  ASSUME NEW cuts \in Cuts, NEW theta \in Theta
  PROVE  Cardinality({row \in NormRows(cuts) : Covers(row, theta)}) = 1
  <1>. DEFINE k == Len(cuts)
              From(i) == IF i = 1 THEN Lowest ELSE cuts[i - 1]
              To(i) == IF i > k THEN Highest ELSE cuts[i]
              Row(i) == [percentile |-> i, min |-> From(i), max |-> To(i)]
              Within(i) == From(i) <= theta /\ theta < To(i)
  <1>1. /\ cuts \in Seq(Int) /\ k \in Nat /\ DOMAIN cuts = 1..k
        /\ \A i \in 1..k : cuts[i] \in Int
        /\ \A i, j \in 1..k : i <= j => cuts[i] <= cuts[j]
        /\ theta \in Int /\ Lowest <= theta /\ theta < Highest
    BY TablesAssumption
  <1>2. Lowest \in Int /\ Highest \in Int
    BY DEF Lowest, Highest
  <1>3. \A i \in 1..(k + 1) : From(i) \in Int /\ To(i) \in Int
    BY <1>1, <1>2
  <1>4. PICK i \in 1..(k + 1) : Within(i) /\ \A j \in 1..(k + 1) : Within(j) => j = i
    <2>. DEFINE T == {i \in 1..(k + 1) : theta < To(i)}
    <2>1. k + 1 \in T
      BY <1>1
    <2>2. PICK i \in T : \A j \in T : i <= j
      <3>1. T \subseteq Nat /\ T # {}
        BY <1>1, <2>1
      <3>. HIDE DEF T
      <3>. QED
        BY <3>1, LeastOf
    <2>3. From(i) <= theta
      <3>1. CASE i = 1
        BY <1>1, <3>1
      <3>2. CASE i # 1
        <4>1. i - 1 \in 1..k /\ ~(i - 1 > k) /\ i - 1 \notin T
          BY <1>1, <2>2, <3>2
        <4>2. ~(theta < cuts[i - 1])
          BY <1>1, <4>1
        <4>. QED
          BY <1>1, <3>2, <4>1, <4>2
      <3>. QED
        BY <3>1, <3>2
    <2>4. ASSUME NEW j \in 1..(k + 1), Within(j), j # i PROVE FALSE
      <3>1. j \in T /\ i < j
        BY <1>1, <2>2, <2>4
      <3>2. i \in 1..k /\ j - 1 \in 1..k /\ i <= j - 1 /\ j # 1
        BY <1>1, <3>1
      <3>3. To(i) = cuts[i] /\ From(j) = cuts[j - 1]
        BY <1>1, <3>2
      <3>4. cuts[i] <= cuts[j - 1] /\ cuts[i] \in Int /\ cuts[j - 1] \in Int
        BY <1>1, <3>2
      <3>5. theta < cuts[i] /\ cuts[j - 1] <= theta
        BY <2>2, <2>4, <3>3
      <3>. QED
        BY <1>1, <3>4, <3>5
    <2>. QED
      BY <2>2, <2>3, <2>4
  <1>5. NormRows(cuts) = {Row(j) : j \in 1..(k + 1)}
    BY DEF NormRows
  <1>6. \A j \in 1..(k + 1) : Covers(Row(j), theta) <=> Within(j)
    BY DEF Covers
  <1>. HIDE DEF Row, Within, k
  <1>7. {row \in NormRows(cuts) : Covers(row, theta)} = {Row(i)}
    BY <1>4, <1>5, <1>6
  <1>. QED
    BY <1>7, FS_Singleton

\* The rules, and the cut scores.
LEMMA FirstRule ==
  ASSUME NEW a, NEW b, NEW c, NEW default, NEW theta \in Int
  PROVE  LET label == ResolveLabel(theta, <<<<-15, a>>, <<5, b>>, <<15, c>>>>, default)
         IN  /\ theta < -15 => label = a
             /\ ~(theta < -15) /\ theta < 5 => label = b
             /\ ~(theta < 5) /\ theta < 15 => label = c
             /\ ~(theta < 15) => label = default
  <1>. DEFINE rules == <<<<-15, a>>, <<5, b>>, <<15, c>>>>
              open == {i \in DOMAIN rules : theta < rules[i][1]}
  <1>1. DOMAIN rules = {1, 2, 3}
    OBVIOUS
  <1>2. rules[1][1] = -15 /\ rules[2][1] = 5 /\ rules[3][1] = 15
    OBVIOUS
  <1>3. rules[1][2] = a /\ rules[2][2] = b /\ rules[3][2] = c
    OBVIOUS
  <1>4. ResolveLabel(theta, rules, default) = IF open = {} THEN default ELSE rules[Min(open)][2]
    BY DEF ResolveLabel
  <1>. HIDE DEF rules
  <1>5. open = {i \in {1, 2, 3} : theta < rules[i][1]}
    BY <1>1
  <1>6. ASSUME theta < -15 PROVE ResolveLabel(theta, rules, default) = a
    <2>1. open = {1, 2, 3}
      BY <1>2, <1>5, <1>6
    <2>2. Min(open) = 1
      BY <2>1, MinIs
    <2>. QED BY <1>3, <1>4, <1>6, <2>1, <2>2
  <1>7. ASSUME ~(theta < -15), theta < 5 PROVE ResolveLabel(theta, rules, default) = b
    <2>1. open = {2, 3}
      BY <1>2, <1>5, <1>7
    <2>2. Min(open) = 2
      BY <2>1, MinIs
    <2>. QED BY <1>3, <1>4, <1>7, <2>1, <2>2
  <1>8. ASSUME ~(theta < 5), theta < 15 PROVE ResolveLabel(theta, rules, default) = c
    <2>1. open = {3}
      BY <1>2, <1>5, <1>8
    <2>2. Min(open) = 3
      BY <2>1, MinIs
    <2>. QED BY <1>3, <1>4, <1>8, <2>1, <2>2
  <1>9. ASSUME ~(theta < 15) PROVE ResolveLabel(theta, rules, default) = default
    <2>1. open = {}
      BY <1>2, <1>5, <1>9
    <2>. QED BY <1>4, <1>9, <2>1
  <1>. QED
    BY <1>6, <1>7, <1>8, <1>9 DEF rules

\* The places of the labels in the results and in the report.
LEMMA OnePlace ==
  ASSUME NEW cutScores \in {{}, DefaultCutScores}, NEW theta \in Theta
  PROVE  /\ \A label \in Categorias(cutScores, theta) : Place(label) = Place(NarrativeCategory(theta))
         /\ NarrativeParagraph(theta) = Place(NarrativeCategory(theta))
  <1>. DEFINE Is(label, a, b, c, d) ==
                /\ theta < -15 => label = a
                /\ ~(theta < -15) /\ theta < 5 => label = b
                /\ ~(theta < 5) /\ theta < 15 => label = c
                /\ ~(theta < 15) => label = d
  <1>1. theta \in Int /\ Lowest <= theta /\ theta < Highest
    BY TablesAssumption
  <1>2. \A a, b, c, d : Is(ResolveLabel(theta, <<<<-15, a>>, <<5, b>>, <<15, c>>>>, d), a, b, c, d)
    BY <1>1, FirstRule
  <1>. HIDE DEF Is
  <1>3. Is(NarrativeParagraph(theta), 1, 2, 3, 4)
    BY <1>2 DEF NarrativeParagraph
  <1>4. Is(NarrativeCategory(theta), "Basico / Critico", "En desarrollo", "Competente", "Sobresaliente / Experto")
    BY <1>2 DEF NarrativeCategory, NarrativeRules
  <1>5. Is(CategoryForTheta(theta), "Basico", "En desarrollo", "Competente", "Sobresaliente")
    BY <1>2 DEF CategoryForTheta, ThetaRules
  <1>6. /\ Place("Basico") = 1 /\ Place("Basico / Critico") = 1 /\ Place("En desarrollo") = 2
        /\ Place("Competente") = 3 /\ Place("Sobresaliente") = 4 /\ Place("Sobresaliente / Experto") = 4
    BY DEF Place
  <1>7. Is(Place(NarrativeCategory(theta)), 1, 2, 3, 4) /\ Is(Place(CategoryForTheta(theta)), 1, 2, 3, 4)
    BY <1>4, <1>5, <1>6 DEF Is
  <1>8. ASSUME NEW x \in FindCutScore(cutScores, theta)
        PROVE  Is(Place(x.categoria), 1, 2, 3, 4)
    <2>1. x \in DefaultCutScores /\ x.min <= theta /\ theta < x.max
      BY DEF FindCutScore
    <2>. DEFINE low == -15
                r1 == [categoria |-> "Basico", min |-> Lowest, max |-> low]
                r2 == [categoria |-> "En desarrollo", min |-> low, max |-> 5]
                r3 == [categoria |-> "Competente", min |-> 5, max |-> 15]
                r4 == [categoria |-> "Sobresaliente", min |-> 15, max |-> Highest]
    <2>2. DefaultCutScores = {r1, r2, r3, r4}
      BY DEF DefaultCutScores
    <2>. HIDE DEF low
    <2>3. /\ r1.categoria = "Basico" /\ r1.max = low
          /\ r2.categoria = "En desarrollo" /\ r2.min = low /\ r2.max = 5
          /\ r3.categoria = "Competente" /\ r3.min = 5 /\ r3.max = 15
          /\ r4.categoria = "Sobresaliente" /\ r4.min = 15
      OBVIOUS
    <2>. HIDE DEF r1, r2, r3, r4
    <2>4. x \in {r1, r2, r3, r4} /\ x.min <= theta /\ theta < x.max
      BY <2>1, <2>2
    <2>5. /\ r1.max = -15 /\ r2.min = -15 /\ r2.max = 5
          /\ r3.min = 5 /\ r3.max = 15 /\ r4.min = 15
      BY <2>3 DEF low
    <2>6. /\ Place(r1.categoria) = 1 /\ Place(r2.categoria) = 2
          /\ Place(r3.categoria) = 3 /\ Place(r4.categoria) = 4
      BY <1>6, <2>3
    <2>7. \/ theta < -15 /\ Place(x.categoria) = 1
          \/ ~(theta < -15) /\ theta < 5 /\ Place(x.categoria) = 2
          \/ ~(theta < 5) /\ theta < 15 /\ Place(x.categoria) = 3
          \/ ~(theta < 15) /\ Place(x.categoria) = 4
      BY <1>1, <2>4, <2>5, <2>6
    <2>. QED
      BY <1>1, <2>7 DEF Is
  <1>9. \A x, y : Is(x, 1, 2, 3, 4) /\ Is(y, 1, 2, 3, 4) => x = y
    BY <1>1 DEF Is
  <1>. QED
    BY <1>3, <1>7, <1>8, <1>9 DEF Categorias

\* The continuous norms.
LEMMA TimesInOrder ==
  ASSUME NEW r \in Nat, NEW a \in Int, NEW b \in Int, a <= b
  PROVE  r * a \in Int /\ r * b \in Int /\ r * a <= r * b
  OBVIOUS

\* The rounded quotient lies between bounds of the quotient.
LEMMA Rounded ==
  ASSUME NEW p \in Int, NEW num \in Int, NEW den \in Nat, den > 0
  PROVE  /\ RoundedFrom(p, num, den) \in Int
         /\ num >= 0 => p <= RoundedFrom(p, num, den)
         /\ \A r \in Int : num <= r * den => RoundedFrom(p, num, den) <= p + r
         /\ \A more \in Int : num <= more => RoundedFrom(p, num, den) <= RoundedFrom(p, more, den)
  <1>. DEFINE n == 2 * den
              a == 2 * (p * den + num) + den
              q == a \div n
  <1>1. n \in Nat /\ n > 0 /\ a \in Int /\ p * n \in Int
    OBVIOUS
  <1>2. q \in Int /\ \A k \in Int : k * n <= a <=> k <= q
    BY <1>1, DivBound
  <1>3. RoundedFrom(p, num, den) = q
    BY DEF RoundedFrom
  <1>4. ASSUME num >= 0 PROVE p <= q
    <2>1. p * n <= a
      BY <1>4
    <2>. QED
      BY <1>2, <2>1
  <1>5. ASSUME NEW r \in Int, num <= r * den PROVE q <= p + r
    <2>1. (p + r + 1) * n = 2 * (p * den) + 2 * (r * den) + 2 * den
      OBVIOUS
    <2>2. ~((p + r + 1) * n <= a)
      BY <1>5, <2>1
    <2>3. ~(p + r + 1 <= q)
      BY <1>2, <2>2
    <2>. QED
      BY <1>2, <2>3
  <1>6. ASSUME NEW more \in Int, num <= more PROVE q <= RoundedFrom(p, more, den)
    <2>. DEFINE b == 2 * (p * den + more) + den
    <2>1. b \in Int /\ a <= b
      BY <1>6
    <2>2. \A k \in Int : k * n <= b <=> k <= b \div n
      BY <1>1, <2>1, DivBound
    <2>3. b \div n \in Int
      BY <1>1, <2>1, DivBound
    <2>. HIDE DEF a, b, n, q
    <2>4. q * n <= a /\ q * n \in Int
      BY <1>1, <1>2
    <2>5. q * n <= b
      BY <1>1, <2>1, <2>4
    <2>6. q <= b \div n
      BY <1>2, <2>2, <2>5
    <2>. QED
      BY <2>6 DEF RoundedFrom, b, n
  <1>. QED
    BY <1>2, <1>3, <1>4, <1>5, <1>6

LEMMA Percentiles ==
  /\ \A i \in 1 .. 7 : CurvePercentiles[i] \in Nat
  /\ \A i, j \in 1 .. 7 : i < j => CurvePercentiles[i] < CurvePercentiles[j]
  /\ CurvePercentiles[1] = 5 /\ CurvePercentiles[7] = 95
  BY DEF CurvePercentiles

LEMMA AlongALine ==
  ASSUME NEW curve \in Curve, NEW i \in 1 .. 6, NEW theta \in Int
  PROVE  /\ OnLine(curve, i, theta) \in Int
         /\ curve[i] <= theta => CurvePercentiles[i] <= OnLine(curve, i, theta)
         /\ theta <= curve[i + 1] => OnLine(curve, i, theta) <= CurvePercentiles[i + 1]
         /\ \A more \in Int : theta <= more => OnLine(curve, i, theta) <= OnLine(curve, i, more)
  <1>. DEFINE run == curve[i + 1] - curve[i]
              p == CurvePercentiles[i]
              rise == CurvePercentiles[i + 1] - p
              Num(t) == rise * (t - curve[i])
  <1>1. curve[i] \in Int /\ curve[i + 1] \in Int /\ curve[i] < curve[i + 1]
    BY TablesAssumption
  <1>2. p \in Nat /\ CurvePercentiles[i + 1] \in Nat /\ p < CurvePercentiles[i + 1]
    BY Percentiles
  <1>3. run \in Nat /\ run > 0
    BY <1>1
  <1>4. rise \in Nat /\ p + rise = CurvePercentiles[i + 1] /\ p \in Int
    BY <1>2
  <1>5. \A t \in Int : OnLine(curve, i, t) = RoundedFrom(p, Num(t), run)
    BY DEF OnLine
  <1>. HIDE DEF p, rise
  <1>6. \A t \in Int : Num(t) \in Int
    BY <1>1, <1>4
  <1>7. \A t \in Int : theta <= t => Num(theta) <= Num(t)
    <2>1. ASSUME NEW t \in Int, theta <= t PROVE Num(theta) <= Num(t)
      <3>1. theta - curve[i] <= t - curve[i] /\ theta - curve[i] \in Int /\ t - curve[i] \in Int
        BY <1>1, <2>1
      <3>. QED
        BY <1>4, <3>1, TimesInOrder
    <2>. QED
      BY <2>1
  <1>8. curve[i] <= theta => Num(theta) >= 0
    <2>1. ASSUME curve[i] <= theta PROVE rise * 0 <= rise * (theta - curve[i])
      <3>1. 0 <= theta - curve[i] /\ theta - curve[i] \in Int
        BY <1>1, <2>1
      <3>. QED
        BY <1>4, <3>1, TimesInOrder
    <2>. QED
      BY <1>4, <1>6, <2>1
  <1>9. theta <= curve[i + 1] => Num(theta) <= rise * run
    <2>1. ASSUME theta <= curve[i + 1] PROVE rise * (theta - curve[i]) <= rise * run
      <3>1. theta - curve[i] <= run /\ theta - curve[i] \in Int /\ run \in Int
        BY <1>1, <2>1
      <3>. HIDE DEF run
      <3>. QED
        BY <1>4, <3>1, TimesInOrder
    <2>. QED
      BY <2>1
  <1>. HIDE DEF Num, run
  <1>10. /\ RoundedFrom(p, Num(theta), run) \in Int
         /\ Num(theta) >= 0 => p <= RoundedFrom(p, Num(theta), run)
         /\ \A r \in Int : Num(theta) <= r * run => RoundedFrom(p, Num(theta), run) <= p + r
         /\ \A t \in Int : Num(theta) <= t => RoundedFrom(p, Num(theta), run) <= RoundedFrom(p, t, run)
    BY <1>3, <1>4, <1>6, Rounded
  <1>11. curve[i] <= theta => p <= OnLine(curve, i, theta)
    BY <1>5, <1>8, <1>10
  <1>12. theta <= curve[i + 1] => OnLine(curve, i, theta) <= CurvePercentiles[i + 1]
    BY <1>4, <1>5, <1>9, <1>10
  <1>13. ASSUME NEW more \in Int, theta <= more
         PROVE  OnLine(curve, i, theta) <= OnLine(curve, i, more)
    BY <1>5, <1>6, <1>7, <1>10, <1>13
  <1>. QED
    BY <1>5, <1>10, <1>11, <1>12, <1>13 DEF p

LEMMA Clamped ==
  ASSUME NEW low \in Int, NEW high \in Int, low <= high, NEW n \in Int, NEW m \in Int, n <= m
  PROVE  /\ Clamp(low, high, n) \in low .. high /\ Clamp(low, high, m) \in low .. high
         /\ Clamp(low, high, n) <= Clamp(low, high, m)
  BY DEF Clamp

LEMMA CurveInOrder ==
  ASSUME NEW curve \in Curve, NEW theta \in Int, NEW more \in Int, theta <= more
  PROVE  PercentileContinuous(curve, theta) <= PercentileContinuous(curve, more)
  <1>. DEFINE PC(t) == PercentileContinuous(curve, t)
              Low(t) == t <= curve[1]
              High(t) == ~Low(t) /\ t >= curve[7]
              Between(t) == ~(t <= curve[1]) /\ ~(t >= curve[7])
              Beyond(t) == RoundedFrom(95, 5 * (t - curve[7]), curve[7] - curve[6])
              On(i, t) == curve[i] <= t /\ t <= curve[i + 1]
  <1>1. /\ \A i \in 1 .. 7 : curve[i] \in Int
        /\ \A i, j \in 1 .. 7 : i < j => curve[i] < curve[j]
    BY TablesAssumption
  <1>2. curve[1] \in Int /\ curve[6] \in Int /\ curve[7] \in Int /\ curve[1] < curve[7] /\ curve[6] < curve[7]
    BY <1>1
  <1>3. \A t \in Int : Low(t) => PC(t) = Clamp(1, 4, OnLine(curve, 1, t))
    BY DEF PercentileContinuous
  <1>4. \A t \in Int : High(t) => PC(t) = Clamp(96, 99, Beyond(t))
    BY DEF PercentileContinuous
  <1>5. ASSUME NEW t \in Int, Between(t)
        PROVE  \E i \in 1 .. 6 : On(i, t) /\ PC(t) = OnLine(curve, i, t) /\ \A j \in 1 .. 6 : On(j, t) => i <= j
    <2>. DEFINE S == {k \in 1 .. 6 : On(k, t)}
    <2>1. S # {}
      <3>1. SUFFICES ASSUME \A k \in 1 .. 6 : ~On(k, t) PROVE FALSE
        OBVIOUS
      <3>2. ~On(1, t) /\ ~On(2, t) /\ ~On(3, t) /\ ~On(4, t) /\ ~On(5, t) /\ ~On(6, t)
        BY <3>1
      <3>3. /\ curve[2] \in Int /\ curve[3] \in Int /\ curve[4] \in Int /\ curve[5] \in Int
        BY <1>1
      <3>. QED
        BY <1>2, <1>5, <3>2, <3>3
    <2>2. S \subseteq Nat /\ S \subseteq Int /\ S \subseteq 1 .. 6
      OBVIOUS
    <2>3. \A j \in 1 .. 6 : On(j, t) <=> j \in S
      OBVIOUS
    <2>4. PC(t) = LET i == Min(S) IN IF curve[i] = curve[i + 1] THEN CurvePercentiles[i] ELSE OnLine(curve, i, t)
      BY <1>5 DEF PercentileContinuous
    <2>. HIDE DEF S, On
    <2>5. PICK i \in S : \A j \in S : i <= j
      BY <2>1, <2>2, LeastOf
    <2>6. Min(S) = i
      BY <2>2, <2>5, MinIs
    <2>7. i \in 1 .. 6 /\ curve[i] # curve[i + 1]
      BY <1>1, <2>2, <2>5
    <2>8. PC(t) = OnLine(curve, i, t)
      BY <2>4, <2>6, <2>7
    <2>. QED
      BY <2>3, <2>5, <2>7, <2>8
  <1>6. CASE Low(theta) /\ Low(more)
    <2>1. OnLine(curve, 1, theta) \in Int /\ OnLine(curve, 1, more) \in Int
          /\ OnLine(curve, 1, theta) <= OnLine(curve, 1, more)
      BY AlongALine
    <2>. QED
      BY <1>3, <1>6, <2>1, Clamped
  <1>7. ASSUME High(theta), High(more) PROVE PC(theta) <= PC(more)
    <2>. DEFINE n == 5 * (theta - curve[7])
                m == 5 * (more - curve[7])
                run == curve[7] - curve[6]
    <2>1. n \in Int /\ m \in Int /\ n <= m /\ run \in Nat /\ run > 0
      BY <1>2
    <2>2. Beyond(theta) = RoundedFrom(95, n, run) /\ Beyond(more) = RoundedFrom(95, m, run)
      OBVIOUS
    <2>. HIDE DEF n, m, run, Beyond
    <2>3. RoundedFrom(95, n, run) \in Int /\ RoundedFrom(95, m, run) \in Int
          /\ RoundedFrom(95, n, run) <= RoundedFrom(95, m, run)
      BY <2>1, Rounded
    <2>. QED
      BY <1>4, <1>7, <2>2, <2>3, Clamped
  <1>8. ASSUME NEW t \in Int, Low(t) PROVE PC(t) \in 1 .. 4
    <2>1. OnLine(curve, 1, t) \in Int
      BY AlongALine
    <2>. QED
      BY <1>3, <1>8, <2>1 DEF Clamp
  <1>9. ASSUME NEW t \in Int, High(t) PROVE PC(t) \in 96 .. 99
    <2>. DEFINE n == 5 * (t - curve[7])
                run == curve[7] - curve[6]
    <2>1. n \in Int /\ run \in Nat /\ run > 0
      BY <1>2
    <2>2. Beyond(t) = RoundedFrom(95, n, run)
      OBVIOUS
    <2>. HIDE DEF n, run, Beyond
    <2>3. RoundedFrom(95, n, run) \in Int
      BY <2>1, Rounded
    <2>. QED
      BY <1>4, <1>9, <2>2, <2>3 DEF Clamp
  <1>10. ASSUME NEW t \in Int, Between(t) PROVE PC(t) \in 5 .. 95
    <2>1. PICK i \in 1 .. 6 : On(i, t) /\ PC(t) = OnLine(curve, i, t)
      BY <1>5, <1>10
    <2>2. OnLine(curve, i, t) \in Int /\ CurvePercentiles[i] <= PC(t) /\ PC(t) <= CurvePercentiles[i + 1]
      BY <2>1, AlongALine
    <2>3. 5 <= CurvePercentiles[i] /\ CurvePercentiles[i + 1] <= 95
          /\ CurvePercentiles[i] \in Nat /\ CurvePercentiles[i + 1] \in Nat
      BY Percentiles
    <2>. QED
      BY <2>1, <2>2, <2>3
  <1>11. ASSUME Between(theta), Between(more) PROVE PC(theta) <= PC(more)
    <2>1. PICK i \in 1 .. 6 : On(i, theta) /\ PC(theta) = OnLine(curve, i, theta)
                              /\ \A j \in 1 .. 6 : On(j, theta) => i <= j
      BY <1>5, <1>11
    <2>2. PICK j \in 1 .. 6 : On(j, more) /\ PC(more) = OnLine(curve, j, more)
      BY <1>5, <1>11
    <2>3. CASE i = j
      BY <2>1, <2>2, <2>3, AlongALine
    <2>4. CASE i < j
      <3>1. PC(theta) \in Int /\ PC(theta) <= CurvePercentiles[i + 1]
        BY <2>1, AlongALine
      <3>2. PC(more) \in Int /\ CurvePercentiles[j] <= PC(more)
        BY <2>2, AlongALine
      <3>3. CurvePercentiles[i + 1] <= CurvePercentiles[j]
            /\ CurvePercentiles[i + 1] \in Nat /\ CurvePercentiles[j] \in Nat
        BY <2>4, Percentiles
      <3>. QED
        BY <3>1, <3>2, <3>3
    <2>5. CASE j < i
      <3>1. ~On(j, theta)
        BY <2>1, <2>5
      <3>2. curve[i] <= theta /\ more <= curve[j + 1]
        BY <2>1, <2>2
      <3>3. curve[j] < curve[i] /\ curve[j + 1] <= curve[i]
            /\ curve[i] \in Int /\ curve[j] \in Int /\ curve[j + 1] \in Int
        BY <1>1, <2>5
      <3>. QED
        BY <3>1, <3>2, <3>3
    <2>. QED
      BY <2>3, <2>4, <2>5
  <1>. HIDE DEF PC
  <1>12. PC(theta) <= PC(more)
    <2>1. CASE Low(theta) /\ ~Low(more)
      <3>1. PC(theta) \in 1 .. 4
        BY <1>8, <2>1
      <3>2. PC(more) \in 5 .. 99
        BY <1>2, <1>9, <1>10, <2>1
      <3>. QED
        BY <3>1, <3>2
    <2>2. CASE ~Low(theta) /\ ~Low(more)
      <3>1. CASE High(theta)
        <4>1. High(more)
          BY <1>2, <2>2, <3>1
        <4>. QED
          BY <1>7, <3>1, <4>1
      <3>2. CASE Between(theta) /\ High(more)
        <4>1. PC(theta) \in 5 .. 95 /\ PC(more) \in 96 .. 99
          BY <1>9, <1>10, <3>2
        <4>. QED
          BY <4>1
      <3>3. CASE Between(theta) /\ Between(more)
        BY <1>11, <3>3
      <3>. QED
        BY <2>2, <3>1, <3>2, <3>3
    <2>3. CASE Low(theta) /\ Low(more)
      BY <1>6, <2>3 DEF PC
    <2>4. CASE ~Low(theta) /\ Low(more)
      BY <1>2, <2>4
    <2>. QED
      BY <2>1, <2>2, <2>3, <2>4
  <1>. QED
    BY <1>12 DEF PC

(***************************************************************************)
(* Whatever table is read for whatever ability, the places agree           *)
(* (TablesAgree): any number of quantiles, equal ones included, any curve  *)
(* whose points differ, and the cut scores sown or not.                    *)
(***************************************************************************)
THEOREM TablesAreRead == TableRead => TablesAgree
  <1>1. ASSUME NEW cuts \in Cuts, NEW theta \in Theta, input = [table |-> "norm", cuts |-> cuts, theta |-> theta]
        PROVE  TablesAgree
    <2>1. input.table = "norm" /\ input.cuts = cuts /\ input.theta = theta
      BY <1>1
    <2>. QED
      BY <2>1, OneRow DEF TablesAgree, OnePercentileEach, CategoriesAgree, ContinuousInOrder
  <1>2. ASSUME NEW cutScores \in {{}, DefaultCutScores}, NEW theta \in Theta,
               input = [table |-> "category", cutScores |-> cutScores, theta |-> theta]
        PROVE  TablesAgree
    <2>1. input.table = "category" /\ input.cutScores = cutScores /\ input.theta = theta
      BY <1>2
    <2>. QED
      BY <2>1, OnePlace DEF TablesAgree, OnePercentileEach, CategoriesAgree, ContinuousInOrder
  <1>3. ASSUME NEW curve \in Curve, NEW theta \in Theta, NEW more \in Theta, theta <= more,
               input = [table |-> "curve", curve |-> curve, theta |-> theta, more |-> more]
        PROVE  TablesAgree
    <2>1. input.table = "curve" /\ input.curve = curve /\ input.theta = theta /\ input.more = more
      BY <1>3
    <2>2. theta \in Int /\ more \in Int
      BY TablesAssumption
    <2>3. PercentileContinuous(curve, theta) <= PercentileContinuous(curve, more)
      BY <1>3, <2>2, CurveInOrder
    <2>. QED
      BY <2>1, <2>3 DEF TablesAgree, OnePercentileEach, CategoriesAgree, ContinuousInOrder
  <1>. QED
    BY <1>1, <1>2, <1>3 DEF TableRead
=============================================================================
