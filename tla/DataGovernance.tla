--------------------------- MODULE DataGovernance ---------------------------
(***************************************************************************)
(* Deletion requests and exports about a candidate or an attempt           *)
(* (data-deletion.service.ts, data-export.service.ts): both read several   *)
(* tables one by one, without a transaction, while answers, snapshots and  *)
(* audit events keep coming, and then write down what they found.          *)
(***************************************************************************)
EXTENDS PrivateStorage

CONSTANTS
    Job,            \* requests for a deletion or an export
    AnswerRow       \* answers of the attempt

VARIABLES
    answers,        \* answer_submissions
    consents,       \* candidate_consents: none or the one of the attempt
    sessions,       \* user_sessions of the candidate
    job             \* each request: what it has read, what it has written

governanceVars == <<answers, consents, sessions, job>>
privateDataVars == <<storageVars, governanceVars>>

-----------------------------------------------------------------------------
Unasked == [pc |-> "none"]

GovernanceInit ==
    /\ StorageInit
    /\ answers = {} /\ consents = {} /\ sessions = {}
    /\ job = [j \in Job |-> Unasked]

\* The rows of a table that belong to a subject.
RowsOf(subject, table) ==
    CASE table = "ATTEMPT" -> {Attempt}
      [] table = "CONSENT" -> consents
      [] table = "SESSION" -> sessions
      [] table = "ANSWER" -> answers
      [] table = "PROCTORING_EVENT" -> DOMAIN logs
      [] table = "AUDIT" -> IF subject = "CANDIDATE" THEN {e \in audit : e[1] = Candidate}
                            ELSE {e \in audit : e[2] = Attempt}

\* Mutant: the consents are forgotten.
WithoutConsents(subject) ==
    IF subject = "CANDIDATE" THEN {"ATTEMPT", "SESSION", "AUDIT"}
    ELSE {"ANSWER", "PROCTORING_EVENT", "AUDIT"}

\* planCandidateDeletion and planAttemptDeletion, besides the subject itself.
PlannedTables(subject) ==
    IF subject = "CANDIDATE" THEN {"ATTEMPT", "CONSENT", "SESSION", "AUDIT"}
    ELSE {"ANSWER", "PROCTORING_EVENT", "CONSENT", "AUDIT"}

\* exportCandidate and exportAttempt; the rows of an attempt come with it in
\* one query, for an export of the candidate as well.
ExportedTables(subject) ==
    IF subject = "CANDIDATE" THEN {"ATTEMPT", "ANSWER", "PROCTORING_EVENT", "CONSENT", "SESSION", "AUDIT"}
    ELSE {"ANSWER", "PROCTORING_EVENT", "CONSENT", "AUDIT"}

AtOnce == {"ATTEMPT", "ANSWER", "PROCTORING_EVENT"}

Tables(kind, subject) == IF kind = "delete" THEN PlannedTables(subject) ELSE ExportedTables(subject)

-----------------------------------------------------------------------------
\* What a list about a subject must not miss.
Promised(subject) ==
    IF subject = "CANDIDATE" THEN {"ATTEMPT", "CONSENT", "SESSION", "AUDIT"}
    ELSE {"ANSWER", "PROCTORING_EVENT", "CONSENT", "AUDIT"}

\* createDeletionRequest begins with its plan, createStructuredExport with
\* the row of the job, RUNNING.  before: the rows there are by then.
Ask(j, kind, subject) ==
    /\ job[j] = Unasked
    /\ job' = [job EXCEPT ![j] =
         [pc |-> "read", kind |-> kind, subject |-> subject,
          status |-> IF kind = "export" THEN "RUNNING" ELSE "none",
          found |-> [t \in {} |-> {}],
          before |-> [t \in Promised(subject) |-> RowsOf(subject, t)]]]
    /\ UNCHANGED <<storageVars, answers, consents, sessions>>

\* The queries run at the same time and answer in any order.
ReadTables(j, tables) ==
    /\ job[j].pc = "read"
    /\ tables \subseteq Tables(job[j].kind, job[j].subject) \ DOMAIN job[j].found
    /\ tables # {}
    /\ LET subject == job[j].subject
       IN  job' = [job EXCEPT ![j].found =
             [t \in DOMAIN @ \cup tables |-> IF t \in tables THEN RowsOf(subject, t) ELSE @[t]]]
    /\ UNCHANGED <<storageVars, answers, consents, sessions>>

ReadNext(j) ==
    \/ job[j].pc = "read" /\ job[j].kind = "export"
         /\ ReadTables(j, AtOnce \cap Tables("export", job[j].subject))
    \/ \E t \in {"ATTEMPT", "ANSWER", "PROCTORING_EVENT", "CONSENT", "SESSION", "AUDIT"} :
         /\ job[j].pc = "read"
         /\ t \notin AtOnce \/ job[j].kind = "delete"
         /\ ReadTables(j, {t})

AllRead(j) == job[j].pc = "read" /\ DOMAIN job[j].found = Tables(job[j].kind, job[j].subject)

\* The request with its items, or the export with its payload, and the audit
\* event, which is about the subject.
WriteDown(j, person) ==
    /\ AllRead(j)
    /\ job' = [job EXCEPT ![j].pc = "written",
                          ![j].status = IF job[j].kind = "delete" THEN "PENDING_REVIEW" ELSE "COMPLETED"]
    /\ Record(person, IF job[j].subject = "ATTEMPT" THEN Attempt ELSE Candidate)
    /\ UNCHANGED <<objects, files, lifecycle, logs, upload, answers, consents, sessions>>

\* A query fails: nothing is left of a plan, and of an export FAILED.  When
\* the process dies, or that update fails, the export stays RUNNING.
Fail(j) ==
    /\ job[j].pc = "read"
    /\ job' = [job EXCEPT ![j].pc = "failed",
                          ![j].status = IF @ = "RUNNING" THEN "FAILED" ELSE @]
    /\ UNCHANGED <<storageVars, answers, consents, sessions>>

BreakOff(j) ==
    /\ job[j].pc = "read"
    /\ job' = [job EXCEPT ![j].pc = "failed"]
    /\ UNCHANGED <<storageVars, answers, consents, sessions>>

\* approveRequest, however often; nothing carries the items out.
Approve(j, person) ==
    /\ job[j].pc = "written"
    /\ job[j].kind = "delete"
    /\ job' = [job EXCEPT ![j].status = "APPROVED"]
    /\ Record(person, IF job[j].subject = "ATTEMPT" THEN Attempt ELSE Candidate)
    /\ UNCHANGED <<objects, files, lifecycle, logs, upload, answers, consents, sessions>>

\* The candidate goes on with the attempt.
Live ==
    /\ \/ answers' \in {answers \cup {a} : a \in AnswerRow} /\ UNCHANGED <<consents, sessions>>
       \/ consents' = {"consent"} /\ UNCHANGED <<answers, sessions>>
       \/ sessions' = {"session"} /\ UNCHANGED <<answers, consents>>
    /\ UNCHANGED <<storageVars, job>>

JobStep(j) ==
    \/ \E kind \in {"delete", "export"}, subject \in {"CANDIDATE", "ATTEMPT"} : Ask(j, kind, subject)
    \/ ReadNext(j) \/ Fail(j) \/ BreakOff(j)
    \/ \E p \in Staff : WriteDown(j, p) \/ Approve(j, p)

GovernanceNext ==
    \/ StorageStep /\ UNCHANGED governanceVars
    \/ \E j \in Job : JobStep(j)
    \/ Live

GovernanceSpec == GovernanceInit /\ [][GovernanceNext]_privateDataVars

-----------------------------------------------------------------------------
(***************************************************************************)
(* What a deletion plan or an export lists about its subject: at least all *)
(* the rows there were when it was asked for, and no row there is not,     *)
(* whatever is written while its queries run.                              *)
(***************************************************************************)
ListsAreComplete ==
    \A j \in Job : job[j].pc = "written" =>
        \A t \in Promised(job[j].subject) :
            /\ t \in DOMAIN job[j].found
            /\ job[j].before[t] \subseteq job[j].found[t]
            /\ job[j].found[t] \subseteq RowsOf(job[j].subject, t)
=============================================================================
