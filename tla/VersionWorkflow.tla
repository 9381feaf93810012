--------------------------- MODULE VersionWorkflow ---------------------------
(***************************************************************************)
(* The editorial life of psychometric versions: the staff requests of      *)
(* editorial-console.service.ts and psychometric-versioning.service.ts on  *)
(* the versions of one assessment and of its items, and the database       *)
(* trigger prevent_published_version_mutation.                             *)
(*                                                                         *)
(* Every request reads the status, lets the other requests in, and then    *)
(* updates the row by id.  The trigger is all that the update meets.       *)
(*                                                                         *)
(* A content is the number of the edit that wrote it.  What the data of an *)
(* edit may write besides the columns of the row and its item links, the   *)
(* rows of other tables, is left out.                                      *)
(***************************************************************************)
EXTENDS Naturals, FiniteSets

CONSTANTS
    Version,        \* versions of the assessment
    ItemVersion,    \* versions of items
    BankItem,       \* those whose item is ACTIVE in the bank
    Request,        \* staff requests under way
    MaxEdits,       \* bound on the edits
    MaxPublications,\* bound on the publications
    Stamp,          \* what an edit writes to publishedAt, if it does
    Idle            \* no request

VARIABLES
    status,         \* editorial status of each version
    content,        \* contentHash: the edit it comes from
    publishedAt,    \* 0 for NULL
    approvedBy,     \* approvedByUserId is set
    links,          \* assessment_version_items
    isPublished,    \* exams.is_published
    edits,          \* edits so far
    publications,   \* publications so far
    publication,    \* history: the number of its last publication, 0 for none
    bypassed,       \* history: those whose status or approval an edit has written
    request         \* what each request has decided to do next

publicationVars == <<publications, publication>>
artifactVars == <<status, content, publishedAt, approvedBy, edits, publicationVars, bypassed>>
workflowVars == <<artifactVars, links, isPublished, request>>

Artifact == Version \cup ItemVersion

-----------------------------------------------------------------------------
Status == {"DRAFT", "INTERNAL_REVIEW", "PSYCHOLOGIST_REVIEW", "APPROVED",
           "PUBLISHED", "ACTIVE", "RETIRED"}

PUBLISHED_STATUSES == {"PUBLISHED", "ACTIVE"}

EDITORIAL_TRANSITIONS ==
    [DRAFT |-> {"INTERNAL_REVIEW", "RETIRED"},
     INTERNAL_REVIEW |-> {"PSYCHOLOGIST_REVIEW", "DRAFT", "RETIRED"},
     PSYCHOLOGIST_REVIEW |-> {"APPROVED", "DRAFT", "RETIRED"},
     APPROVED |-> {"PUBLISHED", "RETIRED"},
     PUBLISHED |-> {"RETIRED"},
     ACTIVE |-> {},
     RETIRED |-> {}]

\* A request is about to check that the row is mutable, edit it, replace its
\* items, read its status for publication, publish its exam, or write a
\* status.
Steps == {"mutable", "edit", "link", "publish", "exam"} \cup Status

Decision == [on : Artifact, step : Steps]

\* What an edit may leave in the columns that the workflow goes by.
Row(a) == [status : Status, approvedBy : BOOLEAN, publishedAt : Stamp \cup {publishedAt[a]}]

ASSUME WorkflowAssumption ==
    /\ Version \cap ItemVersion = {}
    /\ BankItem \subseteq ItemVersion
    /\ MaxEdits \in Nat /\ MaxPublications \in Nat /\ Stamp \subseteq Nat
    /\ Idle \notin Decision

Editable == {"DRAFT", "INTERNAL_REVIEW"}

Exists(a) == status[a] # "ABSENT"

\* prevent_published_version_mutation, on an update that leaves the row with
\* newStatus and `changed` says whether it touches a protected column.
TriggerAllows(a, newStatus, changed) ==
    IF status[a] \in PUBLISHED_STATUSES THEN newStatus = "RETIRED" /\ ~changed
    ELSE newStatus = "PUBLISHED" => status[a] = "APPROVED"

\* The items come from the seed, already published.
WorkflowInit ==
    /\ status = [a \in Artifact |-> IF a \in Version THEN "ABSENT" ELSE "PUBLISHED"]
    /\ content = [a \in Artifact |-> 0]
    /\ publishedAt = [a \in Artifact |-> 0]
    /\ approvedBy = [a \in Artifact |-> FALSE]
    /\ links = [v \in Version |-> {}]
    /\ isPublished = FALSE
    /\ edits = 0
    /\ publications = 0
    /\ publication = [a \in Artifact |-> 0]
    /\ bypassed = {}
    /\ request = [r \in Request |-> Idle]

Becomes(r, a, step) ==
    request' = [request EXCEPT ![r] = [on |-> a, step |-> step]]

Ends(r) == request' = [request EXCEPT ![r] = Idle]

At(r, step) == request[r] # Idle /\ request[r].step = step

\* Publications are counted, whoever writes the status.
Counted(a, newStatus) ==
    IF newStatus = "PUBLISHED" /\ status[a] # "PUBLISHED"
    THEN /\ publications < MaxPublications
         /\ publications' = publications + 1
         /\ publication' = [publication EXCEPT ![a] = publications']
    ELSE UNCHANGED publicationVars

-----------------------------------------------------------------------------
\* createAssessmentVersion, or createNewVersionFromPublished, which copies
\* the row and not its items.
CreateVersion(v) ==
    /\ ~Exists(v)
    /\ status' = [status EXCEPT ![v] = "DRAFT"]
    /\ UNCHANGED <<content, publishedAt, approvedBy, edits, publicationVars, bypassed,
                   links, isPublished, request>>

\* transitionVersion reads the status and checks the transition.
RequestTransition(r, a, to) ==
    /\ request[r] = Idle
    /\ Exists(a)
    /\ to # "PUBLISHED"
    /\ to \in EDITORIAL_TRANSITIONS[status[a]]
    /\ Becomes(r, a, to)
    /\ UNCHANGED <<artifactVars, links, isPublished>>

\* assertReadyForPublish; the checks on the blueprint's own form are left out.
Ready(a) == a \in Version =>
    /\ links[a] # {}
    /\ \A i \in links[a] : status[i] \in PUBLISHED_STATUSES /\ i \in BankItem

RequestPublish(r, a) ==
    /\ request[r] = Idle
    /\ Exists(a)
    /\ Ready(a)
    /\ Becomes(r, a, "publish")
    /\ UNCHANGED <<artifactVars, links, isPublished>>

ReadForPublish(r) ==
    /\ At(r, "publish")
    /\ IF status[request[r].on] = "APPROVED"
       THEN Becomes(r, request[r].on, "PUBLISHED") ELSE Ends(r)
    /\ UNCHANGED <<artifactVars, links, isPublished>>

\* Mutant: no trigger.
WriteUnprotected(r, to) ==
    LET a == request[r].on IN
    /\ At(r, to)
    /\ status' = [status EXCEPT ![a] = to]
    /\ approvedBy' = [approvedBy EXCEPT ![a] = @ \/ to = "APPROVED"]
    /\ Counted(a, to)
    /\ publishedAt' = [publishedAt EXCEPT ![a] = IF to = "PUBLISHED" THEN publications' ELSE @]
    /\ IF to = "PUBLISHED" /\ a \in Version THEN Becomes(r, a, "exam") ELSE Ends(r)
    /\ UNCHANGED <<content, edits, bypassed, links, isPublished>>

\* The update of transitionVersion, on whatever the row has become.
WriteStatus(r, to) ==
    LET a == request[r].on IN
    /\ At(r, to)
    /\ TriggerAllows(a, to, to # "RETIRED")
    /\ status' = [status EXCEPT ![a] = to]
    /\ approvedBy' = [approvedBy EXCEPT ![a] = @ \/ to = "APPROVED"]
    /\ Counted(a, to)
    /\ publishedAt' = [publishedAt EXCEPT ![a] = IF to = "PUBLISHED" THEN publications' ELSE @]
    /\ IF to = "PUBLISHED" /\ a \in Version THEN Becomes(r, a, "exam") ELSE Ends(r)
    /\ UNCHANGED <<content, edits, bypassed, links, isPublished>>

\* publishAssessmentVersionToExam looks for the version as PUBLISHED.
PublishExam(r) ==
    /\ At(r, "exam")
    /\ isPublished' = (isPublished \/ status[request[r].on] = "PUBLISHED")
    /\ Ends(r)
    /\ UNCHANGED <<artifactVars, links>>

-----------------------------------------------------------------------------
\* updateDraftVersion of the console reads the status, the one of the
\* versioning service reads it again.
RequestEdit(r, a) ==
    /\ request[r] = Idle
    /\ Exists(a)
    /\ status[a] \in Editable
    /\ Becomes(r, a, "mutable")
    /\ UNCHANGED <<artifactVars, links, isPublished>>

AssertMutable(r) ==
    /\ At(r, "mutable")
    /\ IF status[request[r].on] \notin PUBLISHED_STATUSES
       THEN Becomes(r, request[r].on, "edit") ELSE Ends(r)
    /\ UNCHANGED <<artifactVars, links, isPublished>>

\* An edit leaves row a with these columns, and new content or the old.
Overwrite(a, row, new) ==
    /\ edits < MaxEdits
    /\ edits' = edits + 1
    /\ content' = [content EXCEPT ![a] = IF new THEN edits' ELSE @]
    /\ status' = [status EXCEPT ![a] = row.status]
    /\ approvedBy' = [approvedBy EXCEPT ![a] = row.approvedBy]
    /\ publishedAt' = [publishedAt EXCEPT ![a] = row.publishedAt]
    /\ Counted(a, row.status)
    /\ bypassed' = IF row.status = status[a] /\ row.approvedBy = approvedBy[a]
                   THEN bypassed ELSE bypassed \cup {a}

Relinked(a, items) == links' = [v \in Version |-> IF v = a THEN items ELSE links[v]]

\* Mutant: the trigger of this table is missing.
EditUnprotected(r) ==
    /\ At(r, "edit")
    /\ \E row \in Row(request[r].on), new \in BOOLEAN, items \in SUBSET ItemVersion :
         /\ Overwrite(request[r].on, row, new)
         /\ Relinked(request[r].on, items)
    /\ Ends(r)
    /\ UNCHANGED isPublished

\* The update of updateDraftVersion.  Its data is an untyped record that
\* nothing filters: it writes any columns, and the item links with them.
WriteEdit(r) ==
    LET a == request[r].on IN
    /\ At(r, "edit")
    /\ \E row \in Row(a), new \in BOOLEAN, items \in SUBSET ItemVersion :
         /\ TriggerAllows(a, row.status, new \/ row.approvedBy # approvedBy[a]
                                             \/ row.publishedAt # publishedAt[a])
         /\ Overwrite(a, row, new)
         /\ Relinked(a, items)
    /\ Ends(r)
    /\ UNCHANGED isPublished

\* setAssessmentVersionItems.
RequestItems(r, v) ==
    /\ request[r] = Idle
    /\ Exists(v)
    /\ status[v] \in Editable
    /\ Becomes(r, v, "link")
    /\ UNCHANGED <<artifactVars, links, isPublished>>

WriteItems(r, items) ==
    /\ At(r, "link")
    /\ links' = [links EXCEPT ![request[r].on] = items]
    /\ Ends(r)
    /\ UNCHANGED <<artifactVars, isPublished>>

\* The trigger raises, the database fails or the process dies.
Abort(r) ==
    /\ request[r] # Idle
    /\ Ends(r)
    /\ UNCHANGED <<artifactVars, links, isPublished>>

-----------------------------------------------------------------------------
RequestStep(r) ==
    \/ \E a \in Artifact :
         \/ \E to \in Status : RequestTransition(r, a, to)
         \/ RequestPublish(r, a)
         \/ RequestEdit(r, a)
    \/ \E v \in Version : RequestItems(r, v)
    \/ ReadForPublish(r)
    \/ \E to \in Status : WriteStatus(r, to)
    \/ PublishExam(r)
    \/ AssertMutable(r)
    \/ WriteEdit(r)
    \/ \E items \in SUBSET ItemVersion : WriteItems(r, items)
    \/ Abort(r)

WorkflowNext ==
    \/ \E v \in Version : CreateVersion(v)
    \/ \E r \in Request : RequestStep(r)

-----------------------------------------------------------------------------
WorkflowTypeOK ==
    /\ status \in [Artifact -> Status \cup {"ABSENT"}]
    /\ content \in [Artifact -> Nat]
    /\ publishedAt \in [Artifact -> Nat]
    /\ approvedBy \in [Artifact -> BOOLEAN]
    /\ links \in [Version -> SUBSET ItemVersion]
    /\ isPublished \in BOOLEAN
    /\ edits \in Nat
    /\ publications \in Nat
    /\ publication \in [Artifact -> Nat]
    /\ bypassed \subseteq Artifact
    /\ request \in [Request -> Decision \cup {Idle}]

(* docs/psychometric-governance.md, rules of phase 4.2: a published version *)
(* is immutable and can only be retired, whatever the requests that read   *)
(* its row before its publication go on to write.                          *)
PublishedIsFrozen ==
    [][\A a \in Artifact : status[a] \in PUBLISHED_STATUSES =>
         /\ status'[a] \in {status[a], "RETIRED"}
         /\ content'[a] = content[a]
         /\ publishedAt'[a] = publishedAt[a]]_workflowVars

(* The same rules: a version is published only from APPROVED, also when it *)
(* has been retired or returned between the check and the update.  Someone *)
(* has approved it then, unless an edit has written its status or its      *)
(* approval, which nothing forbids (PublishedIsApproved).                  *)
PublishedFromApproved ==
    [][\A a \in Artifact : status'[a] = "PUBLISHED" /\ status[a] # "PUBLISHED"
         => status[a] = "APPROVED" /\ (approvedBy[a] \/ a \in bypassed)]_workflowVars

\* The version has been published, and a psychologist has approved it or an
\* edit has got round the approval.
Governed(v) == publication[v] # 0 /\ (approvedBy[v] \/ v \in bypassed)

\* What the status of a row says about its other columns.
RowsAreGoverned ==
    /\ \A a \in Artifact : status[a] = "APPROVED" => approvedBy[a] \/ a \in bypassed
    /\ \A v \in Version : status[v] = "PUBLISHED" => Governed(v)
    /\ \A a \in Artifact : publication[a] <= publications

(* "No se puede publicar una versión sin aprobación."                      *)
(* (psychometric-versioning.service.ts:132), after the route of            *)
(* docs/psychometric-governance.md:60.                                     *)
PublishedIsApproved == \A v \in Version : status[v] = "PUBLISHED" => approvedBy[v]
=============================================================================
