----------------------- MODULE InvitationClaimProofs -----------------------
(***************************************************************************)
(* Proofs about VersionWorkflow and InvitationClaim for any number of      *)
(* versions, items, staff requests, access codes and claims.               *)
(***************************************************************************)
EXTENDS InvitationClaim, TLAPS

\* A request that decides, or gives up, touches nothing but itself.
LEMMA DecisionType ==
    ASSUME WorkflowTypeOK, NEW r \in Request,
           \/ \E a \in Artifact, step \in Steps : Becomes(r, a, step)
           \/ Ends(r)
    PROVE  request' \in [Request -> Decision \cup {Idle}]
BY DEF WorkflowTypeOK, Becomes, Ends, Decision

LEMMA VersionsAreArtifacts == Version \subseteq Artifact
BY DEF Artifact

\* What a step may do to the rows.
RowsKept ==
    /\ publications <= publications'
    /\ \A v \in Version : Governed(v) => Governed(v)'
    /\ \A v \in Version :
         status'[v] = "PUBLISHED" /\ publication'[v] <= publications =>
           /\ status[v] = "PUBLISHED"
           /\ publication'[v] = publication[v]
           /\ content'[v] = content[v]

LEMMA UntouchedRows ==
    ASSUME WorkflowTypeOK, RowsAreGoverned, UNCHANGED artifactVars
    PROVE  RowsAreGoverned' /\ RowsKept
BY DEF WorkflowTypeOK, RowsAreGoverned, RowsKept, Governed, artifactVars, publicationVars

\* A publication gets a number above all others; what else is written of a
\* row leaves its number.
LEMMA CountedOnce ==
    ASSUME WorkflowTypeOK, RowsAreGoverned,
           NEW a \in Artifact, NEW to \in Status, Counted(a, to)
    PROVE  /\ publications' \in Nat /\ publications <= publications'
           /\ publication' \in [Artifact -> Nat]
           /\ \A b \in Artifact : publication'[b] <= publications'
           /\ \A b \in Artifact : publication[b] # 0 => publication'[b] # 0
           /\ \A b \in Artifact : b # a \/ to # "PUBLISHED" => publication'[b] = publication[b]
           /\ to = "PUBLISHED" /\ status[a] # "PUBLISHED" => publication'[a] = publications + 1
<1>1. /\ publications \in Nat /\ publication \in [Artifact -> Nat]
      /\ \A b \in Artifact : publication[b] <= publications
  BY DEF WorkflowTypeOK, RowsAreGoverned
<1>2. CASE to = "PUBLISHED" /\ status[a] # "PUBLISHED"
  <2>1. publications' = publications + 1 /\ publication' = [publication EXCEPT ![a] = publications + 1]
    BY <1>2 DEF Counted
  <2>. QED
    BY <1>1, <1>2, <2>1
<1>3. CASE ~(to = "PUBLISHED" /\ status[a] # "PUBLISHED")
  BY <1>1, <1>3 DEF Counted, publicationVars
<1>. QED
  BY <1>2, <1>3

LEMMA StatusWritten ==
    ASSUME WorkflowTypeOK, RowsAreGoverned,
           NEW r \in Request, NEW to \in Status, WriteStatus(r, to)
    PROVE  WorkflowTypeOK' /\ RowsAreGoverned' /\ RowsKept
<1>. DEFINE a == request[r].on
<1>1. a \in Artifact
  BY DEF WorkflowTypeOK, WriteStatus, At, Decision
<1>2. /\ status' = [status EXCEPT ![a] = to]
      /\ approvedBy' = [approvedBy EXCEPT ![a] = @ \/ to = "APPROVED"]
      /\ Counted(a, to)
      /\ publishedAt' = [publishedAt EXCEPT ![a] = IF to = "PUBLISHED" THEN publications' ELSE @]
      /\ UNCHANGED <<content, edits, bypassed, links, isPublished>>
  BY DEF WriteStatus
<1>3. to = "PUBLISHED" => status[a] = "APPROVED"
  BY DEF WriteStatus, TriggerAllows, PUBLISHED_STATUSES
<1>4. request' \in [Request -> Decision \cup {Idle}]
  <2>1. Becomes(r, a, "exam") \/ Ends(r)
    BY DEF WriteStatus
  <2>2. "exam" \in Steps
    BY DEF Steps
  <2>. QED
    BY <1>1, <2>1, <2>2, DecisionType
<1>. HIDE DEF a
<1>5. /\ publications' \in Nat /\ publications <= publications'
      /\ publication' \in [Artifact -> Nat]
      /\ \A b \in Artifact : publication'[b] <= publications'
      /\ \A b \in Artifact : publication[b] # 0 => publication'[b] # 0
      /\ \A b \in Artifact : b # a \/ to # "PUBLISHED" => publication'[b] = publication[b]
      /\ to = "PUBLISHED" => publication'[a] = publications + 1
  BY <1>1, <1>2, <1>3, CountedOnce
<1>6. publishedAt' \in [Artifact -> Nat]
  BY <1>1, <1>2, <1>5 DEF WorkflowTypeOK
<1>7. /\ approvedBy' \in [Artifact -> BOOLEAN]
      /\ \A b \in Artifact : approvedBy[b] => approvedBy'[b]
      /\ to = "APPROVED" => approvedBy'[a]
  BY <1>1, <1>2 DEF WorkflowTypeOK
<1>8. /\ status' \in [Artifact -> Status \cup {"ABSENT"}]
      /\ \A b \in Artifact : status'[b] = IF b = a THEN to ELSE status[b]
  BY <1>1, <1>2 DEF WorkflowTypeOK
<1>9. WorkflowTypeOK'
  BY <1>2, <1>4, <1>5, <1>6, <1>7, <1>8 DEF WorkflowTypeOK
<1>10. \A v \in Version : Governed(v) => Governed(v)'
  BY <1>2, <1>5, <1>7, VersionsAreArtifacts DEF Governed
<1>11. RowsAreGoverned'
  <2>1. \A b \in Artifact : status'[b] = "APPROVED" => approvedBy'[b] \/ b \in bypassed'
    BY <1>2, <1>7, <1>8 DEF RowsAreGoverned
  <2>2. ASSUME NEW v \in Version, status'[v] = "PUBLISHED" PROVE Governed(v)'
    <3>1. CASE v = a
      <4>1. publication'[v] # 0
        <5>1. to = "PUBLISHED"
          BY <1>1, <1>8, <2>2, <3>1
        <5>2. publication'[a] = publications + 1 /\ publications + 1 # 0
          BY <1>5, <5>1 DEF WorkflowTypeOK
        <5>. QED
          BY <3>1, <5>2
      <4>2. approvedBy[v] \/ v \in bypassed
        BY <1>1, <1>3, <1>8, <2>2, <3>1 DEF RowsAreGoverned
      <4>. QED
        BY <1>1, <1>2, <1>7, <3>1, <4>1, <4>2 DEF Governed
    <3>2. CASE v # a
      BY <1>8, <1>10, <2>2, <3>2, VersionsAreArtifacts DEF RowsAreGoverned
    <3>. QED
      BY <3>1, <3>2
  <2>. QED
    BY <1>5, <2>1, <2>2 DEF RowsAreGoverned
<1>12. RowsKept
  BY <1>2, <1>5, <1>8, <1>10, VersionsAreArtifacts DEF RowsKept, WorkflowTypeOK
<1>. QED
  BY <1>9, <1>11, <1>12

\* An edit of a published row does no more than retire it; one that touches
\* the status or the approval of a row is on record.
LEMMA EditWritten ==
    ASSUME WorkflowTypeOK, RowsAreGoverned, NEW r \in Request, WriteEdit(r)
    PROVE  WorkflowTypeOK' /\ RowsAreGoverned' /\ RowsKept
<1>. DEFINE a == request[r].on
<1>1. a \in Artifact
  BY DEF WorkflowTypeOK, WriteEdit, At, Decision
<1>2. PICK row \in Row(a), new \in BOOLEAN, items \in SUBSET ItemVersion :
        /\ TriggerAllows(a, row.status, new \/ row.approvedBy # approvedBy[a]
                                            \/ row.publishedAt # publishedAt[a])
        /\ Overwrite(a, row, new)
        /\ Relinked(a, items)
  BY DEF WriteEdit
<1>3. request' \in [Request -> Decision \cup {Idle}]
  BY DecisionType DEF WriteEdit
<1>4. isPublished' = isPublished
  BY DEF WriteEdit
<1>. HIDE DEF a
<1>5. /\ row.status \in Status /\ row.approvedBy \in BOOLEAN /\ row.publishedAt \in Nat
      /\ row.status = "PUBLISHED" => status[a] = "APPROVED"
  BY <1>1, <1>2, WorkflowAssumption DEF Row, TriggerAllows, PUBLISHED_STATUSES, WorkflowTypeOK
<1>6. /\ publications' \in Nat /\ publications <= publications'
      /\ publication' \in [Artifact -> Nat]
      /\ \A b \in Artifact : publication'[b] <= publications'
      /\ \A b \in Artifact : publication[b] # 0 => publication'[b] # 0
      /\ \A b \in Artifact : b # a \/ row.status # "PUBLISHED" => publication'[b] = publication[b]
      /\ row.status = "PUBLISHED" => publication'[a] = publications + 1
  BY <1>1, <1>2, <1>5, CountedOnce DEF Overwrite
<1>7. /\ status' \in [Artifact -> Status \cup {"ABSENT"}]
      /\ \A b \in Artifact : status'[b] = IF b = a THEN row.status ELSE status[b]
  BY <1>1, <1>2, <1>5 DEF WorkflowTypeOK, Overwrite
<1>8. /\ approvedBy' \in [Artifact -> BOOLEAN]
      /\ \A b \in Artifact : approvedBy'[b] = IF b = a THEN row.approvedBy ELSE approvedBy[b]
  BY <1>1, <1>2, <1>5 DEF WorkflowTypeOK, Overwrite
<1>9. /\ publishedAt' \in [Artifact -> Nat]
      /\ edits' \in Nat
      /\ content' \in [Artifact -> Nat]
      /\ \A b \in Artifact : b # a => content'[b] = content[b]
  BY <1>1, <1>2, <1>5 DEF WorkflowTypeOK, Overwrite
<1>10. links' \in [Version -> SUBSET ItemVersion]
  BY <1>2 DEF WorkflowTypeOK, Relinked
<1>11. /\ bypassed' \subseteq Artifact /\ bypassed \subseteq bypassed'
       /\ row.status # status[a] \/ row.approvedBy # approvedBy[a] => a \in bypassed'
  BY <1>1, <1>2 DEF WorkflowTypeOK, Overwrite
<1>12. WorkflowTypeOK'
  BY <1>3, <1>4, <1>6, <1>7, <1>8, <1>9, <1>10, <1>11 DEF WorkflowTypeOK
<1>13. \A b \in Artifact : approvedBy[b] \/ b \in bypassed => approvedBy'[b] \/ b \in bypassed'
  BY <1>8, <1>11
<1>14. \A v \in Version : Governed(v) => Governed(v)'
  BY <1>6, <1>13, VersionsAreArtifacts DEF Governed
<1>15. RowsAreGoverned'
  <2>1. ASSUME NEW b \in Artifact, status'[b] = "APPROVED"
        PROVE  approvedBy'[b] \/ b \in bypassed'
    BY <1>7, <1>8, <1>11, <1>13, <2>1 DEF RowsAreGoverned
  <2>2. ASSUME NEW v \in Version, status'[v] = "PUBLISHED" PROVE Governed(v)'
    <3>1. CASE v = a
      <4>1. row.status = "PUBLISHED"
        BY <1>1, <1>7, <2>2, <3>1
      <4>2. publication'[a] = publications + 1 /\ publications + 1 # 0
        BY <1>6, <4>1 DEF WorkflowTypeOK
      <4>3. a \in bypassed'
        <5>1. row.status # status[a]
          BY <1>5, <4>1
        <5>. QED
          BY <1>11, <5>1
      <4>. QED
        BY <3>1, <4>2, <4>3 DEF Governed
    <3>2. CASE v # a
      BY <1>7, <1>14, <2>2, <3>2, VersionsAreArtifacts DEF RowsAreGoverned
    <3>. QED
      BY <3>1, <3>2
  <2>. QED
    BY <1>6, <2>1, <2>2 DEF RowsAreGoverned
<1>16. RowsKept
  BY <1>6, <1>7, <1>9, <1>14, VersionsAreArtifacts DEF RowsKept, WorkflowTypeOK
<1>. QED
  BY <1>12, <1>15, <1>16

LEMMA VersionCreated ==
    ASSUME WorkflowTypeOK, RowsAreGoverned, NEW v \in Version, CreateVersion(v)
    PROVE  WorkflowTypeOK' /\ RowsAreGoverned' /\ RowsKept
<1>1. v \in Artifact
  BY VersionsAreArtifacts
<1>2. /\ status' = [status EXCEPT ![v] = "DRAFT"]
      /\ UNCHANGED <<content, publishedAt, approvedBy, edits, publications, publication,
                     bypassed, links, isPublished, request>>
  BY DEF CreateVersion, publicationVars
<1>3. "DRAFT" \in Status
  BY DEF Status
<1>4. WorkflowTypeOK'
  BY <1>1, <1>2, <1>3 DEF WorkflowTypeOK
<1>5. \A b \in Artifact : status'[b] = status[b] \/ status'[b] = "DRAFT"
  BY <1>1, <1>2 DEF WorkflowTypeOK
<1>6. RowsAreGoverned'
  BY <1>2, <1>5, VersionsAreArtifacts DEF RowsAreGoverned, Governed
<1>7. RowsKept
  BY <1>2, <1>5, VersionsAreArtifacts DEF WorkflowTypeOK, RowsKept, Governed
<1>. QED
  BY <1>4, <1>6, <1>7

-----------------------------------------------------------------------------
(* Every step of the workflow keeps the rows typed and governed.           *)
LEMMA WorkflowStep ==
    ASSUME WorkflowTypeOK, RowsAreGoverned, WorkflowNext
    PROVE  WorkflowTypeOK' /\ RowsAreGoverned' /\ RowsKept
<1>1. CASE \E v \in Version : CreateVersion(v)
  BY <1>1, VersionCreated
<1>2. ASSUME NEW r \in Request, RequestStep(r)
      PROVE  WorkflowTypeOK' /\ RowsAreGoverned' /\ RowsKept
  <2>1. CASE \E to \in Status : WriteStatus(r, to)
    BY <2>1, StatusWritten
  <2>2. CASE WriteEdit(r)
    BY <2>2, EditWritten
  <2>3. CASE \E items \in SUBSET ItemVersion : WriteItems(r, items)
    <3>1. PICK items \in SUBSET ItemVersion : WriteItems(r, items)
      BY <2>3
    <3>2. request' \in [Request -> Decision \cup {Idle}]
      BY <3>1, DecisionType DEF WriteItems
    <3>3. UNCHANGED <<artifactVars, isPublished>>
      BY <3>1 DEF WriteItems
    <3>4. links' \in [Version -> SUBSET ItemVersion]
      BY <3>1 DEF WriteItems, WorkflowTypeOK
    <3>5. WorkflowTypeOK'
      BY <3>2, <3>3, <3>4 DEF WorkflowTypeOK, artifactVars, publicationVars
    <3>. QED
      BY <3>3, <3>5, UntouchedRows
  <2>4. CASE PublishExam(r)
    <3>1. request' \in [Request -> Decision \cup {Idle}]
      BY <2>4, DecisionType DEF PublishExam
    <3>2. UNCHANGED <<artifactVars, links>>
      BY <2>4 DEF PublishExam
    <3>3. isPublished' \in BOOLEAN
      BY <2>4 DEF PublishExam
    <3>4. WorkflowTypeOK'
      BY <3>1, <3>2, <3>3 DEF WorkflowTypeOK, artifactVars, publicationVars
    <3>. QED
      BY <3>2, <3>4, UntouchedRows
  <2>5. ASSUME UNCHANGED <<artifactVars, links, isPublished>>,
               \/ \E a \in Artifact, step \in Steps : Becomes(r, a, step)
               \/ Ends(r)
        PROVE  WorkflowTypeOK' /\ RowsAreGoverned' /\ RowsKept
    <3>1. request' \in [Request -> Decision \cup {Idle}]
      BY <2>5, DecisionType
    <3>2. WorkflowTypeOK'
      BY <3>1, <2>5 DEF WorkflowTypeOK, artifactVars, publicationVars
    <3>. QED
      BY <3>2, <2>5, UntouchedRows
  <2>6. {"mutable", "edit", "link", "publish", "exam"} \cup Status \subseteq Steps
    BY DEF Steps
  <2>7. \A step \in Steps : At(r, step) => request[r].on \in Artifact
    BY DEF At, WorkflowTypeOK, Decision
  <2>8. CASE \E a \in Artifact, to \in Status : RequestTransition(r, a, to)
    BY <2>5, <2>6, <2>8 DEF RequestTransition
  <2>9. CASE \E a \in Artifact : RequestPublish(r, a)
    BY <2>5, <2>6, <2>9 DEF RequestPublish
  <2>10. CASE \E a \in Artifact : RequestEdit(r, a)
    BY <2>5, <2>6, <2>10 DEF RequestEdit
  <2>11. CASE \E v \in Version : RequestItems(r, v)
    BY <2>5, <2>6, <2>11, VersionsAreArtifacts DEF RequestItems
  <2>12. CASE ReadForPublish(r)
    <3>1. "PUBLISHED" \in Status
      BY DEF Status
    <3>. QED
      BY <2>5, <2>6, <2>7, <2>12, <3>1 DEF ReadForPublish
  <2>13. CASE AssertMutable(r)
    BY <2>5, <2>6, <2>7, <2>13 DEF AssertMutable
  <2>14. CASE Abort(r)
    BY <2>5, <2>14 DEF Abort
  <2>. QED
    BY <1>2, <2>1, <2>2, <2>3, <2>4, <2>8, <2>9, <2>10, <2>11, <2>12, <2>13, <2>14
       DEF RequestStep
<1>. QED
  BY <1>1, <1>2 DEF WorkflowNext

-----------------------------------------------------------------------------
(* What the rows keep, the claims and the attempts rest on.                *)
LEMMA ClaimsUntouched ==
    ASSUME IndInv, WorkflowTypeOK', RowsAreGoverned', RowsKept, UNCHANGED claimVars
    PROVE  IndInv'
<1>1. TypeOK'
  BY DEF IndInv, TypeOK, claimVars
<1>2. Started' = Started /\ UsedMeansStarted'
  BY DEF IndInv, UsedMeansStarted, Started, claimVars
<1>3. \A k \in Claim : claim[k] # Idle /\ claim[k].version # Absent =>
         claim[k].version \in Version
  BY DEF IndInv, TypeOK, Reading
<1>4. \A k \in Started : /\ attempt[k].version \in Version
                         /\ attempt[k].publication \in Nat
  BY DEF IndInv, TypeOK, Started, Attempt
<1>5. publications \in Nat /\ publications' \in Nat
  BY DEF IndInv, TypeOK, WorkflowTypeOK
<1>6. ClaimsAreGoverned'
  BY <1>2, <1>3, <1>4, <1>5 DEF IndInv, ClaimsAreGoverned, RowsKept, claimVars
<1>7. AttemptsKeepTheirVersion'
  <2>. SUFFICES ASSUME NEW k \in Started
                PROVE  LET v == attempt[k].version IN
                         /\ publication'[v] # 0 /\ (approvedBy'[v] \/ v \in bypassed')
                         /\ status'[v] = "PUBLISHED" /\ publication'[v] = attempt[k].publication
                              => content'[v] = attempt[k].content
    BY <1>2 DEF AttemptsKeepTheirVersion, Governed, claimVars
  <2>1. \A v \in Version : Governed(v) =>
          publication'[v] # 0 /\ (approvedBy'[v] \/ v \in bypassed')
    BY DEF RowsKept, Governed
  <2>2. attempt[k].publication <= publications
    BY DEF IndInv, ClaimsAreGoverned
  <2>. QED
    BY <1>4, <2>1, <2>2 DEF IndInv, AttemptsKeepTheirVersion, RowsKept
<1>. QED
  BY <1>1, <1>2, <1>6, <1>7 DEF IndInv

\* A step of the invitations leaves the rows alone.
LEMMA RowsUntouched ==
    ASSUME IndInv, UNCHANGED workflowVars
    PROVE  /\ WorkflowTypeOK' /\ RowsAreGoverned'
           /\ publications' = publications
           /\ \A v \in Version : Governed(v)' <=> Governed(v)
BY DEF IndInv, TypeOK, WorkflowTypeOK, RowsAreGoverned, Governed, workflowVars, artifactVars, publicationVars

LEMMA InvitationStep ==
    ASSUME IndInv, NEW c \in Code, CreateInvitation(c) \/ Expire(c)
    PROVE  IndInv'
<1>1. UNCHANGED <<workflowVars, claim, attempt>>
  BY DEF CreateInvitation, Expire
<1>2. /\ WorkflowTypeOK' /\ RowsAreGoverned' /\ publications' = publications
      /\ \A v \in Version : Governed(v)' <=> Governed(v)
  BY <1>1, RowsUntouched
<1>3. /\ invitation' \in [Code -> {"NONE", "PENDING", "USED"}]
      /\ \A d \in Code : /\ invitation'[d] = "USED" <=> invitation[d] = "USED"
                         /\ invitation[d] # "NONE" => invitation'[d] # "NONE"
  BY DEF IndInv, TypeOK, CreateInvitation, Expire
<1>4. TypeOK'
  BY <1>1, <1>2, <1>3 DEF IndInv, TypeOK, CreateInvitation, Expire
<1>5. Started' = Started
  BY <1>1 DEF Started
<1>6. UsedMeansStarted'
  BY <1>1, <1>3, <1>5 DEF IndInv, UsedMeansStarted
<1>7. \A k \in Claim : claim[k] # Idle => claim[k].code \in Code /\
         (claim[k].version # Absent => claim[k].version \in Version)
  BY DEF IndInv, TypeOK, Reading
<1>8. \A k \in Started : attempt[k].version \in Version
  BY DEF IndInv, TypeOK, Started, Attempt
<1>9. ClaimsAreGoverned'
  BY <1>1, <1>2, <1>3, <1>5, <1>7, <1>8 DEF IndInv, ClaimsAreGoverned
<1>10. AttemptsKeepTheirVersion'
  BY <1>1, <1>2, <1>5, <1>8
     DEF IndInv, AttemptsKeepTheirVersion, workflowVars, artifactVars, publicationVars
<1>. QED
  BY <1>2, <1>4, <1>6, <1>9, <1>10 DEF IndInv

\* A claim that reads, resolves or fails starts nothing.
LEMMA ReadingStep ==
    ASSUME IndInv, NEW k \in Claim,
           UNCHANGED <<workflowVars, invitation, expired, attempt>>,
           NEW x \in Reading \cup {Idle}, claim' = [claim EXCEPT ![k] = x],
           x # Idle => /\ attempt[k] = Absent
                       /\ invitation[x.code] # "NONE"
                       /\ x.version # Absent => Governed(x.version)
    PROVE  IndInv'
<1>1. /\ WorkflowTypeOK' /\ RowsAreGoverned' /\ publications' = publications
      /\ \A v \in Version : Governed(v)' <=> Governed(v)
  BY RowsUntouched
<1>2. claim' \in [Claim -> Reading \cup {Idle}]
  BY DEF IndInv, TypeOK
<1>3. TypeOK'
  BY <1>1, <1>2 DEF IndInv, TypeOK
<1>4. Started' = Started
  BY DEF Started
<1>5. UsedMeansStarted'
  BY <1>4 DEF IndInv, UsedMeansStarted
<1>6. \A j \in Claim : claim'[j] # Idle /\ claim'[j].version # Absent =>
         claim'[j].version \in Version
  BY <1>2 DEF Reading
<1>7. \A j \in Started : attempt[j].version \in Version
  BY DEF IndInv, TypeOK, Started, Attempt
<1>8. \A j \in Claim : claim'[j] # Idle =>
         /\ attempt[j] = Absent
         /\ invitation[claim'[j].code] # "NONE"
         /\ claim'[j].version # Absent => Governed(claim'[j].version)
  <2>1. \A j \in Claim : claim'[j] = IF j = k THEN x ELSE claim[j]
    BY DEF IndInv, TypeOK
  <2>. QED
    BY <2>1 DEF IndInv, ClaimsAreGoverned
<1>9. ClaimsAreGoverned'
  BY <1>1, <1>4, <1>6, <1>7, <1>8 DEF IndInv, ClaimsAreGoverned
<1>10. AttemptsKeepTheirVersion'
  BY <1>1, <1>4, <1>7
     DEF IndInv, AttemptsKeepTheirVersion, workflowVars, artifactVars, publicationVars
<1>. QED
  BY <1>1, <1>3, <1>5, <1>9, <1>10 DEF IndInv

LEMMA StartStep ==
    ASSUME IndInv, NEW k \in Claim, StartAttempt(k)
    PROVE  IndInv'
<1>. DEFINE c == claim[k].code
            v == claim[k].version
            a == [code |-> c, version |-> v,
                  publication |-> publication[v], content |-> content[v]]
<1>1. /\ UNCHANGED <<workflowVars, expired>>
      /\ attempt' = [attempt EXCEPT ![k] = a]
      /\ invitation' = [invitation EXCEPT ![c] = "USED"]
      /\ claim' = [claim EXCEPT ![k] = Idle]
      /\ claim[k] # Idle /\ v # Absent
  BY DEF StartAttempt
<1>2. /\ WorkflowTypeOK' /\ RowsAreGoverned' /\ publications' = publications
      /\ \A w \in Version : Governed(w)' <=> Governed(w)
  BY <1>1, RowsUntouched
<1>3. c \in Code /\ v \in Version /\ v \in Artifact
  BY <1>1, VersionsAreArtifacts DEF IndInv, TypeOK, Reading
<1>4. /\ a \in Attempt /\ a # Absent
      /\ a.code = c /\ a.version = v
      /\ a.publication = publication[v] /\ a.content = content[v]
  BY <1>3, ClaimAssumption DEF IndInv, TypeOK, WorkflowTypeOK, Attempt
<1>5. Governed(v) /\ attempt[k] = Absent
  BY <1>1 DEF IndInv, ClaimsAreGoverned
<1>6. publication[v] <= publications
  BY <1>3 DEF IndInv, RowsAreGoverned
<1>. HIDE DEF a, c, v
<1>7. /\ attempt' \in [Claim -> Attempt \cup {Absent}]
      /\ \A j \in Claim : attempt'[j] = IF j = k THEN a ELSE attempt[j]
  BY <1>1, <1>4 DEF IndInv, TypeOK
<1>8. /\ invitation' \in [Code -> {"NONE", "PENDING", "USED"}]
      /\ \A d \in Code : invitation'[d] = IF d = c THEN "USED" ELSE invitation[d]
  BY <1>1, <1>3 DEF IndInv, TypeOK
<1>9. /\ claim' \in [Claim -> Reading \cup {Idle}]
      /\ \A j \in Claim : claim'[j] = IF j = k THEN Idle ELSE claim[j]
  BY <1>1 DEF IndInv, TypeOK
<1>10. TypeOK'
  BY <1>1, <1>2, <1>7, <1>8, <1>9 DEF IndInv, TypeOK
<1>11. Started' = Started \cup {k} /\ k \notin Started
  BY <1>4, <1>5, <1>7 DEF Started
<1>12. UsedMeansStarted'
  <2>. SUFFICES ASSUME NEW d \in Code
                PROVE  invitation'[d] = "USED" <=> \E j \in Started' : attempt'[j].code = d
    BY DEF UsedMeansStarted
  <2>1. \A j \in Started : attempt'[j] = attempt[j] /\ j \in Claim
    BY <1>7, <1>11 DEF Started
  <2>2. attempt'[k] = a
    BY <1>7
  <2>3. CASE d = c
    BY <1>4, <1>8, <1>11, <2>2, <2>3
  <2>4. CASE d # c
    <3>1. invitation'[d] = invitation[d]
      BY <1>8, <2>4
    <3>2. invitation[d] = "USED" <=> \E j \in Started : attempt[j].code = d
      BY DEF IndInv, UsedMeansStarted
    <3>. QED
      BY <1>4, <1>11, <2>1, <2>2, <2>4, <3>1, <3>2
  <2>. QED
    BY <2>3, <2>4
<1>. DEFINE InForce(w) == publication'[w] # 0 /\ (approvedBy'[w] \/ w \in bypassed')
<1>15. \A w \in Version : Governed(w) <=> InForce(w)
  BY <1>2 DEF Governed
<1>13. ClaimsAreGoverned'
  <2>1. \A j \in Claim : claim'[j] # Idle => j # k /\ claim'[j] = claim[j] /\ attempt'[j] = attempt[j]
    BY <1>7, <1>9
  <2>2. \A j \in Claim : claim[j] # Idle => claim[j].code \in Code /\
         (claim[j].version # Absent => claim[j].version \in Version)
    BY DEF IndInv, TypeOK, Reading
  <2>3. \A j \in Claim : claim'[j] # Idle =>
          /\ attempt'[j] = Absent
          /\ invitation'[claim'[j].code] # "NONE"
          /\ claim'[j].version # Absent => InForce(claim'[j].version)
    BY <1>8, <1>15, <2>1, <2>2 DEF IndInv, ClaimsAreGoverned
  <2>4. \A j \in Started' :
          InForce(attempt'[j].version) /\ attempt'[j].publication <= publications'
    <3>1. \A j \in Started : attempt[j].version \in Version /\ attempt'[j] = attempt[j]
      BY <1>7, <1>11 DEF IndInv, TypeOK, Started, Attempt
    <3>2. attempt'[k] = a
      BY <1>7
    <3>. QED
      BY <1>2, <1>3, <1>4, <1>5, <1>6, <1>11, <1>15, <3>1, <3>2 DEF IndInv, ClaimsAreGoverned
  <2>. QED
    BY <2>3, <2>4 DEF ClaimsAreGoverned, Governed
<1>14. AttemptsKeepTheirVersion'
  <2>1. \A j \in Started : attempt[j].version \in Version /\ attempt'[j] = attempt[j]
    BY <1>7, <1>11 DEF IndInv, TypeOK, Started, Attempt
  <2>2. attempt'[k] = a
    BY <1>7
  <2>3. UNCHANGED <<status, content, publication, approvedBy, bypassed>>
    BY <1>1 DEF workflowVars, artifactVars, publicationVars
  <2>. QED
    BY <1>2, <1>3, <1>4, <1>5, <1>11, <2>1, <2>2, <2>3
       DEF IndInv, AttemptsKeepTheirVersion
<1>. QED
  BY <1>2, <1>10, <1>12, <1>13, <1>14 DEF IndInv

-----------------------------------------------------------------------------
LEMMA InitIndInv == Init => IndInv
<1>. SUFFICES ASSUME Init PROVE IndInv
  OBVIOUS
<1>1. TypeOK
  BY DEF Init, WorkflowInit, TypeOK, WorkflowTypeOK, Status, Artifact
<1>2. RowsAreGoverned
  BY VersionsAreArtifacts DEF Init, WorkflowInit, RowsAreGoverned
<1>3. Started = {}
  BY DEF Init, Started
<1>4. UsedMeansStarted /\ ClaimsAreGoverned /\ AttemptsKeepTheirVersion
  BY <1>3 DEF Init, UsedMeansStarted, ClaimsAreGoverned, AttemptsKeepTheirVersion
<1>. QED
  BY <1>1, <1>2, <1>4 DEF IndInv

LEMMA NextIndInv == IndInv /\ [Next]_vars => IndInv'
<1>. SUFFICES ASSUME IndInv, [Next]_vars PROVE IndInv'
  OBVIOUS
<1>1. CASE WorkflowNext /\ UNCHANGED claimVars
  <2>1. WorkflowTypeOK /\ RowsAreGoverned
    BY DEF IndInv, TypeOK
  <2>. QED
    BY <1>1, <2>1, WorkflowStep, ClaimsUntouched
<1>2. CASE \E c \in Code : CreateInvitation(c) \/ Expire(c)
  BY <1>2, InvitationStep
<1>3. ASSUME NEW k \in Claim, ClaimStep(k) PROVE IndInv'
  <2>1. CASE \E c \in Code : GetPendingInvitation(k, c)
    <3>1. PICK c \in Code : GetPendingInvitation(k, c)
      BY <2>1
    <3>. DEFINE x == [code |-> c, version |-> Absent]
    <3>2. x \in Reading /\ x.code = c /\ x.version = Absent
      BY DEF Reading
    <3>3. /\ UNCHANGED <<workflowVars, invitation, expired, attempt>>
          /\ claim' = [claim EXCEPT ![k] = x]
          /\ attempt[k] = Absent /\ invitation[c] # "NONE"
      BY <3>1 DEF GetPendingInvitation
    <3>. HIDE DEF x
    <3>. QED
      BY <3>2, <3>3, ReadingStep
  <2>2. CASE \E v \in Version : ResolvePublishedVersion(k, v)
    <3>1. PICK v \in Version : ResolvePublishedVersion(k, v)
      BY <2>2
    <3>. DEFINE x == [claim[k] EXCEPT !.version = v]
    <3>2. claim[k] \in Reading /\ claim[k] # Idle
      BY <3>1 DEF ResolvePublishedVersion, IndInv, TypeOK
    <3>3. x \in Reading /\ x.code = claim[k].code /\ x.version = v
      BY <3>2 DEF Reading
    <3>4. /\ UNCHANGED <<workflowVars, invitation, expired, attempt>>
          /\ claim' = [claim EXCEPT ![k] = x]
      BY <3>1 DEF ResolvePublishedVersion
    <3>5. Governed(v)
      BY <3>1 DEF ResolvePublishedVersion, IndInv, RowsAreGoverned
    <3>6. attempt[k] = Absent /\ invitation[claim[k].code] # "NONE"
      BY <3>2 DEF IndInv, ClaimsAreGoverned
    <3>. HIDE DEF x
    <3>. QED
      BY <3>3, <3>4, <3>5, <3>6, ReadingStep
  <2>3. CASE StartAttempt(k)
    BY <2>3, StartStep
  <2>4. CASE ClaimFails(k)
    BY <2>4, ReadingStep DEF ClaimFails
  <2>. QED
    BY <1>3, <2>1, <2>2, <2>3, <2>4 DEF ClaimStep
<1>4. CASE UNCHANGED vars
  <2>1. UNCHANGED claimVars /\ UNCHANGED artifactVars /\ UNCHANGED workflowVars
    BY <1>4 DEF vars, workflowVars, claimVars
  <2>2. WorkflowTypeOK' /\ RowsAreGoverned'
    BY <2>1, RowsUntouched
  <2>3. RowsKept
    BY <2>1, UntouchedRows DEF IndInv, TypeOK
  <2>. QED
    BY <2>1, <2>2, <2>3, ClaimsUntouched
<1>. QED
  BY <1>1, <1>2, <1>3, <1>4 DEF Next

(* IndInv is inductive: whatever the staff and the candidates do side by   *)
(* side (invitation.service.ts, psychometric-versioning.service.ts).       *)
THEOREM WorkflowInvariance == Spec => []IndInv
BY InitIndInv, NextIndInv, PTL DEF Spec

(* Every attempt is on an approved and published version, whose content it *)
(* keeps as long as that publication lasts.                                *)
THEOREM AttemptsAreGoverned == Spec => []AttemptsKeepTheirVersion
<1>1. IndInv => AttemptsKeepTheirVersion
  BY DEF IndInv
<1>. QED
  BY <1>1, WorkflowInvariance, PTL

(* An invitation is used up exactly by an attempt started from it.         *)
THEOREM InvitationsAreSpent == Spec => []UsedMeansStarted
<1>1. IndInv => UsedMeansStarted
  BY DEF IndInv
<1>. QED
  BY <1>1, WorkflowInvariance, PTL

-----------------------------------------------------------------------------
\* One step keeps the published rows frozen, and publishes only from APPROVED.
Frozen ==
    /\ \A a \in Artifact : status[a] \in PUBLISHED_STATUSES =>
         /\ status'[a] \in {status[a], "RETIRED"}
         /\ content'[a] = content[a]
         /\ publishedAt'[a] = publishedAt[a]
    /\ \A a \in Artifact : status'[a] = "PUBLISHED" /\ status[a] # "PUBLISHED"
         => status[a] = "APPROVED" /\ (approvedBy[a] \/ a \in bypassed)

\* A write of one row that the trigger lets through.
LEMMA TriggerFreezes ==
    ASSUME WorkflowTypeOK, RowsAreGoverned,
           NEW a \in Artifact, NEW to \in Status,
           status' = [status EXCEPT ![a] = to],
           \A b \in Artifact : b # a => /\ content'[b] = content[b]
                                       /\ publishedAt'[b] = publishedAt[b],
           status[a] \in PUBLISHED_STATUSES =>
              to = "RETIRED" /\ content'[a] = content[a] /\ publishedAt'[a] = publishedAt[a],
           to = "PUBLISHED" => status[a] = "APPROVED"
    PROVE  Frozen
<1>1. \A b \in Artifact : status'[b] = IF b = a THEN to ELSE status[b]
  BY DEF WorkflowTypeOK
<1>. QED
  BY <1>1 DEF RowsAreGoverned, Frozen

LEMMA StepFreezes == IndInv /\ [Next]_vars => Frozen
<1>. SUFFICES ASSUME IndInv, [Next]_vars PROVE Frozen
  OBVIOUS
<1>0. WorkflowTypeOK /\ RowsAreGoverned
  BY DEF IndInv, TypeOK
<1>1. CASE UNCHANGED artifactVars
  BY <1>1 DEF Frozen, artifactVars, publicationVars
<1>2. ASSUME NEW v \in Version, CreateVersion(v) PROVE Frozen
  <2>1. status' = [status EXCEPT ![v] = "DRAFT"] /\ UNCHANGED <<content, publishedAt>>
    BY <1>2 DEF CreateVersion
  <2>2. status[v] \notin PUBLISHED_STATUSES
    BY <1>2 DEF CreateVersion, Exists, PUBLISHED_STATUSES
  <2>3. v \in Artifact /\ "DRAFT" \in Status
    BY VersionsAreArtifacts DEF Status
  <2>. QED
    BY <1>0, <2>1, <2>2, <2>3, TriggerFreezes
<1>3. ASSUME NEW r \in Request, NEW to \in Status, WriteStatus(r, to) PROVE Frozen
  <2>. DEFINE a == request[r].on
  <2>1. /\ status' = [status EXCEPT ![a] = to]
        /\ content' = content
        /\ to # "PUBLISHED" => publishedAt' = publishedAt
        /\ to = "PUBLISHED" => publishedAt' = [publishedAt EXCEPT ![a] = publications']
        /\ status[a] \in PUBLISHED_STATUSES => to = "RETIRED"
        /\ to = "PUBLISHED" => status[a] = "APPROVED"
    <3>1. /\ publishedAt' = [publishedAt EXCEPT ![a] = IF to = "PUBLISHED" THEN publications' ELSE @]
          /\ status' = [status EXCEPT ![a] = to] /\ content' = content
          /\ TriggerAllows(a, to, to # "RETIRED")
      BY <1>3 DEF WriteStatus
    <3>2. to # "PUBLISHED" => publishedAt' = publishedAt
      BY <1>0, <3>1 DEF WorkflowTypeOK
    <3>. QED
      BY <3>1, <3>2 DEF TriggerAllows, PUBLISHED_STATUSES
  <2>2. a \in Artifact
    BY <1>0, <1>3 DEF WorkflowTypeOK, WriteStatus, At, Decision
  <2>. HIDE DEF a
  <2>3. \A b \in Artifact : b # a \/ to # "PUBLISHED" => publishedAt'[b] = publishedAt[b]
    BY <1>0, <2>1, <2>2 DEF WorkflowTypeOK
  <2>. QED
    BY <1>0, <2>1, <2>2, <2>3, TriggerFreezes
<1>4. ASSUME NEW r \in Request, WriteEdit(r) PROVE Frozen
  <2>. DEFINE a == request[r].on
  <2>1. a \in Artifact
    BY <1>0, <1>4 DEF WorkflowTypeOK, WriteEdit, At, Decision
  <2>2. PICK row \in Row(a), new \in BOOLEAN :
          /\ TriggerAllows(a, row.status, new \/ row.approvedBy # approvedBy[a]
                                              \/ row.publishedAt # publishedAt[a])
          /\ Overwrite(a, row, new)
    BY <1>4 DEF WriteEdit
  <2>. HIDE DEF a
  <2>3. /\ row.status \in Status
        /\ status' = [status EXCEPT ![a] = row.status]
        /\ content' = [content EXCEPT ![a] = IF new THEN edits' ELSE @]
        /\ publishedAt' = [publishedAt EXCEPT ![a] = row.publishedAt]
    BY <2>2 DEF Overwrite, Row
  <2>4. status[a] \in PUBLISHED_STATUSES =>
          row.status = "RETIRED" /\ ~new /\ row.publishedAt = publishedAt[a]
    BY <2>2 DEF TriggerAllows
  <2>5. row.status = "PUBLISHED" => status[a] = "APPROVED"
    BY <2>2 DEF TriggerAllows
  <2>6. \A b \in Artifact : /\ b # a \/ ~new => content'[b] = content[b]
                            /\ b # a => publishedAt'[b] = publishedAt[b]
    BY <1>0, <2>1, <2>3 DEF WorkflowTypeOK
  <2>7. publishedAt'[a] = row.publishedAt
    BY <1>0, <2>1, <2>3 DEF WorkflowTypeOK
  <2>. QED
    BY <1>0, <2>1, <2>3, <2>4, <2>5, <2>6, <2>7, TriggerFreezes
<1>5. ASSUME NEW r \in Request, RequestStep(r),
             ~\E to \in Status : WriteStatus(r, to), ~WriteEdit(r)
      PROVE  UNCHANGED artifactVars
  BY <1>5 DEF RequestStep, RequestTransition, RequestPublish, RequestEdit, RequestItems,
       ReadForPublish, PublishExam, AssertMutable, WriteItems, Abort
<1>6. CASE WorkflowNext
  BY <1>1, <1>2, <1>3, <1>4, <1>5, <1>6 DEF WorkflowNext
<1>7. CASE UNCHANGED workflowVars
  BY <1>1, <1>7 DEF workflowVars
<1>8. [Next]_vars => WorkflowNext \/ UNCHANGED workflowVars
  BY DEF Next, vars, ClaimStep, CreateInvitation, Expire, GetPendingInvitation,
       ResolvePublishedVersion, StartAttempt, ClaimFails
<1>. QED
  BY <1>6, <1>7, <1>8

(* A published row never changes but for its retirement (the trigger       *)
(* prevent_published_version_mutation).                                    *)
THEOREM PublishedRowsAreFrozen == Spec => PublishedIsFrozen
<1>1. IndInv /\ [Next]_vars => [\A a \in Artifact : status[a] \in PUBLISHED_STATUSES =>
         /\ status'[a] \in {status[a], "RETIRED"}
         /\ content'[a] = content[a]
         /\ publishedAt'[a] = publishedAt[a]]_workflowVars
  BY StepFreezes DEF Frozen
<1>. QED
  BY <1>1, WorkflowInvariance, PTL DEF Spec, PublishedIsFrozen

(* Nothing is published but from APPROVED, with the approval on record or  *)
(* an edit that has written the status or the approval.                    *)
THEOREM PublicationFollowsApproval == Spec => PublishedFromApproved
<1>1. IndInv /\ [Next]_vars =>
        [\A a \in Artifact : status'[a] = "PUBLISHED" /\ status[a] # "PUBLISHED"
           => status[a] = "APPROVED" /\ (approvedBy[a] \/ a \in bypassed)]_workflowVars
  BY StepFreezes DEF Frozen
<1>. QED
  BY <1>1, WorkflowInvariance, PTL DEF Spec, PublishedFromApproved
=============================================================================
