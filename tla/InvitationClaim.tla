--------------------------- MODULE InvitationClaim ---------------------------
(***************************************************************************)
(* Invitations and the attempts they start (invitation.service.ts), while  *)
(* the staff go on with the versions of the assessment (VersionWorkflow).  *)
(*                                                                         *)
(* A claim reads the invitation, resolves the published version, and then  *)
(* creates the attempt and marks the invitation in one transaction, which  *)
(* reads neither again.                                                    *)
(***************************************************************************)
EXTENDS VersionWorkflow

CONSTANTS
    Code,      \* access codes, one per invitation
    Claim,     \* claim requests; each starts at most one attempt
    Absent     \* no version resolved, no attempt

VARIABLES
    invitation, \* status of the invitation of each code
    expired,    \* expiresAt has passed
    claim,      \* what each claim has read
    attempt     \* the attempt each claim has started

claimVars == <<invitation, expired, claim, attempt>>
vars == <<workflowVars, claimVars>>

-----------------------------------------------------------------------------
\* publication and content are history: those of the version when it started.
Attempt == [code : Code, version : Version, publication : Nat, content : Nat]

\* The invitation a claim has read, and the version it has resolved.
Reading == [code : Code, version : Version \cup {Absent}]

ASSUME ClaimAssumption == Idle \notin Reading /\ Absent \notin Version \cup Attempt

Init ==
    /\ WorkflowInit
    /\ invitation = [c \in Code |-> "NONE"]
    /\ expired = [c \in Code |-> FALSE]
    /\ claim = [k \in Claim |-> Idle]
    /\ attempt = [k \in Claim |-> Absent]

CreateInvitation(c) ==
    /\ invitation[c] = "NONE"
    /\ isPublished
    /\ invitation' = [invitation EXCEPT ![c] = "PENDING"]
    /\ UNCHANGED <<workflowVars, expired, claim, attempt>>

Expire(c) ==
    /\ invitation[c] = "PENDING"
    /\ ~expired[c]
    /\ expired' = [expired EXCEPT ![c] = TRUE]
    /\ UNCHANGED <<workflowVars, invitation, claim, attempt>>

\* Mutant: the invitation is marked when it is read, outside the transaction.
MarkWhenRead(k, c) ==
    /\ claim[k] = Idle
    /\ attempt[k] = Absent
    /\ invitation[c] = "PENDING"
    /\ ~expired[c]
    /\ invitation' = [invitation EXCEPT ![c] = "USED"]
    /\ claim' = [claim EXCEPT ![k] = [code |-> c, version |-> Absent]]
    /\ UNCHANGED <<workflowVars, expired, attempt>>

GetPendingInvitation(k, c) ==
    /\ claim[k] = Idle
    /\ attempt[k] = Absent
    /\ invitation[c] = "PENDING"
    /\ ~expired[c]
    /\ claim' = [claim EXCEPT ![k] = [code |-> c, version |-> Absent]]
    /\ UNCHANGED <<workflowVars, invitation, expired, attempt>>

\* The database puts NULL before every date when it orders downwards.
Before(v, w) ==
    publishedAt[w] # 0 /\ (publishedAt[v] = 0 \/ publishedAt[v] > publishedAt[w])

\* resolvePublishedAssessmentVersionForExam: the last one published.
ResolvePublishedVersion(k, v) ==
    /\ claim[k] # Idle
    /\ claim[k].version = Absent
    /\ status[v] = "PUBLISHED"
    /\ \A w \in Version : status[w] = "PUBLISHED" => ~Before(w, v)
    /\ claim' = [claim EXCEPT ![k].version = v]
    /\ UNCHANGED <<workflowVars, invitation, expired, attempt>>

\* The transaction of claimInvitation.
StartAttempt(k) ==
    LET c == claim[k].code
        v == claim[k].version
    IN
    /\ claim[k] # Idle
    /\ v # Absent
    /\ attempt' = [attempt EXCEPT ![k] =
         [code |-> c, version |-> v,
          publication |-> publication[v], content |-> content[v]]]
    /\ invitation' = [invitation EXCEPT ![c] = "USED"]
    /\ claim' = [claim EXCEPT ![k] = Idle]
    /\ UNCHANGED <<workflowVars, expired>>

\* Nothing is published, the e-mail of the candidate is being registered by
\* another claim, or the database fails: the transaction leaves nothing.
ClaimFails(k) ==
    /\ claim[k] # Idle
    /\ claim' = [claim EXCEPT ![k] = Idle]
    /\ UNCHANGED <<workflowVars, invitation, expired, attempt>>

ClaimStep(k) ==
    \/ \E c \in Code : GetPendingInvitation(k, c)
    \/ \E v \in Version : ResolvePublishedVersion(k, v)
    \/ StartAttempt(k)
    \/ ClaimFails(k)

Next ==
    \/ WorkflowNext /\ UNCHANGED claimVars
    \/ \E c \in Code : CreateInvitation(c) \/ Expire(c)
    \/ \E k \in Claim : ClaimStep(k)

Spec == Init /\ [][Next]_vars

-----------------------------------------------------------------------------
TypeOK ==
    /\ WorkflowTypeOK
    /\ invitation \in [Code -> {"NONE", "PENDING", "USED"}]
    /\ expired \in [Code -> BOOLEAN]
    /\ claim \in [Claim -> Reading \cup {Idle}]
    /\ attempt \in [Claim -> Attempt \cup {Absent}]

Started == {k \in Claim : attempt[k] # Absent}

(* An invitation is USED exactly when an attempt was started from it: a    *)
(* claim that fails on the way costs the candidate nothing.                *)
UsedMeansStarted == \A c \in Code :
    invitation[c] = "USED" <=> \E k \in Started : attempt[k].code = c

(* Every attempt is on a version that has been published, and that someone *)
(* has approved unless an edit got round that; as long as that publication *)
(* lasts the version has the content the attempt was started on.           *)
AttemptsKeepTheirVersion == \A k \in Started :
    LET v == attempt[k].version IN
    /\ Governed(v)
    /\ status[v] = "PUBLISHED" /\ publication[v] = attempt[k].publication
         => content[v] = attempt[k].content

\* Claims and attempts are on versions whose publication is on record, and
\* a claim has not started its attempt yet.
ClaimsAreGoverned ==
    /\ \A k \in Claim : claim[k] # Idle =>
         /\ attempt[k] = Absent
         /\ invitation[claim[k].code] # "NONE"
         /\ claim[k].version # Absent => Governed(claim[k].version)
    /\ \A k \in Started :
         /\ Governed(attempt[k].version)
         /\ attempt[k].publication <= publications

(* The inductive invariant behind the theorems of InvitationClaimProofs.   *)
IndInv ==
    /\ TypeOK
    /\ RowsAreGoverned
    /\ ClaimsAreGoverned
    /\ UsedMeansStarted
    /\ AttemptsKeepTheirVersion

(* invitation.service.ts line 103: "El código ya ha sido reclamado".  An   *)
(* access code starts one attempt.                                         *)
OneAttemptPerInvitation == \A j, k \in Started :
    attempt[j].code = attempt[k].code => j = k
=============================================================================
