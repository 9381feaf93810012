------------------------------ MODULE Seeding ------------------------------
(***************************************************************************)
(* The scripts that fill the database (prisma/seed.ts, prisma/seed-e2e.ts, *)
(* prisma/backfill-psychometric-governance.ts) and the defaults every      *)
(* process creates when it starts (prisma.service.ts), while a candidate   *)
(* claims the seeded invitation and the staff retire versions.             *)
(*                                                                         *)
(* A script is a long sequence of upserts without a transaction: it may    *)
(* end anywhere, be started again, and run next to another one.  Rows that *)
(* are written one after another and that nothing tells apart are one row. *)
(***************************************************************************)
EXTENDS Integers, Sequences

CONSTANTS
    Run,            \* runs of the scripts
    Process,        \* processes of the backend
    Items,          \* number of items of an assessment, of questions of an exam
    Nothing

ASSUME ItemsAssumption == Items \in Nat
ASSUME NothingAssumption == Nothing \notin {"PENDING", "USED", "seed", "seed:e2e", "backfill"}

VARIABLES
    rows,           \* the rows there are, with the status of versions
    examAfter,      \* the E2E exam was updated after its version was published
    legacyNewer,    \* version 1.0.0 of the E2E exam carries the later date
    invitation,     \* the seeded invitation
    attempt,        \* the attempt its claim has started
    run,            \* what each run has read and written
    boot,           \* what each starting process has read
    defaults,       \* how often the default profiles and cut scores exist
    together        \* history: two processes have counted the same rows

dataVars == <<rows, examAfter, legacyNewer>>
claimVars == <<invitation, attempt>>
bootVars == <<boot, defaults, together>>
seedingVars == <<dataVars, claimVars, run, bootVars>>

-----------------------------------------------------------------------------
\* A row: its table, the exam it belongs to ("all" for shared rows), its key.
\* "keep" leaves a row that exists as it is, "update" writes it.
Keep(table, exam, key) == [how |-> "keep", row |-> <<table, exam, key>>]
Update(table, exam, key) == [how |-> "update", row |-> <<table, exam, key>>]

Versions == {"assessmentVersion", "itemVersion", "normVersion", "scoringVersion", "templateVersion"}

\* What is done for each item: blocks of so many steps, one after another.
ForEachItem(size, block) ==
    [k \in 1..(Items * size) |-> block[((k - 1) \div size) + 1][((k - 1) % size) + 1]]

\* seed.ts: access, then the demo exam, then the official assessment.
SeedAccess ==
    << Keep("organization", "all", "demo"), Keep("permissions", "all", 0), Keep("roles", "all", 0),
       Keep("rolePermissions", "all", 0) >>

SeedUsers == << Update("users", "all", "demo"), Keep("userRoles", "all", "demo") >>

SeedDemoExam ==
    << Update("questions", "demo", 0), Update("exam", "demo", 0),
       Update("examQuestions", "demo", 0), Update("profile", "demo", 0) >>

EnsureTaxonomy == << Update("taxonomy", "official", 0) >>

SeedItems ==
    ForEachItem(3, [i \in 1..Items |->
        << Update("item", "official", i), Update("itemVersion", "official", i),
           Update("link", "official", <<"1.0.0", i>>) >>])

SeedArtifacts ==
    << Update("exam", "official", 0),
       Update("scoring", "official", "official"), Update("scoringVersion", "official", "1.0.0"),
       Update("template", "official", "official"), Update("templateVersion", "official", "1.0.0") >>

SeedSteps ==
    SeedAccess \o SeedUsers \o SeedDemoExam \o EnsureTaxonomy
    \o << Update("assessment", "official", 0), Update("assessmentVersion", "official", "1.0.0") >>
    \o SeedItems \o SeedArtifacts

\* seed-e2e.ts; the second tenant is the first again, under other ids.
EnsureUsers ==
    << Keep("permissions", "all", 0), Update("roles", "all", 0), Keep("rolePermissions", "all", 0),
       Update("organization", "all", "e2e"), Update("users", "all", "e2e"), Keep("userRoles", "all", "e2e") >>

EnsureDelivery == << Update("exam", "e2e", 0), Update("profile", "e2e", 0) >>

EnsureVersion ==
    << Update("assessment", "e2e", 0), Update("assessmentVersion", "e2e", "e2e-v1") >>

EnsureItems ==
    ForEachItem(3, [i \in 1..Items |->
        << Keep("item", "e2e", i), Keep("itemVersion", "e2e", i), Update("link", "e2e", <<"e2e-v1", i>>) >>])

EnsureArtifacts ==
    << Keep("norm", "e2e", "exam"), Keep("normVersion", "e2e", "e2e-v1"),
       Keep("scoring", "e2e", "exam"), Keep("scoringVersion", "e2e", "e2e-v1"),
       Keep("template", "e2e", "exam"), Keep("templateVersion", "e2e", "e2e-v1") >>

SeededInvitation == << Update("invitation", "e2e", 0) >>

\* Mutant: the invitation comes before the items.
E2ESwapped ==
    EnsureUsers \o EnsureDelivery \o EnsureVersion \o SeededInvitation \o EnsureItems \o EnsureArtifacts

\* Mutant: the invitation comes before the version that would be refused.
E2EInvitedFirst ==
    EnsureUsers \o EnsureDelivery \o SeededInvitation \o EnsureVersion \o EnsureItems \o EnsureArtifacts

E2ESteps ==
    EnsureUsers \o EnsureDelivery \o EnsureVersion \o EnsureItems \o EnsureArtifacts \o SeededInvitation

-----------------------------------------------------------------------------
\* The backfill reads the exams and their questions once, oldest first.
ExamsRead(read) == {e \in {"demo", "official", "e2e"} : <<"exam", e, 0>> \in read}

\* Mutant: an exam whose assessment is there is taken for done.
BackfillSkipping(e, read) ==
    IF <<"assessment", e, 0>> \in DOMAIN rows THEN <<>>
    ELSE << Update("assessment", e, 0), Keep("assessmentVersion", e, "1.0.0") >>

BackfillVersion(e, read) ==
    << Update("assessment", e, 0), Keep("assessmentVersion", e, "1.0.0") >>

BackfillItems(e, read) ==
    IF <<"examQuestions", e, 0>> \notin read THEN <<>>
    ELSE ForEachItem(4, [i \in 1..Items |->
        << Keep("category", e, 0), Keep("item", e, i), Keep("itemVersion", e, i), Keep("link", e, <<"1.0.0", i>>) >>])

EnsureLegacyArtifacts(e) ==
    << Keep("scoring", e, "exam"), Keep("scoringVersion", e, "legacy-current"),
       Keep("norm", e, "exam"), Keep("normVersion", e, "legacy-current"),
       Keep("template", e, "exam"), Keep("templateVersion", e, "legacy-current") >>

\* What the backfill does with one exam, if it has read it.
BackfillExam(e, read) ==
    IF e \notin ExamsRead(read) THEN <<>>
    ELSE BackfillVersion(e, read) \o BackfillItems(e, read) \o EnsureLegacyArtifacts(e)

BackfillSteps(read) ==
    BackfillExam("demo", read) \o BackfillExam("official", read) \o BackfillExam("e2e", read)

-----------------------------------------------------------------------------
Unstarted == [script |-> Nothing, todo |-> <<>>, exams |-> {}, questions |-> FALSE,
              after |-> FALSE, ended |-> "no"]

SeedingInit ==
    /\ rows = [r \in {} |-> "there"]
    /\ examAfter = FALSE /\ legacyNewer = FALSE
    /\ invitation = Nothing /\ attempt = Nothing
    /\ run = [r \in Run |-> Unstarted]
    /\ boot = [p \in Process |-> [pc |-> "start", empty |-> FALSE]]
    /\ defaults = [profiles |-> 0, cutScores |-> 0]
    /\ together = FALSE

There(table, exam, key) == <<table, exam, key>> \in DOMAIN rows

\* The steps a script would take now.  The official exam of seed.ts gets the
\* id of its assessment, and the E2E exam shares its id with its assessment.
StepsOf(script) ==
    CASE script = "seed" -> SeedSteps
      [] script = "seed:e2e" -> E2ESteps
      [] script = "backfill" -> BackfillSteps(DOMAIN rows)

ExamsOf(script) ==
    CASE script = "seed" -> {"official"}
      [] script = "seed:e2e" -> {"e2e"}
      [] script = "backfill" -> ExamsRead(DOMAIN rows)

Start(r, script) ==
    /\ run[r] = Unstarted
    /\ LET steps == StepsOf(script)
       IN  run' = [run EXCEPT ![r] =
             [script |-> script, todo |-> steps, exams |-> ExamsOf(script),
              questions |-> script = "backfill" /\ There("examQuestions", "demo", 0),
              after |-> examAfter, ended |-> IF steps = <<>> THEN "well" ELSE "no"]]
    /\ UNCHANGED <<dataVars, claimVars, bootVars>>

NewStatus(script, table) ==
    IF table \notin Versions THEN "there"
    ELSE IF script = "backfill" /\ table = "itemVersion" THEN "ACTIVE" ELSE "PUBLISHED"

\* The trigger of the migration refuses every update of a published version
\* that does not retire it, and to publish one that is not approved.
Refused(step) == step.how = "update" /\ step.row \in DOMAIN rows /\ step.row[1] \in Versions

\* One upsert.  Besides its row, an update of the exam moves its updatedAt,
\* and the one of the invitation makes it PENDING without an attempt.
Upsert(r) ==
    LET step == Head(run[r].todo)
        row == step.row
        new == row \notin DOMAIN rows
    IN
    /\ run[r].todo # <<>> /\ run[r].ended = "no"
    /\ ~Refused(step)
    /\ rows' = [x \in DOMAIN rows \cup {row} |->
                  IF x \in DOMAIN rows THEN rows[x] ELSE NewStatus(run[r].script, row[1])]
    /\ examAfter' = (\/ examAfter
                     \/ row = <<"exam", "e2e", 0>> /\ There("assessmentVersion", "e2e", "e2e-v1"))
    /\ legacyNewer' = IF new /\ row = <<"assessmentVersion", "e2e", "1.0.0">> THEN run[r].after ELSE legacyNewer
    /\ invitation' = IF row[1] = "invitation" THEN "PENDING" ELSE invitation
    /\ attempt' = IF row[1] = "invitation" THEN Nothing ELSE attempt
    /\ run' = [run EXCEPT ![r].todo = Tail(@), ![r].ended = IF Len(run[r].todo) = 1 THEN "well" ELSE "no"]
    /\ UNCHANGED bootVars

\* The upsert is refused, loses a race for a unique key, or the process dies.
Break(r) ==
    /\ run[r].todo # <<>> /\ run[r].ended = "no"
    /\ run' = [run EXCEPT ![r].ended = "badly", ![r].todo = <<>>]
    /\ UNCHANGED <<dataVars, claimVars, bootVars>>

-----------------------------------------------------------------------------
\* resolvePublishedAssessmentVersionForExam, for the E2E exam: the version
\* published last, whatever is linked to it.
PublishedAs(key) ==
    There("assessmentVersion", "e2e", key) /\ rows[<<"assessmentVersion", "e2e", key>>] = "PUBLISHED"

Resolved ==
    IF PublishedAs("1.0.0") /\ (legacyNewer \/ ~PublishedAs("e2e-v1")) THEN "1.0.0"
    ELSE IF PublishedAs("e2e-v1") THEN "e2e-v1" ELSE Nothing

LinkedTo(key) == {i \in 1..Items : There("link", "e2e", <<key, i>>)}

\* claimInvitation; what the session shows are the items linked by then.
Claim ==
    /\ invitation = "PENDING"
    /\ Resolved # Nothing
    /\ invitation' = "USED"
    /\ attempt' = [version |-> Resolved, items |-> LinkedTo(Resolved)]
    /\ UNCHANGED <<dataVars, run, bootVars>>

\* The staff retire the version, with a reason.
Retire(key) ==
    /\ PublishedAs(key)
    /\ rows' = [rows EXCEPT ![<<"assessmentVersion", "e2e", key>>] = "RETIRED"]
    /\ UNCHANGED <<examAfter, legacyNewer, claimVars, run, bootVars>>

-----------------------------------------------------------------------------
\* onModuleInit, for the profiles and again for the cut scores: find the
\* oldest organization, count, and create the defaults in one insert.
Organization == There("organization", "all", "demo") \/ There("organization", "all", "e2e")

NoProfiles ==
    defaults.profiles = 0 /\ ~There("profile", "demo", 0) /\ ~There("profile", "e2e", 0)

After(pc) == CASE pc = "start" -> "profiles" [] pc = "profiles" -> "between"
               [] pc = "between" -> "cutScores" [] pc = "cutScores" -> "up"

\* Mutant: one count for both.
EmptyOnce(pc) == Organization /\ NoProfiles

Empty(pc) == Organization /\ IF pc = "start" THEN NoProfiles ELSE defaults.cutScores = 0

CountRows(p) ==
    LET pc == After(boot[p].pc)
    IN
    /\ boot[p].pc \in {"start", "between"}
    /\ boot' = [boot EXCEPT ![p] = [pc |-> pc, empty |-> Empty(@.pc)]]
    /\ together' = (together \/ \E q \in Process \ {p} : boot[q].pc = pc)
    /\ UNCHANGED <<dataVars, claimVars, run, defaults>>

\* The insert may fail, which is logged and forgotten.
CreateMany(p) ==
    /\ boot[p].pc \in {"profiles", "cutScores"}
    /\ boot' = [boot EXCEPT ![p] = [pc |-> After(@.pc), empty |-> FALSE]]
    /\ \/ UNCHANGED defaults
       \/ boot[p].empty /\ defaults' = [defaults EXCEPT ![boot[p].pc] = @ + 1]
    /\ UNCHANGED <<dataVars, claimVars, run, together>>

Restart(p) ==
    /\ boot[p].pc # "start"
    /\ boot' = [boot EXCEPT ![p] = [pc |-> "start", empty |-> FALSE]]
    /\ UNCHANGED <<dataVars, claimVars, run, defaults, together>>

SeedingNext ==
    \/ \E r \in Run :
        \/ \E script \in {"seed", "seed:e2e", "backfill"} : Start(r, script)
        \/ Upsert(r) \/ Break(r)
    \/ Claim
    \/ \E key \in {"1.0.0", "e2e-v1"} : Retire(key)
    \/ \E p \in Process : CountRows(p) \/ CreateMany(p) \/ Restart(p)

SeedingSpec == SeedingInit /\ [][SeedingNext]_seedingVars

-----------------------------------------------------------------------------
\* What a script is there for: each of its exams with a published version,
\* its items and the versions a result is computed with.
Governed(r, e) ==
    \E key \in {"1.0.0", "e2e-v1"} :
        /\ There("assessmentVersion", e, key)
        /\ \A i \in 1..Items : run[r].script # "backfill" => There("link", e, <<key, i>>)
        /\ \A table \in {"scoringVersion", "templateVersion"} :
            There(table, e, IF run[r].script = "backfill" THEN "legacy-current" ELSE key)

(***************************************************************************)
(* A script that ends well has left nothing out, whatever earlier runs     *)
(* left half done, whatever ran next to it and whatever was retired: the   *)
(* questions the backfill has read are linked, too.                        *)
(***************************************************************************)
CompleteWhenDone ==
    \A r \in Run : run[r].ended = "well" =>
        /\ \A e \in run[r].exams : Governed(r, e)
        /\ run[r].questions => \A i \in 1..Items : There("link", "demo", <<"1.0.0", i>>)

(***************************************************************************)
(* The seeded invitation never leads to an attempt without its items, even *)
(* when it is claimed while scripts run or after one has died, unless the  *)
(* seed was started again or its version retired: then the empty version   *)
(* 1.0.0 the backfill makes of the exam may be the latest.                 *)
(***************************************************************************)
SeededClaimIsWhole ==
    attempt = Nothing \/ examAfter \/ ~PublishedAs("e2e-v1") \/ attempt.items = 1..Items

(***************************************************************************)
(* Seeding again never takes the attempt of a claimed invitation away:     *)
(* although the script would reset the invitation, it never gets there.    *)
(***************************************************************************)
ClaimSurvives == [][attempt # Nothing => attempt' = attempt /\ invitation' = invitation]_seedingVars

(***************************************************************************)
(* Unless two processes count at the same time, every default profile and  *)
(* every cut score is created at most once, however often processes start. *)
(***************************************************************************)
DefaultsOnce == together \/ (defaults.profiles <= 1 /\ defaults.cutScores <= 1)
=============================================================================
