----------------------------- MODULE MCServices -----------------------------
(***************************************************************************)
(* Small instances of the components that share nothing the properties     *)
(* speak of: the scoring of an attempt, the calculation of results and its *)
(* tables, private files and their governance, the seeds and the defaults, *)
(* the staff pages and the entry to an exam.  A behaviour runs one of      *)
(* them, the others stay in their initial states.                          *)
(***************************************************************************)
EXTENDS AttemptScoring, ResultCalculation, DataGovernance, Seeding, TestBuilder, ExamEntry

CONSTANT MaxPosts   \* bound: requests the staff pages send that write

VARIABLES
    part,           \* the component that runs
    posts           \* requests of the staff pages so far

Parts == {"scoring", "results", "tables", "files", "governance", "scripts", "boot",
    "builder", "two pages", "console", "login", "exam"}

mcVars == <<part, posts, vars, input, calculationVars, privateDataVars, seedingVars, builderVars, entryVars>>

-----------------------------------------------------------------------------
\* One response earns the point of its question, any other nothing.
Right == CHOOSE r \in Response : TRUE
GradeRight == [q \in Question |-> [r \in Response |-> IF r = Right THEN 1 ELSE 0]]

\* The two tests with an alert, a profile, norms for all and for Mexico.
TwoTests == {"IT2_I", "IT2_AC10"}
Cognitive == [t \in TwoTests |-> IF t = "IT2_I" THEN 0 ELSE 40]
Profiles == {Cognitive}

FromMexico == [pais |-> "MX"]
General == [group |-> [pais |-> Unstated], sample |-> 300, percentile |-> 80]
Mexican == [group |-> [pais |-> "MX"], sample |-> 100, percentile |-> 10]
Norms == {General, Mexican}

\* Tenths of a logit; curves of seven points within them, steep, flat, uneven.
Abilities == -16 .. 16
Curves == {<<-15, -10, -5, 0, 5, 10, 15>>, <<-3, -2, -1, 0, 1, 2, 3>>, <<-14, -4, -3, 9, 12, 13, 15>>}

\* One post that nobody waits for.
OneStray == {-2}

\* Up to two quantiles, equal ones included.
SomeCuts == {<<>>} \cup {<<a>> : a \in Abilities}
    \cup {<<q[1], q[2]>> : q \in {r \in Abilities \X Abilities : r[1] <= r[2]}}

-----------------------------------------------------------------------------
MCInit ==
    /\ part \in Parts
    /\ posts = 0
    /\ Init
    /\ IF part = "tables" THEN TableRead ELSE input = NoInput
    /\ ResultsInit
    /\ IF part = "results" THEN \A t \in Test : norms[t] # {Mexican}
       ELSE answered = {} /\ norms = [t \in Test |-> {}]
    /\ GovernanceInit /\ SeedingInit /\ BuilderInit /\ EntryInit

\* Files with a full log and no request, or a request and one entry while
\* nothing fails.
GovernancePart ==
    /\ GovernanceNext
    /\ IF part = "files" THEN UNCHANGED governanceVars
       ELSE Len(logs') <= 1 /\ \A f \in File : upload'[f].pc # "failed" /\ lifecycle'[f] \in {None, "ACTIVE"}

\* Each process starts at its own time: its runs wait, or the first one runs.
FirstRun == CHOOSE r \in Run : TRUE

SeedingPart ==
    /\ SeedingNext
    /\ IF part = "scripts" THEN UNCHANGED bootVars
       ELSE \A r \in Run \ {FirstRun} : run'[r] = run[r]

Still(senders) == \A s \in senders : call'[s] = call[s]
SendsPost == \E s \in DOMAIN call \ Stray : call[s].at # "post" /\ call'[s].at = "post"

\* Blueprints are the posts whose handlers outlive them, and the next one
\* waits for the handler.
FewStrays == ~outrun' /\ \A g \in Stray : call'[g].at = "post" => call'[g].kind = "blueprint"

\* The test builder alone, where a new item comes before a second version or
\* a second request, and where edits do not count after an overlap; with the
\* detail page, where handlers go on after an answer is lost; and the other
\* two pages.
BuilderPart ==
    /\ BuilderNext
    /\ posts' = posts + (IF SendsPost THEN 1 ELSE 0)
    /\ posts' <= MaxPosts
    /\ CASE part = "builder" ->
               /\ Still({-1, 0} \cup Stray)
               /\ IF overlapped' THEN items' = 1 /\ edits' = 0 /\ assessments' = 1
                  ELSE items' = 1 \/ Len(version') = 2
         [] part = "two pages" -> Still({-1}) /\ FewStrays /\ ~overlapped' /\ Len(version') = 2 /\ items' = 1
         [] part = "console" -> UNCHANGED page /\ Still(Slot)

\* The login up to the exam page, or exams reached by the links of their
\* invitations, which do not expire; the codes are alike, and the first is
\* claimed first; the clock is set forward before anything else is loaded.
FirstCode == CHOOSE c \in Code : TRUE

EntryPart ==
    /\ EntryNext
    /\ IF part = "login" THEN UNCHANGED <<consent, saved>>
       ELSE /\ form'.typed = form'.link /\ \A c \in Code : invited'[c] # "EXPIRED"
            /\ \A c \in Code : form'.link = c => c = FirstCode \/ invited'[FirstCode] = "USED"
            /\ examPage'.drift >= 0
            /\ examPage'.drift > 0 => \A c \in Code \ {examPage'.of} : loads'[c] = 0

MCNext ==
    /\ UNCHANGED <<part, input>>
    /\ IF part = "scoring" THEN Next ELSE UNCHANGED vars
    /\ \/ /\ part = "scoring"
          /\ UNCHANGED <<posts, calculationVars, privateDataVars, seedingVars, builderVars, entryVars>>
       \/ /\ part = "results" /\ ResultsNext
          /\ UNCHANGED <<posts, privateDataVars, seedingVars, builderVars, entryVars>>
       \/ /\ part \in {"files", "governance"} /\ GovernancePart
          /\ UNCHANGED <<posts, calculationVars, seedingVars, builderVars, entryVars>>
       \/ /\ part \in {"scripts", "boot"} /\ SeedingPart
          /\ UNCHANGED <<posts, calculationVars, privateDataVars, builderVars, entryVars>>
       \/ /\ part \in {"builder", "two pages", "console"} /\ BuilderPart
          /\ UNCHANGED <<calculationVars, privateDataVars, seedingVars, entryVars>>
       \/ /\ part \in {"login", "exam"} /\ EntryPart
          /\ UNCHANGED <<posts, calculationVars, privateDataVars, seedingVars, builderVars>>

MCSpec == MCInit /\ [][MCNext]_mcVars
=============================================================================
