---------------------------- MODULE TestBuilder ----------------------------
(***************************************************************************)
(* The pages that edit the versions of assessments: the test builder       *)
(* (staff/admin/test-builder/page.tsx), the detail page of a version and   *)
(* the console that lists them (staff/psychometrics), with what they call  *)
(* of editorial-console.service.ts and psychometric-versioning.service.ts. *)
(*                                                                         *)
(* A page keeps what it has loaded and sends whole blueprints and whole    *)
(* lists of items built from that.  A blueprint is the set of the edits    *)
(* that are in it; versions and assessments are numbered as they are made. *)
(***************************************************************************)
EXTENDS Integers, Sequences, FiniteSetsExt

CONSTANTS
    MaxVersions, MaxEdits, MaxItems,    \* bounds
    Slot,           \* requests the builder may have under way: 1, 2, ...
    Stray,          \* posts that nobody waits for any more: -2, -3, ...
    Unset

\* The requests of the other two pages are numbered 0 and -1.
ASSUME SlotAssumption == Slot \subseteq Nat \ {0} /\ Stray \subseteq {n \in Int : n < -1}

VARIABLES
    version,        \* the versions: their status, edits and items
    assessments,    \* number of assessments
    items,          \* number of item versions; the first is the bank's own
    edits,          \* number of edits made
    page,           \* the state of the test builder
    sheet,          \* the state of the detail page
    listed,         \* the versions the console lists, with their status
    call,           \* requests under way; 0 is the detail page's, -1 the console's
    overlapped,     \* history: the builder had two requests under way at once
    savers,         \* history: the pages that have saved a blueprint
    outrun,         \* history: one was sent while the handler of a stray one ran
    acknowledged    \* history: the edits a page was told are saved, with their version

serverVars == <<version, assessments, items>>
saverVars == <<savers, outrun>>
historyVars == <<saverVars, acknowledged>>
builderVars == <<serverVars, edits, page, sheet, listed, call, overlapped, historyVars>>

Made == DOMAIN version

Editable == {"DRAFT", "INTERNAL_REVIEW"}

EDITORIAL_TRANSITIONS ==
    [DRAFT |-> {"INTERNAL_REVIEW", "RETIRED"},
     INTERNAL_REVIEW |-> {"PSYCHOLOGIST_REVIEW", "DRAFT", "RETIRED"},
     PSYCHOLOGIST_REVIEW |-> {"APPROVED", "DRAFT", "RETIRED"},
     APPROVED |-> {"PUBLISHED", "RETIRED"},
     PUBLISHED |-> {"RETIRED"},
     RETIRED |-> {}]

-----------------------------------------------------------------------------
\* Requests: a post with what it sends (a blueprint, items or a status), a
\* load of the lists followed by one of a version, or of a version alone.
Idle == [at |-> "idle"]
Failed == [ok |-> FALSE]

Post(kind, v, what) ==
    [at |-> "post", stage |-> "sent", kind |-> kind, v |-> v, what |-> what, answer |-> Failed]

\* busy: the load ends a call that has disabled the buttons.
Load(at, v, busy) == [at |-> at, stage |-> "sent", v |-> v, busy |-> busy, answer |-> Failed]

Answered(r, answer) == [r EXCEPT !.stage = "answered", !.answer = answer]

UnderWay(r) == r.at = "post" /\ r.stage # "answered"

\* A version as createAssessmentVersion makes it.
NewVersion(a, e) == [assessment |-> a, status |-> "DRAFT", edits |-> e, items |-> {}]

\* The builder as it is mounted, and its first request.
NewPage == [assessment |-> Unset, selected |-> Unset, known |-> {}, assessments |-> 0,
            detail |-> Unset, ids |-> {}, busy |-> FALSE, loading |-> TRUE]

FirstCall(s) == IF s = 1 THEN Load("list", Unset, FALSE) ELSE Idle

BuilderInit ==
    /\ version = << [NewVersion(1, {}) EXCEPT !.status = "PUBLISHED", !.items = {1}], NewVersion(1, {}) >>
    /\ assessments = 1 /\ items = 1 /\ edits = 0
    /\ page = NewPage
    /\ sheet = [detail |-> Unset, draft |-> {}, ids |-> {}]
    /\ listed = <<>>
    /\ call = [s \in {-1, 0} \cup Slot \cup Stray |-> FirstCall(s)]
    /\ overlapped = FALSE
    /\ savers = {} /\ outrun = FALSE
    /\ acknowledged = {}

-----------------------------------------------------------------------------
\* The server.  A version is ready when it has items and all of them are
\* active in the bank, which the items the console creates never become.
Ready(v) == version[v].items = {1}

Accepts(r) ==
    CASE r.kind \in {"blueprint", "items"} -> version[r.v].status \in Editable
      [] r.kind = "workflow" -> /\ r.what \in EDITORIAL_TRANSITIONS[version[r.v].status]
                                /\ r.what = "PUBLISHED" => Ready(r.v)
      [] r.kind = "clone" -> version[r.v].status = "PUBLISHED"
      [] OTHER -> TRUE

\* The database refuses an update of a published version, but to retire it,
\* and the publication of one that is not approved.
Allowed(r) ==
    CASE r.kind = "blueprint" -> version[r.v].status # "PUBLISHED"
      [] r.kind = "workflow" -> IF version[r.v].status = "PUBLISHED" THEN r.what = "RETIRED"
                                ELSE r.what = "PUBLISHED" => version[r.v].status = "APPROVED"
      [] OTHER -> TRUE

\* createNewVersionFromPublished; the items are not copied.
Cloned(v) == NewVersion(version[v].assessment, version[v].edits)

\* The writes, by id.
Written(r) ==
    CASE r.kind = "blueprint" -> [version EXCEPT ![r.v].edits = r.what]
      [] r.kind = "items" -> [version EXCEPT ![r.v].items = {i[1] : i \in r.what}]
      [] r.kind = "workflow" -> [version EXCEPT ![r.v].status = r.what]
      [] r.kind = "clone" -> Append(version, Cloned(r.v))
      [] r.kind = "assessment" -> Append(version, NewVersion(r.what, {}))
      [] r.kind \in {"item", "copy"} -> version

\* createAssessment and createItem: a row, and its first version later.
AssessmentsAfter(r) == IF r.kind = "assessment" THEN assessments + 1 ELSE assessments

ItemsAfter(r) == IF r.kind \in {"item", "copy"} THEN items + 1 ELSE items

\* What a post comes to; nobody hears of a stray one.
Settled(s, answer) == IF s \in Stray THEN Idle ELSE Answered(call[s], answer)

\* The status is read; an assessment comes before its first version, and
\* stays without one when the request ends there.
Check(s) ==
    LET r == call[s]
    IN
    /\ r.at = "post" /\ r.stage = "sent"
    /\ call' = [call EXCEPT ![s] =
         IF ~Accepts(r) THEN Settled(s, Failed)
         ELSE [r EXCEPT !.stage = "checked", !.what = IF r.kind = "assessment" THEN assessments + 1 ELSE @]]
    /\ assessments' = AssessmentsAfter(r)
    /\ UNCHANGED <<version, items, edits, page, sheet, listed, overlapped, historyVars>>

Write(s) ==
    LET r == call[s]
        new == IF ItemsAfter(r) > items THEN items + 1 ELSE Len(version) + 1
    IN
    /\ r.at = "post" /\ r.stage = "checked"
    /\ \/ /\ Allowed(r)
          /\ version' = Written(r)
          /\ items' = ItemsAfter(r)
          /\ call' = [call EXCEPT ![s] = Settled(s, [ok |-> TRUE, new |-> new])]
       \/ /\ ~Allowed(r)
          /\ call' = [call EXCEPT ![s] = Settled(s, Failed)]
          /\ UNCHANGED <<version, items>>
    /\ UNCHANGED <<assessments, edits, page, sheet, listed, overlapped, historyVars>>

\* listAssessments and getAssessmentVersionDetail.
Listing ==
    [ok |-> TRUE, known |-> [v \in Made |-> version[v].status], assessments |-> assessments]

Detail(v) ==
    [ok |-> TRUE, id |-> v, status |-> version[v].status, edits |-> version[v].edits, items |-> version[v].items]

Read(s) ==
    LET r == call[s]
    IN
    /\ r.at \in {"list", "detail"} /\ r.stage = "sent"
    /\ call' = [call EXCEPT ![s] = Answered(r, IF r.at = "list" THEN Listing ELSE Detail(r.v))]
    /\ UNCHANGED <<serverVars, edits, page, sheet, listed, overlapped, historyVars>>

\* The request or its answer is lost or its handler dies; or the handler goes
\* on, for a page that no longer waits.
LoseAnswer(s) ==
    /\ s \notin Stray
    /\ call[s].at # "idle"
    /\ call[s].stage = "answered" => call[s].answer.ok
    /\ \/ call' = [call EXCEPT ![s] = Answered(@, Failed)]
       \/ /\ UnderWay(call[s])
          /\ \E g \in Stray : /\ call[g].at = "idle"
                             /\ call' = [call EXCEPT ![s] = Answered(@, Failed), ![g] = call[s]]
    /\ UNCHANGED <<serverVars, edits, page, sheet, listed, overlapped, historyVars>>

\* A page may be left, loaded or opened again at any time.  A post that is
\* under way then loses its answer first (LoseAnswer), a load is forgotten.
MayLeave(s) == ~UnderWay(call[s])

-----------------------------------------------------------------------------
OpenBuilder ==
    /\ \A s \in Slot : MayLeave(s)
    /\ page' = NewPage
    /\ call' = [s \in DOMAIN call |-> IF s \in Slot THEN FirstCall(s) ELSE call[s]]
    /\ UNCHANGED <<serverVars, edits, sheet, listed, overlapped, historyVars>>

\* What the two selects of the builder show: the chosen ones as far as the
\* lists have them, else the first, which is the latest.
ShownAssessment(p) == IF p.assessment \in 1..p.assessments THEN p.assessment ELSE p.assessments

VersionsOf(p) == {v \in p.known : version[v].assessment = ShownAssessment(p)}

ShownVersion(p) ==
    IF p.selected \in VersionsOf(p) THEN p.selected
    ELSE IF VersionsOf(p) = {} THEN Unset ELSE Max(VersionsOf(p))

HasFreeSlot(c) == \E s \in Slot : c[s].at = "idle"

FreeSlot(c) == CHOOSE s \in Slot : c[s].at = "idle"

Spawn(c, v) == IF v = Unset THEN c ELSE [c EXCEPT ![FreeSlot(c)] = Load("detail", v, FALSE)]

Overlap ==
    overlapped' = (overlapped \/ \E s, t \in Slot : s # t /\ "idle" \notin {call'[s].at, call'[t].at})

\* The page renders p, and its effects run until they change no more: a
\* version that was selected is loaded, and so is the one shown instead.
Render(p, c) ==
    LET shown == ShownVersion(p)
        first == IF p.selected # page.selected THEN p.selected ELSE Unset
        second == IF shown # p.selected THEN shown ELSE Unset
    IN
    /\ first # Unset => HasFreeSlot(c)
    /\ second # Unset => HasFreeSlot(Spawn(c, first))
    /\ page' = [p EXCEPT !.selected = IF shown = Unset THEN @ ELSE shown,
                         !.assessment = IF @ = Unset /\ p.assessments > 0 THEN p.assessments ELSE @]
    /\ call' = Spawn(Spawn(c, first), second)
    /\ Overlap

\* An item comes from the version it was loaded with or ticked for.
Tagged(ids, v) == {<<i, v>> : i \in ids}

\* Mutant: the selection is left as it was.
DetailAlone(p, d) == [p EXCEPT !.detail = d]

\* setDetail and setSelectedItemVersionIds.
WithDetail(p, d) == [p EXCEPT !.detail = d, !.ids = Tagged(d.items, d.id)]

\* loadDetail ends, and with it the call it was part of.
DetailArrives(s) ==
    LET r == call[s]
        p == IF r.answer.ok THEN WithDetail(page, r.answer) ELSE [page EXCEPT !.detail = Unset]
    IN
    /\ r.at = "detail" /\ r.stage = "answered"
    /\ page' = [p EXCEPT !.busy = @ /\ ~r.busy]
    /\ call' = [call EXCEPT ![s] = Idle]
    /\ UNCHANGED <<serverVars, edits, sheet, listed, overlapped, historyVars>>

\* load ends, well or not; refreshAll goes on with the version it was given.
ListArrives(s) ==
    LET r == call[s]
        p == IF r.answer.ok THEN [page EXCEPT !.known = DOMAIN r.answer.known, !.assessments = r.answer.assessments]
             ELSE page
        next == IF r.v = Unset THEN Idle ELSE Load("detail", r.v, r.busy)
    IN
    /\ r.at = "list" /\ r.stage = "answered"
    /\ Render([p EXCEPT !.loading = FALSE, !.busy = @ /\ ~(r.busy /\ r.v = Unset)],
              [call EXCEPT ![s] = next])
    /\ UNCHANGED <<serverVars, edits, sheet, listed, historyVars>>

\* Mutant: a saved blueprint is not loaded again.
FollowLists(r) ==
    IF r.kind \in {"blueprint", "items"} THEN Idle
    ELSE Load("list", IF r.kind \in {"clone", "assessment"} THEN r.answer.new ELSE r.v, TRUE)

\* What a post that went well is followed by: the version, or everything.
Follow(r) ==
    IF r.kind \in {"blueprint", "items"} THEN Load("detail", r.v, TRUE)
    ELSE Load("list", IF r.kind \in {"clone", "assessment"} THEN r.answer.new ELSE r.v, TRUE)

Acknowledge(r) ==
    acknowledged' = acknowledged \cup (IF r.kind = "blueprint" /\ r.answer.ok THEN {r.v} \X r.what ELSE {})

\* A post is answered: a new item joins the selection, a new assessment or
\* version is selected.
PostArrives(s) ==
    LET r == call[s]
        p == [page EXCEPT !.loading = @ \/ Follow(r).at = "list"]
    IN
    /\ r.at = "post" /\ r.stage = "answered"
    /\ IF ~r.answer.ok THEN Render([page EXCEPT !.busy = FALSE], [call EXCEPT ![s] = Idle])
       ELSE Render(CASE r.kind = "item" -> [p EXCEPT !.ids = @ \cup Tagged({r.answer.new}, r.what)]
                     [] r.kind = "clone" -> [p EXCEPT !.selected = r.answer.new]
                     [] r.kind = "assessment" -> [p EXCEPT !.assessment = r.what, !.selected = r.answer.new]
                     [] OTHER -> p,
                   [call EXCEPT ![s] = Follow(r)])
    /\ Acknowledge(r)
    /\ UNCHANGED <<serverVars, edits, sheet, listed, saverVars>>

-----------------------------------------------------------------------------
\* The selects are always there; the sections are not while the lists load.
Choose(v) ==
    /\ v \in VersionsOf(page)
    /\ v # page.selected
    /\ Render([page EXCEPT !.selected = v], call)
    /\ UNCHANGED <<serverVars, edits, sheet, listed, historyVars>>

ChooseAssessment(a) ==
    /\ a \in 1..page.assessments
    /\ a # ShownAssessment(page)
    /\ Render([page EXCEPT !.assessment = a, !.selected = Unset], call)
    /\ UNCHANGED <<serverVars, edits, sheet, listed, historyVars>>

Shown == page.detail # Unset /\ ~page.loading

\* The forms of the sections ask for an editable version, the one that
\* copies a version for a published one.
CanEdit == Shown /\ page.detail.status \in Editable

CanClone == ~page.busy /\ Shown /\ page.detail.status = "PUBLISHED"

TickBox(i) ==
    /\ CanEdit
    /\ page' = [page EXCEPT !.ids = IF \E v \in Made : <<i, v>> \in @ THEN {x \in @ : x[1] # i}
                                    ELSE @ \cup Tagged({i}, page.detail.id)]
    /\ UNCHANGED <<serverVars, edits, sheet, listed, call, overlapped, historyVars>>

Send(r) ==
    /\ HasFreeSlot(call)
    /\ page' = [page EXCEPT !.busy = TRUE]
    /\ call' = [call EXCEPT ![FreeSlot(call)] = r]
    /\ Overlap
    /\ UNCHANGED <<serverVars, sheet, listed>>

\* A page sends a blueprint.
Saves(who) ==
    /\ savers' = savers \cup {who}
    /\ outrun' = (outrun \/ \E g \in Stray : call[g].at = "post" /\ call[g].kind = "blueprint")

\* saveFactor, toggleNode, onDrop, ...: the loaded blueprint, changed.
Edited == page.detail.edits \cup {edits + 1}

\* updateBlueprint, from a form that no request under way disables.
SaveBlueprint ==
    /\ CanEdit
    /\ edits < MaxEdits
    /\ edits' = edits + 1
    /\ Send(Post("blueprint", page.detail.id, Edited))
    /\ Saves("builder")
    /\ UNCHANGED acknowledged

\* persistItemOrder, by its button or, busy or not, by a drop.
PersistItemOrder ==
    /\ CanEdit
    /\ Send(Post("items", page.detail.id, page.ids))
    /\ UNCHANGED <<edits, historyVars>>

\* createItem, whose form busy disables, and duplicateItem; both refresh
\* the version that was selected when they began.
CreateItem(kind) ==
    /\ CanEdit
    /\ items < MaxItems
    /\ kind = "item" => ~page.busy
    /\ Send(Post(kind, page.selected, page.detail.id))
    /\ UNCHANGED <<edits, historyVars>>

CreateAssessment ==
    /\ ~page.busy /\ ~page.loading
    /\ Len(version) < MaxVersions
    /\ Send(Post("assessment", Unset, Unset))
    /\ UNCHANGED <<edits, historyVars>>

CloneVersion ==
    /\ CanClone
    /\ Len(version) < MaxVersions
    /\ Send(Post("clone", page.detail.id, Unset))
    /\ UNCHANGED <<edits, historyVars>>

Workflow(to) ==
    /\ ~page.busy /\ Shown
    /\ to = "PUBLISHED" => page.detail.items = {1}
    /\ Send(Post("workflow", page.detail.id, to))
    /\ UNCHANGED <<edits, historyVars>>

-----------------------------------------------------------------------------
\* The detail page: one request at a time, and nothing to press while it
\* loads.  When its load fails what it shows stays.
SheetIdle == call[0].at = "idle"

OpenSheet(v) ==
    /\ MayLeave(0)
    /\ v \in Made
    /\ sheet' = [detail |-> Unset, draft |-> {}, ids |-> {}]
    /\ call' = [call EXCEPT ![0] = Load("detail", v, TRUE)]
    /\ UNCHANGED <<serverVars, edits, page, listed, overlapped, historyVars>>

SheetArrives ==
    LET r == call[0]
    IN
    /\ ~SheetIdle /\ r.stage = "answered"
    /\ call' = [call EXCEPT ![0] = IF r.at = "post" /\ r.answer.ok THEN Load("detail", r.v, TRUE) ELSE Idle]
    /\ sheet' = IF r.at = "detail" /\ r.answer.ok
                THEN [detail |-> r.answer, draft |-> r.answer.edits, ids |-> Tagged(r.answer.items, r.v)] ELSE sheet
    /\ IF r.at = "post" THEN Acknowledge(r) ELSE UNCHANGED acknowledged
    /\ UNCHANGED <<serverVars, edits, page, listed, overlapped, saverVars>>

SheetSends(r) ==
    /\ SheetIdle
    /\ call' = [call EXCEPT ![0] = r]
    /\ UNCHANGED <<serverVars, page, listed, overlapped, acknowledged>>

SheetEditable == sheet.detail # Unset /\ sheet.detail.status \in Editable

\* The items of the sheet with one ticked, or no longer.
Toggled(i) == SymDiff(sheet.ids, Tagged({i}, sheet.detail.id))

\* saveDraft sends the text as it stands, saveItemLinks the items ticked.
SaveDraft ==
    /\ SheetEditable
    /\ edits < MaxEdits
    /\ edits' = edits + 1
    /\ sheet' = [sheet EXCEPT !.draft = @ \cup {edits + 1}]
    /\ SheetSends(Post("blueprint", sheet.detail.id, sheet'.draft))
    /\ Saves("sheet")

SaveItemLinks(i) ==
    /\ SheetEditable
    /\ sheet' = [sheet EXCEPT !.ids = Toggled(i)]
    /\ SheetSends(Post("items", sheet.detail.id, sheet'.ids))
    /\ UNCHANGED <<edits, saverVars>>

RunAction(to) ==
    /\ sheet.detail # Unset
    /\ SheetSends(Post("workflow", sheet.detail.id, to))
    /\ UNCHANGED <<edits, sheet, saverVars>>

-----------------------------------------------------------------------------
\* The console and the bank of items: one request at a time, then the lists.
ConsoleSends(r) ==
    /\ call[-1].at = "idle"
    /\ call' = [call EXCEPT ![-1] = r]
    /\ UNCHANGED <<serverVars, edits, page, sheet, listed, overlapped, historyVars>>

\* The buttons of a listed version.
ActionsFor(v) ==
    {Post("workflow", v, to) : to \in DOMAIN EDITORIAL_TRANSITIONS}
    \cup {Post("clone", x, Unset) : x \in {v} \cap {y \in DOMAIN listed : listed[y] = "PUBLISHED"}}

OpenConsole ==
    /\ MayLeave(-1)
    /\ listed' = <<>>
    /\ call' = [call EXCEPT ![-1] = Load("list", Unset, TRUE)]
    /\ UNCHANGED <<serverVars, edits, page, sheet, overlapped, historyVars>>

\* runWorkflowAction and createVersionFromPublished.
ActOnListed(v) ==
    \E r \in ActionsFor(v) : (r.kind = "clone" => Len(version) < MaxVersions) /\ ConsoleSends(r)

ConsoleCreatesAssessment == Len(version) < MaxVersions /\ ConsoleSends(Post("assessment", Unset, Unset))

\* createItem of the item bank.
BankCreatesItem == items < MaxItems /\ ConsoleSends(Post("copy", Unset, Unset))

\* loadData ends, well or not.
ConsoleArrives ==
    LET r == call[-1]
    IN
    /\ r.at # "idle" /\ r.stage = "answered"
    /\ listed' = IF r.at = "list" /\ r.answer.ok THEN r.answer.known ELSE listed
    /\ call' = [call EXCEPT ![-1] = IF r.at = "post" /\ r.answer.ok THEN Load("list", Unset, TRUE) ELSE Idle]
    /\ UNCHANGED <<serverVars, edits, page, sheet, overlapped, historyVars>>

BuilderStep ==
    \/ OpenBuilder
    \/ \E v \in Made : Choose(v)
    \/ \E a \in 1..assessments : ChooseAssessment(a)
    \/ \E i \in 1..items : TickBox(i)
    \/ SaveBlueprint \/ PersistItemOrder \/ CreateAssessment \/ CloneVersion
    \/ \E kind \in {"item", "copy"} : CreateItem(kind)
    \/ \E to \in DOMAIN EDITORIAL_TRANSITIONS : Workflow(to)
    \/ \E s \in Slot : DetailArrives(s) \/ ListArrives(s) \/ PostArrives(s)

SheetStep ==
    \/ \E v \in Made : OpenSheet(v)
    \/ SheetArrives \/ SaveDraft
    \/ \E i \in 1..items : SaveItemLinks(i)
    \/ \E to \in DOMAIN EDITORIAL_TRANSITIONS : RunAction(to)

ConsoleStep ==
    \/ OpenConsole \/ ConsoleCreatesAssessment \/ BankCreatesItem \/ ConsoleArrives
    \/ \E v \in DOMAIN listed : ActOnListed(v)

BuilderNext ==
    \/ BuilderStep \/ SheetStep \/ ConsoleStep
    \/ \E s \in DOMAIN call : Check(s) \/ Write(s) \/ Read(s) \/ LoseAnswer(s)

BuilderSpec == BuilderInit /\ [][BuilderNext]_builderVars

-----------------------------------------------------------------------------
(***************************************************************************)
(* An edit the page was told is saved stays in its version, through every  *)
(* failure, lost answer, load and page left, also while the handler of a   *)
(* post that lost its answer goes on: one page has made all the edits, the *)
(* builder had one request under way at a time, and no blueprint was sent  *)
(* while such a handler still had one to write.                            *)
(***************************************************************************)
NoLostEdit ==
    overlapped \/ outrun \/ savers = {"builder", "sheet"}
    \/ \A x \in acknowledged : x[2] \in version[x[1]].edits

(***************************************************************************)
(* The items the builder sends for a version were loaded with it or ticked *)
(* while it was shown, in whatever order loads are answered and versions   *)
(* selected.  Only a new item may stray, when its creation is answered     *)
(* while another version is shown.                                         *)
(***************************************************************************)
ItemsStayWithTheirVersion ==
    \A s \in Slot : call[s].at = "post" /\ call[s].kind = "items" =>
        \A x \in call[s].what : x[2] = call[s].v \/ (overlapped /\ x[1] # 1)
=============================================================================
