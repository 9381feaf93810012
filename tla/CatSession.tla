----------------------------- MODULE CatSession -----------------------------
(***************************************************************************)
(* One session of an adaptive test (cat.service.ts) and the selection of   *)
(* its items (ItemSelector).                                               *)
(*                                                                         *)
(* A request reads the session and its responses, records the response,    *)
(* and then ends the session or moves it to the next item: three           *)
(* statements and no transaction.  Ability and standard error are          *)
(* abstracted to whether the error has reached config.stoppingSe.          *)
(***************************************************************************)
EXTENDS ItemSelector, Sequences

CONSTANTS
    MinItems, MaxItems, \* config
    NoItem,             \* currentItemId is null
    MaxEligible,        \* bound of the model on tries before RequestItem
    MaxRows,            \* bound of the model on the responses recorded in
                        \* time, with and without exposure control
    MaxFailures         \* bound of the model on requests that fail

ASSUME SessionAssumption ==
    /\ MinItems \in Nat /\ MaxItems \in Nat
    /\ NoItem \notin Item

VARIABLES
    status,     \* of the session, "NONE" before it exists
    current,    \* currentItemId
    rows,       \* cat_responses, in the order they were written
    total,      \* itemsAdministered
    late,       \* config.maxTimeSeconds have passed
    request,    \* what each request has read and decided
    overlapped, \* history: two responses were processed at the same time
    failures    \* history: requests that failed

sessionVars == <<status, current, rows, total, late, request, overlapped, failures>>
vars == <<selectorVars, sessionVars>>

-----------------------------------------------------------------------------
Ended == {"COMPLETED", "TERMINATED_BY_TIME"}

Row == [item : Item, position : Nat, rapid : BOOLEAN, precise : BOOLEAN]

\* A response in progress: the row it writes, the valid responses including
\* it and the items not to give again; then how it ends the session.
Responding ==
    [op : {"record", "decide"}, row : Row, valid : Nat, given : SUBSET Item]
        \cup [op : {"finish"}, total : Nat, outcome : Ended]
        \cup [op : {"next"}]

Selection == [op : {"start", "legacy"}]

ASSUME RequestAssumption == Idle \notin Responding

Init ==
    /\ SelectorInit
    /\ status = "NONE"
    /\ current = NoItem
    /\ rows = <<>>
    /\ total = 0
    /\ late = FALSE
    /\ request = [c \in Caller |-> Idle]
    /\ overlapped = FALSE
    /\ failures = 0

Does(c, op) == request[c] # Idle /\ request[c].op = op

ResponseInProgress(c) == request[c] # Idle /\ request[c].op \notin {"start", "legacy"}

-----------------------------------------------------------------------------
\* startSession: the first item is selected before the session is created.
RequestStart(c) ==
    /\ status = "NONE"
    /\ request[c] = Idle
    /\ \A d \in Caller : ~Does(d, "start")
    /\ request' = [request EXCEPT ![c] = [op |-> "start"]]
    /\ BeginSelection(c, {})
    /\ UNCHANGED <<status, current, rows, total, late, overlapped, failures>>

CreateSession(c) ==
    /\ Does(c, "start")
    /\ TakeItem(c)
    /\ status' = "IN_PROGRESS"
    /\ current' = selection[c].item
    /\ request' = [request EXCEPT ![c] = Idle]
    /\ UNCHANGED <<rows, total, late, overlapped, failures>>

\* selectNextItem of CatService, for a client that keeps its own answers.
\* Without exposure control it changes nothing and is left out.
RequestItem(c) ==
    /\ exposureControl
    /\ request[c] = Idle
    /\ \A i \in Item : exposure[i].eligible < MaxEligible
    /\ \E answered \in SUBSET Item : BeginSelection(c, answered)
    /\ request' = [request EXCEPT ![c] = [op |-> "legacy"]]
    /\ UNCHANGED <<status, current, rows, total, late, overlapped, failures>>

ReturnItem(c) ==
    /\ Does(c, "legacy")
    /\ TakeItem(c)
    /\ request' = [request EXCEPT ![c] = Idle]
    /\ UNCHANGED <<status, current, rows, total, late, overlapped, failures>>

Valid(responses) == Cardinality({n \in DOMAIN responses : ~responses[n].rapid})

\* Whether the estimate of the last response by position was precise; ties
\* may come in any order.
LastPrecise ==
    IF rows = <<>> THEN {FALSE}
    ELSE {rows[n].precise : n \in {m \in DOMAIN rows :
            \A k \in DOMAIN rows : rows[k].position <= rows[m].position}}

\* Mutant: rapid guesses have no position.
ValidPosition == Valid(rows) + 1

NextPosition == Len(rows) + 1

\* processResponse reads the session; only the current item is accepted.  A
\* rapid guess keeps the estimate.
ReadSession(c, rapid) ==
    /\ status = "IN_PROGRESS"
    /\ request[c] = Idle
    /\ current # NoItem
    /\ Len(rows) < MaxRows[exposureControl] \/ late
    /\ \E precise \in IF rapid THEN LastPrecise ELSE BOOLEAN :
        request' = [request EXCEPT ![c] =
            [op |-> "record",
             row |-> [item |-> current, position |-> NextPosition,
                      rapid |-> rapid, precise |-> precise],
             valid |-> Valid(rows) + (IF rapid THEN 0 ELSE 1),
             given |-> {rows[n].item : n \in DOMAIN rows} \cup {current}]]
    /\ overlapped' = (overlapped \/ \E d \in Caller : ResponseInProgress(d))
    /\ UNCHANGED <<selectorVars, status, current, rows, total, late, failures>>

RecordResponse(c) ==
    /\ Does(c, "record")
    /\ rows' = Append(rows, request[c].row)
    /\ request' = [request EXCEPT ![c].op = "decide"]
    /\ UNCHANGED <<selectorVars, status, current, total, late, overlapped, failures>>

\* The criteria, on the responses the request read.
Stops(r) ==
    \/ r.valid >= MaxItems
    \/ r.valid >= MinItems /\ r.row.precise
    \/ late

DecideToStop(c) ==
    /\ Does(c, "decide")
    /\ Stops(request[c])
    /\ request' = [request EXCEPT ![c] =
            [op |-> "finish", total |-> request[c].row.position,
             outcome |-> IF late THEN "TERMINATED_BY_TIME" ELSE "COMPLETED"]]
    /\ UNCHANGED <<selectorVars, status, current, rows, total, late, overlapped, failures>>

FinishSession(c) ==
    /\ Does(c, "finish")
    /\ status' = request[c].outcome
    /\ current' = NoItem
    /\ total' = request[c].total
    /\ request' = [request EXCEPT ![c] = Idle]
    /\ UNCHANGED <<selectorVars, rows, late, overlapped, failures>>

DecideToGoOn(c) ==
    /\ Does(c, "decide")
    /\ ~Stops(request[c])
    /\ BeginSelection(c, request[c].given)
    /\ request' = [request EXCEPT ![c] = [op |-> "next"]]
    /\ UNCHANGED <<status, current, rows, total, late, overlapped, failures>>

\* Mutant: an exhausted bank leaves the session without a current item.
ExhaustedWithoutItem(c) ==
    /\ Does(c, "decide")
    /\ ~Stops(request[c])
    /\ NotGiven(request[c].given) = {}
    /\ request' = [request EXCEPT ![c] = Idle]
    /\ current' = NoItem
    /\ failures' = failures + 1
    /\ UNCHANGED <<selectorVars, status, rows, total, late, overlapped>>

\* The bank has no other item: the response stays recorded, the request is
\* answered 404 and the current item stays.
BankExhausted(c) ==
    /\ Does(c, "decide")
    /\ ~Stops(request[c])
    /\ NotGiven(request[c].given) = {}
    /\ request' = [request EXCEPT ![c] = Idle]
    /\ failures' = failures + 1
    /\ UNCHANGED <<selectorVars, status, current, rows, total, late, overlapped>>

NextItem(c) ==
    /\ Does(c, "next")
    /\ TakeItem(c)
    /\ current' = selection[c].item
    /\ request' = [request EXCEPT ![c] = Idle]
    /\ UNCHANGED <<status, rows, total, late, overlapped, failures>>

\* A statement of the request fails; what it has written stays.
Fail(c) ==
    /\ request[c] # Idle
    /\ failures < MaxFailures
    /\ failures' = failures + 1
    /\ AbortSelection(c)
    /\ request' = [request EXCEPT ![c] = Idle]
    /\ UNCHANGED <<status, current, rows, total, late, overlapped>>

TimeUp ==
    /\ status = "IN_PROGRESS"
    /\ ~late
    /\ late' = TRUE
    /\ UNCHANGED <<selectorVars, status, current, rows, total, request, overlapped, failures>>

Select(c) ==
    /\ request[c] # Idle
    /\ SelectorStep(c)
    /\ UNCHANGED sessionVars

\* What a request does once it has been read.
Proceed(c) ==
    \/ RecordResponse(c)
    \/ DecideToStop(c)
    \/ FinishSession(c)
    \/ DecideToGoOn(c)
    \/ BankExhausted(c)
    \/ NextItem(c)
    \/ CreateSession(c)
    \/ ReturnItem(c)
    \/ Select(c)

Respond(c) == \E rapid \in BOOLEAN : ReadSession(c, rapid)

Next ==
    \/ TimeUp
    \/ \E c \in Caller :
        \/ RequestStart(c)
        \/ RequestItem(c)
        \/ Respond(c)
        \/ Proceed(c)
        \/ Fail(c)

Spec == Init /\ [][Next]_vars

CandidateResponds == \E c \in Caller : Respond(c)

\* Requests get their turn, time passes, and the candidate goes on answering.
FairSpec ==
    /\ Spec
    /\ WF_vars(TimeUp)
    /\ WF_vars(CandidateResponds)
    /\ \A c \in Caller : WF_vars(Proceed(c))

-----------------------------------------------------------------------------
SessionTypeOK ==
    /\ status \in Ended \cup {"NONE", "IN_PROGRESS"}
    /\ current \in Item \cup {NoItem}
    /\ rows \in Seq(Row)
    /\ total \in Nat
    /\ late \in BOOLEAN
    /\ request \in [Caller -> Responding \cup Selection \cup {Idle}]
    /\ overlapped \in BOOLEAN
    /\ failures \in Nat

\* Type correctness, and a session in progress always has a current item.
TypeOK ==
    /\ SelectorTypeOK
    /\ SessionTypeOK
    /\ status = "IN_PROGRESS" => current \in Item

\* While responses come one at a time, also with failures between the
\* statements of one: positions count the responses, a session that ended has
\* no current item and itemsAdministered counts them all.
\* (processResponse, cat.service.ts)
CountedWhenAlone ==
    ~overlapped =>
        /\ \A n \in DOMAIN rows : rows[n].position = n
        /\ status \in Ended => current = NoItem /\ total = Len(rows)

\* One response at a time, at the place in the session that it read.
OneAtATime ==
    ~overlapped =>
        /\ \A c, d \in Caller :
            ResponseInProgress(c) /\ ResponseInProgress(d) => c = d
        /\ \A c \in Caller :
            /\ Does(c, "record") => request[c].row.position = Len(rows) + 1
            /\ Does(c, "decide") => request[c].row.position = Len(rows)
            /\ Does(c, "finish") => request[c].total = Len(rows)
            /\ ResponseInProgress(c) => status \notin Ended

\* The inductive invariant of the session.
SessionInv == TypeOK /\ CountedWhenAlone /\ OneAtATime

\* And while no request fails either, no item is answered twice and no more
\* than MaxItems valid responses are recorded.  A failure, also the 404 of an
\* exhausted bank, leaves the item current and its response recorded.
NoItemTwiceUndisturbed ==
    (~overlapped /\ failures = 0) =>
        /\ \A n, m \in DOMAIN rows : rows[n].item = rows[m].item => n = m
        /\ Valid(rows) <= MaxItems

\* A session with a time limit ends for a candidate who goes on answering:
\* with rapid guesses only, after failures and with the bank exhausted.
SessionEnds == status = "IN_PROGRESS" ~> status \in Ended
=============================================================================
