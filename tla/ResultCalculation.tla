-------------------------- MODULE ResultCalculation -------------------------
(***************************************************************************)
(* The results of one attempt: the rows of resultados_test, the index in   *)
(* resultados_globales and the trace of the versions they were made with.  *)
(*                                                                         *)
(* calcularIga (iga-calculator.service.ts) runs without a transaction, at  *)
(* the first look at the results (report.service.ts) or when staff asks    *)
(* for it with a profile; recalculateHistoricalScores                      *)
(* (psicometria.controller.ts) rewrites rows.  Abilities are abstracted to *)
(* the norm they are read with, so a row is its percentile and the         *)
(* versions of scoring model and norm group that calculated it.            *)
(***************************************************************************)
EXTENDS ResultRules

CONSTANTS
    Test,           \* tests, by which the submissions are grouped
    Caller,         \* requests
    Profile,        \* profiles: functions from Test to weights in percent
    NormRow,        \* rows of baremos_dinamicos the ability may fall in
    Stated,         \* what the candidate states of himself
    MaxChanges      \* bound of the model on changes of norms and versions

VARIABLES
    answered,       \* tests the attempt has submissions for
    norms,          \* of each test, the norm rows its ability falls in
    published,      \* number of the published scoring model version
    results,        \* resultados_test
    global,         \* resultados_globales
    trace,          \* governanceTrace of the rows and of the index
    request,        \* what each request has read and does next
    disturbances,   \* history: what came between a calculation and the rest
    changes         \* history: changes of norms and versions

attemptVars == <<answered, norms, published>>
resultVars == <<results, global, trace>>
disturbanceVars == <<disturbances, changes>>
calculationVars == <<attemptVars, resultVars, request, disturbanceVars>>

-----------------------------------------------------------------------------
NoRequest == [pc |-> "idle"]

\* Of versions; and the rows and the index that are not there.
NoVersion == -1
Unwritten == [version |-> NoVersion]

NoPercentiles == [t \in {} |-> 0]

ResultsInit ==
    /\ answered \in SUBSET Test
    /\ norms \in [Test -> SUBSET NormRow]
    /\ published = 0
    /\ results = [t \in Test |-> Unwritten]
    /\ global = Unwritten
    /\ trace = NoVersion
    /\ request = [c \in Caller |-> NoRequest]
    /\ disturbances = {}
    /\ changes = 0

InProgress == \E c \in Caller : request[c] # NoRequest

Started == global # Unwritten \/ InProgress \/ \E t \in Test : results[t] # Unwritten

\* The percentile the norms give now, if they give one.
NormPercentiles(t) == {n.percentile : n \in FoundNorm(norms[t], Stated)}

WithRow == {t \in Test : results[t] # Unwritten}

Disturb(what, when) == disturbances' = disturbances \cup (IF when THEN {what} ELSE {})

-----------------------------------------------------------------------------
\* The rest of the system: answers that come late, the nightly norms, a
\* publication.
Answer(t) ==
    /\ t \notin answered
    /\ answered' = answered \cup {t}
    /\ Disturb("answer", Started)
    /\ UNCHANGED <<norms, published, resultVars, request, changes>>

Change ==
    /\ changes < MaxChanges
    /\ changes' = changes + 1
    /\ \/ /\ norms' \in [Test -> SUBSET NormRow]
          /\ UNCHANGED published
       \/ /\ published' = published + 1
          /\ UNCHANGED norms
    /\ Disturb("change", Started)
    /\ UNCHANGED <<answered, resultVars, request>>

-----------------------------------------------------------------------------
\* getAttemptResultados, on an attempt without an index: with the first
\* profile.  It answers the rows it read before, none the first time.  On an
\* attempt with an index it changes nothing.
Look(c) ==
    /\ request[c] = NoRequest
    /\ global = Unwritten
    /\ request' = [request EXCEPT ![c] = [pc |-> "read", profile |-> CHOOSE p \in Profile : TRUE,
                                   version |-> published]]
    /\ Disturb("overlap", InProgress)
    /\ UNCHANGED <<attemptVars, resultVars, changes>>

\* recalcularIga, with a profile.
Recalculate(c, profile) ==
    /\ request[c] = NoRequest
    /\ request' = [request EXCEPT ![c] = [pc |-> "read", profile |-> profile, version |-> published]]
    /\ Disturb("overlap", InProgress)
    /\ UNCHANGED <<attemptVars, resultVars, changes>>

\* The rows there are, each with the percentile its norm gives by now; only
\* without any row are the submissions looked at.
ReadRows(c) ==
    /\ request[c].pc = "read"
    /\ LET percentile(t) == IF NormPercentiles(t) = {} THEN results[t].percentile
                            ELSE CHOOSE p \in NormPercentiles(t) : TRUE
       IN  request' = [request EXCEPT ![c] =
             [pc |-> "compute", profile |-> @.profile, version |-> @.version,
              percentiles |-> [t \in WithRow |-> percentile(t)],
              todo |-> IF WithRow = {} THEN answered ELSE {}]]
    /\ UNCHANGED <<attemptVars, resultVars, disturbanceVars>>

\* Mutant: the percentile is counted and the row is not made.
ComputeUnsaved(c, t) ==
    /\ request[c].pc = "compute"
    /\ t \in request[c].todo
    /\ results[t] = Unwritten
    /\ \E p \in NormPercentiles(t) :
        request' = [request EXCEPT ![c].percentiles = [u \in DOMAIN @ \cup {t} |-> IF u = t THEN p ELSE @[u]],
                             ![c].todo = @ \ {t}]
    /\ UNCHANGED <<attemptVars, resultVars, disturbanceVars>>

\* calcularTheta and calculatePersonFit, the norm, and the row, which is
\* unique: the create fails when another call has made it.
ComputeTest(c, t) ==
    /\ request[c].pc = "compute"
    /\ t \in request[c].todo
    /\ results[t] = Unwritten
    /\ \E p \in NormPercentiles(t) :
        /\ results' = [results EXCEPT ![t] = [percentile |-> p, version |-> request[c].version]]
        /\ request' = [request EXCEPT ![c].percentiles = [u \in DOMAIN @ \cup {t} |-> IF u = t THEN p ELSE @[u]],
                                      ![c].todo = @ \ {t}]
    /\ UNCHANGED <<attemptVars, global, trace, disturbanceVars>>

\* No parameters, no norm, no answers, a row that exists or a statement that
\* fails: the rows made so far stay.
FailCall(c) ==
    /\ request[c] # NoRequest
    /\ request' = [request EXCEPT ![c] = NoRequest]
    /\ Disturb("failure", TRUE)
    /\ UNCHANGED <<attemptVars, resultVars, changes>>

\* Mutant: the index of what is there already.
WriteGlobalEarly(c) ==
    /\ request[c].pc = "compute"
    /\ request[c].percentiles # NoPercentiles
    /\ LET weights == request[c].profile
           percentiles == request[c].percentiles
       IN  /\ \E t \in DOMAIN percentiles : weights[t] > 0
           /\ global' = [percentiles |-> percentiles, version |-> request[c].version,
                         recomendacion |-> RecommendationForIga(Iga(percentiles, weights)),
                         alertas |-> {t \in DOMAIN percentiles : AlertFor(t, percentiles[t])}]
    /\ request' = [request EXCEPT ![c] = [pc |-> "versions", version |-> @.version]]
    /\ UNCHANGED <<attemptVars, results, trace, disturbanceVars>>

WriteGlobal(c) ==
    /\ request[c].pc = "compute"
    /\ request[c].todo = {}
    /\ request[c].percentiles # NoPercentiles
    /\ LET weights == request[c].profile
           percentiles == request[c].percentiles
       IN  /\ \E t \in DOMAIN percentiles : weights[t] > 0
           /\ global' = [percentiles |-> percentiles, version |-> request[c].version,
                         recomendacion |-> RecommendationForIga(Iga(percentiles, weights)),
                         alertas |-> {t \in DOMAIN percentiles : AlertFor(t, percentiles[t])}]
    /\ request' = [request EXCEPT ![c] = [pc |-> "versions", version |-> @.version]]
    /\ UNCHANGED <<attemptVars, results, trace, disturbanceVars>>

WriteVersions(c) ==
    /\ request[c].pc = "versions"
    /\ results' = [t \in Test |-> IF results[t] = Unwritten THEN Unwritten
                                  ELSE [results[t] EXCEPT !.version = request[c].version]]
    /\ request' = [request EXCEPT ![c] = [pc |-> "trace"]]
    /\ UNCHANGED <<attemptVars, global, trace, disturbanceVars>>

\* attachTraceToResults: the trace is built from the index first, then both
\* tables are updated in one transaction.
BuildTrace(c) ==
    /\ request[c].pc = "trace"
    /\ request' = [request EXCEPT ![c] = [pc |-> "attach", trace |-> global.version]]
    /\ UNCHANGED <<attemptVars, resultVars, disturbanceVars>>

\* Mutant: the trace that is there is kept.
AttachOnce(c) ==
    /\ request[c].pc = "attach"
    /\ trace' = IF trace = NoVersion THEN request[c].trace ELSE trace
    /\ request' = [request EXCEPT ![c] = NoRequest]
    /\ UNCHANGED <<attemptVars, results, global, disturbanceVars>>

AttachTrace(c) ==
    /\ request[c].pc = "attach"
    /\ trace' = request[c].trace
    /\ request' = [request EXCEPT ![c] = NoRequest]
    /\ UNCHANGED <<attemptVars, results, global, disturbanceVars>>

\* recalculateHistoricalScores for one row of the attempt: a row without a
\* norm is passed over, and the index is not calculated again.
RewriteRow(t) ==
    /\ results[t] # Unwritten
    /\ \E p \in NormPercentiles(t) :
        /\ p # results[t].percentile
        /\ results' = [results EXCEPT ![t].percentile = p]
    /\ UNCHANGED <<attemptVars, global, trace, request, disturbanceVars>>

-----------------------------------------------------------------------------
Calculates(c) ==
    \/ ReadRows(c) \/ FailCall(c) \/ WriteGlobal(c) \/ WriteVersions(c)
    \/ BuildTrace(c) \/ AttachTrace(c)
    \/ \E t \in Test : ComputeTest(c, t)

ResultsNext ==
    \/ \E c \in Caller : Look(c) \/ Calculates(c) \/ \E p \in Profile : Recalculate(c, p)
    \/ \E t \in Test : Answer(t) \/ RewriteRow(t)
    \/ Change

ResultsSpec == ResultsInit /\ [][ResultsNext]_calculationVars

-----------------------------------------------------------------------------
(***************************************************************************)
(* The index counts only tests that have a row, and a call that is on its  *)
(* way to the index has only such tests, whoever made their rows and       *)
(* whatever failed: the report can show a result for each of them.         *)
(***************************************************************************)
IndexHasRows ==
    /\ global # Unwritten => DOMAIN global.percentiles \subseteq WithRow
    /\ \A c \in Caller : request[c].pc = "compute" =>
        /\ DOMAIN request[c].percentiles \subseteq WithRow
        /\ request[c].todo \subseteq Test
    /\ \A c \in Caller : request[c].pc \in {"versions", "trace", "attach"} => global # Unwritten

(***************************************************************************)
(* While calculations neither overlap nor fail, the index that is shown    *)
(* counts all the tests that were answered when it was made.  (A partial   *)
(* set of rows, which a failure or a second request leaves or sees, is     *)
(* taken for the whole.)                                                   *)
(***************************************************************************)
CompleteUndisturbed ==
    global # Unwritten /\ disturbances \subseteq {"change"} =>
        DOMAIN global.percentiles = answered

(***************************************************************************)
(* When no calculation is in progress and none has failed or overlapped    *)
(* with another one, the trace names the versions of the index.            *)
(***************************************************************************)
TraceNamesTheVersions ==
    global # Unwritten /\ ~InProgress /\ disturbances \subseteq {"change", "answer"} =>
        /\ trace = global.version
        /\ \A t \in DOMAIN global.percentiles : results[t].version = trace
=============================================================================
