--------------------------- MODULE ProctoringQueue ---------------------------
(***************************************************************************)
(* The supervision events of one attempt, from the browser to attempt_logs *)
(* and its alert: useProctoring.ts observes and signs them, the second     *)
(* queue of sync-engine.ts sends them in batches, the controller checks    *)
(* the sequence of a batch and adds a Bull job, the processor stores the   *)
(* batch and counts the losses of focus.                                   *)
(*                                                                         *)
(* An event is its index in `events`.  Its time is what new Date() said,   *)
(* its sequence what sequenceRef held once the signature was there.        *)
(***************************************************************************)
EXTENDS Naturals, Sequences, FiniteSets

CONSTANTS
    BatchSize,    \* processProctoringBatch: 10
    FocusLimit,   \* more losses of focus than this raise the alert: 3
    MaxTries,     \* attempts of a job: 3
    MaxStalled,   \* runs Bull gives a stalled job: 1
    Kinds,        \* is an event a loss of focus: a subset of BOOLEAN
    MaxEvents,    \* bound on the events observed
    MaxFaults     \* bound on disconnections, reloads, failures and delays

VARIABLES
    events,       \* what has been observed, in order
    sequence,     \* sequenceRef
    signing,      \* events whose signature is being awaited
    queue,        \* proctoring-queue in IndexedDB
    waiting,      \* those of it that wait for nextRetryTimestamp
    call,         \* the call of processProctoringBatch
    batch,        \* what it sends
    online,
    jobs,         \* the jobs of proctoring-queue, as added
    rows,         \* attempt_logs: one row per event and run that stored it
    alerted,      \* there is a suspicious_behavior_detected row
    expired,      \* times up to this one are more than five minutes ago
    faults,
    disturbed,    \* history: something was not one after the other
    replays,      \* history: how often something may have been done twice
    overlapped    \* history: a transaction committed inside another

browserVars == <<events, sequence, signing, queue, waiting, call, batch, online>>
storeVars == <<rows, alerted, expired>>
historyVars == <<disturbed, replays, overlapped>>
vars == <<browserVars, jobs, storeVars, faults, historyVars>>

-----------------------------------------------------------------------------
Observed == 1..Len(events)

CallStates == {"idle", "reading", "sending", "accepted", "refused", "failed"}

EventRecord == [time : Nat, focus : BOOLEAN, seq : Nat]

JobRecord == [logs : SUBSET (Nat \ {0}), tries : Nat, stalls : Nat, alert : BOOLEAN,
              state : {"waiting", "counted", "committed", "completed", "failed"}]

Job(logs, state, tries, stalls, alert) ==
    [logs |-> logs, tries |-> tries, stalls |-> stalls, alert |-> alert,
     state |-> state]

Row == [event : Nat \ {0}, job : Nat \ {0}, run : Nat]

ASSUME ProctoringAssumption ==
    /\ BatchSize \in Nat \ {0}
    /\ FocusLimit \in Nat
    /\ MaxTries \in Nat \ {0} /\ MaxStalled \in Nat
    /\ Kinds \subseteq BOOLEAN
    /\ MaxEvents \in Nat /\ MaxFaults \in Nat

Init ==
    /\ events = <<>> /\ sequence = 0 /\ signing = {}
    /\ queue = {} /\ waiting = {} /\ call = "idle" /\ batch = <<>>
    /\ online = TRUE
    /\ jobs = <<>> /\ rows = {} /\ alerted = FALSE /\ expired = 0
    /\ faults = 0
    /\ disturbed = FALSE /\ replays = 0 /\ overlapped = FALSE

Fault == faults < MaxFaults /\ faults' = faults + 1

Disturb == disturbed' = TRUE /\ UNCHANGED <<replays, overlapped>>

-----------------------------------------------------------------------------
(***************************************************************************)
(* Observing (useProctoring.ts).                                           *)
(***************************************************************************)
LastTime == IF events = <<>> THEN 0 ELSE events[Len(events)].time

\* logEvent up to the await of the signature.  A switch of tabs is two events
\* at once, visibilitychange and blur, possibly of the same millisecond.
Observe(focus, tie) ==
    /\ Len(events) < MaxEvents
    /\ tie => events # <<>>
    /\ sequence' = sequence + 1
    /\ events' = Append(events, [time |-> IF tie THEN LastTime ELSE LastTime + 1,
                                 focus |-> focus, seq |-> 0])
    /\ signing' = signing \cup {Len(events) + 1}
    /\ disturbed' = (disturbed \/ tie \/ signing # {})
    /\ UNCHANGED <<queue, waiting, call, batch, online, jobs, storeVars,
                   faults, replays, overlapped>>

\* Mutant: the entry guard of processProctoringBatch is missing.
TriggerAnyway == call' = IF online THEN "reading" ELSE call

Trigger == call' = IF call = "idle" /\ online THEN "reading" ELSE call

\* The signature is there: logEvent reads sequenceRef again for the metadata
\* and the event goes to IndexedDB.
Put(e) ==
    /\ e \in signing
    /\ events' = [events EXCEPT ![e].seq = sequence]
    /\ signing' = signing \ {e}
    /\ queue' = queue \cup {e}
    /\ Trigger
    /\ UNCHANGED <<sequence, waiting, batch, online, jobs, storeVars, faults,
                   historyVars>>

-----------------------------------------------------------------------------
(***************************************************************************)
(* One call of processProctoringBatch.                                     *)
(***************************************************************************)
\* The retry timer, which failing answers restart too, and the continuation
\* half a second after a full batch.
Wake ==
    /\ call = "idle" /\ online
    /\ call' = "reading"
    /\ UNCHANGED <<events, sequence, signing, queue, waiting, batch, online,
                   jobs, storeVars, faults, historyVars>>

Processable == queue \ waiting

BatchLength == IF Cardinality(Processable) < BatchSize
               THEN Cardinality(Processable) ELSE BatchSize

\* Mutant: the first entries by id, whatever their time.
UnsortedBatches ==
    {b \in [1..BatchLength -> Processable] :
       \A k, n \in DOMAIN b : b[k] = b[n] => k = n}

\* getAllItems sorts by time; the ids of one millisecond end in a random part.
Batches ==
    {b \in [1..BatchLength -> Processable] :
       /\ \A k, n \in DOMAIN b : b[k] = b[n] => k = n
       /\ \A k, n \in DOMAIN b : k < n => events[b[k]].time <= events[b[n]].time
       /\ \A k \in DOMAIN b : \A e \in Processable :
            events[e].time < events[b[k]].time => \E n \in DOMAIN b : b[n] = e}

Content(b) == {b[k] : k \in DOMAIN b}

ReadBatch ==
    /\ call = "reading"
    /\ IF Processable = {}
       THEN call' = "idle" /\ UNCHANGED batch
       ELSE call' = "sending" /\ batch' \in Batches
    /\ UNCHANGED <<events, sequence, signing, queue, waiting, online, jobs,
                   storeVars, faults, historyVars>>

\* verifyTelemetrySignatures: within a batch the sequence goes up by one.
InSequence(b) == \A k \in DOMAIN b :
    k + 1 \in DOMAIN b => events[b[k + 1]].seq = events[b[k]].seq + 1

Added(logs) == Job(logs, "waiting", 0, 0, FALSE)

\* receiveBatch adds a job without an id of its own.
ServerAccepts ==
    /\ call = "sending"
    /\ InSequence(batch)
    /\ jobs' = Append(jobs, Added(Content(batch)))
    /\ call' = "accepted"
    /\ UNCHANGED <<events, sequence, signing, queue, waiting, batch, online,
                   storeVars, faults, historyVars>>

ServerRefuses ==
    /\ call = "sending"
    /\ ~InSequence(batch)
    /\ call' = "refused"
    /\ UNCHANGED <<events, sequence, signing, queue, waiting, batch, online,
                   jobs, storeVars, faults, historyVars>>

\* 401, 403 or 404 instead, once the session has ended.
SessionEnded ==
    /\ call = "sending"
    /\ Fault
    /\ call' = "refused"
    /\ Disturb
    /\ UNCHANGED <<events, sequence, signing, queue, waiting, batch, online,
                   jobs, storeVars>>

\* 429, 5xx, or no connection.
SendFails ==
    /\ call = "sending"
    /\ Fault
    /\ call' = "failed"
    /\ Disturb
    /\ UNCHANGED <<events, sequence, signing, queue, waiting, batch, online,
                   jobs, storeVars>>

ReplyLost ==
    /\ call = "accepted"
    /\ Fault
    /\ call' = "failed"
    /\ disturbed' = TRUE
    /\ replays' = replays + 1
    /\ UNCHANGED <<events, sequence, signing, queue, waiting, batch, online,
                   jobs, storeVars, overlapped>>

\* Mutant: the batch is not removed after a 202.
KeepBatch ==
    /\ call \in {"accepted", "refused"}
    /\ call' = "idle"
    /\ batch' = <<>>
    /\ UNCHANGED <<events, sequence, signing, queue, waiting, online, jobs,
                   storeVars, faults, historyVars>>

\* 202 and every 4xx but 429 count as success.
RemoveBatch ==
    /\ call \in {"accepted", "refused"}
    /\ queue' = queue \ Content(batch)
    /\ call' = "idle"
    /\ batch' = <<>>
    /\ UNCHANGED <<events, sequence, signing, waiting, online, jobs, storeVars,
                   faults, historyVars>>

RetryBatch ==
    /\ call = "failed"
    /\ queue' = queue \cup Content(batch)
    /\ waiting' = waiting \cup Content(batch)
    /\ call' = "idle"
    /\ batch' = <<>>
    /\ UNCHANGED <<events, sequence, signing, online, jobs, storeVars, faults,
                   historyVars>>

BackoffEnds(e) ==
    /\ e \in waiting
    /\ waiting' = waiting \ {e}
    /\ UNCHANGED <<events, sequence, signing, queue, call, batch, online, jobs,
                   storeVars, faults, historyVars>>

-----------------------------------------------------------------------------
(***************************************************************************)
(* The network and the page's life.                                        *)
(***************************************************************************)
GoOffline ==
    /\ online
    /\ Fault
    /\ online' = FALSE
    /\ UNCHANGED <<events, sequence, signing, queue, waiting, call, batch,
                   jobs, storeVars, historyVars>>

\* The "online" event calls processQueues.
GoOnline ==
    /\ ~online
    /\ online' = TRUE
    /\ call' = IF call = "idle" THEN "reading" ELSE call
    /\ UNCHANGED <<events, sequence, signing, queue, waiting, batch, jobs,
                   storeVars, faults, historyVars>>

\* Only IndexedDB survives, the call may be half through the entries it
\* removes or puts back, sequenceRef starts again at 0.  A request under way
\* that still arrives is one that was accepted before the reload.
Reload ==
    /\ Fault
    /\ \E done \in SUBSET Content(batch) :
         /\ queue' = IF call \in {"accepted", "refused"} THEN queue \ done
                                                         ELSE queue
         /\ waiting' = IF call = "failed" THEN waiting \cup done ELSE waiting
    /\ sequence' = 0
    /\ signing' = {}
    /\ call' = IF online THEN "reading" ELSE "idle"
    /\ batch' = <<>>
    /\ disturbed' = TRUE
    /\ replays' = IF call = "accepted" THEN replays + 1 ELSE replays
    /\ UNCHANGED <<events, online, jobs, storeVars, overlapped>>

TimePasses ==
    /\ Fault
    /\ expired < LastTime
    /\ expired' = expired + 1
    /\ UNCHANGED <<browserVars, jobs, rows, alerted, historyVars>>

-----------------------------------------------------------------------------
(***************************************************************************)
(* handleSaveProctoringBatch: one transaction per run of a job, seen by    *)
(* the others when it commits.                                             *)
(***************************************************************************)
FocusLost(e) == events[e].focus /\ events[e].time > expired

Stored(e) == \E r \in rows : r.event = e

\* Mutant: the count does not see the rows the transaction has inserted.
CountBeforeInsert(j) == Cardinality({r \in rows : FocusLost(r.event)})

FocusLostCount(j) == Cardinality({r \in rows : FocusLost(r.event)})
                       + Cardinality({e \in jobs[j].logs : FocusLost(e)})

\* `alert` is what the open transaction has found.
Becomes(j, state, tries, stalls, alert) ==
    jobs' = [jobs EXCEPT ![j] = Job(jobs[j].logs, state, tries, stalls, alert)]

\* createMany and count.
CountFocus(j) ==
    /\ jobs[j].state = "waiting"
    /\ Becomes(j, "counted", jobs[j].tries, jobs[j].stalls,
               FocusLostCount(j) > FocusLimit)
    /\ UNCHANGED <<browserVars, storeVars, faults, historyVars>>

Commit(j) ==
    /\ jobs[j].state = "counted"
    /\ rows' = rows \cup {[event |-> e, job |-> j,
                           run |-> jobs[j].tries + jobs[j].stalls] : e \in jobs[j].logs}
    /\ alerted' = (alerted \/ jobs[j].alert)
    /\ Becomes(j, "committed", jobs[j].tries, jobs[j].stalls, FALSE)
    /\ overlapped' = (overlapped \/ \E i \in DOMAIN jobs \ {j} :
                                      jobs[i].state = "counted")
    /\ UNCHANGED <<browserVars, expired, faults, disturbed, replays>>

\* removeOnComplete
Complete(j) ==
    /\ jobs[j].state = "committed"
    /\ jobs' = [jobs EXCEPT ![j] = Job({}, "completed", 0, 0, FALSE)]
    /\ UNCHANGED <<browserVars, storeVars, faults, historyVars>>

\* Running a job again once its transaction has been committed stores twice.
RunAgain(j) ==
    /\ replays' = IF jobs[j].state = "committed" THEN replays + 1 ELSE replays
    /\ UNCHANGED <<disturbed, overlapped>>

\* A statement fails and the transaction is rolled back, or the answer to its
\* commit is lost.  Bull tries again, `attempts` times in all.
JobThrows(j) ==
    /\ jobs[j].state \in {"counted", "committed"}
    /\ Fault
    /\ Becomes(j, IF jobs[j].tries + 1 < MaxTries THEN "waiting" ELSE "failed",
               jobs[j].tries + 1, jobs[j].stalls, FALSE)
    /\ RunAgain(j)
    /\ UNCHANGED <<browserVars, storeVars>>

\* The worker dies; Bull finds the job stalled.
JobStalls(j) ==
    /\ jobs[j].state \in {"counted", "committed"}
    /\ Fault
    /\ Becomes(j, IF jobs[j].stalls < MaxStalled THEN "waiting" ELSE "failed",
               jobs[j].tries, jobs[j].stalls + 1, FALSE)
    /\ RunAgain(j)
    /\ UNCHANGED <<browserVars, storeVars>>

-----------------------------------------------------------------------------
BrowserStep ==
    \/ \E focus \in Kinds, tie \in BOOLEAN : Observe(focus, tie)
    \/ \E e \in signing : Put(e)
    \/ Wake
    \/ ReadBatch
    \/ RemoveBatch
    \/ RetryBatch
    \/ \E e \in waiting : BackoffEnds(e)
    \/ GoOffline
    \/ GoOnline
    \/ Reload

ReplyStep ==
    \/ ServerAccepts
    \/ ServerRefuses
    \/ SessionEnded
    \/ SendFails
    \/ ReplyLost

JobStep(j) ==
    \/ CountFocus(j)
    \/ Commit(j)
    \/ Complete(j)
    \/ JobThrows(j)
    \/ JobStalls(j)

Next == BrowserStep \/ ReplyStep \/ TimePasses \/ \E j \in DOMAIN jobs : JobStep(j)

Spec == Init /\ [][Next]_vars

-----------------------------------------------------------------------------
TypeOK ==
    /\ events \in Seq(EventRecord)
    /\ sequence \in Nat
    /\ signing \subseteq Observed /\ queue \subseteq Observed
    /\ signing \cap queue = {}
    /\ waiting \subseteq queue
    /\ call \in CallStates
    /\ batch \in Seq(Processable)
    /\ call \in {"idle", "reading"} => batch = <<>>
    /\ online \in BOOLEAN
    /\ jobs \in Seq(JobRecord)
    /\ \A j \in DOMAIN jobs : jobs[j].logs \subseteq Observed
    /\ rows \subseteq Row
    /\ \A r \in rows : r.event \in Observed
    /\ alerted \in BOOLEAN /\ expired \in Nat /\ faults \in Nat
    /\ disturbed \in BOOLEAN /\ replays \in Nat /\ overlapped \in BOOLEAN

\* Redis or the table has the event.
Submitted(e) ==
    \/ \E j \in DOMAIN jobs : e \in jobs[j].logs /\ jobs[j].state # "completed"
    \/ Stored(e)

\* Somebody still has it: the page, IndexedDB, Redis or the table.
Kept(e) == e \in signing \cup queue \/ Submitted(e)

(* While events come one at a time and every send succeeds, the integrity  *)
(* check never refuses a batch and no event is lost, however many events,  *)
(* batches, workers and failing jobs there are.                            *)
KeptUndisturbed == ~disturbed =>
    /\ call # "refused"
    /\ \A e \in Observed : Kept(e)

Copies(e) == Cardinality({r \in rows : r.event = e})

(* No job id tells a batch from its repetition: an event is stored twice   *)
(* only after a lost reply, a reload before the removal or a job run again *)
(* behind its commit, and at most once more for each of them.              *)
DuplicatesAreReplays == \A e \in Observed : Copies(e) <= 1 + replays

(* The alert follows the table.  While no transaction commits inside       *)
(* another, more than FocusLimit stored losses of focus of the last five   *)
(* minutes have raised it; without repetitions nothing else raises it.     *)
AlertFollowsTable ==
    /\ ~overlapped /\ Cardinality({r \in rows : FocusLost(r.event)}) > FocusLimit
         => alerted
    /\ alerted /\ replays = 0
         => Cardinality({e \in Observed : events[e].focus}) > FocusLimit

(* ProctoringMonitor.tsx line 39 tells the candidate that all navigation   *)
(* and idle time are recorded in the audit log.                            *)
EveryEventIsKept == \A e \in Observed : Kept(e)

\* The order that events one at a time leave behind.
OneAtATime == ~disturbed =>
    /\ sequence = Len(events)
    /\ signing \subseteq {Len(events)}
    /\ waiting = {}
    /\ \A e \in queue : events[e].seq = e
    /\ \A e, f \in Observed : e < f => events[e].time < events[f].time
    /\ \A e \in queue : \A f \in Observed : e < f => f \in queue \cup signing

\* What is being sent is the oldest of the queue, in order.
SendsOldest == ~disturbed =>
    /\ call # "failed"
    /\ \A k, n \in DOMAIN batch : k < n => batch[k] < batch[n]
    /\ \A e \in queue : \A b \in Content(batch) : e < b => e \in Content(batch)

\* Accepted and committed mean what they say.
AcceptedIsInRedis ==
    /\ call = "accepted" => \A e \in Content(batch) : Submitted(e)
    /\ \A j \in DOMAIN jobs : jobs[j].state \in {"committed", "completed"} =>
         \A e \in jobs[j].logs : Stored(e)

(* The inductive invariant of ProctoringProofs.                            *)
ProctoringInv ==
    /\ TypeOK
    /\ OneAtATime
    /\ SendsOldest
    /\ AcceptedIsInRedis
    /\ KeptUndisturbed
=============================================================================
