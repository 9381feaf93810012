----------------------------- MODULE SyncEngine -----------------------------
(***************************************************************************)
(* The candidate's browser: the offline queue of answers in IndexedDB and  *)
(* the loop that sends them (services/sync-engine.ts).  Every `await` of   *)
(* the loop lets the candidate, the network and the timers in.             *)
(*                                                                         *)
(* An answer is its time stamp: the n-th answer given has stamp n, 0 is no *)
(* answer.  The server is reduced to what the browser can see of it: the   *)
(* last answer per question it took, and whether it still takes any.       *)
(***************************************************************************)
EXTENDS Naturals

CONSTANTS
    Question,
    Flusher,      \* finalize clicks whose flushAnswers awaits processAnswers
    RetryDelay,   \* scheduleQueueProcessing: 5 seconds
    MaxBackoff,   \* calculateBackoffDelay: at most 30 seconds
    MaxRetries,   \* bound on the counter of retries of an item
    MaxAnswers,   \* bound on the answers the candidate gives
    MaxFaults,    \* bound on refusals, lost messages, disconnections, reloads
    Reloads,      \* the candidate may reload the page
    Strays,       \* a request may reach the server after its connection died
    Absent,       \* no entry in the store
    Off           \* no timer

VARIABLES
    answered,     \* last answer the candidate gave per question
    queue,        \* answers-queue: the entry `ans:<attempt>:<question>`
    processing,   \* isProcessingAnswers
    run,          \* progress of each call of processAnswers
    items,        \* the call's local copy of what it has yet to send
    item,         \* the one it is sending, or Absent
    timer,        \* seconds left of retryTimeout, or Off
    online,       \* navigator.onLine
    clock,        \* answers given so far
    accepting,    \* the attempt is open on the server
    received,     \* last stamp per question the server answered 2xx to
    stray,        \* requests under way that no call waits for
    faults

callVars == <<processing, run, items, item>>
engineVars == <<answered, queue, callVars, timer, clock>>
serverVars == <<accepting, received, stray>>
vars == <<engineVars, online, serverVars, faults>>

-----------------------------------------------------------------------------
Caller == {"answer", "wake"} \cup Flusher

RunStates == {"idle", "reading", "looping", "sending", "accepted", "failed"}

QueuedAnswer == [stamp : Nat \ {0}, attempts : Nat, wait : Nat]
Item == [question : Question, stamp : Nat \ {0}, attempts : Nat]

BackoffDelay(attempts) ==
    IF 2^attempts < MaxBackoff THEN 2^attempts ELSE MaxBackoff

ASSUME EngineAssumption ==
    /\ RetryDelay \in Nat
    /\ MaxRetries \in Nat /\ MaxAnswers \in Nat /\ MaxFaults \in Nat
    /\ \A n \in 0..MaxRetries : BackoffDelay(n) \in Nat
    /\ Strays \in BOOLEAN /\ Reloads \in BOOLEAN
    /\ {"answer", "wake"} \cap Flusher = {}
    /\ Off \notin Nat
    /\ Absent \notin QueuedAnswer \cup Item

Queued == {q \in Question : queue[q] # Absent}

Init ==
    /\ answered = [q \in Question |-> 0]
    /\ queue = [q \in Question |-> Absent]
    /\ processing = FALSE
    /\ run = [c \in Caller |-> "idle"]
    /\ items = [c \in Caller |-> {}]
    /\ item = [c \in Caller |-> Absent]
    /\ timer = Off
    /\ online = TRUE
    /\ clock = 0
    /\ accepting = TRUE
    /\ received = [q \in Question |-> 0]
    /\ stray = {}
    /\ faults = 0

-----------------------------------------------------------------------------
\* Mutant: the entry guard of processAnswers is missing.
TriggerAnyway(c) ==
    IF run[c] = "idle" /\ online
    THEN processing' = TRUE /\ run' = [run EXCEPT ![c] = "reading"]
    ELSE UNCHANGED <<processing, run>>

\* processAnswers returns at once when another call is under way.
Trigger(c) ==
    IF ~processing /\ online
    THEN processing' = TRUE /\ run' = [run EXCEPT ![c] = "reading"]
    ELSE UNCHANGED <<processing, run>>

\* The candidate answers q: the entry of the question is replaced.
QueueAnswer(q) ==
    /\ clock < MaxAnswers
    /\ clock' = clock + 1
    /\ answered' = [answered EXCEPT ![q] = clock']
    /\ queue' = [queue EXCEPT ![q] =
                   [stamp |-> clock', attempts |-> 0, wait |-> 0]]
    /\ Trigger("answer")
    /\ UNCHANGED <<items, item, timer, online, serverVars, faults>>

-----------------------------------------------------------------------------
(***************************************************************************)
(* One call of processAnswers.                                             *)
(***************************************************************************)
Processable ==
    {[question |-> q, stamp |-> queue[q].stamp, attempts |-> queue[q].attempts]
       : q \in {p \in Queued : queue[p].wait = 0}}

ReadQueue(c) ==
    /\ run[c] = "reading"
    /\ items' = [items EXCEPT ![c] = Processable]
    /\ run' = [run EXCEPT ![c] = "looping"]
    /\ UNCHANGED <<answered, queue, processing, item, timer, online, clock,
                   serverVars, faults>>

EndCall(c) ==
    /\ processing' = FALSE
    /\ run' = [run EXCEPT ![c] = "idle"]
    /\ items' = [items EXCEPT ![c] = {}]
    /\ item' = [item EXCEPT ![c] = Absent]

EndRun(c) ==
    /\ run[c] = "looping"
    /\ items[c] = {} \/ ~online
    /\ EndCall(c)
    /\ UNCHANGED <<answered, queue, timer, online, clock, serverVars, faults>>

\* getAllItems has sorted them by time stamp.
Send(c, i) ==
    /\ run[c] = "looping"
    /\ online
    /\ i \in items[c]
    /\ \A j \in items[c] : i.stamp <= j.stamp
    /\ item' = [item EXCEPT ![c] = i]
    /\ items' = [items EXCEPT ![c] = @ \ {i}]
    /\ run' = [run EXCEPT ![c] = "sending"]
    /\ UNCHANGED <<answered, queue, processing, timer, online, clock,
                   serverVars, faults>>

ServerAccepts(c) ==
    /\ run[c] = "sending"
    /\ accepting
    /\ received' = [received EXCEPT ![item[c].question] = item[c].stamp]
    /\ run' = [run EXCEPT ![c] = "accepted"]
    /\ UNCHANGED <<answered, queue, processing, items, item, timer, online,
                   clock, accepting, stray, faults>>

Fault == faults < MaxFaults /\ faults' = faults + 1

\* Any status outside 200..299 keeps the answer: 400 once the attempt is
\* closed, 401, 403, 409, 422, 429 or 5xx at any time.
ServerRefuses(c) ==
    /\ run[c] = "sending"
    /\ IF accepting THEN Fault ELSE UNCHANGED faults
    /\ run' = [run EXCEPT ![c] = "failed"]
    /\ UNCHANGED <<answered, queue, processing, items, item, timer, online,
                   clock, serverVars>>

\* fetch fails before the server has handled the request.
ConnectionLost(c) ==
    /\ run[c] = "sending"
    /\ Fault
    /\ stray' = IF Strays THEN stray \cup {item[c]} ELSE stray
    /\ run' = [run EXCEPT ![c] = "failed"]
    /\ UNCHANGED <<answered, queue, processing, items, item, timer, online,
                   clock, accepting, received>>

ReplyLost(c) ==
    /\ run[c] = "accepted"
    /\ Fault
    /\ run' = [run EXCEPT ![c] = "failed"]
    /\ UNCHANGED <<answered, queue, processing, items, item, timer, online,
                   clock, serverVars>>

\* Mutant: any reply of the server, a refusal too, empties the entry.
RemoveAlways(c) ==
    /\ run[c] \in {"accepted", "failed"}
    /\ queue' = [queue EXCEPT ![item[c].question] = Absent]
    /\ item' = [item EXCEPT ![c] = Absent]
    /\ run' = [run EXCEPT ![c] = "looping"]
    /\ UNCHANGED <<answered, processing, items, timer, online, clock,
                   serverVars, faults>>

\* removeItem deletes by key, whatever the entry holds by now.
Remove(c) ==
    /\ run[c] = "accepted"
    /\ queue' = [queue EXCEPT ![item[c].question] = Absent]
    /\ item' = [item EXCEPT ![c] = Absent]
    /\ run' = [run EXCEPT ![c] = "looping"]
    /\ UNCHANGED <<answered, processing, items, timer, online, clock,
                   serverVars, faults>>

\* incrementRetry writes the call's copy back, whatever the entry holds by
\* now.
IncrementRetry(i) ==
    LET attempts == IF i.attempts < MaxRetries THEN i.attempts + 1
                                               ELSE MaxRetries
    IN  queue' = [queue EXCEPT ![i.question] =
                    [stamp |-> i.stamp, attempts |-> attempts,
                     wait |-> BackoffDelay(attempts)]]

\* scheduleQueueProcessing restarts the timer and the call ends.
Retry(c) ==
    /\ run[c] = "failed"
    /\ IncrementRetry(item[c])
    /\ timer' = RetryDelay
    /\ EndCall(c)
    /\ UNCHANGED <<answered, online, clock, serverVars, faults>>

-----------------------------------------------------------------------------
(***************************************************************************)
(* Time, the network and the page's life.                                  *)
(***************************************************************************)
\* A second passes.  A timer that is due fires first, and only requests take
\* as long as that: the steps on IndexedDB are done within the second.
Tick ==
    /\ timer # 0
    /\ \A c \in Caller : run[c] \in {"idle", "sending"}
    /\ timer # Off \/ \E q \in Queued : queue[q].wait > 0
    /\ timer' = IF timer = Off THEN Off ELSE timer - 1
    /\ queue' = [q \in Question |->
                   IF q \in Queued /\ queue[q].wait > 0
                   THEN [queue[q] EXCEPT !.wait = @ - 1] ELSE queue[q]]
    /\ UNCHANGED <<answered, callVars, online, clock, serverVars, faults>>

RetryTimeout ==
    /\ timer = 0
    /\ timer' = Off
    /\ Trigger("wake")
    /\ UNCHANGED <<answered, queue, items, item, online, clock, serverVars,
                   faults>>

\* A failed batch of proctoring logs restarts the timer both queues share.
ProctoringFails ==
    /\ online
    /\ Fault
    /\ timer' = RetryDelay
    /\ UNCHANGED <<answered, queue, callVars, online, clock, serverVars>>

GoOffline ==
    /\ online
    /\ Fault
    /\ online' = FALSE
    /\ UNCHANGED <<engineVars, serverVars>>

\* The "online" event calls processQueues.
GoOnline ==
    /\ ~online
    /\ online' = TRUE
    /\ IF processing THEN UNCHANGED <<processing, run>>
       ELSE processing' = TRUE /\ run' = [run EXCEPT !["wake"] = "reading"]
    /\ UNCHANGED <<answered, queue, items, item, timer, clock, serverVars,
                   faults>>

\* flushAnswers calls processAnswers.
FlushStep(f) ==
    /\ run[f] = "idle"
    /\ Trigger(f)
    /\ UNCHANGED <<answered, queue, items, item, timer, online, clock,
                   serverVars, faults>>

\* Only IndexedDB survives a reload; the constructor calls processQueues.
ReloadEngine ==
    /\ Reloads
    /\ Fault
    /\ processing' = online
    /\ run' = [c \in Caller |->
                 IF c = "wake" /\ online THEN "reading" ELSE "idle"]
    /\ items' = [c \in Caller |-> {}]
    /\ item' = [c \in Caller |-> Absent]
    /\ timer' = Off
    /\ stray' = IF Strays
                THEN stray \cup {item[c] : c \in {d \in Caller : run[d] = "sending"}}
                ELSE stray
    /\ UNCHANGED <<answered, queue, online, clock, accepting, received>>

StrayArrives(i) ==
    /\ i \in stray
    /\ stray' = stray \ {i}
    /\ received' = IF accepting THEN [received EXCEPT ![i.question] = i.stamp]
                                ELSE received
    /\ UNCHANGED <<engineVars, online, accepting, faults>>

-----------------------------------------------------------------------------
CallStep(c) ==
    \/ ReadQueue(c)
    \/ EndRun(c)
    \/ \E i \in items[c] : Send(c, i)
    \/ ServerAccepts(c)
    \/ Remove(c)
    \/ Retry(c)

Failure ==
    \/ \E c \in Caller :
         \/ ServerRefuses(c)
         \/ ConnectionLost(c)
         \/ ReplyLost(c)
    \/ ProctoringFails
    \/ GoOffline

Timing == Tick \/ RetryTimeout \/ GoOnline

EngineNext ==
    \/ \E q \in Question : QueueAnswer(q)
    \/ \E c \in Caller : CallStep(c)
    \/ \E i \in stray : StrayArrives(i)
    \/ Failure
    \/ Timing

Next ==
    \/ EngineNext
    \/ \E f \in Flusher : FlushStep(f)
    \/ ReloadEngine

\* The server answers every request; it refuses for good once closed.
CallProgress(c) == CallStep(c) \/ (~accepting /\ ServerRefuses(c))

Spec == Init /\ [][Next]_vars

-----------------------------------------------------------------------------
TypeOK ==
    /\ answered \in [Question -> Nat]
    /\ queue \in [Question -> QueuedAnswer \cup {Absent}]
    /\ processing \in BOOLEAN
    /\ run \in [Caller -> RunStates]
    /\ items \in [Caller -> SUBSET Item]
    /\ item \in [Caller -> Item \cup {Absent}]
    /\ timer \in Nat \cup {Off}
    /\ online \in BOOLEAN
    /\ clock \in Nat
    /\ accepting \in BOOLEAN
    /\ received \in [Question -> Nat]
    /\ stray \in SUBSET Item
    /\ faults \in Nat

(* isProcessingAnswers is a lock: the callers of processAnswers (a new     *)
(* answer, a timer, the network event, a finalize click) never send side   *)
(* by side, and the flag is never left set by a call that has ended.       *)
OneCallAtATime ==
    /\ processing <=> \E c \in Caller : run[c] # "idle"
    /\ \A c, d \in Caller : run[c] # "idle" /\ run[d] # "idle" => c = d

(* A question the candidate has answered is in the queue or the server has *)
(* taken an answer to it: whatever fails, no question is left unanswered   *)
(* while flushAnswers sees an empty queue.                                 *)
AnsweredIsQueuedOrReceived == \A q \in Question :
    answered[q] # 0 /\ queue[q] = Absent => received[q] # 0

\* What a call of processAnswers has in hand.
Held(c) == items[c] \cup ({item[c]} \ {Absent})

(* What a call has in hand is still in the queue, as it was or replaced by *)
(* a newer answer: nobody else takes an entry away while it is being sent. *)
HeldIsQueued == \A c \in Caller : \A i \in Held(c) :
    queue[i.question] # Absent /\ queue[i.question].stamp >= i.stamp

\* No entry is from the future.
StampsAreGiven == \A q \in Queued : queue[q].stamp <= clock

\* A call holds one answer per question, and nothing before it has read.
CallShape == \A c \in Caller :
    /\ run[c] \in {"idle", "reading"} => items[c] = {}
    /\ run[c] \in {"sending", "accepted", "failed"} <=> item[c] # Absent
    /\ \A i, j \in Held(c) : i.question = j.question => i = j
    /\ item[c] \notin items[c]
    /\ run[c] = "accepted" => received[item[c].question] # 0

(* Without requests that outlive their connection, the server never gets   *)
(* an answer older than the one it had: the request carries no time stamp  *)
(* (sendAnswerToServer), so the order of arrival is all the server knows.  *)
NeverOlder ==
    [][\A q \in Question : received'[q] >= received[q]]_vars

(* The entry of the queue is never older than what the server has.         *)
QueueIsNotBehind == \A q \in Question :
    queue[q] # Absent => queue[q].stamp >= received[q]

\* Nothing a call has in hand is behind the server either.
HeldIsNotBehind == \A c \in Caller : \A i \in Held(c) :
    i.stamp >= received[i.question]

(* The inductive invariants behind the theorems of SyncEngineProofs.       *)
IndInv ==
    /\ TypeOK
    /\ OneCallAtATime
    /\ CallShape
    /\ HeldIsQueued
    /\ StampsAreGiven

OrderInv ==
    /\ QueueIsNotBehind
    /\ HeldIsNotBehind
    /\ \A q \in Question : received[q] <= clock
    /\ stray = {}
=============================================================================
