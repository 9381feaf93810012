-------------------------- MODULE SyncEngineProofs --------------------------
(***************************************************************************)
(* Theorems about the answers queue of the browser (SyncEngine) and about  *)
(* handing the exam in (ExamPage), for every set of questions and finalize *)
(* clicks, every number of answers, faults and retries.                    *)
(***************************************************************************)
EXTENDS ExamPage, TLAPS

\* What incrementRetry writes is an entry of the queue with the item's stamp.
LEMMA RetryType ==
    ASSUME TypeOK, NEW i \in Item, IncrementRetry(i)
    PROVE  /\ queue' \in [Question -> QueuedAnswer \cup {Absent}]
           /\ queue'[i.question] # Absent
           /\ queue'[i.question].stamp = i.stamp
           /\ \A q \in Question : q # i.question => queue'[q] = queue[q]
<1>. DEFINE n == IF i.attempts < MaxRetries THEN i.attempts + 1 ELSE MaxRetries
<1>1. n \in 0..MaxRetries
  BY EngineAssumption DEF Item
<1>2. BackoffDelay(n) \in Nat
  BY <1>1, EngineAssumption
<1>. DEFINE e == [stamp |-> i.stamp, attempts |-> n, wait |-> BackoffDelay(n)]
<1>3. e \in QueuedAnswer /\ e.stamp = i.stamp
  BY <1>1, <1>2, EngineAssumption DEF QueuedAnswer, Item
<1>4. queue' = [queue EXCEPT ![i.question] = e]
  BY DEF IncrementRetry
<1>5. i.question \in Question
  BY DEF Item
<1>. HIDE DEF e
<1>. QED
  BY <1>3, <1>4, <1>5, EngineAssumption DEF TypeOK

\* The entries a call reads are items with the stamps of the queue.
LEMMA ProcessableType ==
    ASSUME TypeOK
    PROVE  /\ Processable \subseteq Item
           /\ \A i \in Processable : /\ queue[i.question] # Absent
                                     /\ queue[i.question].stamp = i.stamp
           /\ \A i, j \in Processable : i.question = j.question => i = j
<1>1. ASSUME NEW q \in Question, queue[q] # Absent
      PROVE  queue[q] \in QueuedAnswer
  BY <1>1 DEF TypeOK
<1>. QED
  BY <1>1 DEF Processable, Queued, Item, QueuedAnswer

-----------------------------------------------------------------------------
(* The engine starts with typed variables and nothing in hand.             *)
LEMMA InitIndInv == Init => IndInv
<1>. SUFFICES ASSUME Init PROVE IndInv
  OBVIOUS
<1>1. \A c \in Caller : run[c] = "idle" /\ items[c] = {} /\ item[c] = Absent
  BY DEF Init
<1>2. TypeOK
  BY DEF Init, TypeOK, RunStates
<1>3. OneCallAtATime
  BY <1>1 DEF Init, OneCallAtATime
<1>4. \A c \in Caller : Held(c) = {}
  BY <1>1 DEF Held
<1>5. CallShape /\ HeldIsQueued
  BY <1>1, <1>4 DEF CallShape, HeldIsQueued
<1>6. StampsAreGiven
  BY DEF Init, StampsAreGiven, Queued
<1>. QED
  BY <1>2, <1>3, <1>5, <1>6 DEF IndInv

\* The steps a call of processAnswers starts with.
LEMMA TriggerType ==
    ASSUME TypeOK, NEW c \in Caller, Trigger(c)
    PROVE  processing' \in BOOLEAN /\ run' \in [Caller -> RunStates]
BY DEF TypeOK, Trigger, RunStates

(* Every step keeps the variables typed.                                   *)
LEMMA NextTypeOK == TypeOK /\ CallShape /\ [Next]_vars => TypeOK'
<1>. SUFFICES ASSUME TypeOK, CallShape, [Next]_vars PROVE TypeOK'
  OBVIOUS
<1>. USE EngineAssumption
<1>0. "answer" \in Caller /\ "wake" \in Caller /\ Flusher \subseteq Caller
  BY DEF Caller
<1>1. ASSUME NEW q \in Question, QueueAnswer(q) PROVE TypeOK'
  <2>. DEFINE e == [stamp |-> clock', attempts |-> 0, wait |-> 0]
  <2>1. clock' \in Nat \ {0}
    BY <1>1 DEF QueueAnswer, TypeOK
  <2>2. e \in QueuedAnswer
    BY <2>1 DEF QueuedAnswer
  <2>3. queue' = [queue EXCEPT ![q] = e] /\ answered' = [answered EXCEPT ![q] = clock']
    BY <1>1 DEF QueueAnswer
  <2>. HIDE DEF e
  <2>4. queue' \in [Question -> QueuedAnswer \cup {Absent}] /\ answered' \in [Question -> Nat]
    BY <2>1, <2>2, <2>3 DEF TypeOK
  <2>. QED
    BY <1>0, <1>1, <2>1, <2>4, TriggerType DEF QueueAnswer, TypeOK, serverVars
<1>2. ASSUME NEW c \in Caller, CallStep(c) PROVE TypeOK'
  <2>1. CASE ReadQueue(c)
    BY <2>1, ProcessableType DEF ReadQueue, TypeOK, serverVars, RunStates
  <2>2. CASE EndRun(c)
    BY <2>2 DEF EndRun, EndCall, TypeOK, serverVars, RunStates
  <2>3. ASSUME NEW i \in items[c], Send(c, i) PROVE TypeOK'
    BY <2>3 DEF Send, TypeOK, serverVars, RunStates
  <2>4. CASE ServerAccepts(c)
    <3>1. item[c] \in Item
      BY <2>4 DEF ServerAccepts, CallShape, TypeOK
    <3>. QED
      BY <2>4, <3>1 DEF ServerAccepts, TypeOK, RunStates, Item
  <2>5. CASE Remove(c)
    <3>1. item[c] \in Item
      BY <2>5 DEF Remove, CallShape, TypeOK
    <3>. QED
      BY <2>5, <3>1 DEF Remove, TypeOK, serverVars, RunStates, Item
  <2>6. CASE Retry(c)
    <3>1. item[c] \in Item
      BY <2>6 DEF Retry, CallShape, TypeOK
    <3>2. queue' \in [Question -> QueuedAnswer \cup {Absent}]
      BY <2>6, <3>1, RetryType DEF Retry
    <3>. QED
      BY <2>6, <3>2 DEF Retry, EndCall, TypeOK, serverVars, RunStates
  <2>. QED
    BY <1>2, <2>1, <2>2, <2>3, <2>4, <2>5, <2>6 DEF CallStep
<1>3. ASSUME NEW i \in stray, StrayArrives(i) PROVE TypeOK'
  BY <1>3 DEF StrayArrives, TypeOK, engineVars, callVars, Item
<1>4. CASE Failure
  <2>1. ASSUME NEW c \in Caller, ServerRefuses(c) PROVE TypeOK'
    BY <2>1 DEF ServerRefuses, Fault, TypeOK, serverVars, RunStates
  <2>2. ASSUME NEW c \in Caller, ConnectionLost(c) PROVE TypeOK'
    <3>1. item[c] \in Item
      BY <2>2 DEF ConnectionLost, CallShape, TypeOK
    <3>. QED
      BY <2>2, <3>1 DEF ConnectionLost, Fault, TypeOK, RunStates
  <2>3. ASSUME NEW c \in Caller, ReplyLost(c) PROVE TypeOK'
    BY <2>3 DEF ReplyLost, Fault, TypeOK, serverVars, RunStates
  <2>4. CASE ProctoringFails
    BY <2>4 DEF ProctoringFails, Fault, TypeOK, serverVars, callVars
  <2>5. CASE GoOffline
    <3>1. faults' \in Nat /\ online' \in BOOLEAN
      <4>1. faults' = faults + 1
        BY <2>5 DEF GoOffline, Fault
      <4>2. online' = FALSE
        BY <2>5 DEF GoOffline
      <4>3. faults' \in Nat
        BY <4>1 DEF TypeOK
      <4>4. online' \in BOOLEAN
        BY <4>2
      <4>. QED
        BY <4>3, <4>4
    <3>2. UNCHANGED <<engineVars, serverVars>>
      BY <2>5 DEF GoOffline
    <3>3. UNCHANGED <<answered, queue, processing, run, items, item, timer,
                      clock, accepting, received, stray>>
      BY <3>2 DEF serverVars, engineVars, callVars
    <3>. QED
      BY <3>1, <3>3 DEF TypeOK
  <2>. QED
    BY <1>4, <2>1, <2>2, <2>3, <2>4, <2>5 DEF Failure
<1>5. CASE Timing
  <2>1. CASE Tick
    <3>1. ASSUME NEW q \in Question, q \in Queued, queue[q].wait > 0
          PROVE  [queue[q] EXCEPT !.wait = @ - 1] \in QueuedAnswer
      BY <3>1 DEF Queued, TypeOK, QueuedAnswer
    <3>. DEFINE next(q) == IF q \in Queued /\ queue[q].wait > 0
                           THEN [queue[q] EXCEPT !.wait = @ - 1] ELSE queue[q]
    <3>4. \A q \in Question : next(q) \in QueuedAnswer \cup {Absent}
      BY <3>1 DEF TypeOK
    <3>5. queue' = [q \in Question |-> next(q)]
      BY <2>1 DEF Tick
    <3>. HIDE DEF next
    <3>2. queue' \in [Question -> QueuedAnswer \cup {Absent}]
      BY <3>4, <3>5
    <3>3. timer' \in Nat \cup {Off}
      <4>1. timer' = IF timer = Off THEN Off ELSE timer - 1
        BY <2>1 DEF Tick
      <4>2. timer # 0 /\ timer \in Nat \cup {Off}
        BY <2>1 DEF Tick, TypeOK
      <4>. QED
        BY <4>1, <4>2
    <3>. QED
      BY <2>1, <3>2, <3>3 DEF Tick, TypeOK, serverVars, callVars
  <2>2. CASE RetryTimeout
    BY <1>0, <2>2, TriggerType DEF RetryTimeout, TypeOK, serverVars
  <2>3. CASE GoOnline
    BY <1>0, <2>3 DEF GoOnline, TypeOK, serverVars, RunStates
  <2>. QED
    BY <1>5, <2>1, <2>2, <2>3 DEF Timing
<1>6. ASSUME NEW f \in Flusher, FlushStep(f) PROVE TypeOK'
  BY <1>0, <1>6, TriggerType DEF FlushStep, TypeOK, serverVars
<1>7. CASE ReloadEngine
  <2>1. \A d \in Caller : run[d] = "sending" => item[d] \in Item
    BY DEF CallShape, TypeOK
  <2>2. stray' \in SUBSET Item
    BY <1>7, <2>1 DEF ReloadEngine, TypeOK
  <2>. QED
    BY <1>7, <2>2 DEF ReloadEngine, Fault, TypeOK, RunStates
<1>8. CASE UNCHANGED vars
  BY <1>8 DEF vars, engineVars, callVars, serverVars, TypeOK
<1>. QED
  BY <1>1, <1>2, <1>3, <1>4, <1>5, <1>6, <1>7, <1>8 DEF Next, EngineNext

-----------------------------------------------------------------------------
\* What OneCallAtATime and CallShape say together: next to a call under way
\* every other one is idle and has nothing in hand.
LEMMA OthersIdle ==
    ASSUME OneCallAtATime, CallShape, NEW c \in Caller, run[c] # "idle",
           NEW d \in Caller, d # c
    PROVE  run[d] = "idle" /\ items[d] = {} /\ item[d] = Absent /\ Held(d) = {}
<1>1. run[d] = "idle"
  BY DEF OneCallAtATime
<1>2. items[d] = {} /\ item[d] = Absent
  BY <1>1 DEF CallShape
<1>. QED
  BY <1>1, <1>2 DEF Held

\* Without a call under way nobody has anything in hand.
LEMMA AllIdle ==
    ASSUME OneCallAtATime, CallShape, ~processing, NEW d \in Caller
    PROVE  run[d] = "idle" /\ items[d] = {} /\ item[d] = Absent /\ Held(d) = {}
<1>1. run[d] = "idle"
  BY DEF OneCallAtATime
<1>2. items[d] = {} /\ item[d] = Absent
  BY <1>1 DEF CallShape
<1>. QED
  BY <1>1, <1>2 DEF Held

\* Starting a call: it holds nothing, and nobody else does.
LEMMA TriggerInv ==
    ASSUME TypeOK, OneCallAtATime, CallShape, NEW c \in Caller, Trigger(c),
           UNCHANGED <<items, item, received>>
    PROVE  OneCallAtATime' /\ CallShape' /\ \A d \in Caller : Held(d)' = Held(d)
<1>1. \A d \in Caller : Held(d)' = Held(d)
  BY DEF Held
<1>2. CASE UNCHANGED <<processing, run>>
  BY <1>1, <1>2 DEF OneCallAtATime, CallShape
<1>3. CASE ~processing /\ processing' = TRUE /\ run' = [run EXCEPT ![c] = "reading"]
  <2>1. \A d \in Caller : run[d] = "idle" /\ items[d] = {} /\ item[d] = Absent /\ Held(d) = {}
    BY <1>3, AllIdle
  <2>2. \A d \in Caller : run'[d] = IF d = c THEN "reading" ELSE "idle"
    BY <1>3, <2>1 DEF TypeOK
  <2>3. OneCallAtATime'
    BY <1>3, <2>2 DEF OneCallAtATime
  <2>4. CallShape'
    BY <1>1, <2>1, <2>2 DEF CallShape
  <2>. QED
    BY <1>1, <2>3, <2>4
<1>. QED
  BY <1>2, <1>3 DEF Trigger

\* The call c, and only c, goes on: what is left to show is about c.
LEMMA OnlyCaller ==
    ASSUME OneCallAtATime, CallShape, NEW c \in Caller, run[c] # "idle",
           TypeOK, processing' = processing,
           NEW s \in RunStates, run' = [run EXCEPT ![c] = s], s # "idle",
           \A d \in Caller \ {c} : items'[d] = items[d] /\ item'[d] = item[d]
    PROVE  /\ OneCallAtATime'
           /\ \A d \in Caller \ {c} :
                run'[d] = "idle" /\ items'[d] = {} /\ item'[d] = Absent /\ Held(d)' = {}
           /\ run'[c] = s
<1>1. \A d \in Caller \ {c} :
        run[d] = "idle" /\ items[d] = {} /\ item[d] = Absent
  BY OthersIdle
<1>2. \A d \in Caller \ {c} : run'[d] = "idle" /\ items'[d] = {} /\ item'[d] = Absent
  BY <1>1 DEF TypeOK
<1>3. run'[c] = s
  BY DEF TypeOK
<1>4. processing
  BY DEF OneCallAtATime
<1>5. OneCallAtATime'
  BY <1>2, <1>3, <1>4 DEF OneCallAtATime
<1>. QED
  BY <1>2, <1>3, <1>5 DEF Held

\* The call c ends: nobody has anything in hand.
LEMMA EndCallInv ==
    ASSUME TypeOK, OneCallAtATime, CallShape, NEW c \in Caller,
           run[c] # "idle", EndCall(c)
    PROVE  OneCallAtATime' /\ CallShape' /\ \A d \in Caller : Held(d)' = {}
<1>1. \A d \in Caller : run'[d] = "idle" /\ items'[d] = {} /\ item'[d] = Absent
  BY OthersIdle DEF EndCall, TypeOK
<1>2. \A d \in Caller : Held(d)' = {}
  BY <1>1 DEF Held
<1>3. OneCallAtATime'
  BY <1>1 DEF EndCall, OneCallAtATime
<1>4. CallShape'
  BY <1>1, <1>2 DEF CallShape
<1>. QED
  BY <1>2, <1>3, <1>4

-----------------------------------------------------------------------------
(* Every step of a call keeps the flag, what the calls have in hand and    *)
(* its place in the queue in order.                                        *)
LEMMA CallStepInv ==
    ASSUME IndInv, NEW c \in Caller, CallStep(c)
    PROVE  OneCallAtATime' /\ CallShape' /\ HeldIsQueued'
<1>. USE DEF IndInv
<1>1. CASE ReadQueue(c)
  <2>1. /\ run[c] = "reading" /\ run' = [run EXCEPT ![c] = "looping"]
        /\ items' = [items EXCEPT ![c] = Processable]
        /\ UNCHANGED <<item, processing, queue, received>>
    BY <1>1 DEF ReadQueue, serverVars
  <2>2. /\ OneCallAtATime' /\ run'[c] = "looping"
        /\ \A d \in Caller \ {c} :
             run'[d] = "idle" /\ items'[d] = {} /\ item'[d] = Absent /\ Held(d)' = {}
    <3>1. \A d \in Caller \ {c} : items'[d] = items[d] /\ item'[d] = item[d]
      BY <2>1 DEF TypeOK
    <3>2. "looping" \in RunStates /\ "looping" # "idle" /\ run[c] # "idle"
      BY <2>1 DEF RunStates
    <3>. QED
      BY <2>1, <3>1, <3>2, OnlyCaller
  <2>3. item'[c] = Absent /\ items'[c] = Processable
    BY <2>1 DEF CallShape, TypeOK
  <2>4. Held(c)' = Processable
    BY <2>3 DEF Held
  <2>5. Processable \subseteq Item
    BY ProcessableType
  <2>6. CallShape'
    BY <2>2, <2>3, <2>4, <2>5, ProcessableType, EngineAssumption DEF CallShape
  <2>7. HeldIsQueued'
    BY <2>1, <2>2, <2>4, <2>5, ProcessableType DEF HeldIsQueued, Item
  <2>. QED
    BY <2>2, <2>6, <2>7
<1>2. CASE EndRun(c)
  <2>1. run[c] # "idle" /\ EndCall(c)
    BY <1>2 DEF EndRun
  <2>2. OneCallAtATime' /\ CallShape' /\ \A d \in Caller : Held(d)' = {}
    BY <2>1, EndCallInv
  <2>. QED
    BY <2>2 DEF HeldIsQueued
<1>3. ASSUME NEW i \in items[c], Send(c, i)
      PROVE  OneCallAtATime' /\ CallShape' /\ HeldIsQueued'
  <2>1. /\ run[c] = "looping" /\ run' = [run EXCEPT ![c] = "sending"]
        /\ items' = [items EXCEPT ![c] = @ \ {i}] /\ item' = [item EXCEPT ![c] = i]
        /\ UNCHANGED <<processing, queue, received>>
    BY <1>3 DEF Send, serverVars
  <2>2. /\ OneCallAtATime' /\ run'[c] = "sending"
        /\ \A d \in Caller \ {c} :
             run'[d] = "idle" /\ items'[d] = {} /\ item'[d] = Absent /\ Held(d)' = {}
    <3>1. \A d \in Caller \ {c} : items'[d] = items[d] /\ item'[d] = item[d]
      BY <2>1 DEF TypeOK
    <3>2. "sending" \in RunStates /\ "sending" # "idle" /\ run[c] # "idle"
      BY <2>1 DEF RunStates
    <3>. QED
      BY <2>1, <3>1, <3>2, OnlyCaller
  <2>3. item'[c] = i /\ items'[c] = items[c] \ {i} /\ i \in Item
    BY <2>1 DEF TypeOK
  <2>4. Held(c)' \subseteq Held(c)
    BY <2>3 DEF Held
  <2>5. i # Absent /\ item'[c] \notin items'[c]
    BY <2>3, EngineAssumption
  <2>6. \A j, k \in Held(c)' : j.question = k.question => j = k
    BY <2>4 DEF CallShape
  <2>7. CallShape'
    BY <2>2, <2>3, <2>5, <2>6 DEF CallShape
  <2>8. HeldIsQueued'
    BY <2>1, <2>2, <2>4 DEF HeldIsQueued
  <2>. QED
    BY <2>2, <2>7, <2>8
<1>4. CASE ServerAccepts(c)
  <2>1. /\ run[c] = "sending" /\ run' = [run EXCEPT ![c] = "accepted"]
        /\ UNCHANGED <<processing, queue, items, item>>
        /\ received' = [received EXCEPT ![item[c].question] = item[c].stamp]
    BY <1>4 DEF ServerAccepts
  <2>2. /\ OneCallAtATime' /\ run'[c] = "accepted"
        /\ \A d \in Caller \ {c} :
             run'[d] = "idle" /\ items'[d] = {} /\ item'[d] = Absent /\ Held(d)' = {}
    BY <2>1, OnlyCaller DEF RunStates
  <2>3. Held(c)' = Held(c)
    BY <2>1 DEF Held
  <2>4. item[c] \in Item
    BY <2>1 DEF CallShape, TypeOK
  <2>5. received'[item'[c].question] # 0
    BY <2>1, <2>4 DEF Item, TypeOK
  <2>6. CallShape'
    BY <2>1, <2>2, <2>3, <2>5 DEF CallShape
  <2>7. HeldIsQueued'
    BY <2>1, <2>2, <2>3 DEF HeldIsQueued
  <2>. QED
    BY <2>2, <2>6, <2>7
<1>5. CASE Remove(c)
  <2>1. /\ run[c] = "accepted" /\ run' = [run EXCEPT ![c] = "looping"]
        /\ queue' = [queue EXCEPT ![item[c].question] = Absent]
        /\ item' = [item EXCEPT ![c] = Absent]
        /\ UNCHANGED <<processing, items, received>>
    BY <1>5 DEF Remove, serverVars
  <2>2. /\ OneCallAtATime' /\ run'[c] = "looping"
        /\ \A d \in Caller \ {c} :
             run'[d] = "idle" /\ items'[d] = {} /\ item'[d] = Absent /\ Held(d)' = {}
    BY <2>1, OnlyCaller DEF RunStates, TypeOK
  <2>3. item'[c] = Absent /\ items'[c] = items[c] /\ items[c] \subseteq Item
    BY <2>1 DEF TypeOK
  <2>4. Held(c)' = items[c] /\ items[c] \subseteq Held(c)
    BY <2>3 DEF Held
  <2>5. CallShape'
    <3>1. Absent \notin items'[c]
      BY <2>3, EngineAssumption
    <3>2. \A j, k \in Held(c)' : j.question = k.question => j = k
      BY <2>4 DEF CallShape
    <3>. QED
      BY <2>2, <2>3, <3>1, <3>2 DEF CallShape
  <2>6. item[c] \in Held(c) /\ item[c] \notin items[c] /\ item[c] # Absent
    BY <2>1 DEF CallShape, Held
  <2>7. \A i \in items[c] : i.question # item[c].question
    BY <2>4, <2>6 DEF CallShape
  <2>8. \A i \in items[c] : queue'[i.question] = queue[i.question]
    BY <2>1, <2>3, <2>7 DEF TypeOK, Item
  <2>9. HeldIsQueued'
    BY <2>2, <2>4, <2>8 DEF HeldIsQueued
  <2>. QED
    BY <2>2, <2>5, <2>9
<1>6. CASE Retry(c)
  <2>1. run[c] # "idle" /\ EndCall(c)
    BY <1>6 DEF Retry
  <2>2. OneCallAtATime' /\ CallShape' /\ \A d \in Caller : Held(d)' = {}
    BY <2>1, EndCallInv
  <2>. QED
    BY <2>2 DEF HeldIsQueued
<1>. QED
  BY <1>1, <1>2, <1>3, <1>4, <1>5, <1>6 DEF CallStep

\* The request of the call has failed.
LEMMA FailedInv ==
    ASSUME IndInv, NEW c \in Caller, run[c] \in {"sending", "accepted"},
           run' = [run EXCEPT ![c] = "failed"],
           UNCHANGED <<processing, queue, items, item, received>>
    PROVE  OneCallAtATime' /\ CallShape' /\ HeldIsQueued'
<1>. USE DEF IndInv
<1>1. /\ OneCallAtATime' /\ run'[c] = "failed"
      /\ \A d \in Caller \ {c} :
           run'[d] = "idle" /\ items'[d] = {} /\ item'[d] = Absent /\ Held(d)' = {}
  BY OnlyCaller DEF RunStates
<1>2. Held(c)' = Held(c)
  BY DEF Held
<1>3. CallShape'
  BY <1>1, <1>2 DEF CallShape
<1>4. HeldIsQueued'
  BY <1>1, <1>2 DEF HeldIsQueued
<1>. QED
  BY <1>1, <1>3, <1>4

\* A second changes no stamp and removes nothing.
LEMMA TickQueue ==
    ASSUME TypeOK, Tick, NEW q \in Question
    PROVE  /\ queue'[q] = Absent <=> queue[q] = Absent
           /\ queue[q] # Absent => queue'[q].stamp = queue[q].stamp
<1>1. queue'[q] = IF q \in Queued /\ queue[q].wait > 0
                  THEN [queue[q] EXCEPT !.wait = @ - 1] ELSE queue[q]
  BY DEF Tick
<1>2. CASE q \in Queued /\ queue[q].wait > 0
  <2>1. queue[q] \in QueuedAnswer
    BY <1>2 DEF Queued, TypeOK
  <2>2. /\ [queue[q] EXCEPT !.wait = @ - 1] \in QueuedAnswer
        /\ [queue[q] EXCEPT !.wait = @ - 1].stamp = queue[q].stamp
    BY <1>2, <2>1 DEF QueuedAnswer
  <2>. QED
    BY <1>1, <1>2, <2>1, <2>2, EngineAssumption
<1>3. CASE ~(q \in Queued /\ queue[q].wait > 0)
  BY <1>1, <1>3
<1>. QED
  BY <1>2, <1>3

\* A new answer is newer than everything a call has in hand.
LEMMA QueueAnswerQueue ==
    ASSUME TypeOK, NEW q \in Question, QueueAnswer(q)
    PROVE  /\ clock' = clock + 1 /\ clock' # 0
           /\ queue'[q] # Absent /\ queue'[q].stamp = clock'
           /\ \A p \in Question : p # q => queue'[p] = queue[p]
<1>. DEFINE e == [stamp |-> clock', attempts |-> 0, wait |-> 0]
<1>1. clock' = clock + 1 /\ clock' \in Nat \ {0}
  BY DEF QueueAnswer, TypeOK
<1>2. e \in QueuedAnswer /\ e.stamp = clock'
  BY <1>1 DEF QueuedAnswer
<1>3. queue' = [queue EXCEPT ![q] = e]
  BY DEF QueueAnswer
<1>. HIDE DEF e
<1>. QED
  BY <1>1, <1>2, <1>3, EngineAssumption DEF TypeOK

-----------------------------------------------------------------------------
(* An answer in the queue has been given.                                  *)
LEMMA NextStamps == IndInv /\ [Next]_vars => StampsAreGiven'
<1>. SUFFICES ASSUME IndInv, [Next]_vars PROVE StampsAreGiven'
  OBVIOUS
<1>. USE DEF IndInv
<1>0. ASSUME clock' = clock, NEW q \in Question,
             queue[q] = Absent => queue'[q] = Absent,
             queue'[q] # Absent => queue'[q].stamp = queue[q].stamp,
             queue'[q] # Absent
      PROVE  queue'[q].stamp <= clock'
  BY <1>0 DEF StampsAreGiven, Queued
<1>1. ASSUME NEW q \in Question, QueueAnswer(q) PROVE StampsAreGiven'
  <2>1. clock' \in Nat /\ clock <= clock'
    BY <1>1, QueueAnswerQueue DEF TypeOK
  <2>2. ASSUME NEW p \in Question, p # q, queue'[p] # Absent
        PROVE  queue'[p].stamp <= clock'
    <3>1. queue'[p] = queue[p] /\ queue[p].stamp <= clock
      BY <1>1, <2>2, QueueAnswerQueue DEF StampsAreGiven, Queued
    <3>2. queue[p].stamp \in Nat /\ clock \in Nat
      BY <2>2, <3>1 DEF TypeOK, QueuedAnswer
    <3>. QED
      BY <2>1, <3>1, <3>2
  <2>3. queue'[q].stamp <= clock'
    BY <1>1, <2>1, QueueAnswerQueue
  <2>. QED
    BY <2>2, <2>3 DEF StampsAreGiven, Queued
<1>2. ASSUME NEW c \in Caller, Remove(c) PROVE StampsAreGiven'
  BY <1>2 DEF Remove, StampsAreGiven, Queued, TypeOK
<1>3. ASSUME NEW c \in Caller, Retry(c) PROVE StampsAreGiven'
  <2>1. item[c] \in Item /\ item[c] \in Held(c) /\ IncrementRetry(item[c]) /\ clock' = clock
    BY <1>3, EngineAssumption DEF Retry, CallShape, Held, TypeOK
  <2>2. item[c].question \in Question /\ item[c].stamp \in Nat
    BY <2>1 DEF Item
  <2>3. queue[item[c].question] # Absent /\ queue[item[c].question].stamp >= item[c].stamp
    BY <2>1 DEF HeldIsQueued
  <2>4. queue[item[c].question].stamp \in Nat /\ queue[item[c].question].stamp <= clock
    BY <2>2, <2>3 DEF StampsAreGiven, Queued, TypeOK, QueuedAnswer
  <2>5. item[c].stamp <= clock'
    BY <2>1, <2>2, <2>3, <2>4 DEF TypeOK
  <2>. QED
    BY <2>1, <2>5, RetryType DEF StampsAreGiven, Queued
<1>4. CASE Tick
  BY <1>4, TickQueue DEF Tick, StampsAreGiven, Queued
<1>5. CASE UNCHANGED <<queue, clock>>
  BY <1>5 DEF StampsAreGiven, Queued
<1>. QED
  BY <1>1, <1>2, <1>3, <1>4, <1>5
     DEF Next, EngineNext, CallStep, Failure, Timing, vars, engineVars, ReadQueue, EndRun,
         Send, ServerAccepts, StrayArrives, ServerRefuses, ConnectionLost, ReplyLost,
         ProctoringFails, GoOffline, RetryTimeout, GoOnline, FlushStep, ReloadEngine

(* Every step keeps the inductive invariant.                               *)
LEMMA NextIndInv == IndInv /\ [Next]_vars => IndInv'
<1>. SUFFICES ASSUME IndInv, [Next]_vars
              PROVE  OneCallAtATime' /\ CallShape' /\ HeldIsQueued'
  BY NextTypeOK, NextStamps DEF IndInv
<1>. USE DEF IndInv
<1>1. ASSUME NEW q \in Question, QueueAnswer(q)
      PROVE  OneCallAtATime' /\ CallShape' /\ HeldIsQueued'
  <2>1. OneCallAtATime' /\ CallShape' /\ \A d \in Caller : Held(d)' = Held(d)
    BY <1>1, TriggerInv DEF QueueAnswer, Caller, serverVars
  <2>2. ASSUME NEW d \in Caller, NEW i \in Held(d)
        PROVE  queue'[i.question] # Absent /\ queue'[i.question].stamp >= i.stamp
    <3>1. queue[i.question] # Absent /\ queue[i.question].stamp >= i.stamp /\ i \in Item
      BY DEF HeldIsQueued, Held, TypeOK
    <3>2. CASE i.question # q
      BY <1>1, <3>1, <3>2, QueueAnswerQueue DEF Item
    <3>3. CASE i.question = q
      <4>1. queue[q].stamp \in Nat /\ queue[q].stamp <= clock /\ i.stamp \in Nat
        BY <3>1, <3>3 DEF StampsAreGiven, Queued, TypeOK, QueuedAnswer, Item
      <4>. QED
        BY <1>1, <3>1, <3>3, <4>1, QueueAnswerQueue DEF TypeOK
    <3>. QED
      BY <3>2, <3>3
  <2>. QED
    BY <2>1, <2>2 DEF HeldIsQueued
<1>2. ASSUME NEW c \in Caller, CallStep(c)
      PROVE  OneCallAtATime' /\ CallShape' /\ HeldIsQueued'
  BY <1>2, CallStepInv
<1>3. ASSUME NEW i \in stray, StrayArrives(i)
      PROVE  OneCallAtATime' /\ CallShape' /\ HeldIsQueued'
  <2>1. i \in Item /\ UNCHANGED <<queue, processing, run, items, item>>
    BY <1>3 DEF StrayArrives, engineVars, callVars, TypeOK
  <2>2. \A d \in Caller : Held(d)' = Held(d)
    BY <2>1 DEF Held
  <2>3. \A q \in Question : received[q] # 0 => received'[q] # 0
    BY <1>3, <2>1 DEF StrayArrives, TypeOK, Item
  <2>4. \A c \in Caller : run[c] = "accepted" => item[c].question \in Question
    BY DEF CallShape, TypeOK, Item
  <2>. QED
    BY <2>1, <2>2, <2>3, <2>4 DEF OneCallAtATime, CallShape, HeldIsQueued
<1>4. ASSUME NEW c \in Caller, ServerRefuses(c) \/ ConnectionLost(c) \/ ReplyLost(c)
      PROVE  OneCallAtATime' /\ CallShape' /\ HeldIsQueued'
  BY <1>4, FailedInv DEF ServerRefuses, ConnectionLost, ReplyLost, serverVars
<1>5. CASE Tick
  <2>1. UNCHANGED <<processing, run, items, item, received>>
    BY <1>5 DEF Tick, callVars, serverVars
  <2>2. \A d \in Caller : Held(d)' = Held(d) /\ Held(d) \subseteq Item
    BY <2>1 DEF Held, TypeOK
  <2>3. \A q \in Question : queue[q] # Absent =>
          queue'[q] # Absent /\ queue'[q].stamp = queue[q].stamp
    BY <1>5, TickQueue
  <2>4. \A i \in Item : i.question \in Question
    BY DEF Item
  <2>. QED
    BY <2>1, <2>2, <2>3, <2>4 DEF OneCallAtATime, CallShape, HeldIsQueued
<1>6. ASSUME NEW c \in Caller, Trigger(c), UNCHANGED <<queue, items, item, received>>
      PROVE  OneCallAtATime' /\ CallShape' /\ HeldIsQueued'
  BY <1>6, TriggerInv DEF HeldIsQueued
<1>7. CASE RetryTimeout \/ GoOnline \/ \E f \in Flusher : FlushStep(f)
  <2>1. CASE RetryTimeout
    BY <1>6, <2>1 DEF RetryTimeout, Caller, serverVars
  <2>2. ASSUME NEW f \in Flusher, FlushStep(f)
        PROVE  OneCallAtATime' /\ CallShape' /\ HeldIsQueued'
    BY <1>6, <2>2 DEF FlushStep, Caller, serverVars
  <2>3. CASE GoOnline
    <3>1. "wake" \in Caller /\ UNCHANGED <<queue, items, item, received>>
      BY <2>3 DEF GoOnline, Caller, serverVars
    <3>2. CASE UNCHANGED <<processing, run>>
      BY <3>1, <3>2 DEF OneCallAtATime, CallShape, HeldIsQueued, Held
    <3>3. CASE ~processing /\ processing' = TRUE /\ run' = [run EXCEPT !["wake"] = "reading"]
      <4>1. \A d \in Caller : run[d] = "idle" /\ items[d] = {} /\ item[d] = Absent /\ Held(d) = {}
        BY <3>3, AllIdle
      <4>2. \A d \in Caller : run'[d] = IF d = "wake" THEN "reading" ELSE "idle"
        BY <3>1, <3>3, <4>1 DEF TypeOK
      <4>3. OneCallAtATime'
        BY <3>1, <3>3, <4>2 DEF OneCallAtATime
      <4>4. \A d \in Caller : Held(d)' = {}
        BY <3>1, <4>1 DEF Held
      <4>5. CallShape' /\ HeldIsQueued'
        BY <3>1, <4>1, <4>2, <4>4 DEF CallShape, HeldIsQueued
      <4>. QED
        BY <4>3, <4>5
    <3>. QED
      BY <2>3, <3>2, <3>3 DEF GoOnline
  <2>. QED
    BY <1>7, <2>1, <2>2, <2>3
<1>8. CASE ReloadEngine
  <2>1. /\ "wake" \in Caller /\ processing' = online
        /\ \A d \in Caller : /\ run'[d] = IF d = "wake" /\ online THEN "reading" ELSE "idle"
                             /\ items'[d] = {} /\ item'[d] = Absent
    BY <1>8 DEF ReloadEngine, Caller
  <2>2. OneCallAtATime'
    BY <2>1 DEF OneCallAtATime, TypeOK
  <2>3. \A d \in Caller : Held(d)' = {}
    BY <2>1 DEF Held
  <2>4. CallShape' /\ HeldIsQueued'
    BY <2>1, <2>3 DEF CallShape, HeldIsQueued
  <2>. QED
    BY <2>2, <2>4
<1>9. CASE UNCHANGED <<queue, processing, run, items, item, received>>
  BY <1>9 DEF OneCallAtATime, CallShape, HeldIsQueued, Held
<1>. QED
  BY <1>1, <1>2, <1>3, <1>4, <1>5, <1>7, <1>8, <1>9
     DEF Next, EngineNext, Failure, Timing, vars, engineVars, callVars, serverVars,
         ProctoringFails, GoOffline

(* isProcessingAnswers keeps the senders apart, and what one of them is    *)
(* sending stays in the queue until it is done, for any number of callers. *)
THEOREM EngineInvariance == Spec => []IndInv
BY InitIndInv, NextIndInv, PTL DEF Spec

(* The state of the engine is always typed.                                *)
THEOREM EngineTypeCorrect == Spec => []TypeOK
BY EngineInvariance, PTL DEF IndInv

(* No two calls of processAnswers ever run side by side.                   *)
THEOREM CallsAreSerial == Spec => []OneCallAtATime
BY EngineInvariance, PTL DEF IndInv

-----------------------------------------------------------------------------
(* Only a question the server has an answer to leaves the queue.           *)
LEMMA NextAnswered ==
    IndInv /\ AnsweredIsQueuedOrReceived /\ [Next]_vars
      => AnsweredIsQueuedOrReceived'
<1>. SUFFICES ASSUME IndInv, AnsweredIsQueuedOrReceived, [Next]_vars
              PROVE  AnsweredIsQueuedOrReceived'
  OBVIOUS
<1>. USE DEF IndInv
<1>1. ASSUME NEW q \in Question, QueueAnswer(q) PROVE AnsweredIsQueuedOrReceived'
  <2>1. /\ queue'[q] # Absent /\ received' = received
        /\ \A p \in Question : p # q => queue'[p] = queue[p] /\ answered'[p] = answered[p]
    BY <1>1, QueueAnswerQueue DEF QueueAnswer, serverVars, TypeOK
  <2>. QED
    BY <2>1 DEF AnsweredIsQueuedOrReceived
<1>2. ASSUME NEW c \in Caller, ServerAccepts(c) PROVE AnsweredIsQueuedOrReceived'
  <2>1. item[c] \in Item
    BY <1>2 DEF ServerAccepts, CallShape, TypeOK
  <2>2. \A q \in Question : received[q] # 0 => received'[q] # 0
    BY <1>2, <2>1 DEF ServerAccepts, TypeOK, Item
  <2>. QED
    BY <1>2, <2>2 DEF ServerAccepts, AnsweredIsQueuedOrReceived
<1>3. ASSUME NEW i \in stray, StrayArrives(i) PROVE AnsweredIsQueuedOrReceived'
  <2>1. i \in Item /\ UNCHANGED <<queue, answered>>
    BY <1>3 DEF StrayArrives, engineVars, TypeOK
  <2>2. \A q \in Question : received[q] # 0 => received'[q] # 0
    BY <1>3, <2>1 DEF StrayArrives, TypeOK, Item
  <2>. QED
    BY <2>1, <2>2 DEF AnsweredIsQueuedOrReceived
<1>4. ASSUME NEW c \in Caller, Remove(c) PROVE AnsweredIsQueuedOrReceived'
  <2>1. /\ run[c] = "accepted" /\ UNCHANGED <<answered, received>>
        /\ queue' = [queue EXCEPT ![item[c].question] = Absent]
    BY <1>4 DEF Remove, serverVars
  <2>2. received[item[c].question] # 0
    BY <2>1 DEF CallShape
  <2>. QED
    BY <2>1, <2>2 DEF AnsweredIsQueuedOrReceived, TypeOK
<1>5. ASSUME NEW c \in Caller, Retry(c) PROVE AnsweredIsQueuedOrReceived'
  <2>1. /\ item[c] \in Item /\ IncrementRetry(item[c])
        /\ UNCHANGED <<answered, received>>
    BY <1>5 DEF Retry, CallShape, TypeOK, serverVars
  <2>. QED
    BY <2>1, RetryType DEF AnsweredIsQueuedOrReceived
<1>6. CASE Tick
  BY <1>6, TickQueue DEF Tick, serverVars, AnsweredIsQueuedOrReceived
<1>7. CASE UNCHANGED <<queue, answered, received>>
  BY <1>7 DEF AnsweredIsQueuedOrReceived
<1>. QED
  BY <1>1, <1>2, <1>3, <1>4, <1>5, <1>6, <1>7
     DEF Next, EngineNext, CallStep, Failure, Timing, vars, engineVars, serverVars,
         ReadQueue, EndRun, Send, ServerRefuses, ConnectionLost, ReplyLost,
         ProctoringFails, GoOffline, RetryTimeout, GoOnline, FlushStep, ReloadEngine

(* A question the candidate has answered is never forgotten, whatever is   *)
(* lost, refused, retried or reloaded.                                     *)
THEOREM NoQuestionForgotten == Spec => []AnsweredIsQueuedOrReceived
<1>1. Init => AnsweredIsQueuedOrReceived
  BY DEF Init, AnsweredIsQueuedOrReceived
<1>. QED
  BY <1>1, EngineInvariance, NextAnswered, PTL DEF Spec

-----------------------------------------------------------------------------
(* Without stray requests nothing in the browser is behind the server.     *)
LEMMA NextOrder ==
    ASSUME Strays = FALSE
    PROVE  IndInv /\ OrderInv /\ [Next]_vars
             => OrderInv' /\ \A q \in Question : received'[q] >= received[q]
<1>. SUFFICES ASSUME IndInv, OrderInv, [Next]_vars
              PROVE  OrderInv' /\ \A q \in Question : received'[q] >= received[q]
  OBVIOUS
<1>. USE DEF IndInv, OrderInv
<1>h. \A c \in Caller : \A i \in Held(c) :
        /\ i \in Item /\ i.question \in Question /\ i.stamp \in Nat
        /\ queue[i.question] # Absent /\ queue[i.question].stamp \in Nat
        /\ i.stamp <= queue[i.question].stamp /\ i.stamp <= clock
  <2>. SUFFICES ASSUME NEW c \in Caller, NEW i \in Held(c)
                PROVE  /\ i \in Item /\ i.question \in Question /\ i.stamp \in Nat
                       /\ queue[i.question] # Absent /\ queue[i.question].stamp \in Nat
                       /\ i.stamp <= queue[i.question].stamp /\ i.stamp <= clock
    OBVIOUS
  <2>1. i \in Item
    BY DEF Held, TypeOK
  <2>2. i.question \in Question /\ i.stamp \in Nat
    BY <2>1 DEF Item
  <2>3. queue[i.question] # Absent /\ queue[i.question].stamp >= i.stamp
    BY DEF HeldIsQueued
  <2>4. queue[i.question].stamp \in Nat /\ queue[i.question].stamp <= clock
    BY <2>2, <2>3 DEF StampsAreGiven, Queued, TypeOK, QueuedAnswer
  <2>. QED
    BY <2>1, <2>2, <2>3, <2>4 DEF TypeOK
\* Steps that neither bring anything to the server nor add an entry.
<1>0. ASSUME UNCHANGED <<received, clock, stray>>,
             \A c \in Caller : Held(c)' \subseteq Held(c),
             \A q \in Question : queue'[q] # Absent =>
               queue[q] # Absent /\ queue'[q].stamp = queue[q].stamp
      PROVE  OrderInv' /\ \A q \in Question : received'[q] >= received[q]
  <2>1. QueueIsNotBehind'
    BY <1>0 DEF QueueIsNotBehind
  <2>2. HeldIsNotBehind'
    BY <1>0 DEF HeldIsNotBehind
  <2>3. \A q \in Question : received'[q] >= received[q] /\ received'[q] <= clock'
    BY <1>0 DEF TypeOK
  <2>. QED
    BY <1>0, <2>1, <2>2, <2>3
<1>1. ASSUME NEW q \in Question, QueueAnswer(q)
      PROVE  OrderInv' /\ \A p \in Question : received'[p] >= received[p]
  <2>1. UNCHANGED <<items, item, received, stray>> /\ clock' = clock + 1
    BY <1>1 DEF QueueAnswer, serverVars
  <2>2. \A p \in Question : received[p] \in Nat /\ received[p] <= clock
    BY DEF TypeOK
  <2>3. QueueIsNotBehind'
    BY <1>1, <2>1, <2>2, QueueAnswerQueue DEF QueueIsNotBehind, TypeOK
  <2>4. HeldIsNotBehind'
    BY <2>1 DEF HeldIsNotBehind, Held
  <2>5. \A p \in Question : received'[p] >= received[p] /\ received'[p] <= clock'
    BY <2>1, <2>2 DEF TypeOK
  <2>. QED
    BY <2>1, <2>3, <2>4, <2>5
<1>2. ASSUME NEW c \in Caller, ServerAccepts(c)
      PROVE  OrderInv' /\ \A q \in Question : received'[q] >= received[q]
  <2>. DEFINE i == item[c]
  <2>1. /\ run[c] = "sending" /\ UNCHANGED <<queue, items, item, clock, stray>>
        /\ received' = [received EXCEPT ![i.question] = i.stamp]
    BY <1>2 DEF ServerAccepts
  <2>2. i \in Held(c)
    BY <2>1 DEF CallShape, Held
  <2>3. i.question \in Question /\ i.stamp \in Nat /\ i.stamp >= received[i.question]
    BY <1>h, <2>2 DEF HeldIsNotBehind
  <2>4. \A q \in Question : received'[q] = IF q = i.question THEN i.stamp ELSE received[q]
    BY <2>1, <2>3 DEF TypeOK
  <2>5. QueueIsNotBehind'
    BY <1>h, <2>1, <2>2, <2>4 DEF QueueIsNotBehind
  <2>6. \A d \in Caller : d # c => Held(d) = {}
    BY <2>1, OthersIdle
  <2>7. \A j \in Held(c) : j.question = i.question => j = i
    BY <2>2 DEF CallShape
  <2>8. \A d \in Caller : Held(d)' = Held(d)
    BY <2>1 DEF Held
  <2>9. ASSUME NEW d \in Caller, NEW j \in Held(d)
        PROVE  j.stamp >= received'[j.question]
    <3>1. j \in Held(c) /\ j.question \in Question /\ j.stamp \in Nat
      BY <1>h, <2>6
    <3>2. CASE j.question = i.question
      BY <2>3, <2>4, <2>7, <3>1, <3>2
    <3>3. CASE j.question # i.question
      BY <2>4, <3>1, <3>3 DEF HeldIsNotBehind
    <3>. QED
      BY <3>2, <3>3
  <2>10. HeldIsNotBehind'
    BY <2>8, <2>9 DEF HeldIsNotBehind
  <2>11. \A q \in Question : received'[q] >= received[q] /\ received'[q] <= clock'
    BY <1>h, <2>1, <2>2, <2>3, <2>4 DEF TypeOK
  <2>. QED
    BY <2>1, <2>5, <2>10, <2>11
<1>3. ASSUME NEW c \in Caller, ReadQueue(c)
      PROVE  OrderInv' /\ \A q \in Question : received'[q] >= received[q]
  <2>1. /\ UNCHANGED <<queue, item, clock, stray, received>>
        /\ items' = [items EXCEPT ![c] = Processable]
    BY <1>3 DEF ReadQueue, serverVars
  <2>2. \A j \in Processable : j.stamp >= received[j.question]
    BY ProcessableType DEF QueueIsNotBehind, Item
  <2>3. \A d \in Caller : Held(d)' \subseteq Held(d) \cup Processable
    BY <2>1 DEF Held, TypeOK
  <2>4. HeldIsNotBehind'
    BY <2>1, <2>2, <2>3 DEF HeldIsNotBehind
  <2>5. QueueIsNotBehind'
    BY <2>1 DEF QueueIsNotBehind
  <2>6. \A q \in Question : received'[q] >= received[q] /\ received'[q] <= clock'
    BY <2>1 DEF TypeOK
  <2>. QED
    BY <2>1, <2>4, <2>5, <2>6
<1>4. ASSUME NEW c \in Caller, Retry(c)
      PROVE  OrderInv' /\ \A q \in Question : received'[q] >= received[q]
  <2>1. /\ run[c] = "failed" /\ IncrementRetry(item[c]) /\ EndCall(c)
        /\ UNCHANGED <<clock, stray, received>>
    BY <1>4 DEF Retry, serverVars
  <2>2. item[c] \in Held(c)
    BY <2>1 DEF CallShape, Held
  <2>3. QueueIsNotBehind'
    BY <1>h, <2>1, <2>2, RetryType DEF QueueIsNotBehind, HeldIsNotBehind
  <2>4. HeldIsNotBehind'
    BY <2>1, EndCallInv DEF HeldIsNotBehind
  <2>5. \A q \in Question : received'[q] >= received[q] /\ received'[q] <= clock'
    BY <2>1 DEF TypeOK
  <2>. QED
    BY <2>1, <2>3, <2>4, <2>5
<1>5. ASSUME NEW c \in Caller, Remove(c)
      PROVE  OrderInv' /\ \A q \in Question : received'[q] >= received[q]
  <2>1. \A d \in Caller : Held(d)' \subseteq Held(d)
    BY <1>5 DEF Remove, Held, TypeOK
  <2>. QED
    BY <1>0, <1>5, <2>1 DEF Remove, serverVars, TypeOK
<1>6. ASSUME NEW c \in Caller, NEW i \in items[c], Send(c, i)
      PROVE  OrderInv' /\ \A q \in Question : received'[q] >= received[q]
  <2>1. \A d \in Caller : Held(d)' \subseteq Held(d)
    BY <1>6 DEF Send, Held, TypeOK
  <2>. QED
    BY <1>0, <1>6, <2>1 DEF Send, serverVars
<1>7. ASSUME NEW c \in Caller, EndRun(c)
      PROVE  OrderInv' /\ \A q \in Question : received'[q] >= received[q]
  <2>1. \A d \in Caller : Held(d)' \subseteq Held(d)
    BY <1>7, EndCallInv DEF EndRun
  <2>. QED
    BY <1>0, <1>7, <2>1 DEF EndRun, serverVars
<1>8. CASE Tick
  <2>1. \A d \in Caller : Held(d)' = Held(d)
    BY <1>8 DEF Tick, callVars, Held
  <2>. QED
    BY <1>0, <1>8, <2>1, TickQueue DEF Tick, serverVars
<1>9. CASE ReloadEngine
  <2>1. \A d \in Caller : Held(d)' = {}
    BY <1>9 DEF ReloadEngine, Held
  <2>. QED
    BY <1>0, <1>9, <2>1 DEF ReloadEngine
<1>10. ASSUME UNCHANGED <<queue, items, item, clock, stray, received>>
       PROVE  OrderInv' /\ \A q \in Question : received'[q] >= received[q]
  <2>1. \A d \in Caller : Held(d)' = Held(d)
    BY <1>10 DEF Held
  <2>. QED
    BY <1>0, <1>10, <2>1
<1>11. ASSUME NEW c \in Caller, CallStep(c)
       PROVE  OrderInv' /\ \A q \in Question : received'[q] >= received[q]
  BY <1>2, <1>3, <1>4, <1>5, <1>6, <1>7, <1>11 DEF CallStep
<1>12. CASE Failure
  BY <1>10, <1>12
     DEF Failure, ServerRefuses, ConnectionLost, ReplyLost, ProctoringFails, GoOffline,
         engineVars, callVars, serverVars
<1>13. CASE RetryTimeout \/ GoOnline \/ \E f \in Flusher : FlushStep(f)
  BY <1>10, <1>13 DEF RetryTimeout, GoOnline, FlushStep, serverVars
<1>14. CASE UNCHANGED vars
  BY <1>10, <1>14 DEF vars, engineVars, callVars, serverVars
<1>15. ~ \E i \in stray : StrayArrives(i)
  OBVIOUS
<1>. QED
  BY <1>1, <1>8, <1>9, <1>11, <1>12, <1>13, <1>14, <1>15 DEF Next, EngineNext, Timing

(* When no request outlives its connection, the server gets the answers to *)
(* a question in the order they were given.                                *)
THEOREM ServerNeverGoesBack ==
    ASSUME Strays = FALSE
    PROVE  Spec => NeverOlder
<1>1. Init => OrderInv
  BY EngineAssumption
     DEF Init, OrderInv, QueueIsNotBehind, HeldIsNotBehind, Held
<1>2. IndInv /\ OrderInv /\ [Next]_vars => OrderInv'
  BY NextOrder
<1>3. Spec => []OrderInv
  BY <1>1, <1>2, EngineInvariance, PTL DEF Spec
<1>4. IndInv /\ OrderInv /\ [Next]_vars
        => [\A q \in Question : received'[q] >= received[q]]_vars
  BY NextOrder
<1>. QED
  BY <1>3, <1>4, EngineInvariance, PTL DEF Spec, NeverOlder

-----------------------------------------------------------------------------
(***************************************************************************)
(* The exam page.  It composes the queue with the finalize requests: each  *)
(* of its steps is a step of the engine, or touches only what the engine's *)
(* invariant does not speak of, so what is shown above of the queue        *)
(* carries over, and the two promises of the page follow from it.          *)
(***************************************************************************)
SubmitStates ==
    {"idle", "flushing", "awaiting", "checking", "posting", "confirmed"}

PageTyped ==
    /\ submit \in [Flusher -> SubmitStates]
    /\ attempt \in {"IN_PROGRESS", "SUBMITTED", "COMPLETED"}

\* A finalize request that was answered 2xx has closed the attempt.
ConfirmedIsClosed ==
    \A f \in Flusher : submit[f] = "confirmed" => attempt # "IN_PROGRESS"

QueueInv == IndInv /\ AnsweredIsQueuedOrReceived

HandInv == PageTyped /\ ConfirmedIsClosed /\ HandedInIsClosed

-----------------------------------------------------------------------------
(* The invariant of the queue does not depend on whether the server still  *)
(* takes answers, nor on how many faults there were.                       *)
LEMMA ServerTurns ==
    ASSUME QueueInv, UNCHANGED <<engineVars, online, received, stray>>,
           accepting' \in BOOLEAN, faults' \in Nat
    PROVE  QueueInv'
<1>1. UNCHANGED <<answered, queue, processing, run, items, item, timer, clock,
                  online, received, stray>>
  BY DEF engineVars, callVars
<1>2. TypeOK'
  BY <1>1 DEF QueueInv, IndInv, TypeOK
<1>3. OneCallAtATime' /\ AnsweredIsQueuedOrReceived' /\ StampsAreGiven'
  BY <1>1 DEF QueueInv, IndInv, OneCallAtATime, AnsweredIsQueuedOrReceived,
              StampsAreGiven, Queued
<1>4. \A c \in Caller : Held(c)' = Held(c)
  BY <1>1 DEF Held
<1>5. HeldIsQueued'
  BY <1>1, <1>4 DEF QueueInv, IndInv, HeldIsQueued
<1>6. CallShape'
  BY <1>1, <1>4 DEF QueueInv, IndInv, CallShape
<1>. QED
  BY <1>2, <1>3, <1>5, <1>6 DEF QueueInv, IndInv

\* A step of the engine keeps it.
LEMMA EngineTurns == QueueInv /\ [Next]_vars => QueueInv'
BY NextIndInv, NextAnswered DEF QueueInv

LEMMA CloseAttemptType ==
    ASSUME QueueInv, NEW status, CloseAttempt(status)
    PROVE  accepting' \in BOOLEAN
BY PageAssumption DEF CloseAttempt, QueueInv, IndInv, TypeOK

LEMMA FaultType == QueueInv /\ Fault => faults' \in Nat
BY DEF Fault, QueueInv, IndInv, TypeOK

-----------------------------------------------------------------------------
(* Every step of the page keeps the invariant of the queue.                *)
LEMMA PageTurns == QueueInv /\ [PageNext]_allVars => QueueInv'
<1>. SUFFICES ASSUME QueueInv, [PageNext]_allVars PROVE QueueInv'
  OBVIOUS
<1>0. accepting \in BOOLEAN /\ faults \in Nat
  BY DEF QueueInv, IndInv, TypeOK
<1>1. CASE EngineStep
  <2>1. EngineNext
    BY <1>1 DEF EngineStep, EngineNext
  <2>. QED
    BY <2>1, EngineTurns DEF Next
<1>2. ASSUME NEW q \in Question, Answer(q) PROVE QueueInv'
  <2>1. EngineNext
    BY <1>2 DEF Answer, EngineNext
  <2>. QED
    BY <2>1, EngineTurns DEF Next
<1>3. ASSUME NEW f \in Flusher, FlushProcess(f) PROVE QueueInv'
  <2>1. FlushStep(f)
    BY <1>3 DEF FlushProcess, FlushStep
  <2>. QED
    BY <2>1, EngineTurns DEF Next
<1>4. ASSUME UNCHANGED vars PROVE QueueInv'
  BY <1>4, EngineTurns
<1>5. ASSUME NEW f \in Flusher,
             \/ ClickFinalize(f) \/ FlushAwaited(f) \/ FlushDone(f)
             \/ FlushAgain(f) \/ FlushTimesOut(f) \/ Confirm(f)
      PROVE  QueueInv'
  BY <1>4, <1>5 DEF ClickFinalize, FlushAwaited, FlushDone, FlushAgain,
                    FlushTimesOut, Confirm
<1>6. CASE TimeUp
  BY <1>4, <1>6 DEF TimeUp
<1>7. ASSUME NEW f \in Flusher, FinalizeSucceeds(f) PROVE QueueInv'
  BY <1>0, <1>7, ServerTurns, CloseAttemptType DEF FinalizeSucceeds
<1>8. ASSUME NEW f \in Flusher, FinalizeBreaks(f) PROVE QueueInv'
  BY <1>8, ServerTurns, CloseAttemptType, FaultType DEF FinalizeBreaks
<1>9. ASSUME NEW f \in Flusher, FinalizeLost(f) PROVE QueueInv'
  <2>1. faults' \in Nat
    BY <1>9, FaultType DEF FinalizeLost
  <2>2. UNCHANGED <<engineVars, online, received, stray>> /\ accepting' = accepting
    BY <1>9 DEF FinalizeLost, serverVars
  <2>. QED
    BY <1>0, <2>1, <2>2, ServerTurns
<1>10. CASE StrayFinalize
  BY <1>0, <1>10, ServerTurns, CloseAttemptType DEF StrayFinalize
<1>11. CASE ReloadPage
  BY <1>11, EngineTurns DEF ReloadPage, Next
<1>12. CASE LateWindowCloses
  BY <1>0, <1>12, ServerTurns DEF LateWindowCloses
<1>13. CASE UNCHANGED allVars
  BY <1>4, <1>13 DEF allVars
<1>. QED
  BY <1>1, <1>2, <1>3, <1>5, <1>6, <1>7, <1>8, <1>9, <1>10, <1>11, <1>12,
     <1>13 DEF PageNext, SubmitStep

LEMMA PageStarts == PageInit => QueueInv /\ HandInv
<1>. SUFFICES ASSUME PageInit PROVE QueueInv /\ HandInv
  OBVIOUS
<1>1. Init
  BY DEF PageInit
<1>2. AnsweredIsQueuedOrReceived
  BY <1>1 DEF Init, AnsweredIsQueuedOrReceived
<1>3. HandInv
  BY DEF PageInit, HandInv, PageTyped, SubmitStates, ConfirmedIsClosed,
         HandedInIsClosed
<1>. QED
  BY <1>1, <1>2, <1>3, InitIndInv DEF QueueInv

(* Whatever the candidate clicks and whatever is lost, the queue under the *)
(* page stays as SyncEngine promises.                                      *)
THEOREM PageKeepsQueue == PageSpec => []QueueInv
BY PageStarts, PageTurns, PTL DEF PageSpec

-----------------------------------------------------------------------------
\* A call that goes to any state but "confirmed" leaves the attempt as it is.
LEMMA GoesOn ==
    ASSUME HandInv, NEW f \in Flusher, NEW s \in SubmitStates \ {"confirmed"},
           GoTo(f, s), attempt' = attempt, page' = page \/ page' # "SUBMITTED"
    PROVE  HandInv'
<1>1. \A g \in Flusher : submit'[g] = IF g = f THEN s ELSE submit[g]
  BY DEF GoTo, HandInv, PageTyped
<1>2. PageTyped'
  BY DEF GoTo, HandInv, PageTyped
<1>3. ConfirmedIsClosed' /\ HandedInIsClosed'
  BY <1>1 DEF HandInv, ConfirmedIsClosed, HandedInIsClosed
<1>. QED
  BY <1>2, <1>3 DEF HandInv

\* Once the attempt is closed, nothing is left to show.
LEMMA ClosedIsClosed ==
    ASSUME attempt' \in {"SUBMITTED", "COMPLETED"},
           submit' \in [Flusher -> SubmitStates]
    PROVE  HandInv'
BY DEF HandInv, PageTyped, ConfirmedIsClosed, HandedInIsClosed

(* The page is told of a closed attempt only after the server closed it.   *)
LEMMA PageHands == HandInv /\ [PageNext]_allVars => HandInv'
<1>. SUFFICES ASSUME HandInv, [PageNext]_allVars PROVE HandInv'
  OBVIOUS
<1>. USE DEF SubmitStates
<1>0. submit \in [Flusher -> SubmitStates]
  BY DEF HandInv, PageTyped
<1>1. ASSUME UNCHANGED pageVars PROVE HandInv'
  BY <1>1 DEF pageVars, HandInv, PageTyped, ConfirmedIsClosed, HandedInIsClosed
<1>2. CASE EngineStep
  BY <1>1, <1>2 DEF EngineStep
<1>3. ASSUME NEW q \in Question, Answer(q) PROVE HandInv'
  BY <1>1, <1>3 DEF Answer
<1>4. ASSUME NEW f \in Flusher,
             \/ ClickFinalize(f) \/ FlushAwaited(f) \/ FlushDone(f)
             \/ FlushAgain(f) \/ FlushTimesOut(f)
      PROVE  HandInv'
  BY <1>4, GoesOn DEF ClickFinalize, FlushAwaited, FlushDone, FlushAgain,
                      FlushTimesOut
<1>5. ASSUME NEW f \in Flusher, FlushProcess(f) PROVE HandInv'
  <2>. DEFINE s == IF processing \/ ~online THEN "checking" ELSE "awaiting"
  <2>1. s \in SubmitStates \ {"confirmed"} /\ GoTo(f, s)
    BY <1>5 DEF FlushProcess
  <2>2. attempt' = attempt /\ page' = page
    BY <1>5 DEF FlushProcess
  <2>. QED
    BY <2>1, <2>2, GoesOn
<1>6. CASE TimeUp
  BY <1>6, PageAssumption, GoesOn DEF TimeUp
<1>7. ASSUME NEW f \in Flusher, FinalizeLost(f) PROVE HandInv'
  BY <1>7, GoesOn DEF FinalizeLost
<1>8. ASSUME NEW f \in Flusher, FinalizeSucceeds(f) \/ FinalizeBreaks(f)
      PROVE  HandInv'
  BY <1>0, <1>8, ClosedIsClosed DEF FinalizeSucceeds, FinalizeBreaks,
                                    CloseAttempt, GoTo
<1>9. ASSUME NEW f \in Flusher, Confirm(f) PROVE HandInv'
  <2>1. attempt' \in {"SUBMITTED", "COMPLETED"}
    BY <1>9 DEF Confirm, HandInv, ConfirmedIsClosed, PageTyped
  <2>. QED
    BY <1>0, <1>9, <2>1, ClosedIsClosed DEF Confirm, GoTo
<1>10. CASE StrayFinalize
  BY <1>0, <1>10, ClosedIsClosed DEF StrayFinalize, CloseAttempt
<1>11. CASE ReloadPage
  BY <1>11 DEF ReloadPage, Loaded, HandInv, PageTyped, ConfirmedIsClosed,
               HandedInIsClosed
<1>12. CASE LateWindowCloses
  BY <1>1, <1>12 DEF LateWindowCloses
<1>13. CASE UNCHANGED allVars
  BY <1>1, <1>13 DEF allVars
<1>. QED
  BY <1>2, <1>3, <1>4, <1>5, <1>6, <1>7, <1>8, <1>9, <1>10, <1>11, <1>12,
     <1>13 DEF PageNext, SubmitStep

(* The page never says that the exam has been handed in while the attempt  *)
(* is open, however many clicks, reloads and lost replies there are.       *)
THEOREM SubmittedIsClosed == PageSpec => []HandedInIsClosed
<1>1. HandInv => HandedInIsClosed
  BY DEF HandInv
<1>. QED
  BY <1>1, PageStarts, PageHands, PTL DEF PageSpec

-----------------------------------------------------------------------------
(* A finalize request starts only from an empty queue, and then the server *)
(* has every answered question.                                            *)
LEMMA PostingIsFlushed ==
    ASSUME QueueInv, HandInv, [PageNext]_allVars, NEW f \in Flusher,
           submit[f] # "posting", submit'[f] = "posting",
           NEW q \in Question, answered[q] # 0
    PROVE  received[q] # 0
<1>1. \A g \in Flusher, s \in SubmitStates \ {"posting"} : ~GoTo(g, s)
  BY DEF GoTo, HandInv, PageTyped
<1>2. PICK g \in Flusher : FlushDone(g)
  <2>. USE DEF SubmitStates
  <2>1. submit' # submit
    OBVIOUS
  <2>2. PageNext /\ ~EngineStep /\ ~StrayFinalize /\ ~LateWindowCloses
        /\ \A p \in Question : ~Answer(p)
    BY <2>1 DEF allVars, pageVars, EngineStep, StrayFinalize,
                LateWindowCloses, Answer
  <2>3. ~TimeUp
    BY <1>1, PageAssumption DEF TimeUp
  <2>4. ~ReloadPage
    BY DEF ReloadPage
  <2>5. \A h \in Flusher :
          /\ ~ClickFinalize(h) /\ ~FlushAwaited(h) /\ ~FlushAgain(h)
          /\ ~FlushTimesOut(h) /\ ~FinalizeSucceeds(h) /\ ~FinalizeBreaks(h)
          /\ ~FinalizeLost(h) /\ ~Confirm(h)
    BY <1>1 DEF ClickFinalize, FlushAwaited, FlushAgain, FlushTimesOut,
                FinalizeSucceeds, FinalizeBreaks, FinalizeLost, Confirm
  <2>6. ASSUME NEW h \in Flusher PROVE ~FlushProcess(h)
    <3>1. (IF processing \/ ~online THEN "checking" ELSE "awaiting")
             \in SubmitStates \ {"posting"}
      OBVIOUS
    <3>. QED
      BY <1>1, <3>1 DEF FlushProcess
  <2>. QED
    BY <2>2, <2>3, <2>4, <2>5, <2>6 DEF PageNext, SubmitStep
<1>3. queue[q] = Absent
  BY <1>2 DEF FlushDone, Queued
<1>. QED
  BY <1>3 DEF QueueInv, AnsweredIsQueuedOrReceived

(* Nobody hands the exam in over the head of an answer that is still in    *)
(* the browser.                                                            *)
THEOREM NothingLeftBehind == PageSpec => FlushedBeforeFinalize
<1>1. QueueInv /\ HandInv /\ [PageNext]_allVars
        => [\A f \in Flusher : submit[f] # "posting" /\ submit'[f] = "posting"
              => \A q \in Question : answered[q] # 0 => received[q] # 0]_allVars
  BY PostingIsFlushed
<1>. QED
  BY <1>1, PageStarts, PageTurns, PageHands, PTL
     DEF PageSpec, FlushedBeforeFinalize
=============================================================================
