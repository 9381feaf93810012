-------------------------- MODULE ProctoringProofs --------------------------
(***************************************************************************)
(* Proofs about ProctoringQueue for every size of batch, every number of   *)
(* events, faults and jobs.                                                *)
(***************************************************************************)
EXTENDS ProctoringQueue, FiniteSetTheorems, SequenceTheorems, TLAPS

\* A sequence is one over every set that has its elements.
LEMMA SeqOver ==
    ASSUME NEW S, NEW T, NEW s \in Seq(S), \A k \in DOMAIN s : s[k] \in T
    PROVE  s \in Seq(T)
<1>1. PICK n \in Nat : s \in [1..n -> S]
  BY SeqDef
<1>2. s \in [1..n -> T]
  BY <1>1
<1>. QED
  BY <1>2, SeqDef

LEMMA FunctionIsSeq ==
    ASSUME NEW S, NEW n \in Nat, NEW s \in [1..n -> S]
    PROVE  s \in Seq(S) /\ DOMAIN s = 1..n
BY SeqDef

\* What a call reads is a sequence of entries that are not waiting.
LEMMA BatchesType ==
    ASSUME TypeOK, NEW b \in Batches
    PROVE  b \in Seq(Processable)
<1>1. IsFiniteSet(Processable)
  <2>1. Len(events) \in Nat
    BY DEF TypeOK
  <2>2. IsFiniteSet(Observed)
    BY <2>1, FS_Interval DEF Observed
  <2>. QED
    BY <2>2, FS_Subset DEF Processable, TypeOK
<1>2. BatchLength \in Nat
  BY <1>1, FS_CardinalityType, ProctoringAssumption DEF BatchLength
<1>3. b \in [1..BatchLength -> Processable]
  BY DEF Batches
<1>. QED
  BY <1>2, <1>3, FunctionIsSeq

\* The elements of the batch are entries of the queue that are not waiting.
LEMMA ContentInQueue ==
    TypeOK => Content(batch) \subseteq queue /\ Content(batch) \cap waiting = {}
<1>. SUFFICES ASSUME TypeOK, NEW k \in DOMAIN batch
              PROVE  batch[k] \in queue /\ batch[k] \notin waiting
  BY DEF Content
<1>1. batch \in Seq(Processable)
  BY DEF TypeOK
<1>2. batch[k] \in Processable
  BY <1>1
<1>. QED
  BY <1>2 DEF Processable

\* A batch stays one while its entries stay in the queue and do not wait.
LEMMA BatchStays ==
    ASSUME TypeOK, UNCHANGED batch, Processable \subseteq Processable'
    PROVE  batch' \in Seq(Processable')
<1>1. batch \in Seq(Processable)
  BY DEF TypeOK
<1>2. \A k \in DOMAIN batch : batch[k] \in Processable'
  BY <1>1
<1>3. batch \in Seq(Processable')
  BY <1>1, <1>2, SeqOver
<1>. QED
  BY <1>3

LEMMA NoBatch == \A S : <<>> \in Seq(S)
OBVIOUS

-----------------------------------------------------------------------------
(* What the steps do to the list of events.                                *)
LEMMA ObserveEvents ==
    ASSUME TypeOK, NEW focus \in BOOLEAN, NEW tie \in BOOLEAN, Observe(focus, tie)
    PROVE  /\ events' \in Seq(EventRecord)
           /\ Len(events') = Len(events) + 1
           /\ \A e \in Observed : events'[e] = events[e]
           /\ Observed' = Observed \cup {Len(events) + 1}
           /\ ~tie => events'[Len(events) + 1].time = LastTime + 1
<1>. DEFINE r == [time |-> IF tie THEN LastTime ELSE LastTime + 1,
                  focus |-> focus, seq |-> 0]
<1>1. LastTime \in Nat
  <2>1. CASE events = <<>>
    BY <2>1 DEF LastTime
  <2>2. CASE events # <<>>
    <3>1. Len(events) \in 1..Len(events)
      BY <2>2 DEF TypeOK
    <3>2. events[Len(events)] \in EventRecord
      BY <3>1 DEF TypeOK
    <3>. QED
      BY <2>2, <3>2 DEF LastTime, EventRecord
  <2>. QED
    BY <2>1, <2>2
<1>2. r \in EventRecord
  BY <1>1 DEF EventRecord
<1>3. events' = Append(events, r)
  BY DEF Observe
<1>4. ~tie => r.time = LastTime + 1
  OBVIOUS
<1>. HIDE DEF r
<1>5. /\ events' \in Seq(EventRecord)
      /\ Len(events') = Len(events) + 1
      /\ \A e \in 1..Len(events) : events'[e] = events[e]
      /\ events'[Len(events) + 1] = r
  BY <1>2, <1>3 DEF TypeOK
<1>6. Observed' = Observed \cup {Len(events) + 1}
  <2>1. Len(events) \in Nat
    BY DEF TypeOK
  <2>. QED
    BY <2>1, <1>5 DEF Observed
<1>. QED
  BY <1>4, <1>5, <1>6 DEF Observed

LEMMA PutEvents ==
    ASSUME TypeOK, NEW e \in signing, Put(e)
    PROVE  /\ events' \in Seq(EventRecord)
           /\ Len(events') = Len(events)
           /\ Observed' = Observed
           /\ \A f \in Observed : events'[f].time = events[f].time
           /\ \A f \in Observed : f # e => events'[f] = events[f]
           /\ events'[e].seq = sequence
<1>. DEFINE r == [events[e] EXCEPT !.seq = sequence]
<1>1. e \in 1..Len(events)
  BY DEF TypeOK, Observed
<1>2. events[e] \in EventRecord
  BY <1>1 DEF TypeOK
<1>3. r \in EventRecord /\ r.time = events[e].time /\ r.seq = sequence
  BY <1>2 DEF EventRecord, TypeOK
<1>4. events' = [events EXCEPT ![e] = r]
  BY DEF Put
<1>. HIDE DEF r
<1>5. /\ events' \in Seq(EventRecord)
      /\ Len(events') = Len(events)
      /\ \A f \in 1..Len(events) : f # e => events'[f] = events[f]
      /\ events'[e] = r
  BY <1>1, <1>3, <1>4 DEF TypeOK
<1>. QED
  BY <1>1, <1>3, <1>5 DEF Observed

-----------------------------------------------------------------------------
(* What the steps do to the list of jobs.                                  *)
LEMMA JobUpdate ==
    ASSUME TypeOK, NEW j \in DOMAIN jobs, NEW r \in JobRecord,
           jobs' = [jobs EXCEPT ![j] = r]
    PROVE  /\ jobs' \in Seq(JobRecord)
           /\ DOMAIN jobs' = DOMAIN jobs
           /\ jobs'[j] = r
           /\ \A i \in DOMAIN jobs : i # j => jobs'[i] = jobs[i]
BY DEF TypeOK

LEMMA JobType ==
    ASSUME TypeOK, NEW j \in DOMAIN jobs
    PROVE  /\ jobs[j] \in JobRecord /\ jobs[j].logs \subseteq Observed
           /\ jobs[j].logs \subseteq Nat \ {0}
           /\ jobs[j].tries \in Nat /\ jobs[j].stalls \in Nat
           /\ jobs[j].alert \in BOOLEAN
           /\ j \in Nat \ {0}
<1>1. jobs[j] \in JobRecord /\ jobs[j].logs \subseteq Observed /\ j \in Nat \ {0}
  BY DEF TypeOK
<1>. QED
  BY <1>1 DEF JobRecord

\* The states a job may be in.
LEMMA JobIsRecord ==
    ASSUME NEW logs \in SUBSET (Nat \ {0}), NEW tries \in Nat, NEW stalls \in Nat,
           NEW alert \in BOOLEAN,
           NEW state \in {"waiting", "counted", "committed", "completed", "failed"}
    PROVE  /\ Job(logs, state, tries, stalls, alert) \in JobRecord
           /\ Job(logs, state, tries, stalls, alert).logs = logs
           /\ Job(logs, state, tries, stalls, alert).state = state
BY DEF Job, JobRecord

\* A step of a job changes that job, and only Complete empties it.
LEMMA JobStepUpdates ==
    ASSUME TypeOK, NEW j \in DOMAIN jobs, JobStep(j)
    PROVE  /\ jobs' \in Seq(JobRecord)
           /\ DOMAIN jobs' = DOMAIN jobs
           /\ \A i \in DOMAIN jobs : i # j => jobs'[i] = jobs[i]
           /\ \/ Complete(j) /\ jobs'[j].logs = {}
              \/ jobs'[j].logs = jobs[j].logs /\ jobs'[j].state # "completed"
           /\ Commit(j) <=> jobs'[j].state = "committed"
<1>0. /\ jobs[j].logs \in SUBSET (Nat \ {0})
      /\ jobs[j].tries \in Nat /\ jobs[j].stalls \in Nat
  BY JobType
<1>1. ASSUME NEW tries \in Nat, NEW stalls \in Nat, NEW alert \in BOOLEAN,
             NEW state \in {"waiting", "counted", "committed", "failed"},
             Becomes(j, state, tries, stalls, alert)
      PROVE  /\ jobs' \in Seq(JobRecord)
             /\ DOMAIN jobs' = DOMAIN jobs
             /\ \A i \in DOMAIN jobs : i # j => jobs'[i] = jobs[i]
             /\ jobs'[j].logs = jobs[j].logs /\ jobs'[j].state = state
  <2>. DEFINE r == Job(jobs[j].logs, state, tries, stalls, alert)
  <2>1. r \in JobRecord /\ r.logs = jobs[j].logs /\ r.state = state
    BY <1>0, JobIsRecord
  <2>2. jobs' = [jobs EXCEPT ![j] = r]
    BY <1>1 DEF Becomes
  <2>. HIDE DEF r
  <2>. QED
    BY <2>1, <2>2, JobUpdate
<1>2. Commit(j) => jobs'[j].state = "committed"
  <2>. SUFFICES ASSUME Commit(j) PROVE jobs'[j].state = "committed"
    OBVIOUS
  <2>1. Becomes(j, "committed", jobs[j].tries, jobs[j].stalls, FALSE)
    BY DEF Commit
  <2>. QED
    BY <1>0, <1>1, <2>1
<1>3. CASE CountFocus(j)
  <2>. DEFINE a == FocusLostCount(j) > FocusLimit
  <2>1. a \in BOOLEAN
    OBVIOUS
  <2>2. Becomes(j, "counted", jobs[j].tries, jobs[j].stalls, a)
    BY <1>3 DEF CountFocus
  <2>. HIDE DEF a
  <2>3. jobs'[j].state = "counted"
    BY <1>0, <1>1, <2>1, <2>2
  <2>. QED
    BY <1>0, <1>1, <1>2, <2>1, <2>2, <2>3
<1>4. CASE Commit(j)
  <2>1. Becomes(j, "committed", jobs[j].tries, jobs[j].stalls, FALSE)
    BY <1>4 DEF Commit
  <2>. QED
    BY <1>0, <1>1, <1>2, <1>4, <2>1
<1>5. CASE Complete(j)
  <2>. DEFINE r == Job({}, "completed", 0, 0, FALSE)
  <2>1. r \in JobRecord /\ r.logs = {} /\ r.state = "completed"
    BY DEF Job, JobRecord
  <2>2. jobs' = [jobs EXCEPT ![j] = r]
    BY <1>5 DEF Complete
  <2>. HIDE DEF r
  <2>. QED
    BY <1>2, <1>5, <2>1, <2>2, JobUpdate
<1>6. CASE JobThrows(j)
  <2>. DEFINE state == IF jobs[j].tries + 1 < MaxTries THEN "waiting" ELSE "failed"
              tries == jobs[j].tries + 1
  <2>1. /\ state \in {"waiting", "counted", "committed", "failed"}
        /\ state # "committed" /\ state # "completed" /\ tries \in Nat
    BY <1>0
  <2>2. Becomes(j, state, tries, jobs[j].stalls, FALSE)
    BY <1>6 DEF JobThrows
  <2>. HIDE DEF state, tries
  <2>3. jobs'[j].state = state
    BY <1>0, <1>1, <2>1, <2>2
  <2>. QED
    BY <1>0, <1>1, <1>2, <2>1, <2>2, <2>3
<1>7. CASE JobStalls(j)
  <2>. DEFINE state == IF jobs[j].stalls < MaxStalled THEN "waiting" ELSE "failed"
              stalls == jobs[j].stalls + 1
  <2>1. /\ state \in {"waiting", "counted", "committed", "failed"}
        /\ state # "committed" /\ state # "completed" /\ stalls \in Nat
    BY <1>0
  <2>2. Becomes(j, state, jobs[j].tries, stalls, FALSE)
    BY <1>7 DEF JobStalls
  <2>. HIDE DEF state, stalls
  <2>3. jobs'[j].state = state
    BY <1>0, <1>1, <2>1, <2>2
  <2>. QED
    BY <1>0, <1>1, <1>2, <2>1, <2>2, <2>3
<1>. QED
  BY <1>3, <1>4, <1>5, <1>6, <1>7 DEF JobStep

\* What a step of a job does to the table and the counters.
LEMMA JobStepStores ==
    ASSUME TypeOK, NEW j \in DOMAIN jobs, JobStep(j)
    PROVE  /\ rows' \subseteq Row /\ rows \subseteq rows'
           /\ \A r \in rows' : r.event \in Observed
           /\ Commit(j) => \A e \in jobs[j].logs : \E r \in rows' : r.event = e
           /\ alerted' \in BOOLEAN /\ expired' = expired /\ faults' \in Nat
           /\ disturbed' = disturbed /\ replays' \in Nat /\ overlapped' \in BOOLEAN
           /\ UNCHANGED browserVars
<1>1. /\ jobs[j].logs \subseteq Observed /\ jobs[j].logs \subseteq Nat \ {0}
      /\ jobs[j].tries \in Nat /\ jobs[j].stalls \in Nat /\ j \in Nat \ {0}
  BY JobType
<1>2. CASE Commit(j)
  <2>. DEFINE run == jobs[j].tries + jobs[j].stalls
  <2>1. run \in Nat
    BY <1>1
  <2>2. rows' = rows \cup {[event |-> e, job |-> j, run |-> run] : e \in jobs[j].logs}
    BY <1>2 DEF Commit
  <2>. HIDE DEF run
  <2>4. \A e \in jobs[j].logs : [event |-> e, job |-> j, run |-> run] \in Row
    BY <1>1, <2>1 DEF Row
  <2>5. rows' \subseteq Row /\ \A r \in rows' : r.event \in Observed
    BY <1>1, <2>2, <2>4 DEF TypeOK
  <2>6. \A e \in jobs[j].logs : \E r \in rows' : r.event = e
    <3>. SUFFICES ASSUME NEW e \in jobs[j].logs PROVE \E r \in rows' : r.event = e
      OBVIOUS
    <3>1. [event |-> e, job |-> j, run |-> run] \in rows'
      BY <2>2
    <3>. QED
      BY <3>1
  <2>7. alerted' \in BOOLEAN /\ overlapped' \in BOOLEAN
    BY <1>2 DEF Commit
  <2>. QED
    BY <1>2, <2>2, <2>5, <2>6, <2>7 DEF Commit, TypeOK
<1>3. CASE ~Commit(j) /\ (CountFocus(j) \/ Complete(j))
  BY <1>3 DEF CountFocus, Complete, TypeOK, storeVars, historyVars
<1>5. CASE ~Commit(j) /\ (JobThrows(j) \/ JobStalls(j))
  <2>1. UNCHANGED <<browserVars, storeVars>> /\ RunAgain(j) /\ Fault
    BY <1>5 DEF JobThrows, JobStalls
  <2>2. replays' \in Nat /\ disturbed' = disturbed /\ overlapped' = overlapped
    BY <2>1 DEF RunAgain, TypeOK
  <2>3. faults' \in Nat
    BY <2>1 DEF Fault, TypeOK
  <2>. QED
    BY <1>5, <2>1, <2>2, <2>3 DEF TypeOK, storeVars
<1>. QED
  BY <1>2, <1>3, <1>5 DEF JobStep

-----------------------------------------------------------------------------
(* Every step keeps the variables typed.                                   *)
LEMMA BrowserTypeOK == TypeOK /\ BrowserStep => TypeOK'
<1>. SUFFICES ASSUME TypeOK, BrowserStep PROVE TypeOK'
  OBVIOUS
<1>0. Content(batch) \subseteq queue /\ Content(batch) \cap waiting = {}
  BY ContentInQueue
<1>1. ASSUME NEW focus \in Kinds, NEW tie \in BOOLEAN, Observe(focus, tie)
      PROVE  TypeOK'
  <2>1. /\ events' \in Seq(EventRecord)
        /\ Observed' = Observed \cup {Len(events) + 1}
        /\ Len(events) + 1 \notin Observed
    <3>1. focus \in BOOLEAN
      BY ProctoringAssumption
    <3>2. Len(events) + 1 \notin Observed
      BY DEF TypeOK, Observed
    <3>. QED
      BY <1>1, <3>1, <3>2, ObserveEvents
  <2>2. disturbed' \in BOOLEAN /\ sequence' \in Nat
    BY <1>1 DEF Observe, TypeOK
  <2>3. signing' \subseteq Observed' /\ signing' \cap queue = {}
    BY <1>1, <2>1 DEF Observe, TypeOK
  <2>. QED
    BY <1>1, <2>1, <2>2, <2>3 DEF Observe, TypeOK, storeVars, Processable
<1>2. ASSUME NEW e \in signing, Put(e) PROVE TypeOK'
  <2>1. events' \in Seq(EventRecord) /\ Observed' = Observed
    BY <1>2, PutEvents
  <2>2. queue' = queue \cup {e} /\ signing' = signing \ {e} /\ batch' = batch
    BY <1>2 DEF Put
  <2>3. batch' \in Seq(Processable')
    BY <1>2, <2>2, BatchStays DEF Put, Processable
  <2>4. call' \in CallStates /\ (call' \in {"idle", "reading"} => call \in {"idle", "reading"})
    BY <1>2 DEF Put, Trigger, TypeOK, CallStates
  <2>. QED
    BY <1>2, <2>1, <2>2, <2>3, <2>4 DEF Put, TypeOK, storeVars, historyVars
<1>3. CASE Wake
  BY <1>3 DEF Wake, TypeOK, CallStates, Observed, Processable, storeVars, historyVars
<1>4. CASE ReadBatch
  <2>1. CASE Processable = {}
    BY <1>4, <2>1 DEF ReadBatch, TypeOK, CallStates, Observed, Processable, storeVars, historyVars
  <2>2. CASE Processable # {}
    <3>1. batch' \in Seq(Processable)
      BY <1>4, <2>2, BatchesType DEF ReadBatch
    <3>2. call' = "sending" /\ UNCHANGED <<events, sequence, signing, queue, waiting,
                     online, jobs, storeVars, faults, historyVars>>
      BY <1>4, <2>2 DEF ReadBatch
    <3>. QED
      BY <3>1, <3>2 DEF TypeOK, CallStates, Observed, Processable, storeVars, historyVars
  <2>. QED
    BY <2>1, <2>2
<1>5. CASE RemoveBatch
  <2>1. waiting' \subseteq queue' /\ queue' \subseteq queue
    BY <1>0, <1>5 DEF RemoveBatch, TypeOK
  <2>2. batch' \in Seq(Processable')
    BY <1>5, NoBatch DEF RemoveBatch
  <2>. QED
    BY <1>5, <2>1, <2>2 DEF RemoveBatch, TypeOK, CallStates, Observed, storeVars, historyVars
<1>6. CASE RetryBatch
  <2>1. queue' = queue
    BY <1>0, <1>6 DEF RetryBatch
  <2>2. waiting' \subseteq queue /\ batch' = <<>> /\ call' = "idle"
    BY <1>0, <1>6 DEF RetryBatch, TypeOK
  <2>3. batch' \in Seq(Processable')
    BY <2>2, NoBatch
  <2>. QED
    BY <1>6, <2>1, <2>2, <2>3 DEF RetryBatch, TypeOK, CallStates, Observed, storeVars, historyVars
<1>7. ASSUME NEW e \in waiting, BackoffEnds(e) PROVE TypeOK'
  <2>1. batch' \in Seq(Processable')
    BY <1>7, BatchStays DEF BackoffEnds, Processable
  <2>. QED
    BY <1>7, <2>1 DEF BackoffEnds, TypeOK, Observed, storeVars, historyVars
<1>8. CASE GoOffline
  <2>1. online' = FALSE /\ faults' = faults + 1
    BY <1>8 DEF GoOffline, Fault
  <2>2. faults' \in Nat
    BY <2>1 DEF TypeOK
  <2>3. online' \in BOOLEAN
    BY <2>1
  <2>. QED
    BY <1>8, <2>2, <2>3 DEF GoOffline, TypeOK, Observed, Processable, storeVars, historyVars
<1>9. CASE GoOnline
  BY <1>9 DEF GoOnline, TypeOK, CallStates, Observed, Processable, storeVars, historyVars
<1>10. CASE Reload
  <2>1. PICK done \in SUBSET Content(batch) :
          /\ queue' = IF call \in {"accepted", "refused"} THEN queue \ done ELSE queue
          /\ waiting' = IF call = "failed" THEN waiting \cup done ELSE waiting
    BY <1>10 DEF Reload
  <2>2. waiting' \subseteq queue' /\ queue' \subseteq queue
    BY <1>0, <2>1 DEF TypeOK
  <2>3. batch' \in Seq(Processable')
    BY <1>10, NoBatch DEF Reload
  <2>4. /\ sequence' = 0 /\ signing' = {} /\ batch' = <<>>
        /\ call' = (IF online THEN "reading" ELSE "idle")
        /\ disturbed' = TRUE /\ faults' = faults + 1
        /\ replays' = IF call = "accepted" THEN replays + 1 ELSE replays
        /\ UNCHANGED <<events, online, jobs, storeVars, overlapped>>
    BY <1>10 DEF Reload, Fault
  <2>5. faults' \in Nat /\ replays' \in Nat /\ call' \in CallStates
    BY <2>4 DEF TypeOK, CallStates
  <2>. QED
    BY <2>2, <2>3, <2>4, <2>5 DEF TypeOK, Observed, storeVars
<1>. QED
  BY <1>1, <1>2, <1>3, <1>4, <1>5, <1>6, <1>7, <1>8, <1>9, <1>10 DEF BrowserStep

\* A 202 adds a job of events observed.
LEMMA AcceptAddsJob ==
    ASSUME TypeOK, ServerAccepts
    PROVE  /\ jobs' \in Seq(JobRecord)
           /\ DOMAIN jobs' = DOMAIN jobs \cup {Len(jobs) + 1}
           /\ \A j \in DOMAIN jobs : jobs'[j] = jobs[j]
           /\ jobs'[Len(jobs) + 1].logs = Content(batch)
           /\ jobs'[Len(jobs) + 1].state = "waiting"
<1>1. Content(batch) \subseteq queue
  BY ContentInQueue
<1>2. Content(batch) \in SUBSET (Nat \ {0})
  <2>1. Len(events) \in Nat
    BY DEF TypeOK
  <2>2. Observed \subseteq Nat \ {0}
    BY <2>1 DEF Observed
  <2>. QED
    BY <1>1, <2>2 DEF TypeOK
<1>. DEFINE r == Added(Content(batch))
<1>3. r \in JobRecord /\ r.logs = Content(batch) /\ r.state = "waiting"
  BY <1>2 DEF Added, Job, JobRecord
<1>4. jobs' = Append(jobs, r)
  BY DEF ServerAccepts
<1>. HIDE DEF r
<1>. QED
  BY <1>3, <1>4 DEF TypeOK

LEMMA ReplyTypeOK == TypeOK /\ ReplyStep => TypeOK'
<1>. SUFFICES ASSUME TypeOK, ReplyStep PROVE TypeOK'
  OBVIOUS
<1>1. CASE ServerAccepts
  <2>1. Content(batch) \subseteq Observed
    BY ContentInQueue DEF TypeOK
  <2>2. \A j \in DOMAIN jobs' : jobs'[j].logs \subseteq Observed
    BY <1>1, <2>1, AcceptAddsJob DEF TypeOK
  <2>. QED
    BY <1>1, <2>2, AcceptAddsJob
    DEF ServerAccepts, TypeOK, CallStates, Observed, Processable, storeVars, historyVars
<1>2. CASE ServerRefuses
  BY <1>2 DEF ServerRefuses, TypeOK, CallStates, Observed, Processable, storeVars, historyVars
<1>3. CASE SessionEnded
  BY <1>3 DEF SessionEnded, Disturb, Fault, TypeOK, CallStates, Observed, Processable, storeVars
<1>4. CASE SendFails
  BY <1>4 DEF SendFails, Disturb, Fault, TypeOK, CallStates, Observed, Processable, storeVars
<1>5. CASE ReplyLost
  BY <1>5 DEF ReplyLost, Fault, TypeOK, CallStates, Observed, Processable, storeVars
<1>. QED
  BY <1>1, <1>2, <1>3, <1>4, <1>5 DEF ReplyStep

LEMMA JobTypeOK ==
    ASSUME TypeOK, NEW j \in DOMAIN jobs, JobStep(j) PROVE TypeOK'
<1>1. \A i \in DOMAIN jobs' : jobs'[i].logs \subseteq Observed
  BY JobStepUpdates, JobType
<1>. QED
  BY <1>1, JobStepUpdates, JobStepStores DEF TypeOK, browserVars, Observed, Processable

LEMMA NextTypeOK == TypeOK /\ [Next]_vars => TypeOK'
<1>. SUFFICES ASSUME TypeOK, [Next]_vars PROVE TypeOK'
  OBVIOUS
<1>1. CASE TimePasses
  BY <1>1 DEF TimePasses, Fault, TypeOK, Observed, Processable, browserVars, historyVars
<1>2. CASE UNCHANGED vars
  BY <1>2 DEF vars, TypeOK, Observed, Processable, browserVars, storeVars, historyVars
<1>. QED
  BY <1>1, <1>2, BrowserTypeOK, ReplyTypeOK, JobTypeOK DEF Next

LEMMA InitTypeOK == Init => TypeOK
<1>. SUFFICES ASSUME Init PROVE TypeOK
  OBVIOUS
<1>1. events \in Seq(EventRecord) /\ jobs \in Seq(JobRecord) /\ batch \in Seq(Processable)
  BY NoBatch DEF Init
<1>2. DOMAIN jobs = {}
  BY DEF Init
<1>. QED
  BY <1>1, <1>2 DEF Init, TypeOK, CallStates

-----------------------------------------------------------------------------
(* What Redis or the table has, one of them keeps.                         *)
LEMMA SubmittedStays ==
    ASSUME TypeOK, AcceptedIsInRedis, Next, NEW e, Submitted(e)
    PROVE  Submitted(e)'
<1>1. CASE UNCHANGED <<jobs, rows>>
  BY <1>1 DEF Submitted, Stored
<1>2. CASE ServerAccepts
  <2>1. rows' = rows
    BY <1>2 DEF ServerAccepts, storeVars
  <2>. QED
    BY <1>2, <2>1, AcceptAddsJob DEF Submitted, Stored
<1>3. ASSUME NEW j \in DOMAIN jobs, JobStep(j) PROVE Submitted(e)'
  <2>1. rows \subseteq rows'
    BY <1>3, JobStepStores
  <2>2. CASE Stored(e)
    BY <2>1, <2>2 DEF Submitted, Stored
  <2>3. ASSUME NEW i \in DOMAIN jobs, e \in jobs[i].logs, jobs[i].state # "completed"
        PROVE  Submitted(e)'
    <3>1. CASE i # j
      BY <1>3, <2>3, <3>1, JobStepUpdates DEF Submitted
    <3>2. CASE i = j /\ ~Complete(j)
      BY <1>3, <2>3, <3>2, JobStepUpdates DEF Submitted
    <3>3. CASE i = j /\ Complete(j)
      <4>1. Stored(e)
        BY <2>3, <3>3 DEF Complete, AcceptedIsInRedis
      <4>. QED
        BY <2>2, <4>1
    <3>. QED
      BY <3>1, <3>2, <3>3
  <2>. QED
    BY <2>2, <2>3 DEF Submitted
<1>4. CASE BrowserStep
  BY <1>1, <1>4 DEF BrowserStep, Observe, Put, Wake, ReadBatch, RemoveBatch,
       RetryBatch, BackoffEnds, GoOffline, GoOnline, Reload, storeVars
<1>5. CASE ReplyStep
  BY <1>1, <1>2, <1>5 DEF ReplyStep, ServerRefuses, SessionEnded, SendFails,
       ReplyLost, storeVars
<1>6. CASE TimePasses
  BY <1>1, <1>6 DEF TimePasses
<1>. QED
  BY <1>3, <1>4, <1>5, <1>6 DEF Next

\* A call comes to "accepted" by the server's 202 only.
LEMMA ComesToAccepted ==
    ASSUME Next, call' = "accepted", ~ServerAccepts
    PROVE  call = "accepted" /\ batch' = batch
<1>1. CASE BrowserStep
  BY <1>1 DEF BrowserStep, Observe, Put, Trigger, Wake, ReadBatch, RemoveBatch,
       RetryBatch, BackoffEnds, GoOffline, GoOnline, Reload
<1>2. CASE ReplyStep
  BY <1>2 DEF ReplyStep, ServerRefuses, SessionEnded, SendFails, ReplyLost
<1>3. CASE TimePasses
  BY <1>3 DEF TimePasses, browserVars
<1>4. ASSUME NEW j \in DOMAIN jobs, JobStep(j) PROVE call' = call /\ batch' = batch
  BY <1>4 DEF JobStep, CountFocus, Commit, Complete, JobThrows, JobStalls, browserVars
<1>. QED
  BY <1>1, <1>2, <1>3, <1>4 DEF Next

LEMMA AcceptedPreserved ==
    TypeOK /\ AcceptedIsInRedis /\ Next => AcceptedIsInRedis'
<1>. SUFFICES ASSUME TypeOK, AcceptedIsInRedis, Next PROVE AcceptedIsInRedis'
  OBVIOUS
<1>1. ASSUME call' = "accepted", NEW e \in Content(batch)' PROVE Submitted(e)'
  <2>1. CASE ServerAccepts
    <3>1. Content(batch)' = Content(batch)
      BY <2>1 DEF ServerAccepts, Content
    <3>2. /\ Len(jobs) + 1 \in DOMAIN jobs'
          /\ jobs'[Len(jobs) + 1].logs = Content(batch)
          /\ jobs'[Len(jobs) + 1].state = "waiting"
      BY <2>1, AcceptAddsJob
    <3>. QED
      BY <1>1, <3>1, <3>2 DEF Submitted
  <2>2. CASE ~ServerAccepts
    <3>1. call = "accepted" /\ batch' = batch
      BY <1>1, <2>2, ComesToAccepted
    <3>2. Submitted(e)
      BY <1>1, <3>1 DEF AcceptedIsInRedis, Content
    <3>. QED
      BY <3>2, SubmittedStays
  <2>. QED
    BY <2>1, <2>2
<1>2. ASSUME NEW i \in DOMAIN jobs', jobs'[i].state \in {"committed", "completed"},
             NEW e \in jobs'[i].logs
      PROVE  Stored(e)'
  <2>1. CASE UNCHANGED <<jobs, rows>>
    BY <1>2, <2>1 DEF AcceptedIsInRedis, Stored
  <2>2. CASE ServerAccepts
    <3>1. i \in DOMAIN jobs /\ jobs'[i] = jobs[i] /\ rows' = rows
      BY <1>2, <2>2, AcceptAddsJob DEF ServerAccepts, storeVars
    <3>. QED
      BY <1>2, <3>1 DEF AcceptedIsInRedis, Stored
  <2>3. ASSUME NEW j \in DOMAIN jobs, JobStep(j) PROVE Stored(e)'
    <3>1. rows \subseteq rows' /\ i \in DOMAIN jobs
      BY <1>2, <2>3, JobStepStores, JobStepUpdates
    <3>2. CASE i # j
      BY <1>2, <2>3, <3>1, <3>2, JobStepUpdates DEF AcceptedIsInRedis, Stored
    <3>3. CASE i = j
      <4>1. Commit(j) /\ e \in jobs[j].logs
        BY <1>2, <2>3, <3>3, JobStepUpdates
      <4>. QED
        BY <2>3, <4>1, JobStepStores DEF Stored
    <3>. QED
      BY <3>2, <3>3
  <2>4. CASE BrowserStep
    BY <2>1, <2>4 DEF BrowserStep, Observe, Put, Wake, ReadBatch, RemoveBatch,
         RetryBatch, BackoffEnds, GoOffline, GoOnline, Reload, storeVars
  <2>5. CASE ReplyStep
    BY <2>1, <2>2, <2>5 DEF ReplyStep, ServerRefuses, SessionEnded, SendFails,
         ReplyLost, storeVars
  <2>6. CASE TimePasses
    BY <2>1, <2>6 DEF TimePasses
  <2>. QED
    BY <2>3, <2>4, <2>5, <2>6 DEF Next
<1>. QED
  BY <1>1, <1>2 DEF AcceptedIsInRedis

-----------------------------------------------------------------------------
(* While nothing disturbs: the queue is the end of the list of events, in  *)
(* order of time and of sequence, and a batch is the start of the queue.   *)

\* The events in order, one being signed at most.
Ordered == OneAtATime /\ SendsOldest /\ KeptUndisturbed

LEMMA EventTypes ==
    ASSUME TypeOK, NEW e \in Observed
    PROVE  e \in Nat /\ e <= Len(events) /\ events[e].time \in Nat
<1>1. events[e] \in EventRecord
  BY DEF TypeOK, Observed
<1>2. Len(events) \in Nat
  BY DEF TypeOK
<1>. QED
  BY <1>1, <1>2 DEF EventRecord, Observed

LEMMA ObserveOrdered ==
    ASSUME TypeOK, ~disturbed, Ordered, NEW focus \in BOOLEAN, NEW tie \in BOOLEAN,
           Observe(focus, tie), ~disturbed'
    PROVE  Ordered'
<1>. DEFINE n == Len(events) + 1
<1>1. n \in Nat /\ Observed = 1..(n - 1) /\ Observed' = 1..n
  <2>1. Len(events) \in Nat /\ Len(events') = Len(events) + 1
    BY ObserveEvents DEF TypeOK
  <2>. QED
    BY <2>1 DEF Observed
<1>2. ~tie /\ signing = {} /\ signing' = {n} /\ sequence' = Len(events')
  BY ObserveEvents DEF Observe, Ordered, OneAtATime
<1>3. /\ \A e \in Observed : events'[e] = events[e]
      /\ events'[n].time = LastTime + 1 /\ Len(events') = n
  BY <1>2, ObserveEvents
<1>4. UNCHANGED <<queue, waiting, call, batch, jobs, rows>>
  BY DEF Observe, storeVars
<1>. HIDE DEF n
<1>5. \A e \in Observed : events[e].time < events'[n].time
  <2>. SUFFICES ASSUME NEW e \in Observed PROVE events[e].time < events'[n].time
    OBVIOUS
  <2>1. Len(events) \in Observed /\ LastTime = events[Len(events)].time
    BY <1>1 DEF LastTime, TypeOK, Observed, n
  <2>2. events[e].time \in Nat /\ events[Len(events)].time \in Nat
    BY <2>1, EventTypes
  <2>3. e = Len(events) \/ e < Len(events)
    BY <1>1, <2>1 DEF n
  <2>4. events[e].time <= events[Len(events)].time
    BY <2>1, <2>2, <2>3 DEF Ordered, OneAtATime
  <2>. QED
    BY <1>3, <2>1, <2>2, <2>4
<1>6. \A e, f \in Observed' : e < f => events'[e].time < events'[f].time
  <2>. SUFFICES ASSUME NEW e \in Observed', NEW f \in Observed', e < f
                PROVE  events'[e].time < events'[f].time
    OBVIOUS
  <2>1. e \in Observed
    BY <1>1
  <2>2. f \in Observed \/ f = n
    BY <1>1
  <2>. QED
    BY <1>3, <1>5, <2>1, <2>2 DEF Ordered, OneAtATime
<1>7. \A e \in queue : e \in Observed /\ events'[e].seq = e
  BY <1>3 DEF Ordered, OneAtATime, TypeOK
<1>8. \A e \in queue : \A f \in Observed' : e < f => f \in queue \cup {n}
  BY <1>1, <1>2 DEF Ordered, OneAtATime, TypeOK
<1>9. OneAtATime'
  BY <1>2, <1>3, <1>4, <1>6, <1>7, <1>8 DEF OneAtATime, Ordered
<1>10. SendsOldest'
  BY <1>4 DEF SendsOldest, Ordered, Content
<1>11. KeptUndisturbed'
  BY <1>1, <1>2, <1>4 DEF KeptUndisturbed, Ordered, Kept, Submitted, Stored
<1>. QED
  BY <1>9, <1>10, <1>11 DEF Ordered

LEMMA PutOrdered ==
    ASSUME TypeOK, ~disturbed, Ordered, NEW e \in signing, Put(e)
    PROVE  Ordered'
<1>1. /\ Observed' = Observed /\ Len(events') = Len(events)
      /\ \A f \in Observed : events'[f].time = events[f].time
      /\ \A f \in Observed : f # e => events'[f] = events[f]
      /\ events'[e].seq = sequence
  BY PutEvents
<1>2. e = Len(events) /\ sequence = e /\ e \notin queue /\ e \in Observed
      /\ signing = {e}
  BY DEF Ordered, OneAtATime, TypeOK
<1>3. /\ signing' = {} /\ queue' = queue \cup {e}
      /\ UNCHANGED <<sequence, waiting, batch, jobs, rows, disturbed>>
      /\ call' \in {call, "reading"}
  BY <1>2 DEF Put, Trigger, Ordered, OneAtATime, storeVars, historyVars
<1>4. \A f \in queue' : events'[f].seq = f
  BY <1>1, <1>2, <1>3 DEF Ordered, OneAtATime, TypeOK
<1>5. \A f \in queue' : \A g \in Observed : f < g => g \in queue'
  <2>. SUFFICES ASSUME NEW f \in queue', NEW g \in Observed, f < g PROVE g \in queue'
    OBVIOUS
  <2>1. f # e
    BY <1>2 DEF TypeOK, Observed
  <2>. QED
    BY <1>2, <1>3, <2>1 DEF Ordered, OneAtATime
<1>6. OneAtATime'
  BY <1>1, <1>2, <1>3, <1>4, <1>5 DEF OneAtATime, Ordered
<1>7. SendsOldest'
  <2>1. Content(batch) \subseteq queue /\ queue \subseteq Observed
    BY ContentInQueue DEF TypeOK
  <2>2. \A b \in Content(batch) : ~(e < b)
    <3>. SUFFICES ASSUME NEW b \in Content(batch) PROVE ~(e < b)
      OBVIOUS
    <3>1. b \in Nat /\ b <= Len(events) /\ e \in Nat
      BY <1>2, <2>1, EventTypes
    <3>. QED
      BY <1>2, <3>1
  <2>. QED
    BY <1>3, <2>2 DEF SendsOldest, Ordered, Content
<1>8. KeptUndisturbed'
  <2>1. \A f : Submitted(f) => Submitted(f)'
    BY <1>3 DEF Submitted, Stored
  <2>2. \A f \in Observed : Kept(f) => Kept(f)'
    BY <1>2, <1>3, <2>1 DEF Kept
  <2>3. call' # "refused"
    BY <1>3 DEF KeptUndisturbed, Ordered
  <2>. QED
    BY <1>1, <2>2, <2>3 DEF KeptUndisturbed, Ordered
<1>. QED
  BY <1>6, <1>7, <1>8 DEF Ordered

\* The batch read is the start of the queue, in order.
LEMMA ReadOrdered ==
    ASSUME TypeOK, ~disturbed, Ordered, ReadBatch
    PROVE  Ordered'
<1>1. /\ UNCHANGED <<events, sequence, signing, queue, waiting, jobs, rows, disturbed>>
      /\ call' \in {"idle", "sending"}
  BY DEF ReadBatch, storeVars, historyVars
<1>2. OneAtATime' /\ KeptUndisturbed'
  BY <1>1 DEF OneAtATime, KeptUndisturbed, Ordered, Observed, Kept, Submitted, Stored
<1>3. Processable = queue
  BY DEF Ordered, OneAtATime, Processable
<1>4. CASE Processable = {}
  <2>1. SendsOldest'
    BY <1>1, <1>4 DEF ReadBatch, SendsOldest, Ordered, Content
  <2>. QED
    BY <1>2, <2>1 DEF Ordered
<1>5. CASE Processable # {}
  <2>1. batch' \in Batches
    BY <1>5 DEF ReadBatch
  <2>2. \A k \in DOMAIN batch' : batch'[k] \in queue
    BY <1>3, <2>1 DEF Batches
  <2>3. \A a, b \in Observed : a < b => events[a].time < events[b].time
    BY DEF Ordered, OneAtATime
  <2>4. \A a \in Observed : a \in Nat /\ events[a].time \in Nat
    BY EventTypes
  <2>5. ASSUME NEW k \in DOMAIN batch', NEW n \in DOMAIN batch', k < n
        PROVE  batch'[k] < batch'[n]
    <3>1. batch'[k] # batch'[n]
      <4>1. k # n
        <5>1. batch' \in [1..BatchLength -> Processable]
          BY <2>1 DEF Batches
        <5>2. k \in Int /\ n \in Int
          BY <5>1
        <5>. QED
          BY <2>5, <5>2
      <4>. QED
        BY <2>1, <4>1 DEF Batches
    <3>2. events[batch'[k]].time <= events[batch'[n]].time
      BY <2>1, <2>5 DEF Batches
    <3>3. batch'[k] \in Observed /\ batch'[n] \in Observed
      BY <2>2 DEF TypeOK
    <3>4. ~(batch'[n] < batch'[k])
      BY <2>3, <2>4, <3>2, <3>3
    <3>. QED
      BY <2>4, <3>1, <3>3, <3>4
  <2>6. ASSUME NEW e \in queue, NEW k \in DOMAIN batch', e < batch'[k]
        PROVE  \E n \in DOMAIN batch' : batch'[n] = e
    <3>1. events[e].time < events[batch'[k]].time
      BY <2>2, <2>3, <2>6 DEF TypeOK
    <3>. QED
      BY <1>3, <2>1, <3>1 DEF Batches
  <2>7. SendsOldest'
    BY <1>1, <2>5, <2>6 DEF SendsOldest, Content
  <2>. QED
    BY <1>2, <2>7 DEF Ordered
<1>. QED
  BY <1>2, <1>4, <1>5 DEF Ordered

\* Such a batch passes the integrity check.
LEMMA BatchInSequence ==
    ASSUME TypeOK, ~disturbed, Ordered
    PROVE  InSequence(batch)
<1>. SUFFICES ASSUME NEW k \in DOMAIN batch, k + 1 \in DOMAIN batch
              PROVE  events[batch[k + 1]].seq = events[batch[k]].seq + 1
  BY DEF InSequence
<1>. DEFINE a == batch[k]
            b == batch[k + 1]
<1>1. a \in queue /\ b \in queue
  BY ContentInQueue DEF Content
<1>2. \A m, n \in DOMAIN batch : m < n => batch[m] < batch[n]
  BY DEF Ordered, SendsOldest
<1>3. DOMAIN batch \subseteq Nat
  BY DEF TypeOK
<1>4. a < b
  BY <1>2, <1>3
<1>5. \A e \in Observed : e \in Nat /\ e <= Len(events)
  BY DEF TypeOK, Observed
<1>6. Len(events) \in Nat /\ a \in Observed /\ b \in Observed
  BY <1>1 DEF TypeOK
<1>. HIDE DEF a, b
<1>7. a + 1 \in queue
  <2>1. a + 1 \in Observed
    BY <1>4, <1>5, <1>6 DEF Observed
  <2>2. a + 1 \in queue \cup signing
    BY <1>1, <1>5, <1>6, <2>1 DEF Ordered, OneAtATime
  <2>3. CASE a + 1 \in signing
    <3>1. a + 1 = Len(events)
      BY <2>3 DEF Ordered, OneAtATime
    <3>2. b = a + 1
      BY <1>4, <1>5, <1>6, <3>1
    <3>. QED
      BY <1>1, <3>2
  <2>. QED
    BY <2>2, <2>3
<1>8. b = a + 1
  <2>. SUFFICES ASSUME b # a + 1 PROVE FALSE
    OBVIOUS
  <2>1. a + 1 < b
    BY <1>4, <1>5, <1>6
  <2>2. b \in Content(batch)
    BY DEF Content, b
  <2>3. PICK m \in DOMAIN batch : batch[m] = a + 1
    BY <1>7, <2>1, <2>2 DEF Ordered, SendsOldest, Content
  <2>4. a < batch[m] /\ batch[m] < b
    BY <1>5, <1>6, <2>1, <2>3
  <2>5. ~(m < k) /\ m # k /\ m # k + 1 /\ ~(k + 1 < m)
    BY <1>2, <1>5, <1>6, <2>1, <2>3, <2>4 DEF a, b
  <2>. QED
    BY <1>3, <2>5
<1>9. events[a].seq = a /\ events[b].seq = b
  BY <1>1 DEF Ordered, OneAtATime
<1>. QED
  BY <1>8, <1>9 DEF a, b

\* Removing a batch that Redis has leaves the end of the queue.
LEMMA RemoveOrdered ==
    ASSUME TypeOK, ~disturbed, Ordered, AcceptedIsInRedis, RemoveBatch
    PROVE  Ordered'
<1>1. call = "accepted"
  BY DEF RemoveBatch, Ordered, KeptUndisturbed
<1>2. /\ queue' = queue \ Content(batch) /\ call' = "idle" /\ batch' = <<>>
      /\ UNCHANGED <<events, sequence, signing, waiting, jobs, rows, disturbed>>
  BY DEF RemoveBatch, storeVars, historyVars
<1>3. \A e \in queue' : \A f \in Observed : e < f => f \in queue' \cup signing
  <2>. SUFFICES ASSUME NEW e \in queue', NEW f \in Observed, e < f, f \notin signing
                PROVE  f \notin Content(batch) /\ f \in queue
    BY <1>2
  <2>1. e \in queue /\ e \notin Content(batch)
    BY <1>2
  <2>. QED
    BY <2>1 DEF Ordered, OneAtATime, SendsOldest
<1>4. OneAtATime'
  BY <1>2, <1>3 DEF OneAtATime, Ordered, Observed
<1>5. SendsOldest'
  BY <1>2 DEF SendsOldest, Content
<1>6. KeptUndisturbed'
  <2>1. \A e : Submitted(e) => Submitted(e)'
    BY <1>2 DEF Submitted, Stored
  <2>2. \A e \in Observed : Kept(e)'
    BY <1>1, <1>2, <2>1 DEF Kept, AcceptedIsInRedis, KeptUndisturbed, Ordered
  <2>. QED
    BY <1>2, <2>2 DEF KeptUndisturbed, Observed
<1>. QED
  BY <1>4, <1>5, <1>6 DEF Ordered

\* Steps that leave the events, the queue and the batch alone.
LEMMA OtherOrdered ==
    ASSUME ~disturbed, Ordered,
           UNCHANGED <<events, sequence, signing, queue, waiting, batch, disturbed>>,
           call' \notin {"refused", "failed"},
           \A e \in Observed : Submitted(e) => Submitted(e)'
    PROVE  Ordered'
<1>1. OneAtATime' /\ SendsOldest'
  BY DEF Ordered, OneAtATime, SendsOldest, Observed, Content
<1>2. KeptUndisturbed'
  BY DEF Ordered, KeptUndisturbed, Observed, Kept
<1>. QED
  BY <1>1, <1>2 DEF Ordered

LEMMA OrderPreserved ==
    ASSUME TypeOK, ~disturbed, Ordered, AcceptedIsInRedis, Next, ~disturbed'
    PROVE  Ordered'
<1>0. \A e \in Observed : Submitted(e) => Submitted(e)'
  BY SubmittedStays
<1>1. call \notin {"refused", "failed"} /\ waiting = {}
  BY DEF Ordered, OneAtATime, SendsOldest, KeptUndisturbed
<1>2. CASE BrowserStep
  <2>1. ASSUME NEW focus \in Kinds, NEW tie \in BOOLEAN, Observe(focus, tie)
        PROVE  Ordered'
    <3>1. focus \in BOOLEAN
      BY ProctoringAssumption
    <3>. QED
      BY <2>1, <3>1, ObserveOrdered
  <2>2. CASE Wake \/ GoOnline \/ GoOffline
    <3>1. /\ UNCHANGED <<events, sequence, signing, queue, waiting, batch, disturbed>>
          /\ call' \notin {"refused", "failed"}
      BY <1>1, <2>2 DEF Wake, GoOnline, GoOffline, historyVars
    <3>. QED
      BY <1>0, <3>1, OtherOrdered
  <2>3. ~RetryBatch /\ ~Reload /\ ~\E e \in waiting : BackoffEnds(e)
    BY <1>1 DEF RetryBatch, Reload
  <2>. QED
    BY <1>2, <2>1, <2>2, <2>3, PutOrdered, ReadOrdered, RemoveOrdered DEF BrowserStep
<1>3. CASE ReplyStep
  <2>1. ServerAccepts
    BY <1>3, BatchInSequence
    DEF ReplyStep, ServerRefuses, SessionEnded, SendFails, ReplyLost, Disturb
  <2>2. /\ UNCHANGED <<events, sequence, signing, queue, waiting, batch, disturbed>>
        /\ call' \notin {"refused", "failed"}
    BY <2>1 DEF ServerAccepts, historyVars
  <2>. QED
    BY <1>0, <2>2, OtherOrdered
<1>4. CASE TimePasses
  BY <1>0, <1>1, <1>4, OtherOrdered DEF TimePasses, browserVars, historyVars
<1>5. ASSUME NEW j \in DOMAIN jobs, JobStep(j) PROVE Ordered'
  <2>1. UNCHANGED browserVars /\ disturbed' = disturbed
    BY <1>5, JobStepStores
  <2>. QED
    BY <1>0, <1>1, <2>1, OtherOrdered DEF browserVars
<1>. QED
  BY <1>2, <1>3, <1>4, <1>5 DEF Next

\* What has been disturbed stays so.
LEMMA DisturbedStays == TypeOK /\ Next /\ disturbed => disturbed'
<1>. SUFFICES ASSUME TypeOK, Next, disturbed PROVE disturbed'
  OBVIOUS
<1>1. CASE BrowserStep
  BY <1>1 DEF BrowserStep, Observe, Put, Wake, ReadBatch, RemoveBatch,
       RetryBatch, BackoffEnds, GoOffline, GoOnline, Reload, historyVars
<1>2. CASE ReplyStep
  BY <1>2 DEF ReplyStep, ServerAccepts, ServerRefuses, SessionEnded, SendFails,
       ReplyLost, Disturb, historyVars
<1>3. CASE TimePasses
  BY <1>3 DEF TimePasses, historyVars
<1>4. ASSUME NEW j \in DOMAIN jobs, JobStep(j) PROVE disturbed'
  BY <1>4, JobStepStores
<1>. QED
  BY <1>1, <1>2, <1>3, <1>4 DEF Next

-----------------------------------------------------------------------------
LEMMA InitProctoringInv == Init => ProctoringInv
<1>. SUFFICES ASSUME Init PROVE ProctoringInv
  OBVIOUS
<1>1. Observed = {} /\ DOMAIN jobs = {} /\ Content(batch) = {} /\ DOMAIN batch = {}
  BY DEF Init, Observed, Content
<1>. QED
  BY <1>1, InitTypeOK DEF Init, ProctoringInv, OneAtATime, SendsOldest,
     AcceptedIsInRedis, KeptUndisturbed

LEMMA NextProctoringInv == ProctoringInv /\ [Next]_vars => ProctoringInv'
<1>. SUFFICES ASSUME ProctoringInv, [Next]_vars PROVE ProctoringInv'
  OBVIOUS
<1>1. TypeOK /\ AcceptedIsInRedis /\ Ordered
  BY DEF ProctoringInv, Ordered
<1>2. TypeOK'
  BY <1>1, NextTypeOK
<1>3. CASE Next
  <2>1. AcceptedIsInRedis'
    BY <1>1, <1>3, AcceptedPreserved
  <2>2. CASE disturbed'
    <3>1. OneAtATime' /\ SendsOldest' /\ KeptUndisturbed'
      BY <2>2 DEF OneAtATime, SendsOldest, KeptUndisturbed
    <3>. QED
      BY <1>2, <2>1, <3>1 DEF ProctoringInv
  <2>3. CASE ~disturbed'
    <3>1. ~disturbed
      BY <1>1, <1>3, <2>3, DisturbedStays
    <3>2. Ordered'
      BY <1>1, <1>3, <2>3, <3>1, OrderPreserved
    <3>. QED
      BY <1>2, <2>1, <3>2 DEF ProctoringInv, Ordered
  <2>. QED
    BY <2>2, <2>3
<1>4. CASE UNCHANGED vars
  <2>1. /\ UNCHANGED <<events, sequence, signing, queue, waiting, call, batch>>
        /\ UNCHANGED <<jobs, rows, disturbed>>
    BY <1>4 DEF vars, browserVars, storeVars, historyVars
  <2>2. AcceptedIsInRedis'
    BY <1>1, <2>1 DEF AcceptedIsInRedis, Content, Submitted, Stored
  <2>3. OneAtATime' /\ SendsOldest'
    BY <1>1, <2>1 DEF Ordered, OneAtATime, SendsOldest, Observed, Content
  <2>4. KeptUndisturbed'
    BY <1>1, <2>1 DEF Ordered, KeptUndisturbed, Observed, Kept, Submitted, Stored
  <2>. QED
    BY <1>2, <2>2, <2>3, <2>4 DEF ProctoringInv
<1>. QED
  BY <1>3, <1>4

(* The inductive invariant, for every batch size and number of events.     *)
THEOREM ProctoringInvariance == Spec => []ProctoringInv
BY InitProctoringInv, NextProctoringInv, PTL DEF Spec

(* Events observed, signed and sent one at a time, without a reload or a   *)
(* failed send, pass the integrity check of receiveBatch in every batching *)
(* and are never lost, whatever the jobs and workers do.                   *)
THEOREM NothingLostUndisturbed == Spec => []KeptUndisturbed
<1>1. ProctoringInv => KeptUndisturbed
  BY DEF ProctoringInv
<1>. QED
  BY <1>1, ProctoringInvariance, PTL

(* Every variable keeps its type; a batch is always part of the queue.     *)
THEOREM ProctoringTypeCorrect == Spec => []TypeOK
<1>1. ProctoringInv => TypeOK
  BY DEF ProctoringInv
<1>. QED
  BY <1>1, ProctoringInvariance, PTL

-----------------------------------------------------------------------------
(***************************************************************************)
(* Repetitions.  What may yet become a row of e: a run of a job that is    *)
(* still to commit, and a batch that is still to be accepted.  Together    *)
(* with the rows there already are, they are one for the event and at most *)
(* one more for every step that may do something twice.                    *)
(***************************************************************************)
RowsOf(e) == {r \in rows : r.event = e}

RunsOf(e) == {j \in DOMAIN jobs : /\ e \in jobs[j].logs
                                  /\ jobs[j].state \in {"waiting", "counted"}}

ToSend(e) == \/ e \in signing
             \/ e \in queue /\ ~(call = "accepted" /\ e \in Content(batch))

Chances(e) == Cardinality(RowsOf(e)) + Cardinality(RunsOf(e))
                + (IF ToSend(e) THEN 1 ELSE 0)

RepetitionInv ==
    /\ IsFiniteSet(rows)
    /\ \A e \in Observed : Chances(e) <= 1 + replays

LEMMA FiniteJobs ==
    ASSUME TypeOK
    PROVE  /\ IsFiniteSet(DOMAIN jobs) /\ IsFiniteSet(Observed)
           /\ \A j \in DOMAIN jobs : IsFiniteSet(jobs[j].logs)
           /\ \A e : IsFiniteSet(RunsOf(e)) /\ Cardinality(RunsOf(e)) \in Nat
<1>1. Len(jobs) \in Nat /\ DOMAIN jobs = 1..Len(jobs) /\ Len(events) \in Nat
  BY DEF TypeOK
<1>2. IsFiniteSet(DOMAIN jobs) /\ IsFiniteSet(Observed)
  BY <1>1, FS_Interval DEF Observed
<1>3. \A j \in DOMAIN jobs : IsFiniteSet(jobs[j].logs)
  BY <1>2, FS_Subset DEF TypeOK
<1>4. ASSUME NEW e PROVE IsFiniteSet(RunsOf(e)) /\ Cardinality(RunsOf(e)) \in Nat
  <2>1. RunsOf(e) \in SUBSET DOMAIN jobs
    BY DEF RunsOf
  <2>. QED
    BY <1>2, <2>1, FS_Subset, FS_CardinalityType
<1>. QED
  BY <1>2, <1>3, <1>4

LEMMA FiniteRows ==
    ASSUME IsFiniteSet(rows), NEW e
    PROVE  IsFiniteSet(RowsOf(e)) /\ Cardinality(RowsOf(e)) \in Nat
<1>1. RowsOf(e) \in SUBSET rows
  BY DEF RowsOf
<1>. QED
  BY <1>1, FS_Subset, FS_CardinalityType

\* Steps that store nothing and add no run.
LEMMA NoNewRun ==
    ASSUME TypeOK, RepetitionInv, rows' = rows, NEW e \in Observed,
           Cardinality(RunsOf(e))' <= Cardinality(RunsOf(e)),
           Cardinality(RunsOf(e))' \in Nat, replays' \in Nat,
           \/ replays' = replays /\ (ToSend(e)' => ToSend(e))
           \/ replays' = replays + 1
    PROVE  Chances(e)' <= 1 + replays'
<1>1. RowsOf(e)' = RowsOf(e)
  BY DEF RowsOf
<1>2. Cardinality(RowsOf(e)) \in Nat /\ Cardinality(RunsOf(e)) \in Nat
  BY FiniteRows, FiniteJobs DEF RepetitionInv
<1>3. Chances(e) <= 1 + replays /\ replays \in Nat
  BY DEF RepetitionInv, TypeOK
<1>. QED
  BY <1>1, <1>2, <1>3 DEF Chances

LEMMA SameRuns ==
    ASSUME TypeOK, RepetitionInv, UNCHANGED <<rows, jobs>>, NEW e \in Observed,
           replays' \in Nat,
           \/ replays' = replays /\ (ToSend(e)' => ToSend(e))
           \/ replays' = replays + 1
    PROVE  Chances(e)' <= 1 + replays'
<1>1. RunsOf(e)' = RunsOf(e)
  BY DEF RunsOf
<1>2. Cardinality(RunsOf(e)) \in Nat
  BY FiniteJobs
<1>. QED
  BY <1>1, <1>2, NoNewRun

-----------------------------------------------------------------------------
(* The steps of the browser: an event is to be sent once, and again only   *)
(* after a step that is counted in replays.                                *)
LEMMA BrowserRepeats ==
    TypeOK /\ RepetitionInv /\ BrowserStep => RepetitionInv'
<1>. SUFFICES ASSUME TypeOK, RepetitionInv, BrowserStep PROVE RepetitionInv'
  OBVIOUS
<1>0. TypeOK' /\ replays' \in Nat /\ replays \in Nat
  BY BrowserTypeOK DEF TypeOK
<1>1. UNCHANGED <<rows, jobs>>
  BY DEF BrowserStep, Observe, Put, Wake, ReadBatch, RemoveBatch, RetryBatch,
         BackoffEnds, GoOffline, GoOnline, Reload, storeVars
<1>. SUFFICES ASSUME NEW e \in Observed' PROVE Chances(e)' <= 1 + replays'
  BY <1>1 DEF RepetitionInv
<1>2. ASSUME NEW focus \in Kinds, NEW tie \in BOOLEAN, Observe(focus, tie)
      PROVE  Chances(e)' <= 1 + replays'
  <2>1. Observed' = Observed \cup {Len(events) + 1}
    BY <1>2, ObserveEvents, ProctoringAssumption
  <2>2. CASE e \in Observed
    <3>1. e # Len(events) + 1
      BY <2>2 DEF Observed, TypeOK
    <3>2. (ToSend(e)' => ToSend(e)) /\ replays' = replays
      BY <1>2, <3>1 DEF Observe, ToSend, Content, historyVars
    <3>. QED
      BY <1>0, <1>1, <2>2, <3>2, SameRuns
  <2>3. CASE e \notin Observed
    <3>1. RowsOf(e)' = {}
      BY <1>1, <2>3 DEF RowsOf, TypeOK
    <3>2. RunsOf(e)' = {}
      BY <1>1, <2>3 DEF RunsOf, TypeOK
    <3>. QED
      BY <1>0, <3>1, <3>2, FS_EmptySet DEF Chances
  <2>. QED
    BY <2>2, <2>3
<1>3. ASSUME NEW f \in signing, Put(f) PROVE Chances(e)' <= 1 + replays'
  <2>1. Observed' = Observed /\ replays' = replays
    BY <1>3, PutEvents DEF Put, historyVars
  <2>2. ToSend(e)' => ToSend(e)
    BY <1>3 DEF Put, Trigger, ToSend, Content, CallStates, TypeOK
  <2>. QED
    BY <1>0, <1>1, <2>1, <2>2, SameRuns
<1>4. CASE \/ Wake \/ ReadBatch \/ RemoveBatch \/ RetryBatch \/ GoOffline
           \/ GoOnline \/ \E f \in waiting : BackoffEnds(f)
  <2>1. Observed' = Observed /\ replays' = replays
    BY <1>4 DEF Wake, ReadBatch, RemoveBatch, RetryBatch, GoOffline, GoOnline,
                BackoffEnds, Observed, historyVars
  <2>2. CASE Wake \/ ReadBatch \/ GoOffline \/ GoOnline
    BY <1>0, <1>1, <2>1, <2>2, SameRuns
       DEF Wake, ReadBatch, GoOffline, GoOnline, ToSend, Content
  <2>3. CASE RemoveBatch
    <3>1. ToSend(e)' => ToSend(e)
      BY <2>3 DEF RemoveBatch, ToSend, Content
    <3>. QED
      BY <1>0, <1>1, <2>1, <3>1, SameRuns
  <2>4. CASE RetryBatch
    <3>1. ToSend(e)' => ToSend(e)
      BY <2>4, ContentInQueue DEF RetryBatch, ToSend
    <3>. QED
      BY <1>0, <1>1, <2>1, <3>1, SameRuns
  <2>5. CASE \E f \in waiting : BackoffEnds(f)
    <3>1. ToSend(e)' => ToSend(e)
      BY <2>5 DEF BackoffEnds, ToSend, Content
    <3>. QED
      BY <1>0, <1>1, <2>1, <3>1, SameRuns
  <2>. QED
    BY <1>4, <2>2, <2>3, <2>4, <2>5
<1>5. CASE Reload
  <2>1. Observed' = Observed
    BY <1>5 DEF Reload, Observed
  <2>2. CASE call = "accepted"
    BY <1>0, <1>1, <1>5, <2>1, <2>2, SameRuns DEF Reload
  <2>3. CASE call # "accepted"
    <3>1. replays' = replays /\ signing' = {} /\ queue' \subseteq queue
      BY <1>5, <2>3 DEF Reload
    <3>2. ToSend(e)' => ToSend(e)
      BY <2>3, <3>1 DEF ToSend
    <3>. QED
      BY <1>0, <1>1, <2>1, <3>1, <3>2, SameRuns
  <2>. QED
    BY <2>2, <2>3
<1>. QED
  BY <1>2, <1>3, <1>4, <1>5 DEF BrowserStep

(* An accepted batch stops being to send and becomes a run.                *)
LEMMA AcceptRepeats ==
    ASSUME TypeOK, RepetitionInv, ServerAccepts, NEW e \in Observed
    PROVE  Chances(e)' <= 1 + replays'
<1>1. /\ rows' = rows /\ replays' = replays /\ call = "sending"
      /\ call' = "accepted" /\ UNCHANGED <<signing, queue, batch>>
  BY DEF ServerAccepts, storeVars, historyVars
<1>2. /\ DOMAIN jobs' = DOMAIN jobs \cup {Len(jobs) + 1}
      /\ \A j \in DOMAIN jobs : jobs'[j] = jobs[j]
      /\ jobs'[Len(jobs) + 1].logs = Content(batch)
      /\ jobs'[Len(jobs) + 1].state = "waiting"
      /\ Len(jobs) + 1 \notin DOMAIN jobs
  BY AcceptAddsJob DEF TypeOK
<1>3. Content(batch) \subseteq queue /\ Content(batch)' = Content(batch)
  BY <1>1, ContentInQueue DEF Content
<1>4. RowsOf(e)' = RowsOf(e) /\ Cardinality(RowsOf(e)) \in Nat
  BY <1>1, FiniteRows DEF RowsOf, RepetitionInv
<1>5. Chances(e) <= 1 + replays /\ replays \in Nat
  BY DEF RepetitionInv, TypeOK
<1>6. IsFiniteSet(RunsOf(e)) /\ Cardinality(RunsOf(e)) \in Nat
  BY FiniteJobs
<1>7. CASE e \in Content(batch)
  <2>1. RunsOf(e)' = RunsOf(e) \cup {Len(jobs) + 1}
    BY <1>2, <1>7 DEF RunsOf
  <2>2. /\ Cardinality(RunsOf(e) \cup {Len(jobs) + 1}) <= Cardinality(RunsOf(e)) + 1
        /\ Cardinality(RunsOf(e) \cup {Len(jobs) + 1}) \in Nat
    BY <1>6, FS_AddElement
  <2>3. ToSend(e) /\ ~ToSend(e)'
    BY <1>1, <1>3, <1>7 DEF ToSend, TypeOK
  <2>. QED
    BY <1>1, <1>4, <1>5, <1>6, <2>1, <2>2, <2>3 DEF Chances
<1>8. CASE e \notin Content(batch)
  <2>1. RunsOf(e)' = RunsOf(e)
    BY <1>2, <1>8 DEF RunsOf
  <2>2. ToSend(e)' => ToSend(e)
    BY <1>1 DEF ToSend
  <2>. QED
    BY <1>1, <1>6, <2>1, <2>2, NoNewRun DEF TypeOK
<1>. QED
  BY <1>7, <1>8

LEMMA ReplyRepeats == TypeOK /\ RepetitionInv /\ ReplyStep => RepetitionInv'
<1>. SUFFICES ASSUME TypeOK, RepetitionInv, ReplyStep PROVE RepetitionInv'
  OBVIOUS
<1>0. replays' \in Nat /\ replays \in Nat
  BY ReplyTypeOK DEF TypeOK
<1>1. rows' = rows /\ Observed' = Observed
  BY DEF ReplyStep, ServerAccepts, ServerRefuses, SessionEnded, SendFails,
         ReplyLost, storeVars, Observed
<1>. SUFFICES ASSUME NEW e \in Observed PROVE Chances(e)' <= 1 + replays'
  BY <1>1 DEF RepetitionInv
<1>2. CASE ServerAccepts
  BY <1>2, AcceptRepeats
<1>3. CASE ServerRefuses \/ SessionEnded \/ SendFails
  <2>1. UNCHANGED <<rows, jobs, replays, signing, queue>> /\ call = "sending"
    BY <1>3 DEF ServerRefuses, SessionEnded, SendFails, Disturb, storeVars,
                historyVars
  <2>2. ToSend(e)' => ToSend(e)
    BY <2>1 DEF ToSend
  <2>. QED
    BY <1>0, <2>1, <2>2, SameRuns
<1>4. CASE ReplyLost
  BY <1>0, <1>1, <1>4, SameRuns DEF ReplyLost
<1>. QED
  BY <1>2, <1>3, <1>4 DEF ReplyStep

-----------------------------------------------------------------------------
\* The rows that the commit of a job adds: one for each of its events.
NewRows(j) == {[event |-> e, job |-> j, run |-> jobs[j].tries + jobs[j].stalls]
                 : e \in jobs[j].logs}

LEMMA NewRowsCount ==
    ASSUME NEW j, NEW S, IsFiniteSet(S)
    PROVE  LET T == {r \in NewRows(j) : r.event \in S}
           IN  IsFiniteSet(T) /\ Cardinality(T) <= Cardinality(S)
<1>. DEFINE T == {r \in NewRows(j) : r.event \in S}
            f == [r \in T |-> r.event]
<1>1. f \in Injection(T, S)
  <2>1. \A r \in T, u \in T : r.event = u.event => r = u
    BY DEF NewRows
  <2>. QED
    BY <2>1 DEF Injection, IsInjective
<1>. QED
  BY <1>1, FS_Injection

LEMMA CommitFinite ==
    ASSUME TypeOK, IsFiniteSet(rows), NEW j \in DOMAIN jobs, Commit(j)
    PROVE  rows' = rows \cup NewRows(j) /\ IsFiniteSet(rows')
<1>1. rows' = rows \cup NewRows(j)
  BY DEF Commit, NewRows
<1>2. IsFiniteSet(jobs[j].logs)
  BY FiniteJobs
<1>3. {r \in NewRows(j) : r.event \in jobs[j].logs} = NewRows(j)
  BY DEF NewRows
<1>4. IsFiniteSet(NewRows(j))
  BY <1>2, <1>3, NewRowsCount
<1>. QED
  BY <1>1, <1>4, FS_Union

(* A commit turns a run into a row.                                        *)
LEMMA CommitRepeats ==
    ASSUME TypeOK, RepetitionInv, NEW j \in DOMAIN jobs, Commit(j),
           NEW e \in Observed
    PROVE  Chances(e)' <= 1 + replays'
<1>1. /\ replays' = replays /\ (ToSend(e)' <=> ToSend(e))
      /\ jobs[j].state = "counted"
  BY DEF Commit, browserVars, ToSend, Content
<1>2. /\ DOMAIN jobs' = DOMAIN jobs
      /\ \A i \in DOMAIN jobs : i # j => jobs'[i] = jobs[i]
      /\ jobs'[j].state = "committed"
  BY JobStepUpdates DEF JobStep
<1>3. RunsOf(e)' = RunsOf(e) \ {j}
  BY <1>2 DEF RunsOf
<1>4. rows' = rows \cup NewRows(j)
  BY CommitFinite DEF RepetitionInv
<1>5. IsFiniteSet(RunsOf(e)) /\ Cardinality(RunsOf(e)) \in Nat
  BY FiniteJobs
<1>6. IsFiniteSet(RowsOf(e)) /\ Cardinality(RowsOf(e)) \in Nat
  BY FiniteRows DEF RepetitionInv
<1>7. Chances(e) <= 1 + replays /\ replays \in Nat
  BY DEF RepetitionInv, TypeOK
<1>8. CASE e \in jobs[j].logs
  <2>. DEFINE row == [event |-> e, job |-> j, run |-> jobs[j].tries + jobs[j].stalls]
  <2>1. RowsOf(e)' = RowsOf(e) \cup {row}
    BY <1>4, <1>8 DEF RowsOf, NewRows
  <2>. HIDE DEF row
  <2>2. Cardinality(RowsOf(e))' \in Nat
        /\ Cardinality(RowsOf(e))' <= Cardinality(RowsOf(e)) + 1
    BY <1>6, <2>1, FS_AddElement
  <2>3. j \in RunsOf(e)
    BY <1>1, <1>8 DEF RunsOf
  <2>4. Cardinality(RunsOf(e))' = Cardinality(RunsOf(e)) - 1
    BY <1>3, <1>5, <2>3, FS_RemoveElement
  <2>. QED
    BY <1>1, <1>5, <1>6, <1>7, <2>2, <2>4 DEF Chances
<1>9. CASE e \notin jobs[j].logs
  <2>1. RowsOf(e)' = RowsOf(e)
    BY <1>4, <1>9 DEF RowsOf, NewRows
  <2>2. RunsOf(e)' = RunsOf(e)
    BY <1>3, <1>9 DEF RunsOf
  <2>. QED
    BY <1>1, <1>7, <2>1, <2>2 DEF Chances
<1>. QED
  BY <1>8, <1>9

LEMMA JobRepeats ==
    ASSUME TypeOK, RepetitionInv, NEW j \in DOMAIN jobs, JobStep(j)
    PROVE  RepetitionInv'
<1>0. /\ UNCHANGED browserVars /\ replays' \in Nat /\ replays \in Nat
      /\ Observed' = Observed
  BY JobStepStores DEF browserVars, Observed, TypeOK
<1>1. \A e \in Observed : ToSend(e)' <=> ToSend(e)
  BY <1>0 DEF browserVars, ToSend, Content
<1>2. /\ DOMAIN jobs' = DOMAIN jobs
      /\ \A i \in DOMAIN jobs : i # j => jobs'[i] = jobs[i]
      /\ jobs'[j].logs = jobs[j].logs \/ jobs'[j].logs = {}
  BY JobStepUpdates
<1>3. CASE Commit(j)
  <2>1. IsFiniteSet(rows')
    BY <1>3, CommitFinite DEF RepetitionInv
  <2>. QED
    BY <1>0, <1>3, <2>1, CommitRepeats DEF RepetitionInv
<1>4. CASE ~Commit(j)
  <2>1. rows' = rows
    BY <1>4 DEF JobStep, CountFocus, Complete, JobThrows, JobStalls, storeVars
  <2>. SUFFICES ASSUME NEW e \in Observed PROVE Chances(e)' <= 1 + replays'
    BY <1>0, <2>1 DEF RepetitionInv
  <2>2. IsFiniteSet(RunsOf(e)) /\ Cardinality(RunsOf(e)) \in Nat
    BY FiniteJobs
  <2>3. ASSUME RunsOf(e)' \subseteq RunsOf(e)
        PROVE  Cardinality(RunsOf(e))' <= Cardinality(RunsOf(e))
               /\ Cardinality(RunsOf(e))' \in Nat
    BY <2>2, <2>3, FS_Subset, FS_CardinalityType
  <2>4. CASE jobs[j].state \in {"waiting", "counted"}
    <3>1. RunsOf(e)' \subseteq RunsOf(e)
      BY <1>2, <2>4 DEF RunsOf
    <3>2. replays' = replays
      BY <1>4, <2>4 DEF JobStep, CountFocus, Complete, JobThrows, JobStalls,
                        RunAgain, historyVars
    <3>. QED
      BY <1>0, <1>1, <2>1, <2>3, <3>1, <3>2, NoNewRun
  <2>5. CASE Complete(j)
    <3>1. jobs'[j].logs = {} /\ replays' = replays
      BY <1>4, <2>5, JobStepUpdates DEF Complete, Job, historyVars, TypeOK
    <3>2. RunsOf(e)' \subseteq RunsOf(e)
      BY <1>2, <3>1 DEF RunsOf
    <3>. QED
      BY <1>0, <1>1, <2>1, <2>3, <3>1, <3>2, NoNewRun
  <2>6. CASE \/ JobThrows(j) /\ jobs[j].state = "committed"
             \/ JobStalls(j) /\ jobs[j].state = "committed"
    <3>1. replays' = replays + 1
      BY <2>6 DEF JobThrows, JobStalls, RunAgain
    <3>2. RunsOf(e)' \subseteq RunsOf(e) \cup {j}
      BY <1>2 DEF RunsOf
    <3>3. j \notin RunsOf(e)
      BY <2>6 DEF RunsOf
    <3>4. /\ IsFiniteSet(RunsOf(e) \cup {j})
          /\ Cardinality(RunsOf(e) \cup {j}) = Cardinality(RunsOf(e)) + 1
      BY <2>2, <3>3, FS_AddElement
    <3>5. /\ Cardinality(RunsOf(e))' <= Cardinality(RunsOf(e)) + 1
          /\ Cardinality(RunsOf(e))' \in Nat
      BY <3>2, <3>4, FS_Subset, FS_CardinalityType
    <3>6. RowsOf(e)' = RowsOf(e) /\ Cardinality(RowsOf(e)) \in Nat
      BY <2>1, FiniteRows DEF RowsOf, RepetitionInv
    <3>7. Chances(e) <= 1 + replays
      BY DEF RepetitionInv
    <3>. QED
      BY <1>0, <1>1, <2>2, <3>1, <3>5, <3>6, <3>7 DEF Chances
  <2>. QED
    BY <1>4, <2>4, <2>5, <2>6 DEF JobStep, CountFocus, Complete, JobThrows,
                                  JobStalls
<1>. QED
  BY <1>3, <1>4

LEMMA NextRepeats == TypeOK /\ RepetitionInv /\ [Next]_vars => RepetitionInv'
<1>. SUFFICES ASSUME TypeOK, RepetitionInv, [Next]_vars PROVE RepetitionInv'
  OBVIOUS
<1>1. CASE TimePasses \/ UNCHANGED vars
  <2>1. UNCHANGED <<browserVars, jobs, rows, replays>> /\ Observed' = Observed
    BY <1>1 DEF TimePasses, vars, browserVars, storeVars, historyVars, Observed
  <2>2. \A e \in Observed : ToSend(e)' => ToSend(e)
    BY <2>1 DEF browserVars, ToSend, Content
  <2>. QED
    BY <2>1, <2>2, SameRuns DEF RepetitionInv, TypeOK
<1>. QED
  BY <1>1, BrowserRepeats, ReplyRepeats, JobRepeats DEF Next

LEMMA InitRepeats == Init => RepetitionInv
BY FS_EmptySet DEF Init, RepetitionInv, Observed

(* However the steps of browser, queue and workers mix, an event has at    *)
(* most one row more than there were repetitions.                          *)
THEOREM RepetitionsAreCounted == Spec => []DuplicatesAreReplays
<1>1. TypeOK /\ RepetitionInv => DuplicatesAreReplays
  <2>. SUFFICES ASSUME TypeOK, RepetitionInv, NEW e \in Observed
                PROVE  Copies(e) <= 1 + replays
    BY DEF DuplicatesAreReplays
  <2>1. Copies(e) \in Nat /\ Cardinality(RunsOf(e)) \in Nat /\ replays \in Nat
    BY FiniteRows, FiniteJobs DEF RepetitionInv, Copies, RowsOf, TypeOK
  <2>. QED
    BY <2>1 DEF RepetitionInv, Chances, Copies, RowsOf
<1>. QED
  BY <1>1, InitRepeats, NextRepeats, ProctoringTypeCorrect, PTL DEF Spec

-----------------------------------------------------------------------------
(***************************************************************************)
(* The alert.  A transaction that has counted and is not yet committed     *)
(* knows of every row unless another has committed meanwhile; and what it  *)
(* has counted are different events unless one was stored twice.           *)
(***************************************************************************)
FocusSeen == {e \in Observed : events[e].focus}

FocusRows == {r \in rows : FocusLost(r.event)}

FocusLogs(j) == {e \in jobs[j].logs : FocusLost(e)}

AlertInv ==
    /\ ~overlapped => \A j \in DOMAIN jobs : jobs[j].state = "counted" =>
                        jobs[j].alert \/ FocusLostCount(j) <= FocusLimit
    /\ replays = 0 => \A j \in DOMAIN jobs : jobs[j].alert =>
                        Cardinality(FocusSeen) > FocusLimit
    /\ AlertFollowsTable

LEMMA FiniteFocus ==
    ASSUME TypeOK, IsFiniteSet(rows)
    PROVE  /\ IsFiniteSet(FocusSeen) /\ Cardinality(FocusSeen) \in Nat
           /\ IsFiniteSet(FocusRows) /\ Cardinality(FocusRows) \in Nat
           /\ \A j \in DOMAIN jobs : /\ IsFiniteSet(FocusLogs(j))
                                     /\ Cardinality(FocusLogs(j)) \in Nat
                                     /\ FocusLostCount(j) \in Nat
<1>1. IsFiniteSet(FocusSeen) /\ Cardinality(FocusSeen) \in Nat
  BY FiniteJobs, FS_Subset, FS_CardinalityType DEF FocusSeen
<1>2. IsFiniteSet(FocusRows) /\ Cardinality(FocusRows) \in Nat
  BY FS_Subset, FS_CardinalityType DEF FocusRows
<1>3. ASSUME NEW j \in DOMAIN jobs
      PROVE  IsFiniteSet(FocusLogs(j)) /\ Cardinality(FocusLogs(j)) \in Nat
  BY FiniteJobs, FS_Subset, FS_CardinalityType DEF FocusLogs
<1>4. ASSUME NEW j \in DOMAIN jobs PROVE FocusLostCount(j) \in Nat
  BY <1>2, <1>3 DEF FocusLostCount, FocusRows, FocusLogs
<1>. QED
  BY <1>1, <1>2, <1>3, <1>4

(* Events are only appended, and what is too old stays too old.            *)
LEMMA EventsGrow ==
    ASSUME TypeOK, [Next]_vars
    PROVE  /\ Observed \subseteq Observed' /\ expired' \in Nat /\ expired' >= expired
           /\ \A e \in Observed : /\ events'[e].focus = events[e].focus
                                  /\ events'[e].time = events[e].time
           /\ replays' = 0 => replays = 0
<1>0. TypeOK'
  BY NextTypeOK
<1>1. expired' \in Nat /\ expired \in Nat /\ replays \in Nat
  BY <1>0 DEF TypeOK
<1>2. CASE events' = events
  <2>1. Observed' = Observed
    BY <1>2 DEF Observed
  <2>2. expired' >= expired /\ (replays' = 0 => replays = 0)
    <3>1. CASE UNCHANGED vars
      BY <1>1, <3>1 DEF vars, storeVars, historyVars
    <3>2. CASE TimePasses
      BY <1>1, <3>2 DEF TimePasses, historyVars
    <3>3. CASE BrowserStep
      <4>1. expired' = expired
        BY <3>3 DEF BrowserStep, Observe, Put, Wake, ReadBatch, RemoveBatch,
             RetryBatch, BackoffEnds, GoOffline, GoOnline, Reload, storeVars
      <4>2. CASE Reload
        <5>1. replays' = replays \/ replays' = replays + 1
          BY <4>2 DEF Reload
        <5>. QED
          BY <1>1, <4>1, <5>1
      <4>3. CASE ~Reload
        <5>1. replays' = replays
          BY <3>3, <4>3 DEF BrowserStep, Observe, Put, Wake, ReadBatch,
             RemoveBatch, RetryBatch, BackoffEnds, GoOffline, GoOnline,
             historyVars
        <5>. QED
          BY <1>1, <4>1, <5>1
      <4>. QED
        BY <4>2, <4>3
    <3>4. CASE ReplyStep
      BY <1>1, <3>4 DEF ReplyStep, ServerAccepts, ServerRefuses, SessionEnded,
           SendFails, ReplyLost, Disturb, storeVars, historyVars
    <3>5. ASSUME NEW j \in DOMAIN jobs, JobStep(j)
          PROVE  expired' >= expired /\ (replays' = 0 => replays = 0)
      <4>1. expired' = expired
        BY <3>5, JobStepStores
      <4>2. replays' = replays \/ replays' = replays + 1
        BY <3>5 DEF JobStep, CountFocus, Commit, Complete, JobThrows, JobStalls,
                    RunAgain, historyVars
      <4>. QED
        BY <1>1, <4>1, <4>2
    <3>. QED
      BY <3>1, <3>2, <3>3, <3>4, <3>5 DEF Next
  <2>. QED
    BY <1>1, <1>2, <2>1, <2>2
<1>3. ASSUME NEW focus \in Kinds, NEW tie \in BOOLEAN, Observe(focus, tie)
      PROVE  /\ Observed \subseteq Observed' /\ expired' = expired /\ replays' = replays
             /\ \A e \in Observed : events'[e] = events[e]
  BY <1>3, ObserveEvents, ProctoringAssumption DEF Observe, storeVars
<1>4. ASSUME NEW f \in signing, Put(f)
      PROVE  /\ Observed' = Observed /\ expired' = expired /\ replays' = replays
             /\ \A e \in Observed : /\ events'[e].focus = events[e].focus
                                    /\ events'[e].time = events[e].time
  <2>1. /\ Observed' = Observed
        /\ \A e \in Observed : events'[e].time = events[e].time
        /\ \A e \in Observed : e # f => events'[e] = events[e]
    BY <1>4, PutEvents
  <2>2. events'[f].focus = events[f].focus
    <3>1. f \in DOMAIN events /\ events[f] \in EventRecord
      BY DEF TypeOK, Observed
    <3>2. events' = [events EXCEPT ![f].seq = sequence]
      BY <1>4 DEF Put
    <3>. QED
      BY <3>1, <3>2 DEF EventRecord
  <2>. QED
    BY <1>4, <2>1, <2>2 DEF Put, storeVars, historyVars
<1>5. events' = events \/ (\E focus \in Kinds, tie \in BOOLEAN : Observe(focus, tie))
        \/ \E f \in signing : Put(f)
  <2>1. CASE UNCHANGED vars \/ TimePasses
    BY <2>1 DEF vars, TimePasses, browserVars
  <2>2. CASE ReplyStep
    BY <2>2 DEF ReplyStep, ServerAccepts, ServerRefuses, SessionEnded, SendFails,
                ReplyLost
  <2>3. ASSUME NEW j \in DOMAIN jobs, JobStep(j) PROVE events' = events
    BY <2>3, JobStepStores DEF browserVars
  <2>4. CASE BrowserStep
    BY <2>4 DEF BrowserStep, Wake, ReadBatch, RemoveBatch, RetryBatch,
                BackoffEnds, GoOffline, GoOnline, Reload
  <2>. QED
    BY <2>1, <2>2, <2>3, <2>4 DEF Next
<1>. QED
  BY <1>1, <1>2, <1>3, <1>4, <1>5

\* So nothing that is lost becomes lost later, and what was seen stays seen.
LEMMA FocusFades ==
    ASSUME TypeOK, [Next]_vars, IsFiniteSet(rows), IsFiniteSet(rows')
    PROVE  /\ \A e \in Observed : FocusLost(e)' => FocusLost(e)
           /\ Cardinality(FocusSeen) <= Cardinality(FocusSeen')
<1>1. \A e \in Observed : FocusLost(e)' => FocusLost(e)
  <2>1. \A e \in Observed : events[e].time \in Nat
    BY EventTypes
  <2>2. expired \in Nat
    BY DEF TypeOK
  <2>. QED
    BY <2>1, <2>2, EventsGrow DEF FocusLost
<1>2. FocusSeen \subseteq FocusSeen'
  BY EventsGrow DEF FocusSeen
<1>3. IsFiniteSet(FocusSeen')
  <2>1. Len(events') \in Nat
    BY NextTypeOK DEF TypeOK
  <2>2. IsFiniteSet(Observed')
    BY <2>1, FS_Interval DEF Observed
  <2>. QED
    BY <2>2, FS_Subset DEF FocusSeen
<1>. QED
  BY <1>1, <1>2, <1>3, FS_Subset

\* While the rows and the events of a job stay, its count does not grow.
LEMMA CountFades ==
    ASSUME TypeOK, [Next]_vars, IsFiniteSet(rows), rows' = rows
    PROVE  /\ Cardinality(FocusRows') <= Cardinality(FocusRows)
           /\ \A j \in DOMAIN jobs : j \in DOMAIN jobs' /\ jobs'[j].logs = jobs[j].logs
                => FocusLostCount(j)' <= FocusLostCount(j)
<1>1. \A e \in Observed : FocusLost(e)' => FocusLost(e)
  BY FocusFades
<1>2. FocusRows' \subseteq FocusRows
  BY <1>1 DEF FocusRows, TypeOK
<1>3. Cardinality(FocusRows') <= Cardinality(FocusRows)
      /\ Cardinality(FocusRows') \in Nat
  BY <1>2, FiniteFocus, FS_Subset, FS_CardinalityType
<1>4. ASSUME NEW j \in DOMAIN jobs, jobs'[j].logs = jobs[j].logs
      PROVE  FocusLostCount(j)' <= FocusLostCount(j)
  <2>1. FocusLogs(j)' \subseteq FocusLogs(j)
    BY <1>1, <1>4 DEF FocusLogs, TypeOK
  <2>2. Cardinality(FocusLogs(j)') <= Cardinality(FocusLogs(j))
        /\ Cardinality(FocusLogs(j)') \in Nat
    BY <2>1, FiniteFocus, FS_Subset, FS_CardinalityType
  <2>3. FocusLostCount(j) = Cardinality(FocusRows) + Cardinality(FocusLogs(j))
    BY DEF FocusLostCount, FocusRows, FocusLogs
  <2>4. FocusLostCount(j)' = Cardinality(FocusRows') + Cardinality(FocusLogs(j)')
    BY DEF FocusLostCount, FocusRows, FocusLogs
  <2>5. Cardinality(FocusRows) \in Nat /\ Cardinality(FocusLogs(j)) \in Nat
    BY FiniteFocus
  <2>. QED
    BY <1>3, <2>2, <2>3, <2>4, <2>5
<1>. QED
  BY <1>3, <1>4

-----------------------------------------------------------------------------
(* Without repetitions a transaction counts different events, all of them  *)
(* seen by the page.                                                       *)
LEMMA CountsDifferentEvents ==
    ASSUME TypeOK, RepetitionInv, replays = 0, NEW j \in DOMAIN jobs,
           jobs[j].state = "waiting"
    PROVE  FocusLostCount(j) <= Cardinality(FocusSeen)
<1>. DEFINE E == {e \in Observed : FocusLost(e) /\ Stored(e)}
            f == [r \in FocusRows |-> r.event]
<1>1. \A e \in Observed : /\ IsFiniteSet(RowsOf(e)) /\ Cardinality(RowsOf(e)) \in Nat
                          /\ IsFiniteSet(RunsOf(e)) /\ Cardinality(RunsOf(e)) \in Nat
                          /\ Cardinality(RowsOf(e)) + Cardinality(RunsOf(e)) <= 1
  <2>. SUFFICES ASSUME NEW e \in Observed
                PROVE /\ IsFiniteSet(RowsOf(e)) /\ Cardinality(RowsOf(e)) \in Nat
                      /\ IsFiniteSet(RunsOf(e)) /\ Cardinality(RunsOf(e)) \in Nat
                      /\ Cardinality(RowsOf(e)) + Cardinality(RunsOf(e)) <= 1
    OBVIOUS
  <2>1. /\ IsFiniteSet(RowsOf(e)) /\ Cardinality(RowsOf(e)) \in Nat
        /\ IsFiniteSet(RunsOf(e)) /\ Cardinality(RunsOf(e)) \in Nat
    BY FiniteRows, FiniteJobs DEF RepetitionInv
  <2>2. Chances(e) <= 1
    BY DEF RepetitionInv
  <2>. QED
    BY <2>1, <2>2 DEF Chances
<1>2. f \in Injection(FocusRows, E)
  <2>1. ASSUME NEW r \in FocusRows, NEW u \in FocusRows, r.event = u.event
        PROVE  r = u
    <3>1. r.event \in Observed /\ r \in RowsOf(r.event) /\ u \in RowsOf(r.event)
      BY <2>1 DEF FocusRows, RowsOf, TypeOK
    <3>2. IsFiniteSet(RowsOf(r.event)) /\ Cardinality(RowsOf(r.event)) = 1
      <4>1. Cardinality(RowsOf(r.event)) # 0
        BY <1>1, <3>1, FS_EmptySet
      <4>. QED
        BY <1>1, <3>1, <4>1
    <3>3. PICK x : RowsOf(r.event) = {x}
      BY <3>2, FS_Singleton
    <3>. QED
      BY <3>1, <3>3
  <2>2. \A r \in FocusRows : r.event \in E
    BY DEF FocusRows, Stored, TypeOK
  <2>. QED
    BY <2>1, <2>2 DEF Injection, IsInjective
<1>3. E \subseteq FocusSeen /\ FocusLogs(j) \subseteq FocusSeen
  BY JobType DEF FocusSeen, FocusLost, FocusLogs
<1>4. IsFiniteSet(FocusSeen) /\ IsFiniteSet(E) /\ IsFiniteSet(FocusLogs(j))
  BY <1>3, FiniteFocus, FS_Subset DEF RepetitionInv
<1>5. Cardinality(FocusRows) <= Cardinality(E)
  BY <1>2, <1>4, FS_Injection
<1>6. E \cap FocusLogs(j) = {}
  <2>. SUFFICES ASSUME NEW e \in E, e \in FocusLogs(j) PROVE FALSE
    OBVIOUS
  <2>1. RowsOf(e) # {} /\ RunsOf(e) # {}
    BY DEF Stored, RowsOf, RunsOf, FocusLogs
  <2>2. Cardinality(RowsOf(e)) # 0 /\ Cardinality(RunsOf(e)) # 0
    BY <1>1, <2>1, FS_EmptySet
  <2>. QED
    BY <1>1, <2>2
<1>7. Cardinality(E \cup FocusLogs(j)) = Cardinality(E) + Cardinality(FocusLogs(j))
  <2>1. Cardinality(E \cap FocusLogs(j)) = 0
    BY <1>6, FS_EmptySet
  <2>2. Cardinality(E) \in Nat /\ Cardinality(FocusLogs(j)) \in Nat
    BY <1>4, FS_CardinalityType
  <2>3. Cardinality(E \cup FocusLogs(j))
          = Cardinality(E) + Cardinality(FocusLogs(j))
              - Cardinality(E \cap FocusLogs(j))
    BY <1>4, FS_Union
  <2>. QED
    BY <2>1, <2>2, <2>3
<1>8. Cardinality(E \cup FocusLogs(j)) <= Cardinality(FocusSeen)
  BY <1>3, <1>4, FS_Subset
<1>9. /\ Cardinality(FocusRows) \in Nat /\ Cardinality(FocusLogs(j)) \in Nat
      /\ Cardinality(E) \in Nat /\ Cardinality(FocusSeen) \in Nat
      /\ FocusLostCount(j) = Cardinality(FocusRows) + Cardinality(FocusLogs(j))
  BY <1>4, FiniteFocus, FS_CardinalityType
     DEF RepetitionInv, FocusLostCount, FocusRows, FocusLogs
<1>. HIDE DEF E
<1>. QED
  BY <1>5, <1>7, <1>8, <1>9

-----------------------------------------------------------------------------
\* Steps that neither store nor touch a job that has counted.
LEMMA AlertKept ==
    ASSUME TypeOK, RepetitionInv, AlertInv, [Next]_vars,
           UNCHANGED <<rows, alerted, overlapped>>,
           \A j \in DOMAIN jobs' :
             \/ j \in DOMAIN jobs /\ jobs'[j] = jobs[j]
             \/ jobs'[j].state # "counted" /\ jobs'[j].alert = FALSE
    PROVE  AlertInv'
<1>1. IsFiniteSet(rows) /\ IsFiniteSet(rows')
  BY DEF RepetitionInv
<1>2. /\ Cardinality(FocusRows') <= Cardinality(FocusRows)
      /\ Cardinality(FocusSeen) <= Cardinality(FocusSeen')
      /\ \A j \in DOMAIN jobs : j \in DOMAIN jobs' /\ jobs'[j].logs = jobs[j].logs
           => FocusLostCount(j)' <= FocusLostCount(j)
      /\ replays' = 0 => replays = 0
  BY <1>1, FocusFades, CountFades, EventsGrow
<1>3. /\ Cardinality(FocusRows) \in Nat /\ Cardinality(FocusSeen) \in Nat
      /\ \A j \in DOMAIN jobs : FocusLostCount(j) \in Nat
  BY <1>1, FiniteFocus
<1>4. /\ Cardinality(FocusRows') \in Nat /\ Cardinality(FocusSeen') \in Nat
      /\ \A j \in DOMAIN jobs' : FocusLostCount(j)' \in Nat
  <2>1. Len(events') \in Nat /\ Len(jobs') \in Nat /\ DOMAIN jobs' = 1..Len(jobs')
        /\ \A j \in DOMAIN jobs' : jobs'[j].logs \subseteq Observed'
    BY NextTypeOK DEF TypeOK
  <2>2. IsFiniteSet(Observed')
    BY <2>1, FS_Interval DEF Observed
  <2>3. Cardinality(FocusRows') \in Nat /\ Cardinality(FocusSeen') \in Nat
    BY <1>1, <2>2, FS_Subset, FS_CardinalityType DEF FocusRows, FocusSeen
  <2>4. ASSUME NEW j \in DOMAIN jobs' PROVE FocusLostCount(j)' \in Nat
    <3>1. Cardinality(FocusLogs(j)') \in Nat
      BY <2>1, <2>2, FS_Subset, FS_CardinalityType DEF FocusLogs
    <3>. QED
      BY <2>3, <3>1 DEF FocusLostCount, FocusRows, FocusLogs
  <2>. QED
    BY <2>3, <2>4
<1>5. FocusLimit \in Nat
  BY ProctoringAssumption
<1>6. ASSUME ~overlapped', NEW j \in DOMAIN jobs', jobs'[j].state = "counted"
      PROVE  jobs'[j].alert \/ FocusLostCount(j)' <= FocusLimit
  <2>1. j \in DOMAIN jobs /\ jobs'[j] = jobs[j]
    BY <1>6
  <2>2. jobs[j].alert \/ FocusLostCount(j) <= FocusLimit
    BY <1>6, <2>1 DEF AlertInv
  <2>. QED
    BY <1>2, <1>3, <1>4, <1>5, <2>1, <2>2
<1>7. ASSUME replays' = 0, NEW j \in DOMAIN jobs', jobs'[j].alert
      PROVE  Cardinality(FocusSeen') > FocusLimit
  <2>1. j \in DOMAIN jobs /\ jobs[j].alert
    BY <1>7
  <2>2. Cardinality(FocusSeen) > FocusLimit
    BY <1>2, <1>7, <2>1 DEF AlertInv
  <2>. QED
    BY <1>2, <1>3, <1>4, <1>5, <2>2
<1>8. AlertFollowsTable'
  <2>1. ~overlapped' /\ Cardinality(FocusRows') > FocusLimit => alerted'
    BY <1>2, <1>3, <1>4, <1>5 DEF AlertInv, AlertFollowsTable, FocusRows
  <2>2. alerted' /\ replays' = 0 => Cardinality(FocusSeen') > FocusLimit
    BY <1>2, <1>3, <1>4, <1>5 DEF AlertInv, AlertFollowsTable, FocusSeen
  <2>. QED
    BY <2>1, <2>2 DEF AlertFollowsTable, FocusRows, FocusSeen
<1>. QED
  BY <1>6, <1>7, <1>8 DEF AlertInv

(* The steps of the transactions.                                          *)
LEMMA CountAlerts ==
    ASSUME TypeOK, RepetitionInv, AlertInv, NEW j \in DOMAIN jobs, CountFocus(j)
    PROVE  AlertInv'
<1>1. /\ UNCHANGED <<events, rows, alerted, expired, replays, overlapped>>
      /\ jobs[j].state = "waiting"
  BY DEF CountFocus, browserVars, storeVars, historyVars
<1>2. /\ DOMAIN jobs' = DOMAIN jobs
      /\ \A i \in DOMAIN jobs : i # j => jobs'[i] = jobs[i]
      /\ jobs'[j].logs = jobs[j].logs
  <2>1. ~Complete(j)
    BY <1>1 DEF Complete
  <2>. QED
    BY <2>1, JobStepUpdates DEF JobStep
<1>3. jobs'[j].alert = (FocusLostCount(j) > FocusLimit)
  <2>1. j \in DOMAIN jobs
    OBVIOUS
  <2>. QED
    BY <2>1 DEF CountFocus, Becomes, Job, TypeOK
<1>4. /\ FocusSeen' = FocusSeen /\ FocusRows' = FocusRows
      /\ \A i \in DOMAIN jobs : FocusLostCount(i)' = FocusLostCount(i)
  <2>1. \A e : FocusLost(e)' = FocusLost(e)
    BY <1>1 DEF FocusLost
  <2>2. \A i \in DOMAIN jobs : jobs'[i].logs = jobs[i].logs
    BY <1>2
  <2>3. Observed' = Observed
    BY <1>1 DEF Observed
  <2>4. FocusSeen' = FocusSeen /\ FocusRows' = FocusRows
    BY <1>1, <2>1, <2>3 DEF FocusSeen, FocusRows
  <2>5. \A i \in DOMAIN jobs : FocusLogs(i)' = FocusLogs(i)
    BY <2>1, <2>2 DEF FocusLogs
  <2>. QED
    BY <2>4, <2>5 DEF FocusLostCount, FocusRows, FocusLogs
<1>5. FocusLostCount(j) \in Nat /\ FocusLimit \in Nat /\ Cardinality(FocusSeen) \in Nat
  BY FiniteFocus, ProctoringAssumption DEF RepetitionInv
<1>6. ASSUME ~overlapped', NEW i \in DOMAIN jobs', jobs'[i].state = "counted"
      PROVE  jobs'[i].alert \/ FocusLostCount(i)' <= FocusLimit
  <2>1. CASE i = j
    <3>1. CASE FocusLostCount(j) > FocusLimit
      BY <1>3, <2>1, <3>1, Zenon
    <3>2. CASE ~(FocusLostCount(j) > FocusLimit)
      BY <1>4, <1>5, <2>1, <3>2
    <3>. QED
      BY <3>1, <3>2
  <2>2. CASE i # j
    BY <1>1, <1>2, <1>4, <1>6, <2>2 DEF AlertInv
  <2>. QED
    BY <2>1, <2>2
<1>7. ASSUME replays' = 0, NEW i \in DOMAIN jobs', jobs'[i].alert
      PROVE  Cardinality(FocusSeen') > FocusLimit
  <2>1. CASE i = j
    <3>1. FocusLostCount(j) <= Cardinality(FocusSeen)
      BY <1>1, <1>7, CountsDifferentEvents
    <3>2. FocusLostCount(j) > FocusLimit
      BY <1>3, <1>7, <2>1
    <3>. QED
      BY <1>4, <1>5, <3>1, <3>2
  <2>2. CASE i # j
    BY <1>1, <1>2, <1>4, <1>7, <2>2 DEF AlertInv
  <2>. QED
    BY <2>1, <2>2
<1>8. AlertFollowsTable'
  BY <1>1, <1>4 DEF AlertInv, AlertFollowsTable, FocusRows, FocusSeen
<1>. QED
  BY <1>6, <1>7, <1>8 DEF AlertInv

LEMMA CommitAlerts ==
    ASSUME TypeOK, RepetitionInv, AlertInv, NEW j \in DOMAIN jobs, Commit(j)
    PROVE  AlertInv'
<1>1. /\ UNCHANGED <<events, expired, replays>> /\ jobs[j].state = "counted"
      /\ alerted' = (alerted \/ jobs[j].alert)
      /\ ~overlapped' => ~overlapped
      /\ ~overlapped' => \A i \in DOMAIN jobs \ {j} : jobs[i].state # "counted"
  BY DEF Commit, browserVars
<1>2. /\ DOMAIN jobs' = DOMAIN jobs
      /\ \A i \in DOMAIN jobs : i # j => jobs'[i] = jobs[i]
      /\ jobs'[j].state = "committed"
  BY JobStepUpdates DEF JobStep
<1>3. jobs'[j].alert = FALSE
  BY DEF Commit, Becomes, Job, TypeOK
<1>4. /\ FocusSeen' = FocusSeen /\ \A e : FocusLost(e)' = FocusLost(e)
  BY <1>1 DEF FocusSeen, FocusLost, Observed
<1>5. ASSUME ~overlapped', NEW i \in DOMAIN jobs', jobs'[i].state = "counted"
      PROVE  FALSE
  BY <1>1, <1>2, <1>5
<1>6. ASSUME replays' = 0, NEW i \in DOMAIN jobs', jobs'[i].alert
      PROVE  Cardinality(FocusSeen') > FocusLimit
  BY <1>1, <1>2, <1>3, <1>4, <1>6 DEF AlertInv
<1>7. ASSUME ~overlapped', Cardinality(FocusRows') > FocusLimit PROVE alerted'
  <2>. DEFINE T == {r \in NewRows(j) : r.event \in FocusLogs(j)}
  <2>1. rows' = rows \cup NewRows(j)
    BY CommitFinite DEF RepetitionInv
  <2>2. FocusRows' = FocusRows \cup T
    BY <1>4, <2>1 DEF FocusRows, FocusLogs, NewRows
  <2>3. /\ IsFiniteSet(FocusRows) /\ Cardinality(FocusRows) \in Nat
        /\ IsFiniteSet(FocusLogs(j)) /\ Cardinality(FocusLogs(j)) \in Nat
        /\ FocusLostCount(j) = Cardinality(FocusRows) + Cardinality(FocusLogs(j))
    BY FiniteFocus DEF RepetitionInv, FocusLostCount, FocusRows, FocusLogs
  <2>4. IsFiniteSet(T) /\ Cardinality(T) <= Cardinality(FocusLogs(j))
    BY <2>3, NewRowsCount
  <2>. HIDE DEF T
  <2>5. Cardinality(T) \in Nat /\ Cardinality(FocusRows \cap T) \in Nat
    <3>1. IsFiniteSet(FocusRows \cap T)
      BY <2>4, FS_Subset
    <3>. QED
      BY <2>4, <3>1, FS_CardinalityType
  <2>6. Cardinality(FocusRows \cup T)
          = Cardinality(FocusRows) + Cardinality(T) - Cardinality(FocusRows \cap T)
    BY <2>3, <2>4, FS_Union
  <2>7. Cardinality(FocusRows \cup T) > FocusLimit
    BY <1>7, <2>2
  <2>8. FocusLostCount(j) > FocusLimit
    BY <2>3, <2>4, <2>5, <2>6, <2>7, ProctoringAssumption
  <2>9. jobs[j].alert \/ FocusLostCount(j) <= FocusLimit
    BY <1>1, <1>7 DEF AlertInv
  <2>10. ~(FocusLostCount(j) <= FocusLimit)
    BY <2>3, <2>8, ProctoringAssumption
  <2>. QED
    BY <1>1, <2>9, <2>10, Zenon
<1>8. ASSUME alerted', replays' = 0 PROVE Cardinality(FocusSeen') > FocusLimit
  BY <1>1, <1>4, <1>8 DEF AlertInv, AlertFollowsTable, FocusSeen
<1>9. AlertFollowsTable'
  BY <1>7, <1>8 DEF AlertFollowsTable, FocusRows, FocusSeen
<1>. QED
  BY <1>5, <1>6, <1>9 DEF AlertInv

LEMMA NextAlerts ==
    TypeOK /\ RepetitionInv /\ AlertInv /\ [Next]_vars => AlertInv'
<1>. SUFFICES ASSUME TypeOK, RepetitionInv, AlertInv, [Next]_vars
              PROVE  AlertInv'
  OBVIOUS
<1>1. CASE UNCHANGED <<rows, jobs, alerted, overlapped>>
  BY <1>1, AlertKept
<1>2. CASE ServerAccepts
  <2>1. UNCHANGED <<rows, alerted, overlapped>>
    BY <1>2 DEF ServerAccepts, storeVars, historyVars
  <2>2. jobs' = Append(jobs, Added(Content(batch)))
    BY <1>2 DEF ServerAccepts
  <2>3. jobs'[Len(jobs) + 1].alert = FALSE
    BY <2>2 DEF Added, Job, TypeOK
  <2>. QED
    BY <1>2, <2>1, <2>3, AcceptAddsJob, AlertKept
<1>3. ASSUME NEW j \in DOMAIN jobs, Complete(j) \/ JobThrows(j) \/ JobStalls(j)
      PROVE  AlertInv'
  <2>1. UNCHANGED <<rows, alerted, overlapped>>
    BY <1>3 DEF Complete, JobThrows, JobStalls, RunAgain, storeVars, historyVars
  <2>2. /\ DOMAIN jobs' = DOMAIN jobs
        /\ \A i \in DOMAIN jobs : i # j => jobs'[i] = jobs[i]
    BY <1>3, JobStepUpdates DEF JobStep
  <2>3. jobs'[j].state # "counted" /\ jobs'[j].alert = FALSE
    BY <1>3 DEF Complete, JobThrows, JobStalls, Becomes, Job, TypeOK
  <2>. QED
    BY <2>1, <2>2, <2>3, AlertKept
<1>4. CASE BrowserStep \/ TimePasses \/ UNCHANGED vars
           \/ ServerRefuses \/ SessionEnded \/ SendFails \/ ReplyLost
  <2>1. UNCHANGED <<rows, jobs, alerted, overlapped>>
    BY <1>4 DEF BrowserStep, Observe, Put, Wake, ReadBatch, RemoveBatch,
         RetryBatch, BackoffEnds, GoOffline, GoOnline, Reload, TimePasses,
         ServerRefuses, SessionEnded, SendFails, ReplyLost, Disturb, vars,
         storeVars, historyVars
  <2>. QED
    BY <1>1, <2>1
<1>. QED
  BY <1>2, <1>3, <1>4, CountAlerts, CommitAlerts DEF Next, ReplyStep, JobStep

LEMMA InitAlerts == Init => AlertInv
<1>. SUFFICES ASSUME Init PROVE AlertInv
  OBVIOUS
<1>1. DOMAIN jobs = {} /\ rows = {} /\ ~alerted
  BY DEF Init
<1>2. Cardinality({r \in rows : FocusLost(r.event)}) = 0
  BY <1>1, FS_EmptySet
<1>. QED
  BY <1>1, <1>2, ProctoringAssumption DEF AlertInv, AlertFollowsTable

(* The alert is raised by what the table shows, for every number of        *)
(* workers: it is missed only where a transaction commits inside another,  *)
(* and wrong only where an event was stored twice.                         *)
THEOREM AlertIsRight == Spec => []AlertFollowsTable
<1>1. AlertInv => AlertFollowsTable
  BY DEF AlertInv
<1>. QED
  BY <1>1, InitRepeats, NextRepeats, InitAlerts, NextAlerts,
     ProctoringTypeCorrect, PTL DEF Spec
=============================================================================
