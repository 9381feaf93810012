------------------------ MODULE InfrastructureProofs ------------------------
(***************************************************************************)
(* Proofs about three components of MCInfrastructure, which share nothing: *)
(* the advisory lock of the calibrations, the sessions of staff and the    *)
(* rate limit, for any number of connections, organizations, users,        *)
(* sessions, requests and endpoints, any lifetimes, limits and windows.    *)
(*                                                                         *)
(* The statement that gives the lock back may run on any session.  On a    *)
(* session that does not hold the lock it changes nothing; one that holds  *)
(* it is, while no session is lost, the session of every calibration that  *)
(* runs.  So a session never holds the lock less often than calibrations   *)
(* run on it (LockInv), and two sessions never hold it together.           *)
(*                                                                         *)
(* A session of staff that has ended stays so, whoever refreshes or uses   *)
(* it meanwhile; a token is worth what its session is when it is looked up *)
(* (AfterIsEnded).                                                         *)
(*                                                                         *)
(* A counter of Redis has counted for some number of ticks: of what it has *)
(* counted no more may pass to an endpoint than the limit, of what was     *)
(* counted before no more than the limit either, and that has left the     *)
(* window when the counter expires (CountsSince).                          *)
(***************************************************************************)
EXTENDS Calibration, StaffSessions, RateLimit, FiniteSetTheorems, TLAPS

\* The calibrations on a session are counted.
LEMMA RunningType ==
    ASSUME NEW c
    PROVE  IsFiniteSet(Running(c)) /\ Cardinality(Running(c)) \in Nat
<1>1. Running(c) \in SUBSET Job
  BY DEF Running
<1>2. IsFiniteSet(Running(c))
  BY <1>1, CalibrationAssumption, FS_Subset
<1> QED
  BY <1>2, FS_CardinalityType

LEMMA RunningTypeNext ==
    ASSUME NEW c
    PROVE  IsFiniteSet(Running(c)') /\ Cardinality(Running(c)') \in Nat
<1>1. Running(c)' \in SUBSET Job
  BY DEF Running
<1>2. IsFiniteSet(Running(c)')
  BY <1>1, CalibrationAssumption, FS_Subset
<1> QED
  BY <1>2, FS_CardinalityType

\* A calibration that starts on one session adds at most itself there, and
\* nothing elsewhere.
LEMMA RunningGrows ==
    ASSUME TypeOK, NEW j \in Job, NEW c \in Conn, NEW t,
           job' = [job EXCEPT ![j] = [pc |-> "script", conn |-> c, tenant |-> t]]
    PROVE  \A d \in Conn :
             Cardinality(Running(d)') <= Cardinality(Running(d)) + (IF c = d THEN 1 ELSE 0)
<1> TAKE d \in Conn
<1>1. CASE c = d
  <2>1. Running(d)' \in SUBSET (Running(d) \cup {j})
    BY <1>1 DEF Running, TypeOK
  <2>2. /\ IsFiniteSet(Running(d) \cup {j})
        /\ Cardinality(Running(d) \cup {j}) <= Cardinality(Running(d)) + 1
        /\ Cardinality(Running(d) \cup {j}) \in Nat
    BY RunningType, FS_AddElement, FS_CardinalityType
  <2>3. Cardinality(Running(d)') <= Cardinality(Running(d) \cup {j})
    BY <2>1, <2>2, FS_Subset
  <2> QED
    BY <1>1, <2>2, <2>3, RunningType, RunningTypeNext
<1>2. CASE c # d
  <2>1. Running(d)' \in SUBSET Running(d)
    BY <1>2 DEF Running, TypeOK
  <2>2. Cardinality(Running(d)') <= Cardinality(Running(d))
    BY <2>1, RunningType, FS_Subset
  <2> QED
    BY <1>2, <2>2, RunningType, RunningTypeNext
<1> QED
  BY <1>1, <1>2

\* One that ends is taken away from its session.
LEMMA RunningShrinks ==
    ASSUME TypeOK, NEW j \in Job, NEW d \in Conn, job' = [job EXCEPT ![j] = IdleJob]
    PROVE  Cardinality(Running(d)') = Cardinality(Running(d)) - (IF job[j].conn = d THEN 1 ELSE 0)
<1>1. Running(d)' = Running(d) \ {j}
  BY CalibrationAssumption DEF Running, TypeOK, IdleJob
<1>2. j \in Running(d) <=> job[j].conn = d
  BY DEF Running
<1>3. Cardinality(Running(d) \ {j}) =
        IF j \in Running(d) THEN Cardinality(Running(d)) - 1 ELSE Cardinality(Running(d))
  BY RunningType, FS_RemoveElement
<1> QED
  BY <1>1, <1>2, <1>3, RunningType

\* The session of a calibration holds the lock, and no other does.
LEMMA HolderIsTheSession ==
    ASSUME LockInv, ~lost, NEW c \in Conn, Running(c) # {} \/ nightConn = c
    PROVE  held[c] > 0 /\ \A d \in Conn \ {c} : held[d] = 0
<1>1. Nights(c) \in {0, 1} /\ (nightConn = c => Nights(c) = 1)
  BY DEF Nights
<1>2. Cardinality(Running(c)) \in Nat /\ (Running(c) # {} => Cardinality(Running(c)) # 0)
  BY RunningType, FS_EmptySet
<1>3. held[c] \in Nat /\ held[c] >= Cardinality(Running(c)) + Nights(c)
  BY DEF LockInv, TypeOK
<1>4. held[c] > 0
  BY <1>1, <1>2, <1>3
<1> QED
  BY <1>4 DEF LockInv, TypeOK, OneSessionHolds

-----------------------------------------------------------------------------
\* What the three things that happen to the lock leave of it.
LEMMA TakeKeepsOneHolder ==
    ASSUME LockInv, NEW c \in Conn, Take(c)
    PROVE  held' \in [Conn -> Nat] /\ OneSessionHolds'
  BY DEF LockInv, TypeOK, OneSessionHolds, Take, Free

LEMMA GiveBackKeepsOneHolder ==
    ASSUME LockInv, NEW c \in Conn, GiveBack(c)
    PROVE  held' \in [Conn -> Nat] /\ OneSessionHolds'
<1>1. held' \in [Conn -> Nat] /\ \A d \in Conn : held'[d] <= held[d]
  BY DEF LockInv, TypeOK, GiveBack
<1> QED
  BY <1>1 DEF LockInv, TypeOK, OneSessionHolds

LEMMA GiveBackTakesFromTheSession ==
    ASSUME LockInv, ~lost, NEW c \in Conn, GiveBack(c),
           NEW d \in Conn, Running(d) # {} \/ nightConn = d
    PROVE  held'[d] >= held[d] - 1 /\ \A e \in Conn \ {d} : held'[e] = held[e]
<1>1. held[d] > 0 /\ \A e \in Conn \ {d} : held[e] = 0
  BY HolderIsTheSession
<1>2. held \in [Conn -> Nat]
  BY DEF LockInv, TypeOK
<1>3. CASE c = d
  BY <1>1, <1>2, <1>3 DEF GiveBack
<1>4. CASE c # d
  BY <1>1, <1>2, <1>4 DEF GiveBack
<1> QED
  BY <1>3, <1>4

LEMMA CommitKeepsType ==
    ASSUME stored \in [Tenant -> Nat], NEW t, CommitParameters(t)
    PROVE  stored' \in [Tenant -> Nat]
<1>1. CASE t \in Tenant
  BY <1>1 DEF CommitParameters
<1>2. CASE t \notin Tenant
  BY <1>2 DEF CommitParameters
<1> QED
  BY <1>1, <1>2

-----------------------------------------------------------------------------
LEMMA LockInit == Init => LockInv
<1> SUFFICES ASSUME Init PROVE LockInv
  OBVIOUS
<1>1. TypeOK
  <2>1. stored \in [Tenant -> Nat]
    BY DEF Init, CacheInit
  <2>2. job \in [Job -> [pc : {"idle", "script", "closing"},
                         conn : Conn \cup {NoConn}, tenant : Tenant \cup {NoTenant}]]
    BY DEF Init, IdleJob
  <2>3. held \in [Conn -> Nat] /\ nightConn \in Conn \cup {NoConn} /\ lost \in BOOLEAN
    BY DEF Init
  <2> QED
    BY <2>1, <2>2, <2>3 DEF TypeOK
<1>2. RunsGotTheLock
  BY DEF Init, RunsGotTheLock, IdleJob, At
<1>3. OneSessionHolds
  BY DEF Init, OneSessionHolds
<1>4. ASSUME NEW c \in Conn PROVE held[c] >= Cardinality(Running(c)) + Nights(c)
  <2>1. Running(c) = {} /\ Nights(c) = 0
    BY CalibrationAssumption DEF Init, Running, Nights, IdleJob
  <2> QED
    BY <2>1, FS_EmptySet DEF Init
<1> QED
  BY <1>1, <1>2, <1>3, <1>4 DEF LockInv

LEMMA LockStuttering ==
    ASSUME LockInv, UNCHANGED <<stored, held, lost, job, nightConn>>,
           night'.pc # "idle" => night.pc # "idle"
    PROVE  LockInv'
<1>1. TypeOK' /\ RunsGotTheLock' /\ OneSessionHolds'
  BY DEF LockInv, TypeOK, RunsGotTheLock, OneSessionHolds
<1>2. \A c \in Conn : Running(c)' = Running(c) /\ Nights(c)' = Nights(c)
  BY DEF Running, Nights
<1> QED
  BY <1>1, <1>2 DEF LockInv

LEMMA StartJobKeeps ==
    ASSUME LockInv, NEW j \in Job, NEW c \in Conn, NEW t \in Tenant, StartJob(j, c, t)
    PROVE  LockInv'
<1> USE DEF StartJob, lockVars, nightVars, cacheVars
<1>1. TypeOK'
  BY TakeKeepsOneHolder DEF LockInv, TypeOK
<1>2. RunsGotTheLock'
  BY DEF LockInv, TypeOK, RunsGotTheLock
<1>3. OneSessionHolds'
  BY TakeKeepsOneHolder
<1>4. ASSUME ~lost', NEW d \in Conn PROVE held'[d] >= Cardinality(Running(d)') + Nights(d)'
  <2>1. Cardinality(Running(d)') <= Cardinality(Running(d)) + (IF c = d THEN 1 ELSE 0)
    BY RunningGrows DEF LockInv
  <2>2. held'[d] = held[d] + (IF c = d THEN 1 ELSE 0) /\ held[d] \in Nat
    BY DEF Take, LockInv, TypeOK
  <2>3. Nights(d)' = Nights(d) /\ Nights(d) \in {0, 1}
    BY DEF Nights
  <2>4. held[d] >= Cardinality(Running(d)) + Nights(d)
    BY <1>4 DEF LockInv
  <2> QED
    BY <2>1, <2>2, <2>3, <2>4, RunningType, RunningTypeNext
<1> QED
  BY <1>1, <1>2, <1>3, <1>4 DEF LockInv

\* A job whose script has ended, in either way, still runs on its session.
LEMMA JobMovesKeeps ==
    ASSUME LockInv, NEW j \in Job, job[j].pc = "script",
           job' = [job EXCEPT ![j].pc = "closing"],
           stored' \in [Tenant -> Nat], UNCHANGED <<held, lost, nightConn, night>>
    PROVE  LockInv'
<1>1. job' \in [Job -> [pc : {"idle", "script", "closing"},
                         conn : Conn \cup {NoConn}, tenant : Tenant \cup {NoTenant}]]
  BY DEF LockInv, TypeOK
<1>2. \A k \in Job : job'[k].conn = job[k].conn /\ (job'[k].pc # "idle" <=> job[k].pc # "idle")
  BY DEF LockInv, TypeOK
<1>3. TypeOK' /\ RunsGotTheLock' /\ OneSessionHolds'
  BY <1>1, <1>2 DEF LockInv, TypeOK, RunsGotTheLock, OneSessionHolds
<1>4. \A c \in Conn : Running(c)' = Running(c) /\ Nights(c)' = Nights(c)
  BY <1>2 DEF Running, Nights
<1> QED
  BY <1>3, <1>4 DEF LockInv

LEMMA CloseJobKeeps ==
    ASSUME LockInv, NEW j \in Job, NEW c \in Conn, CloseJob(j, c)
    PROVE  LockInv'
<1> USE DEF CloseJob, lockVars, nightVars, cacheVars
<1>1. TypeOK'
  BY GiveBackKeepsOneHolder DEF LockInv, TypeOK, IdleJob
<1>2. RunsGotTheLock'
  BY DEF LockInv, TypeOK, RunsGotTheLock, IdleJob
<1>3. OneSessionHolds'
  BY GiveBackKeepsOneHolder
<1>4. ASSUME ~lost', NEW d \in Conn PROVE held'[d] >= Cardinality(Running(d)') + Nights(d)'
  <2>1. ~lost
    BY <1>4
  <2>2. PICK home \in Conn : job[j].conn = home /\ Running(home) # {}
    BY DEF LockInv, RunsGotTheLock, Running
  <2>3. held'[home] >= held[home] - 1 /\ \A e \in Conn \ {home} : held'[e] = held[e]
    BY <2>1, <2>2, GiveBackTakesFromTheSession
  <2>4. Cardinality(Running(d)') = Cardinality(Running(d)) - (IF home = d THEN 1 ELSE 0)
    BY <2>2, RunningShrinks DEF LockInv
  <2>5. held[d] >= Cardinality(Running(d)) + Nights(d)
    BY <2>1 DEF LockInv
  <2>6. Nights(d)' = Nights(d) /\ Nights(d) \in {0, 1}
    BY DEF Nights
  <2>7. held[d] \in Nat /\ held'[d] \in Nat
    BY GiveBackKeepsOneHolder DEF LockInv, TypeOK
  <2> QED
    BY <2>3, <2>4, <2>5, <2>6, <2>7, RunningType, RunningTypeNext
<1> QED
  BY <1>1, <1>2, <1>3, <1>4 DEF LockInv

LEMMA StartNightKeeps ==
    ASSUME LockInv, NEW c \in Conn, StartNight(c)
    PROVE  LockInv'
<1> USE DEF StartNight, lockVars, nightVars, cacheVars
<1>1. TypeOK'
  BY TakeKeepsOneHolder DEF LockInv, TypeOK
<1>2. RunsGotTheLock'
  BY DEF LockInv, RunsGotTheLock
<1>3. OneSessionHolds'
  BY TakeKeepsOneHolder
<1>4. ASSUME ~lost', NEW d \in Conn PROVE held'[d] >= Cardinality(Running(d)') + Nights(d)'
  <2>1. Running(d)' = Running(d)
    BY DEF Running
  <2>2. held'[d] = held[d] + (IF c = d THEN 1 ELSE 0) /\ held[d] \in Nat
    BY DEF Take, LockInv, TypeOK
  <2>3. Nights(d)' <= Nights(d) + (IF c = d THEN 1 ELSE 0) /\ Nights(d) \in {0, 1} /\ Nights(d)' \in {0, 1}
    BY DEF Nights
  <2>4. held[d] >= Cardinality(Running(d)) + Nights(d)
    BY <1>4 DEF LockInv
  <2> QED
    BY <2>1, <2>2, <2>3, <2>4, RunningType
<1> QED
  BY <1>1, <1>2, <1>3, <1>4 DEF LockInv

LEMMA EndNightKeeps ==
    ASSUME LockInv, NEW c \in Conn, EndNight(c)
    PROVE  LockInv'
<1> USE DEF EndNight, lockVars, nightVars, cacheVars
<1>1. TypeOK'
  BY GiveBackKeepsOneHolder DEF LockInv, TypeOK
<1>2. RunsGotTheLock'
  BY DEF LockInv, RunsGotTheLock, At
<1>3. OneSessionHolds'
  BY GiveBackKeepsOneHolder
<1>4. ASSUME ~lost', NEW d \in Conn PROVE held'[d] >= Cardinality(Running(d)') + Nights(d)'
  <2>1. ~lost /\ nightConn \in Conn
    BY <1>4 DEF LockInv, RunsGotTheLock
  <2>2. held'[nightConn] >= held[nightConn] - 1
        /\ \A e \in Conn \ {nightConn} : held'[e] = held[e]
    BY <2>1, GiveBackTakesFromTheSession
  <2>3. Running(d)' = Running(d)
    BY DEF Running
  <2>4. Nights(d)' = 0 /\ Nights(d) = IF nightConn = d THEN 1 ELSE 0
    BY CalibrationAssumption DEF Nights
  <2>5. held[d] >= Cardinality(Running(d)) + Nights(d)
    BY <2>1 DEF LockInv
  <2>6. held[d] \in Nat /\ held'[d] \in Nat
    BY GiveBackKeepsOneHolder DEF LockInv, TypeOK
  <2> QED
    BY <2>2, <2>3, <2>4, <2>5, <2>6, RunningType
<1> QED
  BY <1>1, <1>2, <1>3, <1>4 DEF LockInv

LEMMA CommitTenantKeeps ==
    ASSUME LockInv, CommitTenant
    PROVE  LockInv'
<1> USE DEF CommitTenant, lockVars, cacheVars
<1>1. TypeOK'
  BY CommitKeepsType DEF LockInv, TypeOK
<1>2. RunsGotTheLock' /\ OneSessionHolds'
  BY DEF LockInv, RunsGotTheLock, OneSessionHolds
<1>3. \A c \in Conn : Running(c)' = Running(c) /\ Nights(c)' = Nights(c)
  BY DEF Running, Nights
<1> QED
  BY <1>1, <1>2, <1>3 DEF LockInv

LEMMA CloseSessionKeeps ==
    ASSUME LockInv, NEW c \in Conn, CloseSession(c)
    PROVE  LockInv'
<1> USE DEF CloseSession, cacheVars, nightVars
<1>1. TypeOK' /\ RunsGotTheLock' /\ OneSessionHolds'
  BY DEF LockInv, TypeOK, RunsGotTheLock, OneSessionHolds
<1>2. ASSUME ~lost', NEW d \in Conn PROVE held'[d] >= Cardinality(Running(d)') + Nights(d)'
  <2>1. ~lost /\ nightConn # c /\ Running(c) = {}
    BY <1>2 DEF LockInv, TypeOK, Running
  <2>2. Running(d)' = Running(d) /\ Nights(d)' = Nights(d)
    BY DEF Running, Nights
  <2>3. CASE c = d
    <3>1. held'[d] = 0 /\ Nights(d) = 0 /\ Cardinality(Running(d)) = 0
      BY <2>1, <2>3, FS_EmptySet DEF LockInv, TypeOK, Nights
    <3> QED
      BY <2>2, <3>1
  <2>4. CASE c # d
    <3>1. held'[d] = held[d]
      BY <2>4 DEF LockInv, TypeOK
    <3> QED
      BY <2>1, <2>2, <3>1 DEF LockInv
  <2> QED
    BY <2>3, <2>4
<1> QED
  BY <1>1, <1>2 DEF LockInv

-----------------------------------------------------------------------------
LEMMA LockNext == LockInv /\ [Next]_vars => LockInv'
<1> SUFFICES ASSUME LockInv, [Next]_vars PROVE LockInv'
  OBVIOUS
<1> USE DEF cacheVars, lockVars, nightVars
<1>1. CASE UNCHANGED vars
  BY <1>1, LockStuttering DEF vars
<1>2. CASE CacheStep /\ Aside
  <2>1. UNCHANGED stored
    BY <1>2 DEF CacheStep, Fill, LookUp, Cron, SwapMap, FailLoad
  <2> QED
    BY <1>2, <2>1, LockStuttering DEF Aside
<1>3. ASSUME NEW j \in Job, JobRuns(j) PROVE LockInv'
  <2>1. ASSUME NEW c \in Conn, CloseJob(j, c) PROVE LockInv'
    BY <2>1, CloseJobKeeps
  <2>2. ASSUME NEW c \in Conn, NEW t \in Tenant, StartJob(j, c, t) PROVE LockInv'
    BY <2>2, StartJobKeeps
  <2>3. CASE CommitJob(j)
    <3>1. stored' \in [Tenant -> Nat]
      BY <2>3, CommitKeepsType DEF CommitJob, LockInv, TypeOK
    <3> QED
      BY <2>3, <3>1, JobMovesKeeps DEF CommitJob
  <2>4. CASE FailJob(j)
    <3>1. stored' \in [Tenant -> Nat]
      BY <2>4 DEF FailJob, LockInv, TypeOK
    <3> QED
      BY <2>4, <3>1, JobMovesKeeps DEF FailJob
  <2> QED
    BY <1>3, <2>1, <2>2, <2>3, <2>4 DEF JobRuns
<1>4. CASE NightRuns
  <2>1. ASSUME NEW c \in Conn, StartNight(c) PROVE LockInv'
    BY <2>1, StartNightKeeps
  <2>2. ASSUME NEW c \in Conn, EndNight(c) PROVE LockInv'
    BY <2>2, EndNightKeeps
  <2>3. ASSUME NEW c \in Conn, Configure(c) \/ Regenerate(c) PROVE LockInv'
    BY <2>3, LockStuttering DEF Configure, Regenerate, At
  <2>4. ASSUME NEW t \in Tenant, SkipTenant(t) \/ BeginTenant(t) PROVE LockInv'
    BY <2>4, LockStuttering DEF SkipTenant, BeginTenant, At
  <2>5. CASE CommitTenant
    BY <2>5, CommitTenantKeeps
  <2>6. CASE AbortNight
    BY <2>6, LockStuttering DEF AbortNight, At
  <2> QED
    BY <1>4, <2>1, <2>2, <2>3, <2>4, <2>5, <2>6 DEF NightRuns
<1>5. ASSUME NEW c \in Conn, CloseSession(c) PROVE LockInv'
  BY <1>5, CloseSessionKeeps
<1> QED
  BY <1>1, <1>2, <1>3, <1>4, <1>5 DEF Next

(***************************************************************************)
(* While sessions live, the advisory lock is held by one session, as often *)
(* as calibrations run on it, wherever it is given back.                   *)
(***************************************************************************)
THEOREM LockIsCounted == Spec => []LockInv
  BY LockInit, LockNext, PTL DEF Spec

(***************************************************************************)
(* Calibrations, by hand or at night, that run together share one session: *)
(* two processes never calibrate at once.                                  *)
(***************************************************************************)
THEOREM CalibrationsExclude == Spec => []OneSessionCalibrates
<1>1. LockInv => OneSessionCalibrates
  <2> SUFFICES ASSUME LockInv, ~lost, NEW c \in Conn, NEW d \in Conn,
                      Running(c) # {}, Running(d) # {} \/ nightConn = d
               PROVE  c = d
    BY DEF OneSessionCalibrates
  <2>1. held[c] > 0 /\ \A e \in Conn \ {c} : held[e] = 0
    BY HolderIsTheSession
  <2>2. held[d] > 0
    BY HolderIsTheSession
  <2> QED
    BY <2>1, <2>2
<1> QED
  BY <1>1, LockIsCounted, PTL

-----------------------------------------------------------------------------
(***************************************************************************)
(* Sessions of staff.                                                      *)
(***************************************************************************)
SessionRow == [state : {"open", "revoked"}, user : User, left : Nat]

Token == [user : User, session : Session \cup {NoSession}, left : Nat]

Shown == [pc : {"token", "work", "logout", "handler"}, token : Token,
          route : {"work", "logout"}, after : BOOLEAN]

Handling == {Waiting} \cup [pc : {"login"}, user : User]
              \cup [pc : {"refresh"}, session : Session] \cup Shown

SessionsTypeOK ==
    /\ active \subseteq User /\ staff \subseteq User
    /\ session \in [Session -> SessionRow \cup {Unused}]
    /\ tokens \subseteq Token
    /\ handling \in [Call -> Handling]

\* Tokens and requests refer to sessions that exist.
Exists(s) == s \in Session => session[s] # Unused

SessionsExist ==
    /\ \A t \in tokens : Exists(t.session)
    /\ \A c \in Call : /\ handling[c] \in Shown => Exists(handling[c].token.session)
                       /\ handling[c].pc = "refresh" => Exists(handling[c].session)

\* A request that came after the end of its session finds it ended.
AfterIsEnded == \A c \in Call :
    handling[c].pc = "token" /\ handling[c].after => Ended(handling[c].token.session)

SessionsInv == SessionsTypeOK /\ SessionsExist /\ AfterIsEnded /\ EndedSessionsStayOut

LEMMA ShownHandling ==
    ASSUME SessionsTypeOK, NEW c \in Call
    PROVE  /\ handling[c].pc \in {"token", "work", "logout", "handler"} => handling[c] \in Shown
           /\ handling[c].pc = "refresh" => handling[c].session \in Session
           /\ handling[c].pc = "login" => handling[c].user \in User
           /\ handling[c] \in Shown =>
                /\ handling[c].pc \in {"token", "work", "logout", "handler"}
                /\ handling[c].token \in Token
BY DEF SessionsTypeOK, Handling, Shown, Waiting

\* Rows stay, and the end of a session is for ever.
LEMMA SessionsStayEnded ==
    ASSUME SessionsTypeOK, SessionsNext, NEW s \in Session
    PROVE  /\ session[s] # Unused => session'[s] # Unused
           /\ session[s] # Unused /\ Ended(s) => Ended(s)'
<1>0. /\ session[s] \in SessionRow \cup {Unused} /\ Unused \notin SessionRow
      /\ session \in [Session -> SessionRow \cup {Unused}]
  BY DEF SessionsTypeOK, SessionRow, Unused
<1>1. CASE session'[s] = session[s]
  BY <1>1 DEF Ended
<1>2. ASSUME NEW c \in Call, NEW z \in Session, CreateSession(c, z)
      PROVE  session[s] # Unused => session'[s] = session[s]
  BY <1>0, <1>2 DEF CreateSession
<1>3. ASSUME NEW c \in Call, Logout(c)
      PROVE  \/ session'[s] = session[s]
             \/ session'[s] = [session[s] EXCEPT !.state = "revoked"]
  BY <1>0, <1>3 DEF Logout
<1>4. CASE TimePasses
  BY <1>0, <1>4 DEF TimePasses, Ended, SessionRow, Unused
<1>5. ASSUME session[s] \in SessionRow,
             session'[s] = [session[s] EXCEPT !.state = "revoked"]
      PROVE  session'[s] # Unused /\ Ended(s)'
  BY <1>5 DEF SessionRow, Unused, Ended
<1>6. CASE UNCHANGED session
  BY <1>1, <1>6
<1>. QED
  BY <1>0, <1>1, <1>2, <1>3, <1>4, <1>5, <1>6
     DEF SessionsNext, Login, Refresh, Reissue, Authenticate, Authorize, Handle,
         Show, Claim, Administer

\* A step of one request.
LEMMA RequestMoves ==
    ASSUME SessionsInv, SessionsNext, NEW c \in Call, NEW step \in Handling,
           handling' = [handling EXCEPT ![c] = step],
           active' \subseteq User, staff' \subseteq User,
           session' \in [Session -> SessionRow \cup {Unused}], tokens' \subseteq Token,
           \A t \in tokens' : t \in tokens \/ Exists(t.session)',
           step \in Shown => Exists(step.token.session),
           step.pc = "refresh" => Exists(step.session),
           step.pc = "token" /\ step.after =>
             Ended(step.token.session) /\ Exists(step.token.session),
           step.pc \in {"work", "logout", "handler"} => ~step.after
    PROVE  SessionsInv'
<1>1. /\ handling' \in [Call -> Handling] /\ handling'[c] = step
      /\ \A d \in Call \ {c} : handling'[d] = handling[d]
  BY DEF SessionsInv, SessionsTypeOK
<1>2. SessionsTypeOK'
  BY <1>1 DEF SessionsTypeOK
<1>3. \A s : Exists(s) => Exists(s)'
  BY SessionsStayEnded DEF Exists, SessionsInv
<1>4. SessionsExist'
  BY <1>1, <1>3 DEF SessionsExist, SessionsInv
<1>5. ASSUME NEW s, Exists(s), Ended(s) PROVE Ended(s)'
  <2>1. s \in Session /\ session[s] # Unused
    BY <1>5 DEF Ended, Exists
  <2>. QED
    BY <1>5, <2>1, SessionsStayEnded DEF SessionsInv
<1>6. AfterIsEnded'
  <2>. SUFFICES ASSUME NEW d \in Call, (handling[d].pc = "token" /\ handling[d].after)'
                PROVE  Ended(handling[d].token.session)'
    BY DEF AfterIsEnded
  <2>. DEFINE h == handling'[d]
  <2>1. PICK x : x = h.token.session
    OBVIOUS
  <2>2. Ended(x) /\ Exists(x)
    <3>1. CASE d = c
      BY <1>1, <2>1, <3>1
    <3>2. CASE d # c
      <4>1. h = handling[d]
        BY <1>1, <3>2
      <4>2. handling[d] \in Shown /\ Ended(handling[d].token.session)
        BY <4>1, ShownHandling DEF SessionsInv, AfterIsEnded
      <4>. QED
        BY <2>1, <4>1, <4>2 DEF SessionsInv, SessionsExist
    <3>. QED
      BY <3>1, <3>2
  <2>3. Ended(x)'
    BY <1>5, <2>2
  <2>. QED
    BY <2>1, <2>3 DEF Ended
<1>7. EndedSessionsStayOut'
  BY <1>1 DEF EndedSessionsStayOut, SessionsInv
<1>. QED
  BY <1>2, <1>4, <1>6, <1>7 DEF SessionsInv

LEMMA SessionsStart == SessionsInit => SessionsInv
BY DEF SessionsInit, SessionsInv, SessionsTypeOK, SessionsExist, AfterIsEnded,
       EndedSessionsStayOut, Waiting, Handling, Shown

\* A request that ends, or only reads.
LEMMA RequestReads ==
    ASSUME SessionsInv, SessionsNext, NEW c \in Call, NEW step \in Handling, Goes(c, step),
           UNCHANGED <<active, staff, session, tokens>>,
           step \in Shown => Exists(step.token.session),
           step.pc = "refresh" => Exists(step.session),
           step.pc = "token" /\ step.after => Ended(step.token.session),
           step.pc \in {"work", "logout", "handler"} => ~step.after
    PROVE  SessionsInv'
<1>1. step.pc = "token" => step \in Shown
  BY DEF Handling, Shown, Waiting
<1>2. \A t \in tokens' : t \in tokens
  OBVIOUS
<1>3. /\ active' \subseteq User /\ staff' \subseteq User /\ tokens' \subseteq Token
      /\ session' \in [Session -> SessionRow \cup {Unused}]
  BY DEF SessionsInv, SessionsTypeOK
<1>. QED
  BY <1>1, <1>2, <1>3, RequestMoves DEF Goes

\* A token is issued to the session of a request, which then ends.
LEMMA RequestIssues ==
    ASSUME SessionsInv, SessionsNext, NEW c \in Call, NEW u \in User, NEW s \in Session,
           Issue(u, s), Ends(c), UNCHANGED <<active, staff>>,
           session' \in [Session -> SessionRow \cup {Unused}],
           session'[s] # Unused
    PROVE  SessionsInv'
<1>1. /\ active' \subseteq User /\ staff' \subseteq User
      /\ tokens' \subseteq Token
  BY SessionsAssumption DEF SessionsInv, SessionsTypeOK, Issue, Token
<1>2. \A t \in tokens' : t \in tokens \/ Exists(t.session)'
  BY DEF Issue, Exists
<1>3. Waiting \in Handling /\ Waiting.pc = "idle" /\ Waiting \notin Shown
  BY DEF Waiting, Handling, Shown
<1>. QED
  BY <1>1, <1>2, <1>3, RequestMoves DEF Ends, Goes

LEMMA AuthenticateKeeps ==
    ASSUME SessionsInv, SessionsNext, NEW c \in Call, Authenticate(c)
    PROVE  SessionsInv'
<1>. DEFINE h == handling[c]
            t == h.token
<1>1. h \in Shown /\ h.pc = "token" /\ t \in Token /\ Exists(t.session)
  BY ShownHandling DEF Authenticate, SessionsInv, SessionsExist
<1>2. Waiting \in Handling /\ Waiting.pc = "idle" /\ Waiting \notin Shown
  BY DEF Waiting, Handling, Shown
<1>3. CASE Ends(c)
  BY <1>2, <1>3, RequestReads DEF Ends, Authenticate
<1>4. CASE ActiveSession(t) /\ Goes(c, [h EXCEPT !.pc = h.route])
  <2>1. ~h.after
    <3>1. h.after => Ended(t.session)
      BY <1>1 DEF SessionsInv, AfterIsEnded
    <3>2. Ended(t.session) => ~ActiveSession(t)
      <4>1. SUFFICES ASSUME Ended(t.session) PROVE ~Live(t.session) /\ t.session # NoSession
        BY DEF ActiveSession
      <4>2. session[t.session] \in SessionRow
        BY <1>1, <4>1 DEF Exists, Ended, SessionsInv, SessionsTypeOK
      <4>. QED
        BY <4>1, <4>2, SessionsAssumption DEF Ended, Live, SessionRow
    <3>. QED
      BY <1>4, <3>1, <3>2
  <2>. DEFINE step == [h EXCEPT !.pc = h.route]
  <2>2. /\ step \in Shown /\ step.pc \in {"work", "logout"}
        /\ step.token = t /\ step.after = h.after
    BY <1>1 DEF Shown
  <2>3. step \in Handling /\ Exists(step.token.session)
    BY <1>1, <2>2 DEF Handling
  <2>. HIDE DEF step
  <2>4. Goes(c, step)
    BY <1>4 DEF step
  <2>. QED
    BY <2>1, <2>2, <2>3, <2>4, RequestReads DEF Authenticate
<1>. QED
  BY <1>3, <1>4 DEF Authenticate

LEMMA AuthorizeKeeps ==
    ASSUME SessionsInv, SessionsNext, NEW c \in Call, Authorize(c)
    PROVE  SessionsInv'
<1>. DEFINE h == handling[c]
            step == [h EXCEPT !.pc = "handler"]
<1>1. h \in Shown /\ ~h.after /\ Exists(h.token.session)
  BY ShownHandling DEF Authorize, SessionsInv, SessionsExist, EndedSessionsStayOut
<1>2. Waiting \in Handling /\ Waiting.pc = "idle" /\ Waiting \notin Shown
  BY DEF Waiting, Handling, Shown
<1>3. CASE Ends(c)
  BY <1>2, <1>3, RequestReads DEF Ends, Authorize
<1>4. /\ step \in Shown /\ step \in Handling /\ step.pc = "handler"
      /\ step.token = h.token /\ step.after = h.after
  BY <1>1 DEF Shown, Handling
<1>5. CASE Goes(c, step)
  <2>. HIDE DEF step
  <2>. QED
    BY <1>1, <1>4, <1>5, RequestReads DEF Authorize
<1>. QED
  BY <1>3, <1>5 DEF Authorize

LEMMA LogoutKeeps ==
    ASSUME SessionsInv, SessionsNext, NEW c \in Call, Logout(c)
    PROVE  SessionsInv'
<1>. DEFINE t == handling[c].token
<1>1. t \in Token /\ Exists(t.session)
  BY ShownHandling DEF Logout, SessionsInv, SessionsExist
<1>2. session' \in [Session -> SessionRow \cup {Unused}]
  <2>1. CASE UNCHANGED session
    BY <2>1 DEF SessionsInv, SessionsTypeOK
  <2>2. CASE t.session \in Session /\ session' = [session EXCEPT ![t.session].state = "revoked"]
    <3>1. session[t.session] \in SessionRow
      BY <1>1, <2>2 DEF Exists, SessionsInv, SessionsTypeOK
    <3>2. [session[t.session] EXCEPT !.state = "revoked"] \in SessionRow
      BY <3>1 DEF SessionRow
    <3>. QED
      BY <2>2, <3>2 DEF SessionsInv, SessionsTypeOK
  <2>. QED
    BY <2>1, <2>2 DEF Logout
<1>3. /\ active' \subseteq User /\ staff' \subseteq User /\ tokens' \subseteq Token
      /\ \A u \in tokens' : u \in tokens
  BY DEF SessionsInv, SessionsTypeOK, Logout
<1>4. Waiting \in Handling /\ Waiting.pc = "idle" /\ Waiting \notin Shown
  BY DEF Waiting, Handling, Shown
<1>5. handling' = [handling EXCEPT ![c] = Waiting]
  BY DEF Logout, Ends, Goes
<1>. QED
  BY <1>2, <1>3, <1>4, <1>5, RequestMoves

LEMMA TimePassesKeeps ==
    ASSUME SessionsInv, SessionsNext, TimePasses
    PROVE  SessionsInv'
<1>1. session' \in [Session -> SessionRow \cup {Unused}]
  <2>1. ASSUME NEW s \in Session, session[s] # Unused, session[s].left # 0
        PROVE  [session[s] EXCEPT !.left = @ - 1] \in SessionRow
    <3>1. session[s] \in SessionRow
      BY <2>1 DEF SessionsInv, SessionsTypeOK
    <3>. QED
      BY <2>1, <3>1 DEF SessionRow
  <2>. QED
    BY <2>1 DEF TimePasses, SessionsInv, SessionsTypeOK
<1>2. ASSUME NEW t \in tokens'
      PROVE  t \in Token /\ Exists(t.session)
  <2>1. PICK u \in tokens : u.left > 1 /\ t = [u EXCEPT !.left = @ - 1]
    BY <1>2 DEF TimePasses
  <2>2. u \in Token /\ Exists(u.session)
    BY <2>1 DEF SessionsInv, SessionsTypeOK, SessionsExist
  <2>3. t \in Token /\ t.session = u.session
    BY <2>1, <2>2 DEF Token
  <2>. QED
    BY <2>2, <2>3
<1>3. ASSUME NEW c \in Call
      PROVE  /\ handling'[c] \in Handling
             /\ handling'[c].pc = handling[c].pc
             /\ handling'[c] # handling[c] =>
                  /\ handling[c] \in Shown /\ handling[c].pc = "token"
                  /\ handling'[c].token.session = handling[c].token.session
                  /\ handling'[c].after = handling[c].after
  <2>1. CASE handling[c].pc # "token"
    BY <2>1 DEF TimePasses, SessionsInv, SessionsTypeOK
  <2>2. CASE handling[c].pc = "token"
    <3>. DEFINE h == handling[c]
                n == IF h.token.left > 0 THEN h.token.left - 1 ELSE h.token.left
                t == [h.token EXCEPT !.left = n]
    <3>1. h \in Shown /\ h.token \in Token
      BY <2>2, ShownHandling DEF SessionsInv
    <3>2. n \in Nat
      BY <3>1 DEF Token
    <3>3. t \in Token /\ t.session = h.token.session
      <4>. HIDE DEF n
      <4>. QED
        BY <3>1, <3>2 DEF Token
    <3>4. handling'[c] = [h EXCEPT !.token = t]
      <4>1. handling'[c] = [h EXCEPT !.token.left = n]
        BY <2>2 DEF TimePasses
      <4>. HIDE DEF n
      <4>. QED
        BY <3>1, <4>1 DEF Shown, Token
    <3>. HIDE DEF t
    <3>5. handling'[c] \in Shown /\ handling'[c].pc = h.pc /\ handling'[c].token = t
          /\ handling'[c].after = h.after
      BY <3>1, <3>3, <3>4 DEF Shown
    <3>. QED
      BY <2>2, <3>1, <3>3, <3>5 DEF Handling
  <2>. QED
    BY <2>1, <2>2
<1>4. SessionsTypeOK'
  <2>1. handling' \in [Call -> Handling]
    BY <1>3 DEF TimePasses
  <2>. QED
    BY <1>1, <1>2, <2>1 DEF SessionsTypeOK, TimePasses, SessionsInv
<1>5. ASSUME NEW s PROVE Exists(s) => Exists(s)'
  BY SessionsStayEnded DEF Exists, SessionsInv
<1>6. SessionsExist'
  <2>1. \A t \in tokens' : Exists(t.session)'
    BY <1>2, <1>5
  <2>2. ASSUME NEW c \in Call, NEW h, h = handling'[c], h \in Shown
        PROVE  Exists(h.token.session)'
    <3>1. handling[c] \in Shown /\ h.token.session = handling[c].token.session
      BY <1>3, <2>2
    <3>. QED
      BY <1>5, <3>1 DEF SessionsInv, SessionsExist
  <2>3. ASSUME NEW c \in Call, NEW h, h = handling'[c], h.pc = "refresh"
        PROVE  Exists(h.session)'
    <3>1. handling[c] = h
      BY <1>3, <2>3
    <3>. QED
      BY <1>5, <2>3, <3>1 DEF SessionsInv, SessionsExist
  <2>. QED
    BY <2>1, <2>2, <2>3 DEF SessionsExist
<1>7. AfterIsEnded'
  <2>1. ASSUME NEW c \in Call, NEW h, h = handling'[c], h.pc = "token", h.after
        PROVE  Ended(h.token.session)'
    <3>1. /\ handling[c].pc = "token" /\ handling[c].after
          /\ h.token.session = handling[c].token.session
      BY <1>3, <2>1
    <3>2. handling[c] \in Shown
      BY <3>1, ShownHandling DEF SessionsInv
    <3>3. Ended(h.token.session) /\ Exists(h.token.session)
      BY <3>1, <3>2 DEF SessionsInv, AfterIsEnded, SessionsExist
    <3>. QED
      BY <3>3, SessionsStayEnded DEF Exists, Ended, SessionsInv
  <2>. QED
    BY <2>1 DEF AfterIsEnded
<1>8. EndedSessionsStayOut'
  BY <1>3 DEF EndedSessionsStayOut, SessionsInv
<1>. QED
  BY <1>4, <1>6, <1>7, <1>8 DEF SessionsInv

LEMMA SessionsKeep == SessionsInv /\ [SessionsNext]_sessionVars => SessionsInv'
<1>. SUFFICES ASSUME SessionsInv, [SessionsNext]_sessionVars PROVE SessionsInv'
  OBVIOUS
<1>1. CASE UNCHANGED sessionVars
  BY <1>1 DEF sessionVars, SessionsInv, SessionsTypeOK, SessionsExist, AfterIsEnded,
              EndedSessionsStayOut, Exists, Ended
<1>. SUFFICES ASSUME SessionsNext PROVE SessionsInv'
  BY <1>1
<1>2. Waiting \in Handling /\ Waiting.pc = "idle" /\ Waiting \notin Shown
  BY DEF Waiting, Handling, Shown
<1>3. ASSUME NEW c \in Call, NEW u \in User, Login(c, u) PROVE SessionsInv'
  <2>. DEFINE step == [pc |-> "login", user |-> u]
  <2>1. step \in Handling /\ step \notin Shown /\ step.pc = "login"
    BY DEF Handling, Shown
  <2>2. Goes(c, step)
    BY <1>3 DEF Login
  <2>. HIDE DEF step
  <2>. QED
    BY <1>3, <2>1, <2>2, RequestReads DEF Login
<1>4. ASSUME NEW c \in Call, NEW s \in Session, CreateSession(c, s) PROVE SessionsInv'
  <2>1. handling[c].user \in User
    BY <1>4, ShownHandling DEF CreateSession, SessionsInv
  <2>. DEFINE row == [state |-> "open", user |-> handling[c].user, left |-> SessionTicks]
  <2>2. row \in SessionRow /\ row # Unused
    BY <2>1, SessionsAssumption DEF SessionRow, Unused
  <2>3. session' = [session EXCEPT ![s] = row]
    BY <1>4 DEF CreateSession
  <2>. HIDE DEF row
  <2>4. session' \in [Session -> SessionRow \cup {Unused}] /\ session'[s] # Unused
    BY <2>2, <2>3 DEF SessionsInv, SessionsTypeOK
  <2>. QED
    BY <1>4, <2>1, <2>4, RequestIssues DEF CreateSession
<1>5. ASSUME NEW c \in Call, NEW s \in Session, Refresh(c, s) PROVE SessionsInv'
  <2>. DEFINE step == [pc |-> "refresh", session |-> s]
  <2>1. step \in Handling /\ step \notin Shown /\ step.pc = "refresh" /\ step.session = s
    BY DEF Handling, Shown
  <2>2. Exists(s)
    BY <1>5 DEF Refresh, Live, Exists, Unused
  <2>3. Goes(c, step)
    BY <1>5 DEF Refresh
  <2>. HIDE DEF step
  <2>. QED
    BY <1>5, <2>1, <2>2, <2>3, RequestReads DEF Refresh
<1>6. ASSUME NEW c \in Call, Reissue(c) PROVE SessionsInv'
  <2>. DEFINE s == handling[c].session
  <2>1. s \in Session /\ session[s] # Unused
    BY <1>6, ShownHandling DEF Reissue, SessionsInv, SessionsExist, Exists
  <2>2. session[s].user \in User
    BY <2>1 DEF SessionsInv, SessionsTypeOK, SessionRow
  <2>3. session' \in [Session -> SessionRow \cup {Unused}] /\ session'[s] # Unused
    BY <1>6, <2>1 DEF Reissue, SessionsInv, SessionsTypeOK
  <2>. QED
    BY <1>6, <2>1, <2>2, <2>3, RequestIssues DEF Reissue
<1>7. ASSUME NEW c \in Call, Handle(c) PROVE SessionsInv'
  BY <1>2, <1>7, RequestReads DEF Handle, Ends
<1>8. ASSUME NEW c \in Call, NEW t \in tokens, NEW route \in {"work", "logout"}, Show(c, t, route)
      PROVE  SessionsInv'
  <2>. DEFINE step == [pc |-> "token", token |-> t, route |-> route, after |-> Ended(t.session)]
  <2>1. t \in Token /\ Exists(t.session)
    BY DEF SessionsInv, SessionsTypeOK, SessionsExist
  <2>2. Ended(t.session) \in BOOLEAN
    BY DEF Ended
  <2>3. /\ step \in Shown /\ step.pc = "token" /\ step.token = t
        /\ step.after = Ended(t.session)
    BY <2>1, <2>2 DEF Shown
  <2>4. step \in Handling
    BY <2>3 DEF Handling
  <2>5. Goes(c, step)
    BY <1>8 DEF Show
  <2>. HIDE DEF step
  <2>. QED
    BY <1>8, <2>1, <2>3, <2>4, <2>5, RequestReads DEF Show
<1>9. ASSUME NEW u \in User, Claim(u) PROVE SessionsInv'
  <2>1. /\ tokens' \subseteq Token
        /\ \A t \in tokens' : t \in tokens \/ t.session = NoSession
    BY <1>9, SessionsAssumption DEF Claim, Issue, Token, SessionsInv, SessionsTypeOK
  <2>. QED
    BY <1>9, <2>1, SessionsAssumption
       DEF Claim, SessionsInv, SessionsTypeOK, SessionsExist, AfterIsEnded,
           EndedSessionsStayOut, Exists, Ended
<1>10. ASSUME Administer PROVE SessionsInv'
  BY <1>10 DEF Administer, SessionsInv, SessionsTypeOK, SessionsExist, AfterIsEnded,
               EndedSessionsStayOut, Exists, Ended
<1>. QED
  BY <1>3, <1>4, <1>5, <1>6, <1>7, <1>8, <1>9, <1>10, AuthenticateKeeps, AuthorizeKeeps,
     LogoutKeeps, TimePassesKeeps DEF SessionsNext

(***************************************************************************)
(* No request that comes after the end of its session reaches a handler,   *)
(* for any number of users, sessions and requests and any lifetimes.       *)
(***************************************************************************)
THEOREM EndedSessionsAreShut == SessionsSpec => []EndedSessionsStayOut
<1>1. SessionsInv => EndedSessionsStayOut
  BY DEF SessionsInv
<1>. QED
  BY <1>1, SessionsStart, SessionsKeep, PTL DEF SessionsSpec

-----------------------------------------------------------------------------
(***************************************************************************)
(* The rate limit.                                                         *)
(***************************************************************************)
HitOK(h) ==
    \/ h = NoHit
    \/ h.pc = "incr" /\ DOMAIN h = {"pc", "endpoint", "process"} /\ h.endpoint \in Endpoint
    \/ /\ h.pc \in {"expire", "ttl"} /\ DOMAIN h = {"pc", "endpoint", "process", "count", "age"}
       /\ h.endpoint \in Endpoint /\ h.count \in Nat /\ h.age \in Nat

CounterOK(c) ==
    DOMAIN c = {"count", "left"} /\ c.count \in Nat /\ (c.left = Never \/ c.left \in Nat \ {0})

PassedOK(s) == IsFiniteSet(s) /\ s \subseteq (0 .. Window - 1) \X Nat

LimiterTypeOK ==
    /\ required \in BOOLEAN
    /\ DOMAIN counter = CounterKey /\ \A k \in CounterKey : CounterOK(counter[k])
    /\ DOMAIN hit = Request /\ \A r \in Request : HitOK(hit[r])
    /\ DOMAIN passed = Endpoint /\ \A e \in Endpoint : PassedOK(passed[e])

\* Requests that have been counted, may pass and would be in the window.
Pending(e) ==
    {r \in Request : /\ hit[r].pc \in {"expire", "ttl"} /\ hit[r].endpoint = e
                     /\ hit[r].count <= Limit[e] /\ hit[r].age < Window}

\* Requests counted less than c ticks ago, and the others of the window.
Since(e, c) ==
    Cardinality({x \in passed[e] : x[1] < c}) + Cardinality({r \in Pending(e) : hit[r].age < c})

Before(e, c) ==
    Cardinality({x \in passed[e] : x[1] >= c}) + Cardinality({r \in Pending(e) : hit[r].age >= c})

\* The counter of a key has counted from c ticks ago on, and does not expire
\* before what was counted earlier has left the window.
CountsSince(k, c) ==
    /\ c \in Nat \ {0}
    /\ counter[k].left # Never => counter[k].left + c > Window
    /\ \A e \in Endpoint : BuildKey(e) = k =>
         Since(e, c) <= counter[k].count /\ Since(e, c) <= Limit[e] /\ Before(e, c) <= Limit[e]

TwoCounts == required => \A k \in CounterKey : \E c \in Nat \ {0} : CountsSince(k, c)

LimiterInv == LimiterTypeOK /\ TwoCounts

-----------------------------------------------------------------------------
\* Finite sets that are split, that get one element more, that move on.
LEMMA Numbers ==
    ASSUME LimiterTypeOK, NEW e \in Endpoint, NEW c \in Nat
    PROVE  /\ Since(e, c) \in Nat /\ Before(e, c) \in Nat /\ Limit[e] \in Nat
           /\ IsFiniteSet({x \in passed[e] : x[1] < c}) /\ IsFiniteSet({x \in passed[e] : x[1] >= c})
           /\ IsFiniteSet({r \in Pending(e) : hit[r].age < c}) /\ IsFiniteSet({r \in Pending(e) : hit[r].age >= c})
<1>1. IsFiniteSet(passed[e]) /\ IsFiniteSet(Request) /\ Limit[e] \in Nat
  BY LimiterAssumption DEF LimiterTypeOK, PassedOK
<1>2. {x \in passed[e] : x[1] < c} \in SUBSET passed[e] /\ {x \in passed[e] : x[1] >= c} \in SUBSET passed[e]
  OBVIOUS
<1>3. {r \in Pending(e) : hit[r].age < c} \in SUBSET Request /\ {r \in Pending(e) : hit[r].age >= c} \in SUBSET Request
  BY DEF Pending
<1>4. /\ IsFiniteSet({x \in passed[e] : x[1] < c}) /\ IsFiniteSet({x \in passed[e] : x[1] >= c})
      /\ IsFiniteSet({r \in Pending(e) : hit[r].age < c}) /\ IsFiniteSet({r \in Pending(e) : hit[r].age >= c})
  BY <1>1, <1>2, <1>3, FS_Subset
<1> QED
  BY <1>1, <1>4, FS_CardinalityType DEF Since, Before

LEMMA SmallerSum ==
    ASSUME NEW A, NEW B, NEW C, NEW D, IsFiniteSet(B), IsFiniteSet(D), A \subseteq B, C \subseteq D
    PROVE  /\ Cardinality(A) + Cardinality(C) <= Cardinality(B) + Cardinality(D)
           /\ Cardinality(A) + Cardinality(C) \in Nat
<1>1. /\ IsFiniteSet(A) /\ Cardinality(A) <= Cardinality(B)
      /\ IsFiniteSet(C) /\ Cardinality(C) <= Cardinality(D)
  BY FS_Subset
<1>2. Cardinality(A) \in Nat /\ Cardinality(B) \in Nat /\ Cardinality(C) \in Nat /\ Cardinality(D) \in Nat
  BY <1>1, FS_CardinalityType
<1> QED
  BY <1>1, <1>2

LEMMA OneElementMore ==
    ASSUME NEW S, NEW x, NEW T, IsFiniteSet(S), T \subseteq S \cup {x}
    PROVE  IsFiniteSet(T) /\ Cardinality(T) \in Nat /\ Cardinality(S) \in Nat /\ Cardinality(T) <= Cardinality(S) + 1
<1>1. IsFiniteSet(S \cup {x}) /\ Cardinality(S \cup {x}) <= Cardinality(S) + 1 /\ Cardinality(S) \in Nat
      /\ Cardinality(S \cup {x}) \in Nat
  BY FS_AddElement, FS_CardinalityType
<1>2. IsFiniteSet(T) /\ Cardinality(T) <= Cardinality(S \cup {x})
  BY <1>1, FS_Subset
<1> QED
  BY <1>1, <1>2, FS_CardinalityType

LEMMA OneElementLess ==
    ASSUME NEW S, NEW x \in S, NEW T, IsFiniteSet(S), T \subseteq S \ {x}
    PROVE  Cardinality(T) + 1 <= Cardinality(S) /\ Cardinality(T) \in Nat /\ Cardinality(S) \in Nat
<1>1. IsFiniteSet(S \ {x}) /\ Cardinality(S \ {x}) = Cardinality(S) - 1 /\ Cardinality(S) \in Nat
  BY FS_RemoveElement, FS_CardinalityType
<1>2. IsFiniteSet(T) /\ Cardinality(T) <= Cardinality(S \ {x})
  BY <1>1, FS_Subset
<1> QED
  BY <1>1, <1>2, FS_CardinalityType

LEMMA MovedOn ==
    ASSUME NEW S, IsFiniteSet(S)
    PROVE  LET T == {<<x[1] + 1, x[2]>> : x \in S}
           IN  IsFiniteSet(T) /\ Cardinality(T) <= Cardinality(S)
<1> DEFINE T == {<<x[1] + 1, x[2]>> : x \in S}
            f == [x \in S |-> <<x[1] + 1, x[2]>>]
<1>1. f \in Surjection(S, T)
  BY DEF Surjection
<1> QED
  BY <1>1, FS_Surjection

LEMMA Split ==
    ASSUME LimiterTypeOK, NEW e \in Endpoint, NEW c \in Nat
    PROVE  Cardinality(passed[e]) <= Since(e, c) + Before(e, c)
<1> DEFINE A == {x \in passed[e] : x[1] < c}
            B == {x \in passed[e] : x[1] >= c}
            C == {r \in Pending(e) : hit[r].age < c}
            D == {r \in Pending(e) : hit[r].age >= c}
<1>1. IsFiniteSet(A) /\ IsFiniteSet(B) /\ IsFiniteSet(C) /\ IsFiniteSet(D)
  BY Numbers
<1>2. passed[e] = A \cup B
  BY DEF LimiterTypeOK, PassedOK
<1>3. Cardinality(passed[e]) = Cardinality(A) + Cardinality(B) - Cardinality(A \cap B)
  BY <1>1, <1>2, FS_Union
<1>4. /\ Cardinality(A) \in Nat /\ Cardinality(B) \in Nat /\ Cardinality(A \cap B) \in Nat
      /\ Cardinality(C) \in Nat /\ Cardinality(D) \in Nat
  <2>1. IsFiniteSet(A \cap B)
    BY <1>1, FS_Subset
  <2> QED
    BY <1>1, <2>1, FS_CardinalityType
<1>5. Since(e, c) = Cardinality(A) + Cardinality(C) /\ Before(e, c) = Cardinality(B) + Cardinality(D)
  BY DEF Since, Before
<1> HIDE DEF A, B, C, D
<1> QED
  BY <1>3, <1>4, <1>5

-----------------------------------------------------------------------------
\* Steps that count and let pass nothing, but may end requests.
OnlyFewer ==
    /\ passed' = passed
    /\ \A r \in Request : hit'[r].pc \in {"expire", "ttl"} =>
         /\ hit[r].pc \in {"expire", "ttl"} /\ hit'[r].endpoint = hit[r].endpoint
         /\ hit'[r].count = hit[r].count /\ hit'[r].age = hit[r].age

LEMMA FewerCounted ==
    ASSUME LimiterTypeOK, OnlyFewer, NEW e \in Endpoint, NEW c \in Nat
    PROVE  Since(e, c)' <= Since(e, c) /\ Before(e, c)' <= Before(e, c)
           /\ Since(e, c)' \in Nat /\ Before(e, c)' \in Nat
<1>1. \A r \in Pending(e)' : r \in Pending(e) /\ hit'[r].age = hit[r].age
  BY DEF OnlyFewer, Pending
<1>2. /\ {r \in Pending(e)' : hit'[r].age < c} \subseteq {r \in Pending(e) : hit[r].age < c}
      /\ {r \in Pending(e)' : hit'[r].age >= c} \subseteq {r \in Pending(e) : hit[r].age >= c}
  BY <1>1
<1>3. passed'[e] = passed[e]
  BY DEF OnlyFewer
<1> QED
  BY <1>2, <1>3, Numbers, SmallerSum DEF Since, Before

CounterKept ==
    \A k \in CounterKey : counter'[k].count = counter[k].count
                       /\ (counter'[k].left = counter[k].left \/ counter'[k].left = Window)

LEMMA FewerKeep ==
    ASSUME LimiterTypeOK, TwoCounts, OnlyFewer, CounterKept, required' = required
    PROVE  TwoCounts'
<1> SUFFICES ASSUME required, NEW k \in CounterKey
              PROVE  \E c \in Nat \ {0} : CountsSince(k, c)'
  BY DEF TwoCounts
<1>1. PICK c \in Nat \ {0} : CountsSince(k, c)
  BY DEF TwoCounts
<1>2. counter'[k].left # Never => counter'[k].left + c > Window
  BY <1>1, LimiterAssumption DEF CounterKept, CountsSince
<1>3. ASSUME NEW e \in Endpoint, BuildKey(e) = k
      PROVE  Since(e, c)' <= counter'[k].count /\ Since(e, c)' <= Limit[e] /\ Before(e, c)' <= Limit[e]
  <2>1. Since(e, c) <= counter[k].count /\ Since(e, c) <= Limit[e] /\ Before(e, c) <= Limit[e]
    BY <1>1, <1>3 DEF CountsSince
  <2>2. /\ Since(e, c) \in Nat /\ Before(e, c) \in Nat /\ Limit[e] \in Nat
        /\ Since(e, c)' \in Nat /\ Before(e, c)' \in Nat
        /\ Since(e, c)' <= Since(e, c) /\ Before(e, c)' <= Before(e, c)
    BY Numbers, FewerCounted
  <2>3. counter'[k].count = counter[k].count /\ counter[k].count \in Nat
    BY DEF CounterKept, LimiterTypeOK, CounterOK
  <2> QED
    BY <2>1, <2>2, <2>3
<1>4. CountsSince(k, c)'
  BY <1>2, <1>3 DEF CountsSince
<1> QED
  BY <1>4

\* What a request is after a step that changes only it.
LEMMA OneHit ==
    ASSUME LimiterTypeOK, NEW r \in Request, NEW h, hit' = [hit EXCEPT ![r] = h], HitOK(h)
    PROVE  /\ DOMAIN hit' = Request /\ \A q \in Request : HitOK(hit'[q])
           /\ hit'[r] = h /\ \A q \in Request : q # r => hit'[q] = hit[q]
BY DEF LimiterTypeOK

LEMMA IdleIsSound == HitOK(NoHit) /\ NoHit.pc = "idle"
BY DEF HitOK, NoHit

LEMMA ArriveStep ==
    ASSUME LimiterInv, NEW r \in Request, NEW e \in Endpoint, NEW p, Arrive(r, e, p)
    PROVE  LimiterInv'
<1> DEFINE h == [pc |-> "incr", endpoint |-> e, process |-> p]
<1>1. HitOK(h) /\ h.pc = "incr"
  BY DEF HitOK
<1>2. hit' = [hit EXCEPT ![r] = h] /\ UNCHANGED <<required, counter, passed>>
  BY DEF Arrive
<1> HIDE DEF h
<1>3. LimiterTypeOK'
  BY <1>1, <1>2, OneHit DEF LimiterInv, LimiterTypeOK
<1>4. OnlyFewer /\ CounterKept
  BY <1>1, <1>2, OneHit DEF LimiterInv, OnlyFewer, CounterKept
<1> QED
  BY <1>2, <1>3, <1>4, FewerKeep DEF LimiterInv

LEMMA SetExpiryStep ==
    ASSUME LimiterInv, NEW r \in Request, SetExpiry(r)
    PROVE  LimiterInv'
<1> DEFINE h == [hit[r] EXCEPT !.pc = "ttl"]
            k0 == BuildKey(hit[r].endpoint)
<1>1. hit[r].pc = "expire" /\ hit' = [hit EXCEPT ![r] = h] /\ UNCHANGED <<required, passed>>
      /\ counter' = IF counter[k0] = Gone THEN counter ELSE [counter EXCEPT ![k0].left = Window]
  BY DEF SetExpiry
<1>2. HitOK(hit[r]) /\ hit[r] # NoHit
  BY <1>1, IdleIsSound DEF LimiterInv, LimiterTypeOK
<1>3. HitOK(h) /\ h.pc = "ttl" /\ h.endpoint = hit[r].endpoint /\ h.count = hit[r].count /\ h.age = hit[r].age
  BY <1>1, <1>2 DEF HitOK
<1>4. DOMAIN counter' = CounterKey /\ (\A k \in CounterKey : CounterOK(counter'[k])) /\ CounterKept
  BY <1>1, LimiterAssumption DEF LimiterInv, LimiterTypeOK, CounterOK, CounterKept
<1> HIDE DEF h, k0
<1>5. LimiterTypeOK'
  BY <1>1, <1>3, <1>4, OneHit DEF LimiterInv, LimiterTypeOK
<1>6. OnlyFewer
  BY <1>1, <1>3, OneHit DEF LimiterInv, OnlyFewer
<1> QED
  BY <1>1, <1>4, <1>5, <1>6, FewerKeep DEF LimiterInv

LEMMA UnavailableStep ==
    ASSUME LimiterInv, NEW r \in Request, Unavailable(r)
    PROVE  LimiterInv'
<1>1. hit' = [hit EXCEPT ![r] = NoHit] /\ UNCHANGED <<required, counter, passed>>
  BY DEF Unavailable
<1>2. LimiterTypeOK'
  BY <1>1, IdleIsSound, OneHit DEF LimiterInv, LimiterTypeOK
<1>3. OnlyFewer /\ CounterKept
  BY <1>1, IdleIsSound, OneHit DEF LimiterInv, OnlyFewer, CounterKept
<1> QED
  BY <1>1, <1>2, <1>3, FewerKeep DEF LimiterInv

LEMMA DieStep ==
    ASSUME LimiterInv, NEW p \in Process, Die(p)
    PROVE  LimiterInv'
<1> DEFINE dead == {r \in Request : hit[r] # NoHit /\ hit[r].process = p}
<1>1. hit' = [r \in Request |-> IF r \in dead THEN NoHit ELSE hit[r]]
      /\ UNCHANGED <<required, counter, passed>>
  BY DEF Die
<1> HIDE DEF dead
<1>2. LimiterTypeOK'
  BY <1>1, IdleIsSound DEF LimiterInv, LimiterTypeOK
<1>3. OnlyFewer /\ CounterKept
  BY <1>1, IdleIsSound DEF LimiterInv, OnlyFewer, CounterKept
<1> QED
  BY <1>1, <1>2, <1>3, FewerKeep DEF LimiterInv

\* In memory nothing is counted that has to do with Redis.
LEMMA MemoryStep ==
    ASSUME LimiterInv, NEW r \in Request, IncrementMemory(r)
    PROVE  LimiterInv'
<1>1. ~required /\ hit' = [hit EXCEPT ![r] = NoHit] /\ UNCHANGED <<required, counter, passed>>
  BY DEF IncrementMemory, Answer
<1>2. LimiterTypeOK'
  BY <1>1, IdleIsSound, OneHit DEF LimiterInv, LimiterTypeOK
<1> QED
  BY <1>1, <1>2 DEF LimiterInv, TwoCounts

LEMMA QuietStep ==
    ASSUME LimiterInv, UNCHANGED <<required, counter, hit, passed>>
    PROVE  LimiterInv'
<1>1. LimiterTypeOK' /\ OnlyFewer /\ CounterKept
  BY DEF LimiterInv, LimiterTypeOK, OnlyFewer, CounterKept
<1> QED
  BY <1>1, FewerKeep DEF LimiterInv

\* A request is counted: one more since the counter began, and one more in the
\* counter, or the request will not pass.
LEMMA IncrStep ==
    ASSUME LimiterInv, NEW r \in Request, Incr(r)
    PROVE  LimiterInv'
<1> DEFINE e0 == hit[r].endpoint
            k0 == BuildKey(e0)
            count == Counted(counter[k0].count)
            h == [pc |-> IF count = 1 THEN "expire" ELSE "ttl",
                  endpoint |-> e0, process |-> hit[r].process, count |-> count, age |-> 0]
<1>1. hit[r].pc = "incr" /\ hit' = [hit EXCEPT ![r] = h] /\ UNCHANGED <<required, passed>>
      /\ counter' = [counter EXCEPT ![k0].count = count]
  BY DEF Incr
<1>2. e0 \in Endpoint /\ k0 \in CounterKey
  BY <1>1, IdleIsSound DEF LimiterInv, LimiterTypeOK, HitOK, CounterKey
<1>3. counter[k0].count \in Nat
  BY <1>2 DEF LimiterInv, LimiterTypeOK, CounterOK
<1>4. count \in Nat /\ counter[k0].count <= count
      /\ \A e \in Endpoint : count <= Limit[e] => count = counter[k0].count + 1
  BY <1>3, LimiterAssumption DEF Counted
<1> HIDE DEF count
<1>5. HitOK(h) /\ h.pc \in {"expire", "ttl"} /\ h.endpoint = e0 /\ h.count = count /\ h.age = 0
  BY <1>2, <1>4 DEF HitOK
<1>6. /\ DOMAIN counter' = CounterKey /\ \A k \in CounterKey : CounterOK(counter'[k])
      /\ \A k \in CounterKey : counter'[k].left = counter[k].left
      /\ counter'[k0].count = count
      /\ \A k \in CounterKey : k # k0 => counter'[k].count = counter[k].count
  BY <1>1, <1>2, <1>4 DEF LimiterInv, LimiterTypeOK, CounterOK
<1> HIDE DEF h
<1>7. hit'[r] = h /\ \A q \in Request : q # r => hit'[q] = hit[q]
  BY <1>1, <1>5, OneHit DEF LimiterInv
<1>8. LimiterTypeOK'
  BY <1>1, <1>5, <1>6, OneHit DEF LimiterInv, LimiterTypeOK
<1>9. SUFFICES ASSUME required, NEW k \in CounterKey
               PROVE  \E c \in Nat \ {0} : CountsSince(k, c)'
  BY <1>1, <1>8 DEF LimiterInv, TwoCounts
<1>10. PICK c \in Nat \ {0} : CountsSince(k, c)
  BY <1>1, <1>9 DEF LimiterInv, TwoCounts
<1>11. ASSUME NEW e \in Endpoint, BuildKey(e) = k
       PROVE  Since(e, c)' <= counter'[k].count /\ Since(e, c)' <= Limit[e] /\ Before(e, c)' <= Limit[e]
  <2> DEFINE A == {x \in passed[e] : x[1] < c}
              B == {x \in passed[e] : x[1] >= c}
              C == {q \in Pending(e) : hit[q].age < c}
              D == {q \in Pending(e) : hit[q].age >= c}
              C2 == {q \in Pending(e)' : hit'[q].age < c}
              D2 == {q \in Pending(e)' : hit'[q].age >= c}
  <2>1. Since(e, c) = Cardinality(A) + Cardinality(C) /\ Before(e, c) = Cardinality(B) + Cardinality(D)
    BY DEF Since, Before
  <2>2. Since(e, c)' = Cardinality(A) + Cardinality(C2) /\ Before(e, c)' = Cardinality(B) + Cardinality(D2)
    BY <1>1 DEF Since, Before
  <2>3. IsFiniteSet(A) /\ IsFiniteSet(B) /\ IsFiniteSet(C) /\ IsFiniteSet(D) /\ Limit[e] \in Nat
    BY Numbers DEF LimiterInv
  <2>4. \A q \in Pending(e)' : q # r => q \in Pending(e) /\ hit'[q] = hit[q]
    BY <1>7 DEF Pending
  <2>5. D2 \subseteq D
    BY <1>5, <1>7, <2>4
  <2>6. C2 \subseteq C \cup {r}
    BY <1>7, <2>4
  <2>7. r \in C2 => e = e0 /\ count <= Limit[e]
    BY <1>5, <1>7 DEF Pending
  <2>8. r \notin C2 => C2 \subseteq C
    BY <2>6
  <2>9. Since(e, c) <= counter[k].count /\ Since(e, c) <= Limit[e] /\ Before(e, c) <= Limit[e]
    BY <1>10, <1>11 DEF CountsSince
  <2> HIDE DEF A, B, C, D, C2, D2
  <2>10. Before(e, c)' <= Limit[e]
    <3>1. Cardinality(B) + Cardinality(D2) <= Cardinality(B) + Cardinality(D)
          /\ Cardinality(B) + Cardinality(D2) \in Nat
      BY <2>3, <2>5, SmallerSum
    <3>2. Cardinality(B) + Cardinality(D) \in Nat
      BY <2>3, FS_CardinalityType
    <3> QED
      BY <2>1, <2>2, <2>3, <2>9, <3>1, <3>2
  <2>11. counter[k].count \in Nat /\ counter'[k].count \in Nat /\ counter[k].count <= counter'[k].count
    BY <1>4, <1>6 DEF LimiterInv, LimiterTypeOK, CounterOK
  <2>12. CASE r \in C2
    <3>1. k = k0 /\ count = counter[k].count + 1 /\ count <= Limit[e] /\ counter'[k].count = count
      BY <1>4, <1>6, <1>11, <2>7, <2>12
    <3>2. Cardinality(C2) <= Cardinality(C) + 1 /\ Cardinality(C2) \in Nat /\ Cardinality(C) \in Nat
      BY <2>3, <2>6, OneElementMore
    <3>3. Cardinality(A) \in Nat
      BY <2>3, FS_CardinalityType
    <3> QED
      BY <1>4, <2>1, <2>2, <2>3, <2>9, <2>10, <2>11, <3>1, <3>2, <3>3
  <2>13. CASE r \notin C2
    <3>1. Cardinality(A) + Cardinality(C2) <= Cardinality(A) + Cardinality(C)
          /\ Cardinality(A) + Cardinality(C2) \in Nat
      BY <2>3, <2>8, <2>13, SmallerSum
    <3>2. Cardinality(A) + Cardinality(C) \in Nat
      BY <2>3, FS_CardinalityType
    <3> QED
      BY <2>1, <2>2, <2>3, <2>9, <2>10, <2>11, <3>1, <3>2
  <2> QED
    BY <2>12, <2>13
<1>12. counter'[k].left # Never => counter'[k].left + c > Window
  BY <1>6, <1>10 DEF CountsSince
<1>13. CountsSince(k, c)'
  BY <1>11, <1>12 DEF CountsSince
<1> QED
  BY <1>13

\* A request that passes was counted before: it only changes its place.
LEMMA DecideStep ==
    ASSUME LimiterInv, NEW r \in Request, Decide(r)
    PROVE  LimiterInv'
<1> DEFINE e0 == hit[r].endpoint
            age == hit[r].age
            token == <<age, Cardinality({x \in passed[e0] : x[1] = age}) + 1>>
            passes == required /\ hit[r].count <= Limit[e0] /\ age < Window
<1>1. hit[r].pc = "ttl" /\ hit' = [hit EXCEPT ![r] = NoHit] /\ UNCHANGED <<required, counter>>
  BY DEF Decide, Answer
<1>2. e0 \in Endpoint /\ age \in Nat /\ hit[r].count \in Nat /\ Limit[e0] \in Nat
  BY <1>1, IdleIsSound, LimiterAssumption DEF LimiterInv, LimiterTypeOK, HitOK
<1>3. passed' = IF ~required \/ hit[r].count > Limit[e0] \/ age >= Window THEN passed
                ELSE [passed EXCEPT ![e0] = passed[e0] \cup {token}]
  BY DEF Decide, Answer, OneMore
<1>4. hit'[r] = NoHit /\ \A q \in Request : q # r => hit'[q] = hit[q]
  BY <1>1, IdleIsSound, OneHit DEF LimiterInv
<1>5. CASE ~passes
  <2>1. passed' = passed
    BY <1>2, <1>3, <1>5, LimiterAssumption DEF LimiterInv, LimiterTypeOK
  <2>2. LimiterTypeOK'
    BY <1>1, <2>1, IdleIsSound, OneHit DEF LimiterInv, LimiterTypeOK
  <2>3. OnlyFewer /\ CounterKept
    BY <1>1, <1>4, <2>1, IdleIsSound DEF OnlyFewer, CounterKept
  <2> QED
    BY <1>1, <2>2, <2>3, FewerKeep DEF LimiterInv
<1>6. CASE passes
  <2>1. passed' = [passed EXCEPT ![e0] = passed[e0] \cup {token}]
    BY <1>2, <1>3, <1>6, LimiterAssumption
  <2>2. PassedOK(passed[e0] \cup {token})
    <3>1. PassedOK(passed[e0])
      BY <1>2 DEF LimiterInv, LimiterTypeOK
    <3>2. {x \in passed[e0] : x[1] = age} \in SUBSET passed[e0]
      OBVIOUS
    <3>3. Cardinality({x \in passed[e0] : x[1] = age}) \in Nat
      BY <3>1, <3>2, FS_Subset, FS_CardinalityType DEF PassedOK
    <3>4. token \in (0 .. Window - 1) \X Nat
      BY <1>2, <1>6, <3>3, LimiterAssumption
    <3> HIDE DEF token
    <3> QED
      BY <3>1, <3>4, FS_AddElement DEF PassedOK
  <2>3. LimiterTypeOK'
    BY <1>1, <1>2, <2>1, <2>2, IdleIsSound, OneHit DEF LimiterInv, LimiterTypeOK
  <2>4. SUFFICES ASSUME required, NEW k \in CounterKey
                 PROVE  \E c \in Nat \ {0} : CountsSince(k, c)'
    BY <1>1, <2>3 DEF LimiterInv, TwoCounts
  <2>5. PICK c \in Nat \ {0} : CountsSince(k, c)
    BY <1>1, <2>4 DEF LimiterInv, TwoCounts
  <2>6. ASSUME NEW e \in Endpoint, BuildKey(e) = k
        PROVE  /\ Since(e, c)' <= Since(e, c) /\ Before(e, c)' <= Before(e, c)
               /\ Since(e, c)' \in Nat /\ Before(e, c)' \in Nat
    <3> DEFINE A == {x \in passed[e] : x[1] < c}
                B == {x \in passed[e] : x[1] >= c}
                C == {q \in Pending(e) : hit[q].age < c}
                D == {q \in Pending(e) : hit[q].age >= c}
                A2 == {x \in passed'[e] : x[1] < c}
                B2 == {x \in passed'[e] : x[1] >= c}
                C2 == {q \in Pending(e)' : hit'[q].age < c}
                D2 == {q \in Pending(e)' : hit'[q].age >= c}
    <3>1. /\ Since(e, c) = Cardinality(A) + Cardinality(C) /\ Before(e, c) = Cardinality(B) + Cardinality(D)
          /\ Since(e, c)' = Cardinality(A2) + Cardinality(C2) /\ Before(e, c)' = Cardinality(B2) + Cardinality(D2)
      BY DEF Since, Before
    <3>2. IsFiniteSet(A) /\ IsFiniteSet(B) /\ IsFiniteSet(C) /\ IsFiniteSet(D)
      BY Numbers DEF LimiterInv
    <3>3. \A q \in Pending(e)' : q # r /\ q \in Pending(e) /\ hit'[q] = hit[q]
      BY <1>4, IdleIsSound DEF Pending
    <3>4. C2 \subseteq C \ {r} /\ D2 \subseteq D \ {r}
      BY <3>3
    <3>5. CASE e # e0
      <4>1. A2 = A /\ B2 = B
        BY <2>1, <3>5
      <4>2. C2 \subseteq C /\ D2 \subseteq D
        BY <3>4
      <4> HIDE DEF A, B, C, D, A2, B2, C2, D2
      <4> QED
        BY <3>1, <3>2, <4>1, <4>2, SmallerSum
    <3>6. CASE e = e0
      <4>1. passed'[e] = passed[e] \cup {token} /\ token[1] = age
        BY <1>2, <2>1, <3>6 DEF LimiterInv, LimiterTypeOK
      <4>2. r \in Pending(e)
        BY <1>1, <1>6, <3>6 DEF Pending
      <4> HIDE DEF token
      <4>3. CASE age < c
        <5>1. A2 \subseteq A \cup {token} /\ B2 \subseteq B /\ r \in C /\ D2 \subseteq D
          BY <1>2, <3>4, <4>1, <4>2, <4>3
        <5> HIDE DEF A, B, C, D, A2, B2, C2, D2
        <5>2. Cardinality(A2) <= Cardinality(A) + 1 /\ Cardinality(A2) \in Nat /\ Cardinality(A) \in Nat
          BY <3>2, <5>1, OneElementMore
        <5>3. Cardinality(C2) + 1 <= Cardinality(C) /\ Cardinality(C2) \in Nat /\ Cardinality(C) \in Nat
          BY <3>2, <3>4, <5>1, OneElementLess
        <5>4. Cardinality(B2) + Cardinality(D2) <= Cardinality(B) + Cardinality(D)
              /\ Cardinality(B2) + Cardinality(D2) \in Nat
          BY <3>2, <5>1, SmallerSum
        <5> QED
          BY <3>1, <5>2, <5>3, <5>4
      <4>4. CASE ~(age < c)
        <5>1. B2 \subseteq B \cup {token} /\ A2 \subseteq A /\ r \in D /\ C2 \subseteq C
          BY <1>2, <3>4, <4>1, <4>2, <4>4
        <5> HIDE DEF A, B, C, D, A2, B2, C2, D2
        <5>2. Cardinality(B2) <= Cardinality(B) + 1 /\ Cardinality(B2) \in Nat /\ Cardinality(B) \in Nat
          BY <3>2, <5>1, OneElementMore
        <5>3. Cardinality(D2) + 1 <= Cardinality(D) /\ Cardinality(D2) \in Nat /\ Cardinality(D) \in Nat
          BY <3>2, <3>4, <5>1, OneElementLess
        <5>4. Cardinality(A2) + Cardinality(C2) <= Cardinality(A) + Cardinality(C)
              /\ Cardinality(A2) + Cardinality(C2) \in Nat
          BY <3>2, <5>1, SmallerSum
        <5> QED
          BY <3>1, <5>2, <5>3, <5>4
      <4> QED
        BY <4>3, <4>4
    <3> QED
      BY <3>5, <3>6
  <2>7. ASSUME NEW e \in Endpoint, BuildKey(e) = k
        PROVE  Since(e, c)' <= counter'[k].count /\ Since(e, c)' <= Limit[e] /\ Before(e, c)' <= Limit[e]
    <3>1. Since(e, c) <= counter[k].count /\ Since(e, c) <= Limit[e] /\ Before(e, c) <= Limit[e]
      BY <2>5, <2>7 DEF CountsSince
    <3>2. Since(e, c) \in Nat /\ Before(e, c) \in Nat /\ Limit[e] \in Nat
      BY Numbers DEF LimiterInv
    <3>3. counter'[k] = counter[k] /\ counter[k].count \in Nat
      BY <1>1 DEF LimiterInv, LimiterTypeOK, CounterOK
    <3> QED
      BY <2>6, <2>7, <3>1, <3>2, <3>3
  <2>8. CountsSince(k, c)'
    BY <1>1, <2>5, <2>7 DEF CountsSince
  <2> QED
    BY <2>8
<1> QED
  BY <1>5, <1>6

-----------------------------------------------------------------------------
\* Time passes: what was counted moves on, and a counter that expires leaves
\* nothing in the window from before it began.
Shifted(s) == {<<x[1] + 1, x[2]>> : x \in s}

LEMMA TickType ==
    ASSUME LimiterInv, Tick
    PROVE  /\ LimiterTypeOK'
           /\ \A r \in Request : hit'[r].pc \in {"expire", "ttl"} =>
                /\ hit[r].pc \in {"expire", "ttl"} /\ hit'[r].endpoint = hit[r].endpoint
                /\ hit'[r].count = hit[r].count /\ hit[r].age \in Nat
                /\ hit'[r].age = IF hit[r].age < Window THEN hit[r].age + 1 ELSE hit[r].age
           /\ \A e \in Endpoint : passed'[e] = Aged(passed[e])
           /\ \A k \in CounterKey : counter'[k] = Older(counter[k])
<1>1. /\ counter' = [k \in CounterKey |-> Older(counter[k])]
      /\ hit' = [r \in Request |-> IF hit[r].pc \notin {"expire", "ttl"} THEN hit[r]
                                   ELSE [hit[r] EXCEPT !.age = IF @ < Window THEN @ + 1 ELSE @]]
      /\ passed' = [e \in Endpoint |-> Aged(passed[e])]
      /\ required' = required
  BY DEF Tick
<1>2. Window \in Nat \ {0}
  BY LimiterAssumption
<1>3. \A k \in CounterKey : CounterOK(Older(counter[k]))
  <2>1. CounterOK(Gone)
    BY DEF CounterOK, Gone
  <2>2. ASSUME NEW c, CounterOK(c) PROVE CounterOK(Older(c))
    BY <2>1, <2>2 DEF CounterOK, Older
  <2> QED
    BY <2>2 DEF LimiterInv, LimiterTypeOK
<1>4. ASSUME NEW h, HitOK(h), h.pc \in {"expire", "ttl"}
      PROVE  LET a == IF h.age < Window THEN h.age + 1 ELSE h.age
                 g == [h EXCEPT !.age = a]
             IN  /\ HitOK(g) /\ g.pc = h.pc /\ g.endpoint = h.endpoint /\ g.count = h.count /\ g.age = a
                 /\ h.age \in Nat
  <2> DEFINE a == IF h.age < Window THEN h.age + 1 ELSE h.age
  <2>1. DOMAIN h = {"pc", "endpoint", "process", "count", "age"}
        /\ h.endpoint \in Endpoint /\ h.count \in Nat /\ h.age \in Nat
    BY <1>4, IdleIsSound DEF HitOK
  <2>2. a \in Nat
    BY <1>2, <2>1
  <2> HIDE DEF a
  <2>3. LET g == [h EXCEPT !.age = a]
        IN  HitOK(g) /\ g.pc = h.pc /\ g.endpoint = h.endpoint /\ g.count = h.count /\ g.age = a
    BY <1>4, <2>1, <2>2 DEF HitOK
  <2> QED
    BY <2>1, <2>3 DEF a
<1>5. \A r \in Request : HitOK(hit'[r]) /\
        (hit'[r].pc \in {"expire", "ttl"} =>
            /\ hit[r].pc \in {"expire", "ttl"} /\ hit'[r].endpoint = hit[r].endpoint
            /\ hit'[r].count = hit[r].count /\ hit[r].age \in Nat
            /\ hit'[r].age = IF hit[r].age < Window THEN hit[r].age + 1 ELSE hit[r].age)
  <2>1. SUFFICES ASSUME NEW r \in Request
                 PROVE  HitOK(hit'[r]) /\
                        (hit'[r].pc \in {"expire", "ttl"} =>
                            /\ hit[r].pc \in {"expire", "ttl"} /\ hit'[r].endpoint = hit[r].endpoint
                            /\ hit'[r].count = hit[r].count /\ hit[r].age \in Nat
                            /\ hit'[r].age = IF hit[r].age < Window THEN hit[r].age + 1 ELSE hit[r].age)
    OBVIOUS
  <2>2. HitOK(hit[r])
    BY DEF LimiterInv, LimiterTypeOK
  <2>3. CASE hit[r].pc \notin {"expire", "ttl"}
    BY <1>1, <2>2, <2>3
  <2>4. CASE hit[r].pc \in {"expire", "ttl"}
    <3>1. hit'[r] = [hit[r] EXCEPT !.age = IF hit[r].age < Window THEN hit[r].age + 1 ELSE hit[r].age]
      BY <1>1, <2>4
    <3> QED
      BY <1>4, <2>2, <2>4, <3>1
  <2> QED
    BY <2>3, <2>4
<1>6. \A e \in Endpoint : PassedOK(Aged(passed[e]))
  <2>1. ASSUME NEW s, PassedOK(s) PROVE PassedOK(Aged(s))
    <3>1. {y \in s : y[1] + 1 < Window} \in SUBSET s /\ IsFiniteSet(s) /\ s \subseteq (0 .. Window - 1) \X Nat
      BY <2>1 DEF PassedOK
    <3>2. IsFiniteSet({y \in s : y[1] + 1 < Window})
      BY <3>1, FS_Subset
    <3>3. IsFiniteSet(Aged(s))
      BY <3>2, MovedOn DEF Aged
    <3>4. Aged(s) \subseteq (0 .. Window - 1) \X Nat
      BY <1>2, <3>1 DEF Aged
    <3> QED
      BY <3>3, <3>4 DEF PassedOK
  <2> QED
    BY <2>1 DEF LimiterInv, LimiterTypeOK
<1>7. LimiterTypeOK'
  BY <1>1, <1>3, <1>5, <1>6 DEF LimiterInv, LimiterTypeOK
<1> QED
  BY <1>1, <1>5, <1>7

LEMMA TickStep ==
    ASSUME LimiterInv, Tick
    PROVE  LimiterInv'
<1> USE DEF Shifted
<1>1. required' = required /\ Window \in Nat \ {0}
  BY LimiterAssumption DEF Tick
<1>2. SUFFICES ASSUME required, NEW k \in CounterKey
               PROVE  \E c \in Nat \ {0} : CountsSince(k, c)'
  BY <1>1, TickType DEF LimiterInv, TwoCounts
<1>3. PICK c \in Nat \ {0} : CountsSince(k, c)
  BY <1>1, <1>2 DEF LimiterInv, TwoCounts
<1>4. CounterOK(counter[k]) /\ counter'[k] = Older(counter[k])
  BY TickType DEF LimiterInv, LimiterTypeOK
\* The sets of an endpoint before and after.
<1>5. ASSUME NEW e \in Endpoint
      PROVE  /\ passed'[e] = Aged(passed[e]) /\ passed[e] \subseteq (0 .. Window - 1) \X Nat
             /\ \A q \in Pending(e)' : q \in Pending(e) /\ hit[q].age \in Nat /\ hit'[q].age = hit[q].age + 1
  BY <1>1, TickType DEF Pending, LimiterInv, LimiterTypeOK, PassedOK
<1>6. ASSUME NEW S, IsFiniteSet(S), NEW T, T \subseteq Shifted(S)
      PROVE  IsFiniteSet(T) /\ Cardinality(T) <= Cardinality(S)
             /\ Cardinality(T) \in Nat /\ Cardinality(S) \in Nat
  <2>1. IsFiniteSet(Shifted(S)) /\ Cardinality(Shifted(S)) <= Cardinality(S)
    BY <1>6, MovedOn
  <2>2. IsFiniteSet(T) /\ Cardinality(T) <= Cardinality(Shifted(S))
    BY <1>6, <2>1, FS_Subset
  <2>3. Cardinality(T) \in Nat /\ Cardinality(S) \in Nat /\ Cardinality(Shifted(S)) \in Nat
    BY <1>6, <2>1, <2>2, FS_CardinalityType
  <2> QED
    BY <2>1, <2>2, <2>3
<1>7. CASE counter[k].left # 1
  <2>1. counter'[k].count = counter[k].count
        /\ (counter'[k].left # Never => counter'[k].left + (c + 1) > Window)
    <3>1. counter[k].left # Never => counter[k].left \in Nat /\ counter[k].left + c > Window
      BY <1>3, <1>4 DEF CounterOK, CountsSince
    <3> QED
      BY <1>1, <1>4, <1>7, <3>1 DEF Older, CounterOK
  <2>2. ASSUME NEW e \in Endpoint, BuildKey(e) = k
        PROVE  /\ Since(e, c + 1)' <= counter'[k].count /\ Since(e, c + 1)' <= Limit[e]
               /\ Before(e, c + 1)' <= Limit[e]
    <3> DEFINE A == {x \in passed[e] : x[1] < c}
                B == {x \in passed[e] : x[1] >= c}
                C == {q \in Pending(e) : hit[q].age < c}
                D == {q \in Pending(e) : hit[q].age >= c}
                A2 == {x \in passed'[e] : x[1] < c + 1}
                B2 == {x \in passed'[e] : x[1] >= c + 1}
                C2 == {q \in Pending(e)' : hit'[q].age < c + 1}
                D2 == {q \in Pending(e)' : hit'[q].age >= c + 1}
    <3>1. /\ Since(e, c) = Cardinality(A) + Cardinality(C) /\ Before(e, c) = Cardinality(B) + Cardinality(D)
          /\ Since(e, c + 1)' = Cardinality(A2) + Cardinality(C2)
          /\ Before(e, c + 1)' = Cardinality(B2) + Cardinality(D2)
      BY DEF Since, Before
    <3>2. IsFiniteSet(A) /\ IsFiniteSet(B) /\ IsFiniteSet(C) /\ IsFiniteSet(D) /\ Limit[e] \in Nat
      BY Numbers DEF LimiterInv
    <3>3. C2 \subseteq C /\ D2 \subseteq D
      BY <1>5
    <3>4. \A y \in passed'[e] : \E x \in passed[e] : y = <<x[1] + 1, x[2]>> /\ y[1] = x[1] + 1 /\ x[1] \in Nat
      BY <1>1, <1>5 DEF Aged
    <3>5. A2 \subseteq Shifted(A) /\ B2 \subseteq Shifted(B)
      BY <3>4
    <3>6. Since(e, c) <= counter[k].count /\ Since(e, c) <= Limit[e] /\ Before(e, c) <= Limit[e]
      BY <1>3, <2>2 DEF CountsSince
    <3>7. counter[k].count \in Nat
      BY <1>4 DEF CounterOK
    <3> HIDE DEF A, B, C, D, A2, B2, C2, D2, Shifted
    <3>8. /\ Cardinality(A2) <= Cardinality(A) /\ Cardinality(A2) \in Nat /\ Cardinality(A) \in Nat
          /\ Cardinality(B2) <= Cardinality(B) /\ Cardinality(B2) \in Nat /\ Cardinality(B) \in Nat
      BY <1>6, <3>2, <3>5
    <3>9. /\ Cardinality(C2) <= Cardinality(C) /\ Cardinality(C2) \in Nat /\ Cardinality(C) \in Nat
          /\ Cardinality(D2) <= Cardinality(D) /\ Cardinality(D2) \in Nat /\ Cardinality(D) \in Nat
      BY <3>2, <3>3, FS_Subset, FS_CardinalityType
    <3> QED
      BY <2>1, <3>1, <3>2, <3>6, <3>7, <3>8, <3>9
  <2>3. CountsSince(k, c + 1)'
    BY <2>1, <2>2 DEF CountsSince
  <2> QED
    BY <2>3
<1>8. CASE counter[k].left = 1
  <2>1. counter'[k].count = 0 /\ counter'[k].left = Never /\ c >= Window
    BY <1>1, <1>3, <1>4, <1>8, LimiterAssumption DEF Older, Gone, CounterOK, CountsSince
  <2>2. ASSUME NEW e \in Endpoint, BuildKey(e) = k
        PROVE  Since(e, 1)' <= 0 /\ Since(e, 1)' <= Limit[e] /\ Before(e, 1)' <= Limit[e]
    <3> DEFINE A == {x \in passed[e] : x[1] < c}
                C == {q \in Pending(e) : hit[q].age < c}
                A2 == {x \in passed'[e] : x[1] < 1}
                B2 == {x \in passed'[e] : x[1] >= 1}
                C2 == {q \in Pending(e)' : hit'[q].age < 1}
                D2 == {q \in Pending(e)' : hit'[q].age >= 1}
    <3>1. /\ Since(e, c) = Cardinality(A) + Cardinality(C)
          /\ Since(e, 1)' = Cardinality(A2) + Cardinality(C2) /\ Before(e, 1)' = Cardinality(B2) + Cardinality(D2)
      BY DEF Since, Before
    <3>2. IsFiniteSet(A) /\ IsFiniteSet(C) /\ Limit[e] \in Nat
      BY Numbers DEF LimiterInv
    <3>3. \A y \in passed'[e] : \E x \in passed[e] :
            y = <<x[1] + 1, x[2]>> /\ y[1] = x[1] + 1 /\ x[1] \in Nat /\ x[1] < Window
      BY <1>1, <1>5 DEF Aged
    <3>4. A2 = {} /\ C2 = {}
      BY <1>5, <3>3
    <3>5. B2 \subseteq Shifted(A)
      BY <1>1, <2>1, <3>3
    <3>6. D2 \subseteq C
      <4>1. \A q \in Pending(e) : hit[q].age < Window
        BY DEF Pending
      <4> QED
        BY <1>1, <1>5, <2>1, <4>1
    <3>7. Since(e, c) <= Limit[e]
      BY <1>3, <2>2 DEF CountsSince
    <3> HIDE DEF A, C, A2, B2, C2, D2, Shifted
    <3>8. Cardinality(B2) <= Cardinality(A) /\ Cardinality(B2) \in Nat /\ Cardinality(A) \in Nat
      BY <1>6, <3>2, <3>5
    <3>9. Cardinality(D2) <= Cardinality(C) /\ Cardinality(D2) \in Nat /\ Cardinality(C) \in Nat
      BY <3>2, <3>6, FS_Subset, FS_CardinalityType
    <3>10. Cardinality(A2) = 0 /\ Cardinality(C2) = 0
      BY <3>4, FS_EmptySet
    <3> QED
      BY <3>1, <3>2, <3>7, <3>8, <3>9, <3>10
  <2>3. CountsSince(k, 1)'
    BY <2>1, <2>2 DEF CountsSince
  <2> QED
    BY <2>3
<1> QED
  BY <1>7, <1>8

LEMMA LimiterInitially == LimiterInit => LimiterInv
<1> SUFFICES ASSUME LimiterInit PROVE LimiterInv
  OBVIOUS
<1>1. LimiterTypeOK
  BY IdleIsSound, FS_EmptySet DEF LimiterInit, LimiterTypeOK, CounterOK, PassedOK, Gone
<1>2. ASSUME NEW k \in CounterKey PROVE CountsSince(k, 1)
  <2>1. counter[k].left = Never /\ counter[k].count = 0
    BY DEF LimiterInit, Gone
  <2>2. ASSUME NEW e \in Endpoint PROVE Since(e, 1) = 0 /\ Before(e, 1) = 0 /\ Limit[e] \in Nat
    <3>1. passed[e] = {} /\ Pending(e) = {}
      BY IdleIsSound DEF LimiterInit, Pending
    <3>2. /\ {x \in passed[e] : x[1] < 1} = {} /\ {x \in passed[e] : x[1] >= 1} = {}
          /\ {r \in Pending(e) : hit[r].age < 1} = {} /\ {r \in Pending(e) : hit[r].age >= 1} = {}
      BY <3>1
    <3>3. Cardinality({}) = 0
      BY FS_EmptySet
    <3>4. Since(e, 1) = Cardinality({}) + Cardinality({})
      BY <3>2, Zenon DEF Since
    <3>5. Before(e, 1) = Cardinality({}) + Cardinality({})
      BY <3>2, Zenon DEF Before
    <3>6. Limit[e] \in Nat
      BY LimiterAssumption
    <3> QED
      BY <3>3, <3>4, <3>5, <3>6
  <2> QED
    BY <2>1, <2>2 DEF CountsSince
<1> QED
  BY <1>1, <1>2 DEF LimiterInv, TwoCounts

LEMMA LimiterStep ==
    ASSUME LimiterInv, [LimiterNext]_limiterVars
    PROVE  LimiterInv'
<1>1. CASE \E r \in Request : Guard(r)
  BY <1>1, IncrStep, SetExpiryStep, DecideStep, UnavailableStep, MemoryStep DEF Guard
<1>2. CASE \E r \in Request, e \in Endpoint, p \in Process : Arrive(r, e, p)
  BY <1>2, ArriveStep
<1>3. CASE \E p \in Process : Die(p)
  BY <1>3, DieStep
<1>4. CASE Connection
  BY <1>4, QuietStep DEF Connection
<1>5. CASE Tick
  BY <1>5, TickStep
<1>6. CASE UNCHANGED limiterVars
  BY <1>6, QuietStep DEF limiterVars
<1> QED
  BY <1>1, <1>2, <1>3, <1>4, <1>5, <1>6 DEF LimiterNext

LEMMA TwoWindows == LimiterInv => BoundedPerWindow
<1> SUFFICES ASSUME LimiterInv, required, NEW e \in Endpoint
              PROVE  Cardinality(passed[e]) <= 2 * Limit[e]
  BY DEF BoundedPerWindow
<1>1. PICK c \in Nat \ {0} : CountsSince(BuildKey(e), c)
  BY DEF LimiterInv, TwoCounts, CounterKey
<1>2. Cardinality(passed[e]) <= Since(e, c) + Before(e, c)
  BY Split DEF LimiterInv
<1>3. Since(e, c) <= Limit[e] /\ Before(e, c) <= Limit[e]
  BY <1>1 DEF CountsSince
<1>4. Since(e, c) \in Nat /\ Before(e, c) \in Nat /\ Limit[e] \in Nat
  BY Numbers DEF LimiterInv
<1>5. Cardinality(passed[e]) \in Nat
  BY FS_CardinalityType DEF LimiterInv, LimiterTypeOK, PassedOK
<1> QED
  BY <1>2, <1>3, <1>4, <1>5

(***************************************************************************)
(* Where Redis is required, the requests that pass to an endpoint, among   *)
(* those counted in one window of time, are at most twice its limit, for   *)
(* any requests, processes, endpoints that share counters, limits and      *)
(* window, however requests interleave between INCR, PEXPIRE and PTTL.     *)
(***************************************************************************)
THEOREM WindowsAreBounded == LimiterSpec => []BoundedPerWindow
<1>1. LimiterInv /\ [LimiterNext]_limiterVars => LimiterInv'
  BY LimiterStep
<1> QED
  BY <1>1, LimiterInitially, TwoWindows, PTL DEF LimiterSpec
=============================================================================
