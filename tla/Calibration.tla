---------------------------- MODULE Calibration -----------------------------
(***************************************************************************)
(* Calibrations of the item parameters: the nightly job                    *)
(* (cron-calibration.service.ts) and the one started by hand               *)
(* (triggerCalibration, psicometria.controller.ts), which exclude each     *)
(* other with pg_try_advisory_lock(123456), and the dynamic norms that the *)
(* nightly job regenerates.                                                *)
(*                                                                         *)
(* An advisory lock belongs to a session of the database and counts: the   *)
(* session that holds it can take it again, and only that session gives it *)
(* back.  PrismaClient runs every statement on any connection of its pool, *)
(* so the statement that gives the lock back may run on another session    *)
(* than the one that took it, and set_config on another one than the block *)
(* that reads the setting.                                                 *)
(***************************************************************************)
EXTENDS ParameterCache

CONSTANTS
    Conn,           \* connections of the pool
    Job,            \* calibrations started by hand
    MaxRounds,      \* bound of the model on the calibrations of a tenant
    MaxHeld,        \* bound of the model on the times a session holds the lock
    NoConn, NoTenant

ASSUME CalibrationAssumption == IsFiniteSet(Job) /\ NoConn \notin Conn

VARIABLES
    held,       \* how many times each session holds the lock
    job,        \* state of each calibration started by hand
    nightConn,  \* history: the session on which the nightly job got the lock
    night,      \* what the nightly job does next, and for which organization
    todo,       \* organizations it still has to calibrate, the current included
    setting,    \* app.calibration_organization_id of each session
    norms,      \* the calibration after which an organization's norms were made
    lost        \* history: the session of a running calibration was closed

nightVars == <<nightConn, night, todo, norms>>
lockVars == <<held, setting, lost>>
vars == <<cacheVars, lockVars, job, nightVars>>

-----------------------------------------------------------------------------
IdleJob == [pc |-> "idle", conn |-> NoConn, tenant |-> NoTenant]

At(pc, t) == [pc |-> pc, tenant |-> t]

Init ==
    /\ CacheInit
    /\ held = [c \in Conn |-> 0]
    /\ setting = [c \in Conn |-> NoTenant]
    /\ lost = FALSE
    /\ job = [j \in Job |-> IdleJob]
    /\ nightConn = NoConn
    /\ night = At("idle", NoTenant)
    /\ todo = {}
    /\ norms = [t \in Tenant |-> 0]

\* pg_try_advisory_lock on the connection c.
Free(c) == \A d \in Conn \ {c} : held[d] = 0

\* Mutant: a shared lock.
TakeShared(c) ==
    /\ held[c] < MaxHeld
    /\ held' = [held EXCEPT ![c] = @ + 1]

Take(c) ==
    /\ Free(c)
    /\ held[c] < MaxHeld
    /\ held' = [held EXCEPT ![c] = @ + 1]

\* pg_advisory_unlock: a warning when the session does not hold the lock.
GiveBack(c) == held' = IF held[c] = 0 THEN held ELSE [held EXCEPT ![c] = @ - 1]

\* calibrate.py: one transaction for all the tests of the organization.
CommitParameters(t) ==
    /\ stored[t] < MaxRounds
    /\ stored' = [stored EXCEPT ![t] = @ + 1]

-----------------------------------------------------------------------------
\* triggerCalibration; when the lock is taken the request is answered 409.
StartJob(j, c, t) ==
    /\ job[j].pc = "idle"
    /\ Take(c)
    /\ job' = [job EXCEPT ![j] = [pc |-> "script", conn |-> c, tenant |-> t]]
    /\ UNCHANGED <<cacheVars, setting, lost, nightVars>>

CommitJob(j) ==
    /\ job[j].pc = "script"
    /\ CommitParameters(job[j].tenant)
    /\ job' = [job EXCEPT ![j].pc = "closing"]
    /\ UNCHANGED <<cache, reading, loading, lockVars, nightVars>>

\* The script ends without writing: too few answers, or an error.
FailJob(j) ==
    /\ job[j].pc = "script"
    /\ job' = [job EXCEPT ![j].pc = "closing"]
    /\ UNCHANGED <<cacheVars, lockVars, nightVars>>

\* The "close" handler: the lock is given back, then the cache reloaded.
CloseJob(j, c) ==
    /\ job[j].pc = "closing"
    /\ GiveBack(c)
    /\ StartLoad
    /\ job' = [job EXCEPT ![j] = IdleJob]
    /\ UNCHANGED <<stored, cache, reading, setting, lost, nightVars>>

-----------------------------------------------------------------------------
\* handleNocturnalCalibration; isRunning is night.pc # "idle".
StartNight(c) ==
    /\ night.pc = "idle"
    /\ Take(c)
    /\ nightConn' = c
    /\ night' = At("next", NoTenant)
    /\ todo' = Tenant
    /\ UNCHANGED <<cacheVars, setting, lost, job, norms>>

\* Less than 500 new attempts: the organization is passed over, unless it
\* has no parameters yet.
SkipTenant(t) ==
    /\ night.pc = "next"
    /\ t \in todo
    /\ stored[t] > 0
    /\ todo' = todo \ {t}
    /\ UNCHANGED <<cacheVars, lockVars, job, nightConn, night, norms>>

\* clearCache is called before the script runs and not awaited.
BeginTenant(t) ==
    /\ night.pc = "next"
    /\ t \in todo
    /\ night' = At("script", t)
    /\ StartLoad
    /\ UNCHANGED <<stored, cache, reading, lockVars, job, nightConn, todo, norms>>

CommitTenant ==
    /\ night.pc = "script"
    /\ CommitParameters(night.tenant)
    /\ night' = At("dif", night.tenant)
    /\ UNCHANGED <<cache, reading, loading, lockVars, job, nightConn, todo, norms>>

\* analyze_dif.py, then set_config(..., false): for the whole session.
Configure(c) ==
    /\ night.pc = "dif"
    /\ setting' = [setting EXCEPT ![c] = night.tenant]
    /\ night' = At("norms", night.tenant)
    /\ UNCHANGED <<cacheVars, held, lost, job, nightConn, todo, norms>>

\* The DO block regenerates the norms of the organization it reads from the
\* setting of its session.
Regenerate(c) ==
    /\ night.pc = "norms"
    /\ setting[c] # NoTenant
    /\ norms' = [norms EXCEPT ![setting[c]] = stored[setting[c]]]
    /\ todo' = todo \ {night.tenant}
    /\ night' = At("next", NoTenant)
    /\ UNCHANGED <<cacheVars, lockVars, job, nightConn>>

\* A script or a statement fails (on a session without the setting the block
\* always does): the organizations left are not calibrated.
AbortNight ==
    /\ night.pc \in {"script", "dif", "norms"}
    /\ night' = At("ending", NoTenant)
    /\ UNCHANGED <<cacheVars, lockVars, job, nightConn, todo, norms>>

EndNight(c) ==
    /\ night.pc = "ending" \/ (night.pc = "next" /\ todo = {})
    /\ GiveBack(c)
    /\ night' = At("idle", NoTenant)
    /\ todo' = {}
    /\ nightConn' = NoConn
    /\ UNCHANGED <<cacheVars, setting, lost, job, norms>>

\* The pool closes a connection that was idle for long: its lock and its
\* settings go with it.
CloseSession(c) ==
    /\ held[c] > 0 \/ setting[c] # NoTenant
    /\ held' = [held EXCEPT ![c] = 0]
    /\ setting' = [setting EXCEPT ![c] = NoTenant]
    /\ lost' = (lost \/ nightConn = c \/ \E j \in Job : job[j].conn = c)
    /\ UNCHANGED <<cacheVars, job, nightVars>>

-----------------------------------------------------------------------------
\* What has no part in the calibrations: the cache of the process.
Aside == UNCHANGED <<lockVars, job, nightVars>>

JobRuns(j) ==
    \/ \E c \in Conn : CloseJob(j, c) \/ \E t \in Tenant : StartJob(j, c, t)
    \/ CommitJob(j) \/ FailJob(j)

NightRuns ==
    \/ \E c \in Conn : StartNight(c) \/ EndNight(c) \/ Configure(c) \/ Regenerate(c)
    \/ \E t \in Tenant : SkipTenant(t) \/ BeginTenant(t)
    \/ CommitTenant \/ AbortNight

Next ==
    \/ CacheStep /\ Aside
    \/ NightRuns
    \/ \E j \in Job : JobRuns(j)
    \/ \E c \in Conn : CloseSession(c)

Spec == Init /\ [][Next]_vars

\* The cache is reloaded every 30 minutes and a query that is awaited ends;
\* the reloads do not fail for ever.
Refreshes ==
    /\ WF_vars(Cron /\ Aside)
    /\ SF_vars((\E rows \in loading : SwapMap(rows)) /\ Aside)
    /\ \A r \in Reader : WF_vars(Fill(r) /\ Aside)

FairSpec == Spec /\ Refreshes

-----------------------------------------------------------------------------
Running(c) == {j \in Job : job[j].conn = c}

Nights(c) == IF nightConn = c THEN 1 ELSE 0

TypeOK ==
    /\ stored \in [Tenant -> Nat]
    /\ held \in [Conn -> Nat]
    /\ job \in [Job -> [pc : {"idle", "script", "closing"},
                         conn : Conn \cup {NoConn}, tenant : Tenant \cup {NoTenant}]]
    /\ nightConn \in Conn \cup {NoConn}
    /\ lost \in BOOLEAN

\* What runs got the lock somewhere.
RunsGotTheLock ==
    /\ \A j \in Job : job[j].pc # "idle" => job[j].conn \in Conn
    /\ night.pc # "idle" => nightConn \in Conn

OneSessionHolds == \A c, d \in Conn : held[c] > 0 /\ held[d] > 0 => c = d

(***************************************************************************)
(* What the advisory lock keeps, as long as the pool keeps the sessions of *)
(* the calibrations that run: one session at most holds it, and it holds   *)
(* it at least once for each calibration that got it there.                *)
(***************************************************************************)
LockInv ==
    /\ TypeOK
    /\ RunsGotTheLock
    /\ OneSessionHolds
    /\ ~lost => \A c \in Conn : held[c] >= Cardinality(Running(c)) + Nights(c)

(***************************************************************************)
(* Calibrations that run at the same time got the lock on one and the same *)
(* session (that they can is a hazard: the second one should be answered   *)
(* 409): processes, which do not share sessions, never calibrate at once.  *)
(***************************************************************************)
OneSessionCalibrates ==
    ~lost => \A c, d \in Conn :
        Running(c) # {} /\ (Running(d) # {} \/ nightConn = d) => c = d

(***************************************************************************)
(* Once calibrations cease, every entry of the cache becomes, and remains, *)
(* what the database holds, whatever readers and reloads wrote in between. *)
(***************************************************************************)
CacheCatchesUp == <>[](\A key \in Key : UpToDate(key))
=============================================================================
