-------------------------- MODULE MCInfrastructure --------------------------
(***************************************************************************)
(* Small instances of Calibration with its cache, of RateLimit and of      *)
(* StaffSessions, which share nothing: a behaviour runs one of them, the   *)
(* others stay in their initial states.                                    *)
(***************************************************************************)
EXTENDS Calibration, RateLimit, StaffSessions

VARIABLE part       \* the component that runs

mcVars == <<part, vars, limiterVars, sessionVars>>

-----------------------------------------------------------------------------
\* Two of the endpoints with the scope psychometrics-write.
BothPsychometrics == [calibrate |-> "psychometrics-write", bias |-> "psychometrics-write"]
OneAndTwo == [calibrate |-> 1, bias |-> 2]

\* Each process gets its own request: the work of one is not split.
Home == CHOOSE h \in [Request -> Process] : \A p \in Process : \E r \in Request : h[r] = p
AtHome == \A r \in Request : hit'[r].pc = "incr" => hit'[r].process = Home[r]

\* Two calibrations by hand and sessions that are lost, but no reader, or
\* readers next to one calibration by hand and the nightly one.
FirstJob == CHOOSE j \in Job : TRUE

CalibrationPart ==
    /\ Next
    /\ IF part = "locks" THEN reading' = reading
       ELSE ~lost' /\ \A j \in Job \ {FirstJob} : job'[j] = job[j]

-----------------------------------------------------------------------------
MCInit ==
    /\ part \in {"locks", "cache", "limiter", "sessions"}
    /\ Init /\ LimiterInit /\ SessionsInit
    /\ part # "limiter" => required
    /\ part # "sessions" => active = {} /\ staff = {}

Calibrates == part \in {"locks", "cache"}

MCNext ==
    /\ UNCHANGED part
    /\ \/ Calibrates /\ CalibrationPart /\ UNCHANGED <<limiterVars, sessionVars>>
       \/ part = "limiter" /\ LimiterNext /\ AtHome /\ UNCHANGED <<vars, sessionVars>>
       \/ part = "sessions" /\ SessionsNext /\ UNCHANGED <<vars, limiterVars>>

\* Refreshes, where calibrations run; LimiterFairness asks for nothing where
\* the limiter rests.
PartRefreshes ==
    /\ WF_vars(Calibrates /\ Cron /\ Aside)
    /\ SF_vars(Calibrates /\ (\E rows \in loading : SwapMap(rows)) /\ Aside)
    /\ \A r \in Reader : WF_vars(Calibrates /\ Fill(r) /\ Aside)

MCSpec == MCInit /\ [][MCNext]_mcVars /\ PartRefreshes /\ LimiterFairness
=============================================================================
