---------------------------- MODULE HostPressure ----------------------------
(***************************************************************************)
(* The pauses that the daemon makes by itself: when the host's memory runs *)
(* short it pauses every running job, remembers which, and resumes those   *)
(* when the pressure has gone.  The memory is the daemon's own; a restart  *)
(* rebuilds it from the tags of the specs.  The operator pauses and        *)
(* resumes the same jobs meanwhile.                                        *)
(*                                                                         *)
(* A pause is two steps here, the durable intent and the rest; LocalJob    *)
(* splits the rest into the signal and the write.                          *)
(***************************************************************************)
EXTENDS Naturals

CONSTANTS
    Tracked,    \* the jobs the daemon tracks (_running and _orphans)
    MaxCrashes  \* bound: daemon crashes in a behaviour

ASSUME CrashAssumption == MaxCrashes \in Nat

VARIABLES
    state,       \* of the spec; "ended" is every state the reap can leave it in
    paused_by,   \* of the spec
    intent,      \* pause_intent_by of an armed pause intent, or Nobody
    alive,       \* the jobs whose process group exists
    pauser,      \* who is inside pause_job and holds the spec lock
    pressure,    \* the host's memory pressure against the two thresholds
    active, paused_jobids,   \* WatchdogPolicy's _host_pressure_* fields
    step, todo,  \* where the daemon is
    adopted,     \* history: the pauses that reconcile_pause_intents completed
    crashes

specVars == <<state, paused_by, intent>>
pvars == <<specVars, alive, pauser, pressure, active, paused_jobids, step, todo, adopted, crashes>>

HOST_PRESSURE_PAUSE_TAG == "watchdog_host_pressure"
Actor == {HOST_PRESSURE_PAUSE_TAG, "operator"}
Nobody == "nobody"

PressureTypeOK ==
    /\ state \in [Tracked -> {"RUNNING", "SUSPENDED", "ended"}]
    /\ paused_by \in [Tracked -> Actor \cup {Nobody}]
    /\ intent \in [Tracked -> Actor \cup {Nobody}]
    /\ alive \subseteq Tracked
    /\ pauser \in [Tracked -> Actor \cup {Nobody}]
    /\ pressure \in {"high", "between", "low"}
    /\ active \in BOOLEAN
    /\ paused_jobids \subseteq Tracked
    /\ step \in {"down", "walk", "reseed", "intents", "reap", "verdict", "pause", "resume"}
    /\ todo \subseteq Tracked
    /\ adopted \subseteq Tracked
    /\ crashes \in 0 .. MaxCrashes

PressureInit ==
    /\ state = [j \in Tracked |-> "RUNNING"]
    /\ paused_by = [j \in Tracked |-> Nobody]
    /\ intent = [j \in Tracked |-> Nobody]
    /\ alive = Tracked
    /\ pauser = [j \in Tracked |-> Nobody]
    /\ pressure = "low"
    /\ active = FALSE
    /\ paused_jobids = {}
    /\ step = "intents"
    /\ todo = Tracked
    /\ adopted = {}
    /\ crashes = 0

-----------------------------------------------------------------------------
(* The host and the jobs. *)

PressureChanges ==
    /\ pressure' \in {"high", "between", "low"}
    /\ UNCHANGED <<specVars, alive, pauser, active, paused_jobids, step, todo, adopted, crashes>>

GroupExits(j) ==
    /\ j \in alive
    /\ alive' = alive \ {j}
    /\ UNCHANGED <<specVars, pauser, pressure, active, paused_jobids, step, todo, adopted, crashes>>

-----------------------------------------------------------------------------
(* pause_job and resume_job, called by the operator or by the daemon. *)

LockFree(j) == pauser[j] = Nobody

\* pause_job's refusals: an armed intent, or a state other than RUNNING.
MayPause(j) == intent[j] = Nobody /\ state[j] = "RUNNING"

Arm(j, who) ==
    /\ LockFree(j)
    /\ MayPause(j)
    /\ intent' = [intent EXCEPT ![j] = who]
    /\ pauser' = [pauser EXCEPT ![j] = who]
    /\ UNCHANGED <<state, paused_by>>

\* _finish_pause_from_intent.
FinishPause(j) ==
    /\ state' = [state EXCEPT ![j] = "SUSPENDED"]
    /\ paused_by' = [paused_by EXCEPT ![j] = intent[j]]
    /\ intent' = [intent EXCEPT ![j] = Nobody]

\* The SIGSTOP, and SUSPENDED; or the group is gone and the intent is cleared.
Finish(j, who) ==
    /\ pauser[j] = who
    /\ pauser' = [pauser EXCEPT ![j] = Nobody]
    /\ IF j \in alive
       THEN FinishPause(j)
       ELSE /\ intent' = [intent EXCEPT ![j] = Nobody]
            /\ UNCHANGED <<state, paused_by>>

\* resume_job's refusals: a state other than SUSPENDED, or a group that is gone.
MayResume(j) == state[j] = "SUSPENDED" /\ j \in alive

Resume(j) ==
    /\ state' = [state EXCEPT ![j] = "RUNNING"]
    /\ paused_by' = [paused_by EXCEPT ![j] = Nobody]
    /\ UNCHANGED intent

OperatorPauses(j) ==
    /\ Arm(j, "operator")
    /\ UNCHANGED <<alive, pressure, active, paused_jobids, step, todo, adopted, crashes>>

OperatorFinishes(j) ==
    /\ Finish(j, "operator")
    /\ adopted' = adopted \ {j}
    /\ UNCHANGED <<alive, pressure, active, paused_jobids, step, todo, crashes>>

\* vq pause is killed; the kernel drops its flock.
OperatorDies(j) ==
    /\ pauser[j] = "operator"
    /\ pauser' = [pauser EXCEPT ![j] = Nobody]
    /\ UNCHANGED <<specVars, alive, pressure, active, paused_jobids, step, todo, adopted, crashes>>

OperatorResumes(j) ==
    /\ LockFree(j)
    /\ MayResume(j)
    /\ Resume(j)
    /\ adopted' = adopted \ {j}
    /\ UNCHANGED <<alive, pauser, pressure, active, paused_jobids, step, todo, crashes>>

-----------------------------------------------------------------------------
(* The daemon: startup, then reconcile_pause_intents, the reaps and          *)
(* _host_pressure_pass of every iterate.                                     *)

Begin(s, jobs) == step' = s /\ todo' = jobs

DaemonStarts ==
    /\ step = "down"
    /\ Begin("walk", {j \in Tracked : state[j] # "ended"})
    /\ UNCHANGED <<specVars, alive, pauser, pressure, active, paused_jobids, adopted, crashes>>

\* Mutants of reseed_host_pressure_paused: nothing is seeded; only the ids are.
reseed_nothing ==
    /\ step = "reseed"
    /\ Begin("intents", Tracked)
    /\ UNCHANGED <<specVars, alive, pauser, pressure, active, paused_jobids, adopted, crashes>>

reseed_without_active ==
    /\ step = "reseed"
    /\ paused_jobids' = {j \in Tracked : /\ state[j] = "SUSPENDED"
                                      /\ paused_by[j] = HOST_PRESSURE_PAUSE_TAG}
    /\ Begin("intents", Tracked)
    /\ UNCHANGED <<specVars, alive, pauser, pressure, active, adopted, crashes>>

\* _reseed_host_pressure_pauses_at_startup, on the rows that read SUSPENDED.
reseed_host_pressure_paused ==
    LET tagged == {j \in Tracked : /\ state[j] = "SUSPENDED"
                                /\ paused_by[j] = HOST_PRESSURE_PAUSE_TAG}
    IN  /\ step = "reseed"
        /\ active' = (tagged # {})
        /\ paused_jobids' = tagged
        /\ Begin("intents", Tracked)
        /\ UNCHANGED <<specVars, alive, pauser, pressure, adopted, crashes>>

reconcile_pause_intent(j) ==
    /\ step = "intents"
    /\ j \in todo
    /\ LockFree(j) \/ intent[j] = Nobody
    /\ IF intent[j] # Nobody /\ state[j] # "ended" /\ j \in alive
       THEN FinishPause(j) /\ adopted' = adopted \cup {j}
       ELSE /\ intent' = [intent EXCEPT ![j] = Nobody]
            /\ UNCHANGED <<state, paused_by, adopted>>
    /\ todo' = todo \ {j}
    /\ UNCHANGED <<alive, pauser, pressure, active, paused_jobids, step, crashes>>

\* What the startup walk, _reconcile_running and _reconcile_orphans do with a
\* job whose group is gone.
Reap(j) ==
    /\ step \in {"walk", "reap"}
    /\ j \in todo
    /\ j \notin alive => LockFree(j)
    /\ state' = [state EXCEPT ![j] = IF j \in alive THEN @ ELSE "ended"]
    /\ todo' = todo \ {j}
    /\ UNCHANGED <<paused_by, intent, alive, pauser, pressure, active, paused_jobids, step,
                   adopted, crashes>>

PassEnds ==
    /\ step \in {"walk", "intents", "reap", "pause", "resume"}
    /\ todo = {}
    /\ CASE step = "walk"    -> Begin("reseed", {})
         [] step = "intents" -> Begin("reap", {j \in Tracked : state[j] # "ended"})
         [] step = "reap"    -> Begin("verdict", {})
         [] OTHER            -> Begin("intents", Tracked)
    /\ UNCHANGED <<specVars, alive, pauser, pressure, active, paused_jobids, adopted, crashes>>

\* check_host_pressure: what is paused is remembered before it is paused, and
\* forgotten before it is resumed.
check_host_pressure ==
    LET current_running == {j \in Tracked : state[j] = "RUNNING"}
    IN  /\ step = "verdict"
        /\ \/ /\ ~active
              /\ pressure = "high"
              /\ current_running # {}
              /\ active' = TRUE
              /\ paused_jobids' = current_running
              /\ Begin("pause", current_running)
           \/ /\ active
              /\ pressure = "low"
              /\ active' = FALSE
              /\ paused_jobids' = {}
              /\ Begin("resume", paused_jobids)
           \/ /\ ~(~active /\ pressure = "high" /\ current_running # {})
              /\ ~(active /\ pressure = "low")
              /\ UNCHANGED <<active, paused_jobids>>
              /\ Begin("intents", Tracked)
        /\ UNCHANGED <<specVars, alive, pauser, pressure, adopted, crashes>>

DaemonArms(j) ==
    /\ step = "pause"
    /\ j \in todo
    /\ Arm(j, HOST_PRESSURE_PAUSE_TAG)
    /\ UNCHANGED <<alive, pressure, active, paused_jobids, step, todo, adopted, crashes>>

DaemonFinishes(j) ==
    /\ Finish(j, HOST_PRESSURE_PAUSE_TAG)
    /\ todo' = todo \ {j}
    /\ adopted' = adopted \ {j}
    /\ UNCHANGED <<alive, pressure, active, paused_jobids, step, crashes>>

\* pause_job raises PauseError, which is logged.
PauseRefused(j) ==
    /\ step = "pause"
    /\ j \in todo
    /\ LockFree(j)
    /\ ~MayPause(j)
    /\ todo' = todo \ {j}
    /\ UNCHANGED <<specVars, alive, pauser, pressure, active, paused_jobids, step, adopted, crashes>>

\* resume_job without a paused_by_filter; its PauseError is logged.
DaemonResumes(j) ==
    /\ step = "resume"
    /\ j \in todo
    /\ LockFree(j)
    /\ IF MayResume(j) THEN Resume(j) ELSE UNCHANGED specVars
    /\ adopted' = IF MayResume(j) THEN adopted \ {j} ELSE adopted
    /\ todo' = todo \ {j}
    /\ UNCHANGED <<alive, pauser, pressure, active, paused_jobids, step, crashes>>

\* The daemon's own pause_job dies with it; the operator's does not.
DaemonCrashes ==
    /\ step # "down"
    /\ crashes < MaxCrashes
    /\ crashes' = crashes + 1
    /\ Begin("down", {})
    /\ active' = FALSE
    /\ paused_jobids' = {}
    /\ pauser' = [j \in Tracked |-> IF pauser[j] = "operator" THEN "operator" ELSE Nobody]
    /\ UNCHANGED <<specVars, alive, pressure, adopted>>

-----------------------------------------------------------------------------

DaemonStep ==
    \/ DaemonStarts \/ reseed_host_pressure_paused \/ PassEnds \/ check_host_pressure
    \/ \E j \in Tracked :
         \/ reconcile_pause_intent(j) \/ Reap(j)
         \/ DaemonArms(j) \/ DaemonFinishes(j) \/ PauseRefused(j) \/ DaemonResumes(j)

PressureNext ==
    \/ DaemonStep
    \/ PressureChanges \/ DaemonCrashes
    \/ \E j \in Tracked :
         \/ GroupExits(j) \/ OperatorPauses(j) \/ OperatorFinishes(j) \/ OperatorDies(j)
         \/ OperatorResumes(j)

PressureSpec == PressureInit /\ [][PressureNext]_pvars

\* As in LocalJob: the loop goes on, and waits for locks in a blocking flock; a
\* pauser is a running process.
FairSpec ==
    /\ PressureSpec
    /\ SF_pvars(DaemonStep)
    /\ \A j \in Tracked : WF_pvars(OperatorFinishes(j) \/ OperatorDies(j))

-----------------------------------------------------------------------------

HeldForPressure(j) ==
    state[j] = "SUSPENDED" /\ paused_by[j] = HOST_PRESSURE_PAUSE_TAG

\* Past the reseed, the watchdog remembers every job it holds for pressure,
\* restarts included, or is resuming it right now; all but the pauses that
\* reconcile_pause_intents completed for a daemon that crashed in pause_job.
HeldIsRemembered ==
    step \notin {"down", "walk", "reseed"} =>
        \A j \in Tracked \ adopted :
            HeldForPressure(j) /\ j \in alive =>
                \/ active /\ j \in paused_jobids
                \/ step = "resume" /\ j \in todo

\* Once the pressure has gone for good, no job is held for it for ever, with
\* the same exception.
HoldEnds ==
    <>[](pressure = "low") =>
        \A j \in Tracked : HeldForPressure(j) /\ j \notin adopted ~> ~HeldForPressure(j)

\* The same without the exception, as the reseed's docstring has it ("re-seed
\* the watchdog so the next pressure-recedes tick resumes them").
EveryHoldEnds ==
    <>[](pressure = "low") => \A j \in Tracked : HeldForPressure(j) ~> ~HeldForPressure(j)

\* The daemon resumes no job that the operator paused ("the resume pass only
\* SIGCONTs the ones we paused - operator-paused jobs stay paused").
OperatorPauseStays ==
    [][\A j \in Tracked :
           step = "resume" /\ j \in todo \ todo' /\ paused_by[j] = "operator"
               => state'[j] = state[j]]_pvars

=============================================================================
