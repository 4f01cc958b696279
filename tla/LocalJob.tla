------------------------------ MODULE LocalJob ------------------------------
(***************************************************************************)
(* The life of local jobs of vq on one host: the JobSpec file, the process *)
(* groups the daemon launches for it, the daemon's own memory, and the CLI *)
(* processes (vq kill, vq pause, vq resume) that write the same file.      *)
(*                                                                         *)
(* Every read-modify-write of a spec holds paths.spec_lock, so it is one   *)
(* step here.  The places where the code reads before it locks, or acts    *)
(* after it unlocks, are separate steps: the startup walk, the watchdog    *)
(* verdict, the four stages of a dispatch and the three writes of a pause. *)
(*                                                                         *)
(* The host has no cgroup scopes (daemon.cgroup_enabled is False), so      *)
(* _reap_scope does nothing, and does not recycle process group ids.       *)
(***************************************************************************)
EXTENDS Naturals, FiniteSets

CONSTANTS
    Jobs,         \* job ids
    Submitted,    \* the ids whose spec is on disk, PENDING, at the beginning
    Recover,      \* the submitted ids with recover_on_reboot
    RetryMax,     \* retry_max of every job
    MaxJobs,      \* the daemon's max_jobs
    MaxLaunches,  \* bound: process groups kept apart per job id
    MaxOutages    \* bound: daemon crashes, stops and host reboots in a behaviour

ASSUME ConstantsAssumption ==
    /\ Submitted \subseteq Jobs
    /\ Recover \subseteq Submitted
    /\ RetryMax \in Nat
    /\ MaxJobs \in Nat \ {0}
    /\ MaxLaunches \in Nat
    /\ MaxOutages \in Nat

VARIABLES
    \* the spec file
    state, pgid, intent, retries, cwd,
    \* the workspace and the scratch directory
    marker, cleaned,
    \* the operating system
    members, stopped, launches, exits,
    \* the daemon's memory
    running, orphans, survivors, term, watch, aborted,
    \* where the daemon is
    step, todo, at,
    \* the pausers, who hold the spec lock, and the outages so far
    pausing, outages

specVars == <<state, pgid, intent, retries, cwd>>
diskVars == <<marker, cleaned>>
osVars   == <<members, stopped, launches, exits>>
memVars  == <<running, orphans, survivors, term, watch, aborted>>
pcVars   == <<step, todo, at>>
vars == <<specVars, diskVars, osVars, memVars, pcVars, pausing, outages>>

-----------------------------------------------------------------------------
(* Values. *)

\* One watchdog label stands for OOM_KILLED, STARVED and TIME_EXCEEDED.
TERMINAL_STATES ==
    {"COMPLETED", "FAILED", "KILLED", "TIME_EXCEEDED", "ABORTED_BY_QUEUE"}

JobState == {"absent", "PENDING", "RUNNING", "SUSPENDED"} \cup TERMINAL_STATES

Launch == 1 .. MaxLaunches

Outcome == {"zero", "nonzero"}

\* A wrapper that has exited and has not been waited for, by its exit status.
Zombie == Outcome \cup {"signalled"}

\* What a process group can hold: resource_receipt's wrapper, the command it
\* forked, or what is left of the wrapper until its parent polls it.
Member == {"wrapper", "command"} \cup Zombie

\* A workspace's _vq/exit-code: its value, and (history) the group it is from.
NoMarker == [rc |-> "none", job |-> "none", launch |-> 0]
Marker == [rc : Outcome, job : Jobs, launch : Launch] \cup {NoMarker}

\* Daemon.iterate's passes, in order, after the startup walk and its auto-resume.
Pass == {"intents", "running", "survivors", "orphans", "watchdog", "dispatch"}
Step == {"down", "walk", "resume", "leave"} \cup Pass

\* What the daemon is doing with one job between two of its spec locks.
Stage == {"idle", "walk RUNNING", "walk SUSPENDED", "verdict", "signal",
          "setup", "claimed", "spawned"}

is_terminal(j) == state[j] \in TERMINAL_STATES

pgroup_alive(j, k) == members[j][k] # {}

LockFree(j) == pausing[j] = "none"

Idle == \A j \in Jobs : at[j] = "idle"

\* Mutant of Charged: reattached jobs hold no slot.
ChargedChildren == running \cup survivors

\* The jobs that dispatch charges against max_jobs.
Charged == running \cup orphans \cup survivors

-----------------------------------------------------------------------------
(* The processes of job j's k-th launch. *)

\* A wrapper that dies stays a zombie only while the daemon that forked it is
\* alive and has not polled it; init reaps the others at once.
IsChild(j, k) == k = launches[j] /\ (j \in running \/ at[j] = "spawned")

Remains(j, k, z) == IF IsChild(j, k) THEN {z} ELSE {}

\* What SIGKILL leaves of the group.
AfterKill(j, k) ==
    (members[j][k] \cap Zombie)
        \cup (IF "wrapper" \in members[j][k] THEN Remains(j, k, "signalled") ELSE {})

\* What SIGTERM leaves of it, when the members in keep ignore the signal.
AfterTerm(j, k, keep) ==
    IF "wrapper" \in keep \/ "wrapper" \notin members[j][k]
    THEN members[j][k] \cap (keep \cup Zombie)
    ELSE (members[j][k] \cap (keep \cup Zombie)) \cup Remains(j, k, "signalled")

\* killpg(SIGCONT) then killpg(SIGKILL).
KillGroup(j, k) ==
    /\ members' = [members EXCEPT ![j][k] = AfterKill(j, k)]
    /\ stopped' = [stopped EXCEPT ![j] = @ \ {k}]

\* killpg(SIGCONT) then killpg(SIGTERM).
TermGroup(j, k) ==
    /\ \E keep \in SUBSET {"wrapper", "command"} :
           members' = [members EXCEPT ![j][k] = AfterTerm(j, k, keep)]
    /\ stopped' = [stopped EXCEPT ![j] = @ \ {k}]

CommandExits(j, k) ==
    /\ "command" \in members[j][k]
    /\ k \notin stopped[j]
    /\ members' = [members EXCEPT ![j][k] = @ \ {"command"}]
    /\ UNCHANGED <<specVars, diskVars, stopped, launches, exits, memVars, pcVars,
                   pausing, outages>>

\* resource_receipt.main after wait4: the marker is written, or the write
\* fails and the wrapper goes on without it.
WrapperMarks(j, k, rc) ==
    /\ members[j][k] \cap {"wrapper", "command"} = {"wrapper"}
    /\ k \notin stopped[j]
    /\ exits[j][k] = "none"
    /\ exits' = [exits EXCEPT ![j][k] = rc]
    /\ marker' \in {marker,
                    [marker EXCEPT ![cwd[j]] = [rc |-> rc, job |-> j, launch |-> k]]}
    /\ UNCHANGED <<specVars, cleaned, members, stopped, launches, memVars, pcVars,
                   pausing, outages>>

WrapperExits(j, k) ==
    /\ "wrapper" \in members[j][k]
    /\ k \notin stopped[j]
    /\ exits[j][k] # "none"
    /\ members' = [members EXCEPT ![j][k] = (@ \ {"wrapper"}) \cup Remains(j, k, exits[j][k])]
    /\ UNCHANGED <<specVars, diskVars, stopped, launches, exits, memVars, pcVars,
                   pausing, outages>>

\* A kill -9 of the wrapper alone, or an OOM kill: stopped processes die too.
WrapperKilled(j, k) ==
    /\ "wrapper" \in members[j][k]
    /\ members' = [members EXCEPT ![j][k] = (@ \ {"wrapper"}) \cup Remains(j, k, "signalled")]
    /\ UNCHANGED <<specVars, diskVars, stopped, launches, exits, memVars, pcVars,
                   pausing, outages>>

-----------------------------------------------------------------------------
(* The CLI: kill.kill_job, pause_resume.pause_job and resume_job. *)

kill_job(j) ==
    /\ LockFree(j)
    /\ state[j] \in {"PENDING", "RUNNING", "SUSPENDED"}
    /\ state' = [state EXCEPT ![j] = "KILLED"]
    /\ IF state[j] # "PENDING" /\ pgid[j] # 0
       THEN TermGroup(j, pgid[j])
       ELSE UNCHANGED <<members, stopped>>
    /\ UNCHANGED <<pgid, intent, retries, cwd, diskVars, launches, exits, memVars,
                   pcVars, pausing, outages>>

\* Mutant of PauseArms: the intent is kept in the pauser's memory only.
PauseArmsInMemory(j) ==
    /\ LockFree(j)
    /\ intent[j] = 0
    /\ state[j] = "RUNNING"
    /\ pgid[j] # 0
    /\ pausing' = [pausing EXCEPT ![j] = "armed"]
    /\ UNCHANGED <<specVars, diskVars, osVars, memVars, pcVars, outages>>

\* pause_job up to its first write: the intent is durable before SIGSTOP.
PauseArms(j) ==
    /\ LockFree(j)
    /\ intent[j] = 0
    /\ state[j] = "RUNNING"
    /\ pgid[j] # 0
    /\ intent' = [intent EXCEPT ![j] = pgid[j]]
    /\ pausing' = [pausing EXCEPT ![j] = "armed"]
    /\ UNCHANGED <<state, pgid, retries, cwd, diskVars, osVars, memVars, pcVars, outages>>

\* SIGSTOP; a group that is gone disarms the intent.
PauseSignals(j) ==
    /\ pausing[j] = "armed"
    /\ IF pgroup_alive(j, pgid[j])
       THEN /\ stopped' = [stopped EXCEPT ![j] = @ \cup {pgid[j]}]
            /\ pausing' = [pausing EXCEPT ![j] = "signalled"]
            /\ UNCHANGED intent
       ELSE /\ intent' = [intent EXCEPT ![j] = 0]
            /\ pausing' = [pausing EXCEPT ![j] = "none"]
            /\ UNCHANGED stopped
    /\ UNCHANGED <<state, pgid, retries, cwd, diskVars, members, launches, exits,
                   memVars, pcVars, outages>>

\* _finish_pause_from_intent and the write of SUSPENDED.
PauseCommits(j) ==
    /\ pausing[j] = "signalled"
    /\ state' = [state EXCEPT ![j] = "SUSPENDED"]
    /\ intent' = [intent EXCEPT ![j] = 0]
    /\ pausing' = [pausing EXCEPT ![j] = "none"]
    /\ UNCHANGED <<pgid, retries, cwd, diskVars, osVars, memVars, pcVars, outages>>

\* The pausing process is killed; the kernel drops its flock.
PauserDies(j) ==
    /\ pausing[j] # "none"
    /\ pausing' = [pausing EXCEPT ![j] = "none"]
    /\ UNCHANGED <<specVars, diskVars, osVars, memVars, pcVars, outages>>

resume_job(j) ==
    /\ LockFree(j)
    /\ state[j] = "SUSPENDED"
    /\ pgid[j] # 0
    /\ pgroup_alive(j, pgid[j])
    /\ state' = [state EXCEPT ![j] = "RUNNING"]
    /\ stopped' = [stopped EXCEPT ![j] = @ \ {pgid[j]}]
    /\ UNCHANGED <<pgid, intent, retries, cwd, diskVars, members, launches, exits,
                   memVars, pcVars, pausing, outages>>

-----------------------------------------------------------------------------
(* How a finished attempt is recorded: the part that _record_finish and      *)
(* _record_orphan_finish share.                                              *)

\* Mutant of Retries: one retry more than the budget.
RetriesOnceMore(j, ok) == ~is_terminal(j) /\ ~ok /\ retries[j] <= RetryMax

\* _maybe_retry's guard, on an attempt that ended with the given outcome.
Retries(j, ok) == ~is_terminal(j) /\ ~ok /\ retries[j] < RetryMax

\* A terminal label wins; else the retry budget; else the exit code.
FinishSpec(j, ok) ==
    /\ state' = [state EXCEPT ![j] = IF is_terminal(j) THEN @
                                     ELSE IF Retries(j, ok) THEN "PENDING"
                                     ELSE IF ok THEN "COMPLETED" ELSE "FAILED"]
    /\ IF Retries(j, ok)
       THEN /\ retries' = [retries EXCEPT ![j] = @ + 1]
            /\ pgid' = [pgid EXCEPT ![j] = 0]
       ELSE UNCHANGED <<retries, pgid>>
    /\ UNCHANGED <<intent, cwd>>

\* _maybe_cleanup_workdir for a job with clean_workdir_on_terminal.
CleanWorkdir(j) == cleaned' = cleaned \cup {j}

\* The workdir goes on every path that does not re-enqueue the job.
FinishDisk(j, ok) ==
    /\ IF Retries(j, ok) THEN UNCHANGED cleaned ELSE CleanWorkdir(j)
    /\ UNCHANGED marker

\* Mutant of RecordOrphan: the marker is not read.
RecordOrphanAsAborted(j) ==
    IF is_terminal(j)
    THEN UNCHANGED <<specVars, diskVars>>
    ELSE /\ state' = [state EXCEPT ![j] = "ABORTED_BY_QUEUE"]
         /\ CleanWorkdir(j)
         /\ UNCHANGED <<pgid, intent, retries, cwd, marker>>

\* _record_orphan_finish, when the marker can be read; else, on a spec that is
\* not terminal, _mark_aborted_by_queue with process_exit_confirmed.
RecordOrphan(j) ==
    IF marker[cwd[j]] # NoMarker
    THEN /\ FinishSpec(j, marker[cwd[j]].rc = "zero")
         /\ FinishDisk(j, marker[cwd[j]].rc = "zero")
    ELSE IF is_terminal(j)
    THEN UNCHANGED <<specVars, diskVars>>
    ELSE /\ state' = [state EXCEPT ![j] = "ABORTED_BY_QUEUE"]
         /\ CleanWorkdir(j)
         /\ UNCHANGED <<pgid, intent, retries, cwd, marker>>

-----------------------------------------------------------------------------
(* Daemon start: _reattach_or_interrupt_at_startup and _auto_resume. *)

On(p, j) == step = p /\ Idle /\ j \in todo

Visited(j) == todo' = todo \ {j}

SetStage(j, stage) == at' = [at EXCEPT ![j] = stage]

DaemonStarts ==
    /\ step = "down"
    /\ step' = "walk"
    /\ todo' = {j \in Jobs : state[j] # "absent"}
    /\ UNCHANGED <<specVars, diskVars, osVars, memVars, at, pausing, outages>>

\* A row that reads PENDING is passed over; the group of a terminal row is
\* SIGKILLed if it is alive (_maybe_reap_terminal_survivor).
WalkSettled(j) ==
    /\ On("walk", j)
    /\ state[j] = "PENDING" \/ is_terminal(j)
    /\ IF is_terminal(j) /\ pgid[j] # 0
       THEN KillGroup(j, pgid[j])
       ELSE UNCHANGED <<members, stopped>>
    /\ Visited(j)
    /\ UNCHANGED <<specVars, diskVars, launches, exits, memVars, step, at, pausing, outages>>

\* The walk has read a RUNNING or SUSPENDED row, without its lock.
WalkReads(j) ==
    /\ On("walk", j)
    /\ state[j] \in {"RUNNING", "SUSPENDED"}
    /\ SetStage(j, IF state[j] = "RUNNING" THEN "walk RUNNING" ELSE "walk SUSPENDED")
    /\ UNCHANGED <<specVars, diskVars, osVars, memVars, step, todo, pausing, outages>>

\* just_aborted_running.append, on the state the walk read.
RememberAborted(j) ==
    aborted' = IF at[j] = "walk RUNNING" THEN aborted \cup {j} ELSE aborted

\* No process group on record: _mark_aborted_by_queue, which keeps a label
\* that another writer set meanwhile.
WalkAborts(j) ==
    /\ at[j] \in {"walk RUNNING", "walk SUSPENDED"}
    /\ pgid[j] = 0
    /\ LockFree(j)
    /\ state' = [state EXCEPT ![j] = IF is_terminal(j) THEN @ ELSE "ABORTED_BY_QUEUE"]
    /\ RememberAborted(j)
    /\ SetStage(j, "idle")
    /\ Visited(j)
    /\ UNCHANGED <<pgid, intent, retries, cwd, diskVars, osVars, running, orphans,
                   survivors, term, watch, step, pausing, outages>>

\* Mutant of WalkReattaches: a job that is still running is resubmitted too.
WalkReattachesAborted(j) ==
    /\ at[j] \in {"walk RUNNING", "walk SUSPENDED"}
    /\ pgid[j] # 0
    /\ pgroup_alive(j, pgid[j])
    /\ orphans' = orphans \cup {j}
    /\ RememberAborted(j)
    /\ SetStage(j, "idle")
    /\ Visited(j)
    /\ UNCHANGED <<specVars, diskVars, osVars, running, survivors, term, watch,
                   step, pausing, outages>>

\* The group is alive: the job becomes an orphan of the new daemon.
WalkReattaches(j) ==
    /\ at[j] \in {"walk RUNNING", "walk SUSPENDED"}
    /\ pgid[j] # 0
    /\ pgroup_alive(j, pgid[j])
    /\ orphans' = orphans \cup {j}
    /\ SetStage(j, "idle")
    /\ Visited(j)
    /\ UNCHANGED <<specVars, diskVars, osVars, running, survivors, term, watch, aborted,
                   step, pausing, outages>>

\* The group is gone: its marker, or ABORTED_BY_QUEUE.
WalkFinishes(j) ==
    /\ at[j] \in {"walk RUNNING", "walk SUSPENDED"}
    /\ pgid[j] # 0
    /\ ~pgroup_alive(j, pgid[j])
    /\ LockFree(j)
    /\ RecordOrphan(j)
    /\ IF marker[cwd[j]] = NoMarker THEN RememberAborted(j) ELSE UNCHANGED aborted
    /\ SetStage(j, "idle")
    /\ Visited(j)
    /\ UNCHANGED <<osVars, running, orphans, survivors, term, watch, step, pausing, outages>>

\* A stop that lands in the walk is honoured at a row boundary; the auto-resume
\* pass still runs, and then the daemon exits.
WalkStops ==
    /\ step = "walk"
    /\ Idle
    /\ todo # {}
    /\ outages < MaxOutages
    /\ outages' = outages + 1
    /\ step' = "leave"
    /\ todo' = {j \in aborted : cwd[j] \in Recover}
    /\ UNCHANGED <<specVars, diskVars, osVars, memVars, at, pausing>>

WalkEnds ==
    /\ step = "walk"
    /\ Idle
    /\ todo = {}
    /\ step' = "resume"
    /\ todo' = {j \in aborted : cwd[j] \in Recover}
    /\ UNCHANGED <<specVars, diskVars, osVars, memVars, at, pausing, outages>>

\* A sibling spec in the same workspace, with the retry budget carried over;
\* a write that fails is only logged.
auto_resume(j) ==
    /\ step \in {"resume", "leave"}
    /\ j \in todo
    /\ Visited(j)
    /\ \/ \E s \in Jobs :
            /\ state[s] = "absent"
            /\ state' = [state EXCEPT ![s] = "PENDING"]
            /\ retries' = [retries EXCEPT ![s] = retries[j]]
            /\ cwd' = [cwd EXCEPT ![s] = cwd[j]]
       \/ UNCHANGED <<state, retries, cwd>>
    /\ UNCHANGED <<pgid, intent, diskVars, osVars, memVars, step, at, pausing, outages>>

-----------------------------------------------------------------------------
(* Daemon.iterate: pause intents, then running, survivors, orphans, watchdog *)
(* and dispatch.                                                             *)

\* reconcile_pause_intents reads each row and passes over one without intent.
NoPauseIntent(j) ==
    /\ On("intents", j)
    /\ intent[j] = 0
    /\ Visited(j)
    /\ UNCHANGED <<specVars, diskVars, osVars, memVars, step, at, pausing, outages>>

\* Mutant of reconcile_pause_intent: an intent on a terminal row is left alone.
reconcile_live_intent(j) ==
    /\ On("intents", j)
    /\ intent[j] # 0
    /\ LockFree(j)
    /\ Visited(j)
    /\ IF intent[j] # pgid[j] \/ state[j] \notin {"RUNNING", "SUSPENDED"}
       THEN UNCHANGED <<state, intent, stopped>>
       ELSE /\ intent' = [intent EXCEPT ![j] = 0]
            /\ IF pgroup_alive(j, pgid[j])
               THEN /\ stopped' = [stopped EXCEPT ![j] = @ \cup {pgid[j]}]
                    /\ state' = [state EXCEPT ![j] = "SUSPENDED"]
               ELSE UNCHANGED <<state, stopped>>
    /\ UNCHANGED <<pgid, retries, cwd, diskVars, members, launches, exits, memVars,
                   step, at, pausing, outages>>

\* The rest of _reconcile_pause_intent_path, under the lock.  An intent for
\* another process group than the spec's is an error, and is kept.
reconcile_pause_intent(j) ==
    /\ On("intents", j)
    /\ intent[j] # 0
    /\ LockFree(j)
    /\ Visited(j)
    /\ IF intent[j] # pgid[j]
       THEN UNCHANGED <<state, intent, stopped>>
       ELSE /\ intent' = [intent EXCEPT ![j] = 0]
            /\ IF state[j] \notin {"RUNNING", "SUSPENDED"}
               THEN /\ stopped' = [stopped EXCEPT ![j] = @ \ {pgid[j]}]
                    /\ UNCHANGED state
               ELSE IF pgroup_alive(j, pgid[j])
               THEN /\ stopped' = [stopped EXCEPT ![j] = @ \cup {pgid[j]}]
                    /\ state' = [state EXCEPT ![j] = "SUSPENDED"]
               ELSE UNCHANGED <<state, stopped>>
    /\ UNCHANGED <<pgid, retries, cwd, diskVars, members, launches, exits, memVars,
                   step, at, pausing, outages>>

\* Mutant of Stranded: only a paused job strands its group.
StrandedIfPaused(j, z) ==
    /\ state[j] = "SUSPENDED" \/ intent[j] # 0
    /\ members[j][pgid[j]] \ Zombie # {}

\* _reap_stranded_group's condition, once the wrapper's status z is collected.
Stranded(j, z) ==
    /\ \/ state[j] = "SUSPENDED"
       \/ intent[j] # 0
       \/ z = "signalled" /\ ~is_terminal(j)
    /\ members[j][pgid[j]] \ Zombie # {}

\* _track_terminal_survivor's condition.
Survives(j, z) ==
    /\ is_terminal(j)
    /\ ~Stranded(j, z)
    /\ term[j] # "killed"
    /\ members[j][pgid[j]] \ Zombie # {}

\* The grace of a terminal job begins when a pass first sees its label, and is
\* forgotten with it.
Grace(j) == IF ~is_terminal(j) THEN "none"
            ELSE IF term[j] = "none" THEN "armed" ELSE term[j]

\* popen.poll returns a status: _record_finish, whole.
record_finish(j) ==
    /\ On("running", j)
    /\ LockFree(j)
    /\ \E z \in members[j][pgid[j]] \cap Zombie :
         /\ members' = [members EXCEPT ![j][pgid[j]] = IF Stranded(j, z) THEN {} ELSE @ \ Zombie]
         /\ stopped' = IF Stranded(j, z)
                       THEN [stopped EXCEPT ![j] = @ \ {pgid[j]}]
                       ELSE stopped
         /\ FinishSpec(j, z = "zero")
         /\ FinishDisk(j, z = "zero")
         /\ survivors' = IF Survives(j, z) THEN survivors \cup {j} ELSE survivors
         /\ term' = [term EXCEPT ![j] = IF Survives(j, z) THEN Grace(j) ELSE "none"]
    /\ running' = running \ {j}
    /\ watch' = [watch EXCEPT ![j] = "ok"]
    /\ Visited(j)
    /\ UNCHANGED <<launches, exits, orphans, aborted, step, at, pausing, outages>>

\* popen.poll returns None.
escalate_if_killed(j) ==
    /\ On("running", j)
    /\ members[j][pgid[j]] \cap Zombie = {}
    /\ IF is_terminal(j) /\ term[j] = "due"
       THEN KillGroup(j, pgid[j])
       ELSE UNCHANGED <<members, stopped>>
    /\ term' = [term EXCEPT ![j] = IF @ = "killed" \/ (is_terminal(j) /\ @ = "due")
                                   THEN "killed"
                                   ELSE Grace(j)]
    /\ Visited(j)
    /\ UNCHANGED <<specVars, diskVars, launches, exits, running, orphans, survivors, watch,
                   aborted, step, at, pausing, outages>>

\* Mutant of reconcile_terminal_survivor: it waits for the group, with no SIGKILL.
await_terminal_survivor(j) ==
    /\ On("survivors", j)
    /\ IF pgroup_alive(j, pgid[j])
       THEN UNCHANGED <<survivors, term>>
       ELSE /\ survivors' = survivors \ {j}
            /\ term' = [term EXCEPT ![j] = "none"]
    /\ Visited(j)
    /\ UNCHANGED <<specVars, diskVars, osVars, running, orphans, watch, aborted,
                   step, at, pausing, outages>>

\* A survivor's record ends when its group is gone, or with its SIGKILL.
reconcile_terminal_survivor(j) ==
    /\ On("survivors", j)
    /\ IF pgroup_alive(j, pgid[j]) /\ term[j] # "due"
       THEN UNCHANGED <<members, stopped, survivors, term>>
       ELSE /\ KillGroup(j, pgid[j])
            /\ survivors' = survivors \ {j}
            /\ term' = [term EXCEPT ![j] = "none"]
    /\ Visited(j)
    /\ UNCHANGED <<specVars, diskVars, launches, exits, running, orphans, watch, aborted,
                   step, at, pausing, outages>>

\* An orphan that stays: _escalate_orphan_if_killed up to its deadline.
OrphanStays(j) ==
    /\ On("orphans", j)
    /\ pgroup_alive(j, pgid[j])
    /\ ~(is_terminal(j) /\ term[j] = "due")
    /\ term' = [term EXCEPT ![j] = Grace(j)]
    /\ Visited(j)
    /\ UNCHANGED <<specVars, diskVars, osVars, running, orphans, survivors, watch, aborted,
                   step, at, pausing, outages>>

\* An orphan that is gone, or terminal past its grace and SIGKILLed.
OrphanEnds(j) ==
    /\ On("orphans", j)
    /\ pgroup_alive(j, pgid[j]) => is_terminal(j) /\ term[j] = "due"
    /\ LockFree(j)
    /\ KillGroup(j, pgid[j])
    /\ RecordOrphan(j)
    /\ orphans' = orphans \ {j}
    /\ term' = [term EXCEPT ![j] = "none"]
    /\ watch' = [watch EXCEPT ![j] = "ok"]
    /\ Visited(j)
    /\ UNCHANGED <<launches, exits, running, survivors, aborted, step, at, pausing, outages>>

-----------------------------------------------------------------------------
(* The watchdog pass.  A verdict is formed on a spec read without its lock.  *)

WatchdogOk(j) ==
    /\ On("watchdog", j)
    /\ Visited(j)
    /\ UNCHANGED <<specVars, diskVars, osVars, memVars, step, at, pausing, outages>>

\* WatchdogPolicy.evaluate returns SIGTERM, once per registration.
WatchdogVerdict(j) ==
    /\ On("watchdog", j)
    /\ watch[j] = "ok"
    /\ state[j] # "SUSPENDED"
    /\ watch' = [watch EXCEPT ![j] = "termed"]
    /\ SetStage(j, "verdict")
    /\ UNCHANGED <<specVars, diskVars, osVars, running, orphans, survivors, term, aborted,
                   step, todo, pausing, outages>>

\* Mutant of WatchdogMarks: the label is written without a second read.
WatchdogMarksBlindly(j) ==
    /\ at[j] = "verdict"
    /\ LockFree(j)
    /\ state' = [state EXCEPT ![j] = "TIME_EXCEEDED"]
    /\ SetStage(j, "signal")
    /\ UNCHANGED <<pgid, intent, retries, cwd, diskVars, osVars, memVars, step, todo,
                   pausing, outages>>

\* The label, unless another writer has set one since the read.
WatchdogMarks(j) ==
    /\ at[j] = "verdict"
    /\ LockFree(j)
    /\ state' = [state EXCEPT ![j] = IF is_terminal(j) THEN @ ELSE "TIME_EXCEEDED"]
    /\ SetStage(j, "signal")
    /\ UNCHANGED <<pgid, intent, retries, cwd, diskVars, osVars, memVars, step, todo,
                   pausing, outages>>

WatchdogSignals(j) ==
    /\ at[j] = "signal"
    /\ TermGroup(j, pgid[j])
    /\ SetStage(j, "idle")
    /\ Visited(j)
    /\ UNCHANGED <<specVars, diskVars, launches, exits, memVars, step, pausing, outages>>

\* The grace after the SIGTERM is over: one SIGKILL.
WatchdogKills(j) ==
    /\ On("watchdog", j)
    /\ watch[j] = "termed"
    /\ watch' = [watch EXCEPT ![j] = "killed"]
    /\ KillGroup(j, pgid[j])
    /\ Visited(j)
    /\ UNCHANGED <<specVars, diskVars, launches, exits, running, orphans, survivors, term,
                   aborted, step, at, pausing, outages>>

-----------------------------------------------------------------------------
(* Dispatch: _dispatch_pending and the stages of _start_job. *)

\* Capacity, backoff, a hold, a drain or a re-read that is not PENDING.
DispatchHeld(j) ==
    /\ On("dispatch", j)
    /\ Visited(j)
    /\ UNCHANGED <<specVars, diskVars, osVars, memVars, step, at, pausing, outages>>

\* A gate of _start_job refuses the job: _fail_dispatch.
StartRejected(j) ==
    /\ On("dispatch", j)
    /\ LockFree(j)
    /\ state[j] = "PENDING"
    /\ Cardinality(Charged) < MaxJobs
    /\ state' = [state EXCEPT ![j] = "FAILED"]
    /\ Visited(j)
    /\ UNCHANGED <<pgid, intent, retries, cwd, diskVars, osVars, memVars, step, at,
                   pausing, outages>>

\* The job is admitted and its workspace prepared: a stale marker is unlinked.
StartJob(j) ==
    /\ On("dispatch", j)
    /\ state[j] = "PENDING"
    /\ Cardinality(Charged) < MaxJobs
    /\ launches[j] < MaxLaunches
    /\ marker' = [marker EXCEPT ![cwd[j]] = NoMarker]
    /\ SetStage(j, "setup")
    /\ UNCHANGED <<specVars, cleaned, osVars, memVars, step, todo, pausing, outages>>

\* Mutant of ClaimJob: the launch comes before the first durable RUNNING.
ClaimJobInMemory(j) ==
    /\ at[j] = "setup"
    /\ LockFree(j)
    /\ state[j] = "PENDING"
    /\ SetStage(j, "claimed")
    /\ UNCHANGED <<specVars, diskVars, osVars, memVars, step, todo, pausing, outages>>

\* STATE-1: RUNNING without a process group is durable before the launch.
ClaimJob(j) ==
    /\ at[j] = "setup"
    /\ LockFree(j)
    /\ state[j] = "PENDING"
    /\ state' = [state EXCEPT ![j] = "RUNNING"]
    /\ pgid' = [pgid EXCEPT ![j] = 0]
    /\ SetStage(j, "claimed")
    /\ UNCHANGED <<intent, retries, cwd, diskVars, osVars, memVars, step, todo, pausing, outages>>

\* The row left PENDING during the setup, or an admin-update marker holds it.
ClaimGivesUp(j) ==
    /\ at[j] = "setup"
    /\ SetStage(j, "idle")
    /\ Visited(j)
    /\ UNCHANGED <<specVars, diskVars, osVars, memVars, step, pausing, outages>>

LaunchJob(j) ==
    /\ at[j] = "claimed"
    /\ launches' = [launches EXCEPT ![j] = @ + 1]
    /\ members' = [members EXCEPT ![j][launches[j] + 1] = {"wrapper", "command"}]
    /\ SetStage(j, "spawned")
    /\ UNCHANGED <<specVars, diskVars, stopped, exits, memVars, step, todo, pausing, outages>>

\* dispatcher.launch raises DispatchError: _fail_dispatch.
LaunchFails(j) ==
    /\ at[j] = "claimed"
    /\ LockFree(j)
    /\ state' = [state EXCEPT ![j] = IF is_terminal(j) THEN @ ELSE "FAILED"]
    /\ SetStage(j, "idle")
    /\ Visited(j)
    /\ UNCHANGED <<pgid, intent, retries, cwd, diskVars, osVars, memVars, step, pausing, outages>>

\* The write after Popen.  A label set since the claim wins: the new group is
\* killed and waited for.
FillPid(j) ==
    /\ at[j] = "spawned"
    /\ LockFree(j)
    /\ IF is_terminal(j)
       THEN /\ members' = [members EXCEPT ![j][launches[j]] = {}]
            /\ UNCHANGED <<pgid, running>>
       ELSE /\ pgid' = [pgid EXCEPT ![j] = launches[j]]
            /\ running' = running \cup {j}
            /\ UNCHANGED members
    /\ SetStage(j, "idle")
    /\ Visited(j)
    /\ UNCHANGED <<state, intent, retries, cwd, diskVars, stopped, launches, exits, orphans,
                   survivors, term, watch, aborted, step, pausing, outages>>

-----------------------------------------------------------------------------
(* The loop, the clock, and what ends a daemon. *)

\* The jobs a pass goes through, fixed when it begins.
Targets(p) == CASE p = "intents"   -> {j \in Jobs : state[j] # "absent"}
                [] p = "running"   -> running
                [] p = "survivors" -> survivors
                [] p = "orphans"   -> orphans
                [] p = "watchdog"  -> running \cup orphans
                [] p = "dispatch"  -> {j \in Jobs : state[j] = "PENDING"}

After(p) == CASE p \in {"resume", "dispatch"} -> "intents"
              [] p = "intents"   -> "running"
              [] p = "running"   -> "survivors"
              [] p = "survivors" -> "orphans"
              [] p = "orphans"   -> "watchdog"
              [] p = "watchdog"  -> "dispatch"

PassEnds ==
    /\ step \in Pass \cup {"resume"}
    /\ Idle
    /\ todo = {}
    /\ step' = After(step)
    /\ todo' = Targets(After(step))
    /\ UNCHANGED <<specVars, diskVars, osVars, memVars, at, pausing, outages>>

\* KILL_ESCALATION_GRACE_SECONDS are over.
DeadlinePasses(j) ==
    /\ term[j] = "armed"
    /\ term' = [term EXCEPT ![j] = "due"]
    /\ UNCHANGED <<specVars, diskVars, osVars, running, orphans, survivors, watch, aborted,
                   pcVars, pausing, outages>>

\* The daemon's memory, and its place in the loop, go with it.
Forget ==
    /\ running' = {}
    /\ orphans' = {}
    /\ survivors' = {}
    /\ term' = [j \in Jobs |-> "none"]
    /\ watch' = [j \in Jobs |-> "ok"]
    /\ aborted' = {}
    /\ step' = "down"
    /\ todo' = {}
    /\ at' = [j \in Jobs |-> "idle"]

\* The daemon that was stopped during its startup walk returns from run.
DaemonLeaves ==
    /\ step = "leave"
    /\ todo = {}
    /\ Forget
    /\ UNCHANGED <<specVars, diskVars, osVars, pausing, outages>>

\* A SIGKILL, an OOM kill or a restart; the jobs go on under init.
DaemonCrashes ==
    /\ step # "down"
    /\ outages < MaxOutages
    /\ Forget
    /\ members' = [j \in Jobs |-> [k \in Launch |-> members[j][k] \ Zombie]]
    /\ outages' = outages + 1
    /\ UNCHANGED <<specVars, diskVars, stopped, launches, exits, pausing>>

HostReboots ==
    /\ outages < MaxOutages
    /\ Forget
    /\ members' = [j \in Jobs |-> [k \in Launch |-> {}]]
    /\ stopped' = [j \in Jobs |-> {}]
    /\ pausing' = [j \in Jobs |-> "none"]
    /\ outages' = outages + 1
    /\ UNCHANGED <<specVars, diskVars, launches, exits>>

-----------------------------------------------------------------------------

Init ==
    /\ state = [j \in Jobs |-> IF j \in Submitted THEN "PENDING" ELSE "absent"]
    /\ pgid = [j \in Jobs |-> 0]
    /\ intent = [j \in Jobs |-> 0]
    /\ retries = [j \in Jobs |-> 0]
    /\ cwd = [j \in Jobs |-> j]
    /\ marker = [j \in Jobs |-> NoMarker]
    /\ cleaned = {}
    /\ members = [j \in Jobs |-> [k \in Launch |-> {}]]
    /\ stopped = [j \in Jobs |-> {}]
    /\ launches = [j \in Jobs |-> 0]
    /\ exits = [j \in Jobs |-> [k \in Launch |-> "none"]]
    /\ running = {}
    /\ orphans = {}
    /\ survivors = {}
    /\ term = [j \in Jobs |-> "none"]
    /\ watch = [j \in Jobs |-> "ok"]
    /\ aborted = {}
    /\ step = "down"
    /\ todo = {}
    /\ at = [j \in Jobs |-> "idle"]
    /\ pausing = [j \in Jobs |-> "none"]
    /\ outages = 0

\* What the processes of the jobs do by themselves.
ProcessStep(j) ==
    \E k \in Launch :
        \/ CommandExits(j, k)
        \/ \E rc \in Outcome : WrapperMarks(j, k, rc)
        \/ WrapperExits(j, k)
        \/ WrapperKilled(j, k)

\* A pauser that has written its intent goes on, or dies.
PauserStep(j) == PauseSignals(j) \/ PauseCommits(j) \/ PauserDies(j)

CliStep(j) == kill_job(j) \/ PauseArms(j) \/ resume_job(j)

WalkStep(j) ==
    \/ WalkSettled(j) \/ WalkReads(j) \/ WalkAborts(j) \/ WalkReattaches(j)
    \/ WalkFinishes(j) \/ auto_resume(j)

PassStep(j) ==
    \/ NoPauseIntent(j) \/ reconcile_pause_intent(j)
    \/ record_finish(j) \/ escalate_if_killed(j)
    \/ reconcile_terminal_survivor(j)
    \/ OrphanStays(j) \/ OrphanEnds(j)
    \/ WatchdogOk(j) \/ WatchdogVerdict(j) \/ WatchdogMarks(j) \/ WatchdogSignals(j)
    \/ WatchdogKills(j)

DispatchStep(j) ==
    \/ DispatchHeld(j) \/ StartRejected(j) \/ StartJob(j) \/ ClaimJob(j) \/ ClaimGivesUp(j)
    \/ LaunchJob(j) \/ LaunchFails(j) \/ FillPid(j)

DaemonStep ==
    \/ DaemonStarts \/ WalkEnds \/ PassEnds \/ DaemonLeaves
    \/ \E j \in Jobs : WalkStep(j) \/ PassStep(j) \/ DispatchStep(j)

Next ==
    \/ DaemonStep
    \/ WalkStops \/ DaemonCrashes \/ HostReboots
    \/ \E j \in Jobs : ProcessStep(j) \/ CliStep(j) \/ PauserStep(j) \/ DeadlinePasses(j)

Spec == Init /\ [][Next]_vars

\* The service manager restarts the daemon and its loop keeps going: strongly,
\* for it waits for a spec lock in a blocking flock, whose queue serves it
\* between two holders.  A pauser is a running process; the clock advances.
\* Nothing is assumed of the jobs' own commands, nor of the operator.
Fairness ==
    /\ SF_vars(DaemonStep)
    /\ \A j \in Jobs : WF_vars(PauserStep(j)) /\ WF_vars(DeadlinePasses(j))

FairSpec == Spec /\ Fairness

-----------------------------------------------------------------------------
(* The type invariant. *)

TypeOK ==
    /\ state \in [Jobs -> JobState]
    /\ pgid \in [Jobs -> Launch \cup {0}]
    /\ intent \in [Jobs -> Launch \cup {0}]
    /\ retries \in [Jobs -> 0 .. RetryMax]
    /\ cwd \in [Jobs -> Jobs]
    /\ marker \in [Jobs -> Marker]
    /\ cleaned \in SUBSET Jobs
    /\ members \in [Jobs -> [Launch -> SUBSET Member]]
    /\ stopped \in [Jobs -> SUBSET Launch]
    /\ launches \in [Jobs -> Launch \cup {0}]
    /\ exits \in [Jobs -> [Launch -> Outcome \cup {"none"}]]
    /\ running \in SUBSET Jobs
    /\ orphans \in SUBSET Jobs
    /\ survivors \in SUBSET Jobs
    /\ term \in [Jobs -> {"none", "armed", "due", "killed"}]
    /\ watch \in [Jobs -> {"ok", "termed", "killed"}]
    /\ aborted \in SUBSET Jobs
    /\ step \in Step
    /\ todo \in SUBSET Jobs
    /\ at \in [Jobs -> Stage]
    /\ pausing \in [Jobs -> {"none", "armed", "signalled"}]
    /\ outages \in 0 .. MaxOutages

-----------------------------------------------------------------------------
(* Safety. *)

\* The retry of a job (_maybe_retry, then _start_job) never runs beside what is
\* left of an earlier attempt: the processes of two launches are never alive
\* together, whatever wrapper, pauser or daemon dies in between.
OneAttempt ==
    \A j \in Jobs : \A k, l \in Launch :
        pgroup_alive(j, k) /\ pgroup_alive(j, l) => k = l

\* A terminal label is final: no writer of the spec (kill_job, the reaps, the
\* watchdog, the startup walk, the dispatch stages) replaces another's label.
TerminalIsFinal ==
    [][\A j \in Jobs : is_terminal(j) => state'[j] = state[j]]_vars

\* The jobs whose group is on the host and known to the spec or to _start_job.
OnHost == {j \in Jobs : \E k \in Launch :
              pgroup_alive(j, k) /\ (k = pgid[j] \/ (k = launches[j] /\ at[j] = "spawned"))}

\* Dispatch keeps the host within max_jobs, over daemon restarts too.
Capacity == Cardinality(OnHost) <= MaxJobs

\* A command that is stopped is one the record says is paused (SUSPENDED, or an
\* intent that names its group), except under a terminal label that the daemon
\* has still to act on: by the signal it is about to send, or by its next walk.
NoFrozenCommand ==
    \A j \in Jobs : \A k \in stopped[j] :
        "command" \in members[j][k] =>
            \/ state[j] = "SUSPENDED"
            \/ intent[j] = k
            \/ /\ is_terminal(j)
               /\ \/ at[j] = "signal"
                  \/ step \in {"down", "leave"}
                  \/ step = "walk" /\ j \in todo

\* A job is launched once per unit of its retry budget: no crash, restart or
\* race of a claim makes a double dispatch.
LaunchedWithinBudget == \A j \in Jobs : launches[j] <= retries[j] + 1

\* The exit marker that a reap of job j would read is from j's current launch.
MarkerIsOwn ==
    \A j \in Jobs :
        /\ state[j] \in {"RUNNING", "SUSPENDED"}
        /\ marker[cwd[j]] # NoMarker
        => marker[cwd[j]].job = j /\ marker[cwd[j]].launch = launches[j]

\* COMPLETED says that the last attempt exited zero, and ABORTED_BY_QUEUE of a
\* recorded group that no exit code can be recovered from its marker.
OutcomeIsTrue ==
    \A j \in Jobs :
        /\ state[j] = "COMPLETED" => launches[j] # 0 /\ exits[j][launches[j]] = "zero"
        /\ state[j] = "ABORTED_BY_QUEUE" /\ pgid[j] # 0 => marker[cwd[j]] = NoMarker

\* A workspace has at most one job that is not terminal, siblings included.
OneJobPerWorkspace ==
    \A i, j \in Jobs :
        /\ cwd[i] = cwd[j]
        /\ state[i] # "absent" /\ state[j] # "absent"
        /\ ~is_terminal(i) /\ ~is_terminal(j)
        => i = j

-----------------------------------------------------------------------------
(* Liveness. *)

\* Nothing lingers.  A terminal job leaves the host and gives its slot back,
\* even if its command ignores SIGTERM and the daemon dies on the way (STATE-2
\* and STATE-3); a job whose processes have ended does not stay RUNNING or
\* SUSPENDED; a durable pause intent is finished, by its pauser or by the sweep
\* (reconcile_pause_intents), unless a retry has taken the group it names off the
\* record (_maybe_retry clears pgid and keeps the intent).  What is said not to
\* last is left only by what ends it: a label is final (TerminalIsFinal), and a
\* group that has ended stays so until its job does.
NothingLingers ==
    \A j \in Jobs :
        /\ []<>(is_terminal(j) => /\ j \notin Charged
                                  /\ pgid[j] # 0 => ~pgroup_alive(j, pgid[j]))
        /\ []<>~(/\ state[j] \in {"RUNNING", "SUSPENDED"}
                 /\ pgid[j] # 0
                 /\ members[j][pgid[j]] \subseteq Zombie)
        /\ []<>(intent[j] = 0 \/ (retries[j] # 0 /\ intent[j] # pgid[j]))

-----------------------------------------------------------------------------
(* What comments of the daemon say and the code does not keep. *)

\* A durable pause intent does not stay (reconcile_pause_intents: "Finish every
\* durable local pause intent visible to this caller").
IntentFinishes == \A j \in Jobs : intent[j] # 0 ~> intent[j] = 0

\* Scratch is removed only once the process group is gone ("Deleting scratch in
\* either case races active work. Only callers that observed the local process
\* group or remote scheduler job exit may opt into cleanup").
CleanedAfterExit ==
    \A j \in cleaned : \A k \in Launch : ~pgroup_alive(j, k)

\* An orphan that ends under a label someone else set has its scratch removed
\* ("Watchdog/user-killed orphans therefore clean up only after they are
\* actually gone too").
GoneOrphanIsCleaned ==
    [][\A j \in orphans :
           j \notin orphans' /\ step' # "down" /\ state'[j] \in TERMINAL_STATES
               => j \in cleaned']_vars

\* _auto_resume resubmits only what this walk itself moved to ABORTED_BY_QUEUE
\* ("specs THIS startup pass moves to ABORTED_BY_QUEUE from a RUNNING entry
\* state").
OnlyAbortedResumes == \A j \in aborted : state[j] = "ABORTED_BY_QUEUE"

-----------------------------------------------------------------------------
(* The strengthening of OneAttempt that every step preserves. *)

\* Nothing of any launch of j is alive.
NoProcess(j) == \A k \in Launch : members[j][k] = {}

\* Only the last launch has processes, and a wrapper that reports an exit code
\* has waited for its command.
Processes(j) ==
    /\ \A k \in Launch : k # launches[j] => members[j][k] = {}
    /\ \A k \in Launch : k > launches[j] => exits[j][k] = "none"
    /\ \A k \in Launch : exits[j][k] # "none" => "command" \notin members[j][k]
    /\ \A k \in Launch : members[j][k] \cap Outcome # {} => members[j][k] \subseteq Zombie

\* A recorded group is the last one launched, a job in the daemon's memory has
\* its group on record, and a job has no process when it is PENDING (again), or
\* anywhere in a dispatch before the launch.  A pauser owns a RUNNING row.
Record(j) ==
    /\ pgid[j] # 0 => pgid[j] = launches[j]
    /\ pausing[j] # "none" => state[j] = "RUNNING" /\ pgid[j] # 0
    /\ j \in running \cup orphans => pgid[j] # 0
    /\ ~(j \in running /\ j \in orphans)
    /\ state[j] \in {"absent", "PENDING"} =>
           NoProcess(j) /\ j \notin running \cup orphans /\ at[j] \notin {"claimed", "spawned"}
    /\ at[j] \in {"setup", "claimed"} => NoProcess(j) /\ launches[j] < MaxLaunches
    /\ at[j] = "claimed" => pgid[j] = 0
    /\ at[j] = "spawned" => launches[j] # 0
    /\ at[j] \in {"setup", "claimed", "spawned"} =>
           step = "dispatch" /\ j \notin running \cup orphans
    /\ at[j] \in {"walk RUNNING", "walk SUSPENDED"} => step = "walk" /\ j \in todo
    /\ step = "down" => j \notin running \cup orphans
    /\ step = "walk" => j \notin running /\ (j \in todo => j \notin orphans)
    /\ step = "running" /\ j \in todo => j \in running
    /\ step = "orphans" /\ j \in todo => j \in orphans

\* The inductive invariant behind OneAttempt.
AttemptInv == TypeOK /\ \A j \in Jobs : Processes(j) /\ Record(j)

=============================================================================
