------------------------ MODULE LocalJobHostProofs ------------------------
(***************************************************************************)
(* What LocalJob says of a host, for every value of its constants: no       *)
(* command stays stopped that nobody will continue, the outcome that is     *)
(* recorded of a job is the true one, and the jobs on the host fit          *)
(* max_jobs.  Each has an inductive invariant of its own beside AttemptInv. *)
(***************************************************************************)
EXTENDS LocalJobProofs

-----------------------------------------------------------------------------
(* Stopped commands. *)

\* The command of j's last launch is stopped.
Frozen(j) == launches[j] \in stopped[j] /\ "command" \in members[j][launches[j]]

\* What continues or kills it: a resume_job, the sweep of the intents, or the
\* signal or the walk that a terminal label is still to meet.
Excused(j) ==
    \/ state[j] = "SUSPENDED"
    \/ intent[j] = pgid[j]
    \/ /\ is_terminal(j)
       /\ \/ at[j] = "signal"
          \/ step \in {"down", "leave"}
          \/ step = "walk" /\ j \in todo /\ at[j] = "idle"

\* A pauser's intent names the recorded group while it holds the spec lock, only
\* groups that were launched are stopped, and a stopped command is one of the
\* recorded group.  A job that the walk has read is not excused by its label: it
\* got that label from a kill_job, which continued the group.
Pause(j) ==
    /\ pausing[j] # "none" => intent[j] = pgid[j]
    /\ \A k \in stopped[j] : k <= launches[j]
    /\ Frozen(j) => pgid[j] # 0 /\ Excused(j)
    /\ step = "down" => at[j] = "idle"

\* The strengthening of NoFrozenCommand.
PauseInv == AttemptInv /\ \A j \in Jobs : Pause(j)

\* A stopped command is one of the last launch, and of the recorded group.
LEMMA FrozenHas ==
  ASSUME PauseInv, NEW j \in Jobs, Frozen(j)
  PROVE  /\ pgid[j] = launches[j] /\ pgid[j] # 0 /\ pgid[j] \in Launch
         /\ "command" \in members[j][pgid[j]] /\ ~NoProcess(j)
         /\ Excused(j)
<1>1. pgid[j] # 0 /\ Excused(j)
  BY Zenon DEF PauseInv, Pause
<1>2. pgid[j] = launches[j] /\ pgid[j] \in Launch
  BY <1>1, Zenon DEF PauseInv, AttemptInv, Record, TypeOK
<1>3. "command" \in members[j][pgid[j]]
  BY <1>2, Zenon DEF Frozen
<1> QED
  BY <1>1, <1>2, <1>3, Zenon DEF NoProcess

\* A step that launches and stops nothing of job i.
LEMMA PauseFrame ==
  ASSUME PauseInv, NEW i \in Jobs, Shrinks, launches'[i] = launches[i],
         stopped'[i] \subseteq stopped[i],
         pausing'[i] # "none" => intent'[i] = pgid'[i],
         step' = "down" => at'[i] = "idle",
         Frozen(i) /\ Frozen(i)' => pgid'[i] # 0 /\ Excused(i)'
  PROVE  Pause(i)'
<1>1. Frozen(i)' => Frozen(i)
  <2> SUFFICES ASSUME Frozen(i)' PROVE Frozen(i)
    BY Zenon
  <2>1. launches[i] \in stopped[i] /\ "command" \in members'[i][launches[i]]
    BY Zenon DEF Frozen
  <2>2. launches[i] \in Launch
    BY <2>1, Zenon DEF PauseInv, AttemptInv, TypeOK
  <2> QED
    BY <2>1, <2>2, Zenon DEF Shrinks, Frozen
<1>2. \A k \in stopped'[i] : k <= launches'[i]
  BY Zenon DEF PauseInv, Pause
<1> QED
  BY <1>1, <1>2, Zenon DEF Pause


\* dispatcher.launch: the new group is not among those stopped so far.
LEMMA PauseLaunch ==
  ASSUME PauseInv, NEW j \in Jobs, LaunchJob(j)
  PROVE  Pause(j)'
<1>1. /\ launches[j] \in Nat /\ launches'[j] = launches[j] + 1 /\ stopped'[j] = stopped[j]
      /\ stopped[j] \subseteq Launch
      /\ pausing' = pausing /\ pgid' = pgid /\ step' = step
  BY DEF LaunchJob, PauseInv, AttemptInv, TypeOK, Launch, specVars, diskVars, memVars
<1>2. pgid[j] = 0 /\ step = "dispatch"
  BY Zenon DEF LaunchJob, PauseInv, AttemptInv, Record
<1>3. pausing[j] = "none"
  BY <1>2, Zenon DEF PauseInv, AttemptInv, Record
<1>4. \A k \in stopped[j] : k <= launches[j] /\ k \in Nat
  BY <1>1 DEF PauseInv, Pause, Launch
<1>5. ~Frozen(j)' /\ \A k \in stopped'[j] : k <= launches'[j]
  BY <1>1, <1>4 DEF Frozen
<1> QED
  BY <1>1, <1>2, <1>3, <1>5, Zenon DEF Pause

\* The other steps of job j keep Pause(j).
LEMMA PauseJobStep ==
  ASSUME PauseInv, NEW j \in Jobs, JobStep(j), ~auto_resume(j), ~LaunchJob(j)
  PROVE  Pause(j)'
<1> USE DEF specVars, diskVars, osVars, memVars, pcVars
<1>t. /\ state \in [Jobs -> JobState] /\ pgid \in [Jobs -> Launch \cup {0}]
      /\ intent \in [Jobs -> Launch \cup {0}]
      /\ stopped \in [Jobs -> SUBSET Launch]
      /\ launches \in [Jobs -> Launch \cup {0}]
      /\ at \in [Jobs -> Stage]
      /\ pausing \in [Jobs -> {"none", "armed", "signalled"}]
      /\ AttemptInv /\ Record(j)
  BY Zenon DEF PauseInv, AttemptInv, TypeOK
<1>q. Shrinks /\ UNCHANGED launches
  BY <1>t, JobStepShrinks, Zenon
<1>p. /\ pausing[j] # "none" => intent[j] = pgid[j]
      /\ step = "down" => at[j] = "idle"
  BY Zenon DEF PauseInv, Pause
\* Job j's pause, its record and its place in the loop are as before.
<1>s. ASSUME UNCHANGED <<state, pgid, intent, pausing, stopped, step, at>>,
             step = "walk" /\ j \in todo => j \in todo'
      PROVE  Pause(j)'
  <2>1. Frozen(j) => pgid'[j] # 0 /\ Excused(j)'
    BY <1>s, FrozenHas, Zenon DEF Excused, is_terminal
  <2> QED
    BY <1>s, <1>q, <1>p, <2>1, PauseFrame, Zenon
\* The recorded group is continued.
<1>c. ASSUME stopped' = [stopped EXCEPT ![j] = @ \ {pgid[j]}],
             pausing'[j] # "none" => intent'[j] = pgid'[j],
             step' = "down" => at'[j] = "idle"
      PROVE  Pause(j)'
  <2>1. stopped'[j] = stopped[j] \ {pgid[j]}
    BY <1>t, <1>c, Zenon
  <2>2. ~(Frozen(j) /\ Frozen(j)')
    <3>1. Frozen(j)' => launches[j] \in stopped'[j]
      BY <1>q, Zenon DEF Frozen
    <3> QED
      BY <2>1, <3>1, FrozenHas, Zenon
  <2>3. stopped'[j] \subseteq stopped[j]
    BY <2>1, Zenon
  <2> QED
    BY <1>c, <1>q, <2>2, <2>3, PauseFrame, Zenon
\* No command of job j is stopped.
<1>n. ASSUME ~Frozen(j), UNCHANGED stopped, step' = step,
             pausing'[j] # "none" => intent'[j] = pgid'[j],
             at'[j] = "idle" \/ at[j] # "idle" \/ step # "down"
      PROVE  Pause(j)'
  <2>1. step' = "down" => at'[j] = "idle"
    BY <1>n, <1>p, Zenon
  <2> QED
    BY <1>n, <1>q, <2>1, PauseFrame, Zenon
\* A job without processes has none that is stopped.
<1>e. ASSUME NoProcess(j) \/ pgid[j] = 0 \/ members[j][pgid[j]] = {}
      PROVE  ~Frozen(j)
  BY <1>e, FrozenHas, Zenon DEF NoProcess
<1>1. CASE ProcessStep(j) \/ DeadlinePasses(j)
  <2>1. UNCHANGED <<state, pgid, intent, pausing, stopped, step, at, todo>>
    BY <1>1, ZenonT(30)
       DEF ProcessStep, CommandExits, WrapperMarks, WrapperExits, WrapperKilled, DeadlinePasses
  <2> QED
    BY <1>s, <2>1, Zenon
<1>2. CASE kill_job(j)
  <2>1. /\ pausing' = pausing /\ pausing[j] = "none" /\ step' = step /\ at' = at
    BY <1>2, Zenon DEF kill_job, LockFree
  <2>2. CASE state[j] # "PENDING" /\ pgid[j] # 0
    <3>1. stopped' = [stopped EXCEPT ![j] = @ \ {pgid[j]}]
      BY <1>2, <2>2, Zenon DEF kill_job, TermGroup
    <3> QED
      BY <1>c, <1>p, <2>1, <3>1, Zenon
  <2>3. CASE ~(state[j] # "PENDING" /\ pgid[j] # 0)
    <3>1. NoProcess(j) \/ pgid[j] = 0
      BY <1>t, <2>3, Zenon DEF Record
    <3>2. UNCHANGED stopped
      BY <1>2, <2>3, Zenon DEF kill_job
    <3> QED
      BY <1>e, <1>n, <1>p, <2>1, <3>1, <3>2, Zenon
  <2> QED
    BY <2>2, <2>3, Zenon
<1>3. CASE PauseArms(j)
  <2>1. /\ intent'[j] = pgid'[j] /\ pgid'[j] # 0 /\ step' = step /\ at' = at /\ stopped' = stopped
    BY <1>t, <1>3, Zenon DEF PauseArms
  <2>2. Excused(j)'
    BY <2>1, Zenon DEF Excused
  <2> QED
    BY <1>p, <1>q, <2>1, <2>2, PauseFrame, Zenon
<1>4. CASE PauseSignals(j)
  <2>1. /\ pgid[j] # 0 /\ pgid[j] = launches[j] /\ intent[j] = pgid[j]
        /\ UNCHANGED <<state, pgid, launches, members, step, at>>
    BY <1>t, <1>p, <1>4, Zenon DEF PauseSignals, Record
  <2>2. CASE pgroup_alive(j, pgid[j])
    <3>1. stopped' = [stopped EXCEPT ![j] = @ \cup {pgid[j]}] /\ intent' = intent
      BY <1>4, <2>2, Zenon DEF PauseSignals
    <3>2. \A k \in stopped'[j] : k <= launches'[j]
      <4>1. \A k \in stopped[j] : k <= launches[j]
        BY Zenon DEF PauseInv, Pause
      <4>2. launches[j] \in Nat
        BY <1>t DEF Launch
      <4> QED
        BY <1>t, <2>1, <3>1, <4>1, <4>2
    <3>3. Excused(j)'
      BY <2>1, <3>1, Zenon DEF Excused
    <3> QED
      BY <1>p, <2>1, <3>1, <3>2, <3>3, Zenon DEF Pause
  <2>3. CASE ~pgroup_alive(j, pgid[j])
    <3>1. pausing'[j] = "none" /\ stopped' = stopped
      BY <1>t, <1>4, <2>3, Zenon DEF PauseSignals
    <3>2. members[j][pgid[j]] = {}
      BY <2>3, Zenon DEF pgroup_alive
    <3> QED
      BY <1>e, <1>n, <1>p, <2>1, <3>1, <3>2, Zenon
  <2> QED
    BY <2>2, <2>3, Zenon
<1>5. CASE PauseCommits(j)
  <2>1. /\ state'[j] = "SUSPENDED" /\ pgid' = pgid /\ pausing'[j] = "none"
        /\ step' = step /\ at' = at /\ stopped' = stopped
    BY <1>t, <1>5, Zenon DEF PauseCommits
  <2>2. Excused(j)'
    BY <2>1, Zenon DEF Excused
  <2>3. pgid[j] # 0
    BY <1>t, <1>5, Zenon DEF PauseCommits, Record
  <2> QED
    BY <1>p, <1>q, <2>1, <2>2, <2>3, PauseFrame, Zenon
<1>6. CASE PauserDies(j)
  <2>1. /\ pausing'[j] = "none" /\ UNCHANGED <<state, pgid, intent, stopped, step, at, todo>>
    BY <1>t, <1>6, Zenon DEF PauserDies
  <2>2. Frozen(j) => pgid'[j] # 0 /\ Excused(j)'
    BY <2>1, FrozenHas, Zenon DEF Excused, is_terminal
  <2> QED
    BY <1>p, <1>q, <2>1, <2>2, PauseFrame, Zenon
<1>7. CASE resume_job(j)
  <2>1. /\ stopped' = [stopped EXCEPT ![j] = @ \ {pgid[j]}]
        /\ pausing' = pausing /\ pausing[j] = "none" /\ step' = step /\ at' = at
    BY <1>7, Zenon DEF resume_job, LockFree
  <2> QED
    BY <1>c, <1>p, <2>1, Zenon

<1>8. CASE WalkSettled(j)
  <2>1. /\ step' = step /\ at' = at /\ UNCHANGED <<pausing, intent, pgid>>
        /\ state[j] = "PENDING" \/ is_terminal(j)
    BY <1>8, Zenon DEF WalkSettled
  <2>2. CASE is_terminal(j) /\ pgid[j] # 0
    <3>1. stopped' = [stopped EXCEPT ![j] = @ \ {pgid[j]}]
      BY <1>8, <2>2, Zenon DEF WalkSettled, KillGroup
    <3> QED
      BY <1>c, <1>p, <2>1, <3>1, Zenon
  <2>3. CASE ~(is_terminal(j) /\ pgid[j] # 0)
    <3>1. NoProcess(j) \/ pgid[j] = 0
      BY <1>t, <2>1, <2>3, Zenon DEF Record
    <3>2. UNCHANGED stopped
      BY <1>8, <2>3, Zenon DEF WalkSettled
    <3> QED
      BY <1>e, <1>n, <1>p, <2>1, <3>1, <3>2, Zenon
  <2> QED
    BY <2>2, <2>3, Zenon
<1>9. CASE WalkReads(j)
  <2>1. /\ step = "walk" /\ state[j] \in {"RUNNING", "SUSPENDED"}
        /\ UNCHANGED <<state, pgid, intent, pausing, stopped, step>>
    BY <1>9, Zenon DEF WalkReads, On
  <2>2. Frozen(j) => pgid'[j] # 0 /\ Excused(j)'
    BY <2>1, FrozenHas, Zenon DEF Excused, is_terminal, TERMINAL_STATES
  <2>3. step' # "down"
    BY <2>1, Zenon
  <2> QED
    BY <1>p, <1>q, <2>1, <2>2, <2>3, PauseFrame, Zenon
<1>10. CASE WalkAborts(j)
  <2>1. /\ pgid[j] = 0 /\ step' = step /\ at[j] # "idle" /\ UNCHANGED stopped
        /\ pausing'[j] = "none"
    BY <1>10, Zenon DEF WalkAborts, LockFree
  <2> QED
    BY <1>e, <1>n, <2>1, Zenon
<1>11. CASE WalkReattaches(j)
  <2>1. /\ at[j] \in Walked /\ UNCHANGED <<state, pgid, intent, pausing, stopped, step>>
        /\ at'[j] = "idle"
    BY <1>t, <1>11, Zenon DEF WalkReattaches, SetStage, Walked
  <2>2. step = "walk" /\ at[j] # "idle" /\ at[j] # "signal"
    BY <1>t, <2>1, Zenon DEF Record, Walked
  <2>3. Frozen(j) => pgid'[j] # 0 /\ Excused(j)'
    BY <2>1, <2>2, FrozenHas, Zenon DEF Excused
  <2> QED
    BY <1>p, <1>q, <2>1, <2>3, PauseFrame, Zenon
<1>12. CASE WalkFinishes(j)
  <2>1. /\ members[j][pgid[j]] = {} /\ step' = step /\ at[j] # "idle" /\ UNCHANGED stopped
        /\ pausing'[j] = "none"
    BY <1>12, Zenon DEF WalkFinishes, LockFree, pgroup_alive
  <2> QED
    BY <1>e, <1>n, <2>1, Zenon
<1>13. CASE reconcile_pause_intent(j)
  <2>1. /\ UNCHANGED <<pgid, members, step, at, pausing>> /\ pausing[j] = "none"
        /\ step = "intents" /\ at[j] = "idle"
    BY <1>13, Zenon DEF reconcile_pause_intent, On, Idle, LockFree
  <2>2. CASE intent[j] # pgid[j]
    <3>1. UNCHANGED <<state, intent, stopped>>
      BY <1>13, <2>2, Zenon DEF reconcile_pause_intent
    <3> QED
      BY <1>s, <2>1, <3>1, Zenon
  <2>3. CASE intent[j] = pgid[j] /\ state[j] \notin {"RUNNING", "SUSPENDED"}
    <3>1. stopped' = [stopped EXCEPT ![j] = @ \ {pgid[j]}]
      BY <1>13, <2>3, Zenon DEF reconcile_pause_intent
    <3> QED
      BY <1>c, <2>1, <3>1, Zenon
  <2>4. CASE intent[j] = pgid[j] /\ state[j] \in {"RUNNING", "SUSPENDED"} /\ pgroup_alive(j, pgid[j])
    <3>1. /\ stopped' = [stopped EXCEPT ![j] = @ \cup {pgid[j]}]
          /\ state' = [state EXCEPT ![j] = "SUSPENDED"]
          /\ intent[j] # 0
      BY <1>13, <2>4, Zenon DEF reconcile_pause_intent
    <3>2. pgid[j] # 0 /\ pgid[j] = launches[j]
      BY <1>t, <2>4, <3>1, Zenon DEF Record
    <3>3. \A k \in stopped'[j] : k <= launches'[j]
      <4>1. \A k \in stopped[j] : k <= launches[j]
        BY Zenon DEF PauseInv, Pause
      <4>2. launches[j] \in Nat
        BY <1>t DEF Launch
      <4> QED
        BY <1>t, <1>q, <3>1, <3>2, <4>1, <4>2
    <3>4. Excused(j)'
      BY <1>t, <3>1, Zenon DEF Excused
    <3> QED
      BY <2>1, <3>2, <3>3, <3>4, Zenon DEF Pause
  <2>5. CASE intent[j] = pgid[j] /\ state[j] \in {"RUNNING", "SUSPENDED"} /\ ~pgroup_alive(j, pgid[j])
    <3>1. stopped' = stopped /\ members[j][pgid[j]] = {}
      BY <1>13, <2>5, Zenon DEF reconcile_pause_intent, pgroup_alive
    <3> QED
      BY <1>e, <1>n, <2>1, <3>1, ZenonT(30)
  <2> QED
    BY <2>2, <2>3, <2>4, <2>5, Zenon
<1>14. CASE record_finish(j)
  <2>1. /\ pausing'[j] = "none" /\ UNCHANGED <<step, at>> /\ step = "running" /\ at[j] = "idle"
    BY <1>14, Zenon DEF record_finish, On, Idle, LockFree
  <2>2. PICK z \in members[j][pgid[j]] \cap Zombie :
          /\ members' = [members EXCEPT ![j][pgid[j]] = IF Stranded(j, z) THEN {} ELSE @ \ Zombie]
          /\ stopped' = IF Stranded(j, z)
                        THEN [stopped EXCEPT ![j] = @ \ {pgid[j]}]
                        ELSE stopped
    BY <1>14, Zenon DEF record_finish
  <2>3. CASE Stranded(j, z)
    BY <1>c, <2>1, <2>2, <2>3, Zenon
  <2>4. CASE ~Stranded(j, z)
    <3>1. ~Frozen(j)
      <4> SUFFICES ASSUME Frozen(j) PROVE FALSE
        BY Zenon
      <4>1. pgid[j] # 0 /\ "command" \in members[j][pgid[j]] /\ Excused(j)
        BY FrozenHas, Zenon
      <4>2. members[j][pgid[j]] \ Zombie # {}
        BY <4>1 DEF Zombie, Outcome
      <4>3. state[j] # "SUSPENDED" /\ intent[j] = 0
        BY <2>4, <4>2, Zenon DEF Stranded
      <4> QED
        BY <2>1, <4>1, <4>3, Zenon DEF Excused
    <3> QED
      BY <1>n, <2>1, <2>2, <2>4, <3>1, Zenon
  <2> QED
    BY <2>3, <2>4, Zenon
<1>15. CASE OrphanEnds(j)
  <2>1. /\ stopped' = [stopped EXCEPT ![j] = @ \ {pgid[j]}]
        /\ pausing' = pausing /\ pausing[j] = "none" /\ step' = step /\ at' = at
    BY <1>15, Zenon DEF OrphanEnds, KillGroup, LockFree
  <2> QED
    BY <1>c, <1>p, <2>1, Zenon
<1>16. CASE escalate_if_killed(j) \/ reconcile_terminal_survivor(j) \/ WatchdogKills(j)
  <2>1. /\ UNCHANGED <<state, pgid, intent, pausing, step, at>> /\ step # "walk"
    BY <1>16, ZenonT(30) DEF escalate_if_killed, reconcile_terminal_survivor, WatchdogKills, On
  <2>2. stopped' = stopped \/ stopped' = [stopped EXCEPT ![j] = @ \ {pgid[j]}]
    BY <1>16, ZenonT(30)
       DEF escalate_if_killed, reconcile_terminal_survivor, WatchdogKills, KillGroup
  <2> QED
    BY <1>c, <1>p, <1>s, <2>1, <2>2, Zenon
<1>17. CASE NoPauseIntent(j) \/ OrphanStays(j) \/ WatchdogOk(j) \/ DispatchHeld(j)
  <2>1. /\ UNCHANGED <<state, pgid, intent, pausing, stopped, step, at>> /\ step # "walk"
    BY <1>17, ZenonT(30) DEF NoPauseIntent, OrphanStays, WatchdogOk, DispatchHeld, On
  <2> QED
    BY <1>s, <2>1, Zenon
<1>18. CASE WatchdogVerdict(j)
  <2>1. /\ UNCHANGED <<state, pgid, intent, pausing, stopped, step>> /\ step = "watchdog"
        /\ at[j] = "idle"
    BY <1>18, Zenon DEF WatchdogVerdict, On, Idle
  <2>2. Frozen(j) => pgid'[j] # 0 /\ Excused(j)'
    BY <2>1, FrozenHas, Zenon DEF Excused
  <2>3. step' # "down"
    BY <2>1, Zenon
  <2> QED
    BY <1>p, <1>q, <2>1, <2>2, <2>3, PauseFrame, ZenonT(30)
<1>19. CASE WatchdogMarks(j)
  <2>1. /\ UNCHANGED <<pgid, intent, pausing, stopped, step>> /\ at[j] # "idle"
        /\ at'[j] = "signal" /\ state'[j] = IF is_terminal(j) THEN state[j] ELSE "TIME_EXCEEDED"
    BY <1>t, <1>19, Zenon DEF WatchdogMarks, SetStage
  <2>2. Excused(j)'
    BY <2>1, Zenon DEF Excused, is_terminal, TERMINAL_STATES
  <2>3. step' # "down"
    BY <1>p, <2>1, Zenon
  <2>4. Frozen(j) => pgid'[j] # 0
    BY <2>1, FrozenHas, Zenon
  <2> QED
    BY <1>p, <1>q, <2>1, <2>2, <2>3, <2>4, PauseFrame, ZenonT(30)
<1>20. CASE WatchdogSignals(j)
  <2>1. /\ stopped' = [stopped EXCEPT ![j] = @ \ {pgid[j]}]
        /\ UNCHANGED <<pausing, intent, pgid>> /\ at'[j] = "idle"
    BY <1>t, <1>20, Zenon DEF WatchdogSignals, TermGroup, SetStage
  <2> QED
    BY <1>c, <1>p, <2>1, Zenon
<1>21. CASE StartRejected(j) \/ StartJob(j) \/ ClaimJob(j) \/ ClaimGivesUp(j) \/ LaunchFails(j)
  <2>1. NoProcess(j)
    BY <1>t, <1>21, ZenonT(30)
       DEF StartRejected, StartJob, ClaimJob, ClaimGivesUp, LaunchFails, Record
  <2>2. /\ UNCHANGED <<stopped, step, pausing, intent>> /\ step = "dispatch"
    BY <1>t, <1>21, ZenonT(30)
       DEF StartRejected, StartJob, ClaimJob, ClaimGivesUp, LaunchFails, Record, On
  <2>3. pausing[j] # "none" => pgid' = pgid
    BY <1>21, ZenonT(30)
       DEF StartRejected, StartJob, ClaimJob, ClaimGivesUp, LaunchFails, LockFree
  <2> QED
    BY <1>e, <1>n, <1>p, <2>1, <2>2, <2>3, Zenon
<1>22. CASE FillPid(j)
  <2>1. /\ at'[j] = "idle" /\ UNCHANGED <<state, intent, stopped, step, pausing>>
        /\ pausing[j] = "none" /\ at[j] = "spawned"
    BY <1>t, <1>22, Zenon DEF FillPid, SetStage, LockFree
  <2>2. step = "dispatch"
    BY <1>t, <2>1, Zenon DEF Record
  <2>3. Frozen(j) => pgid'[j] = pgid[j]
    <3>1. pgid' = pgid \/ pgid' = [pgid EXCEPT ![j] = launches[j]]
      BY <1>22, Zenon DEF FillPid
    <3> QED
      BY <1>t, <3>1, FrozenHas, Zenon
  <2>4. Frozen(j) => pgid'[j] # 0 /\ Excused(j)'
    BY <2>1, <2>2, <2>3, FrozenHas, Zenon DEF Excused
  <2> QED
    BY <1>q, <2>1, <2>4, PauseFrame, Zenon
<1> QED
  BY <1>1, <1>2, <1>3, <1>4, <1>5, <1>6, <1>7, <1>8, <1>9, <1>10, <1>11, <1>12, <1>13,
     <1>14, <1>15, <1>16, <1>17, <1>18, <1>19, <1>20, <1>21, <1>22, ZenonT(30)
     DEF JobStep, WalkStep, PassStep, DispatchStep, CliStep, PauserStep


\* _auto_resume makes a job that has no process.
LEMMA PauseAutoResume ==
  ASSUME PauseInv, NEW j \in Jobs, auto_resume(j), NEW i \in Jobs
  PROVE  Pause(i)'
<1> USE DEF specVars, diskVars, osVars, memVars, pcVars
<1>1. /\ UNCHANGED <<pgid, intent, pausing, stopped, launches, members, step, at>>
      /\ step \in {"resume", "leave"}
  BY Zenon DEF auto_resume
<1>2. Shrinks
  BY <1>1, SameIsQuiet, ZenonT(30) DEF PauseInv, Quiet, Shrinks, AttemptInv, Processes
<1>3. state[i] # "absent" => state'[i] = state[i]
  BY Zenon DEF auto_resume, PauseInv, AttemptInv, TypeOK
<1>4. state[i] = "absent" => NoProcess(i)
  BY ZenonT(30) DEF PauseInv, AttemptInv, Record
<1>5. Frozen(i) => pgid'[i] # 0 /\ Excused(i)'
  BY <1>1, <1>3, <1>4, FrozenHas, Zenon DEF Excused, is_terminal
<1>6. pausing[i] # "none" => intent[i] = pgid[i]
  BY Zenon DEF PauseInv, Pause
<1> QED
  BY <1>1, <1>2, <1>5, <1>6, PauseFrame, Zenon

\* Every step keeps Pause.
LEMMA PauseStep == PauseInv /\ [Next]_vars => PauseInv'
<1> SUFFICES ASSUME PauseInv, [Next]_vars, NEW i \in Jobs
             PROVE  Pause(i)'
  BY AttemptNext, Zenon DEF PauseInv
<1> USE DEF specVars, diskVars, osVars, memVars, pcVars
<1>a. AttemptInv /\ Pause(i)
  BY Zenon DEF PauseInv
<1>b. /\ pausing[i] # "none" => intent[i] = pgid[i]
      /\ step = "down" => at[i] = "idle"
  BY Zenon DEF PauseInv, Pause
<1>c. UNCHANGED members => Shrinks
  BY <1>a, Zenon DEF Shrinks, AttemptInv, Processes
<1>1. ASSUME NEW j \in Jobs, JobStep(j) PROVE Pause(i)'
  <2>1. CASE auto_resume(j)
    BY <2>1, PauseAutoResume, Zenon
  <2>2. CASE ~auto_resume(j) /\ i = j
    BY <1>1, <2>2, PauseLaunch, PauseJobStep, Zenon
  <2>3. CASE ~auto_resume(j) /\ i # j
    <3>1. Untouched(i)
      BY <1>1, <1>a, <2>3, JobStepAlone, Zenon
    <3>2. Pause(i)'
      BY <1>a, <3>1, Zenon DEF Pause, Frozen, Excused, Untouched, is_terminal
    <3> QED
      BY <3>2, Zenon
  <2> QED
    BY <2>1, <2>2, <2>3, Zenon
<1>2. CASE DaemonStarts
  <2>1. /\ UNCHANGED <<state, pgid, intent, pausing, stopped, launches, members, at>>
        /\ step = "down" /\ step' = "walk"
        /\ state[i] # "absent" => i \in todo'
    BY <1>2, Zenon DEF DaemonStarts
  <2>2. Frozen(i) => pgid'[i] # 0 /\ Excused(i)'
    BY <1>b, <2>1, FrozenHas, Zenon DEF Excused, is_terminal, TERMINAL_STATES
  <2>3. step' # "down"
    BY <2>1, Zenon
  <2> QED
    BY <1>b, <1>c, <2>1, <2>2, <2>3, PauseFrame, ZenonT(30)
<1>3. CASE WalkEnds \/ PassEnds
  <2>1. /\ UNCHANGED <<state, pgid, intent, pausing, stopped, launches, members, at>>
        /\ step \notin {"down", "leave"} /\ todo = {} /\ at[i] = "idle" /\ step' # "down"
    BY <1>3, Zenon DEF WalkEnds, PassEnds, Idle, Pass, After
  <2>2. Frozen(i) => pgid'[i] # 0 /\ Excused(i)'
    BY <2>1, FrozenHas, Zenon DEF Excused
  <2> QED
    BY <1>b, <1>c, <2>1, <2>2, PauseFrame, ZenonT(30)
<1>4. CASE WalkStops
  <2>1. /\ UNCHANGED <<state, pgid, intent, pausing, stopped, launches, members, at>>
        /\ step' = "leave"
    BY <1>4, Zenon DEF WalkStops
  <2>2. Frozen(i) => pgid'[i] # 0 /\ Excused(i)'
    BY <2>1, FrozenHas, Zenon DEF Excused, is_terminal
  <2>3. step' # "down"
    BY <2>1, Zenon
  <2> QED
    BY <1>b, <1>c, <2>1, <2>2, <2>3, PauseFrame, ZenonT(30)
<1>5. CASE DaemonLeaves \/ DaemonCrashes
  <2>1. /\ UNCHANGED <<state, pgid, intent, pausing, stopped, launches>>
        /\ step' = "down" /\ at'[i] = "idle"
    BY <1>5, Zenon DEF DaemonLeaves, DaemonCrashes, Forget
  <2>2. Shrinks
    BY <1>c, <1>5 DEF DaemonLeaves, DaemonCrashes, Shrinks, Zombie
  <2>3. Frozen(i) => pgid'[i] # 0 /\ Excused(i)'
    BY <2>1, FrozenHas, Zenon DEF Excused, is_terminal
  <2> QED
    BY <1>b, <2>1, <2>2, <2>3, PauseFrame, Zenon
<1>6. CASE HostReboots
  <2>1. stopped'[i] = {} /\ pausing'[i] = "none" /\ at'[i] = "idle"
    BY <1>6, Zenon DEF HostReboots, Forget
  <2> QED
    BY <2>1, Zenon DEF Pause, Frozen
<1>7. CASE UNCHANGED vars
  BY <1>7, <1>a, Zenon DEF vars, Pause, Frozen, Excused, is_terminal
<1> QED
  BY <1>1, <1>2, <1>3, <1>4, <1>5, <1>6, <1>7, NextSplits, ZenonT(30)

\* No command stays stopped by a pause that the record does not tell, whichever
\* of the pauser, the wrapper and the daemon dies on the way: for any jobs,
\* budgets and number of outages.
THEOREM NoCommandIsForgotten == Spec => []NoFrozenCommand
<1>1. Init => PauseInv
  <2> SUFFICES ASSUME Init PROVE \A j \in Jobs : Pause(j)
    BY AttemptInit, Zenon DEF PauseInv
  <2> QED
    BY Zenon DEF Init, Pause, Frozen
<1>2. PauseInv => NoFrozenCommand
  <2> SUFFICES ASSUME PauseInv, NEW j \in Jobs, NEW k \in stopped[j], "command" \in members[j][k]
               PROVE  \/ state[j] = "SUSPENDED"
                      \/ intent[j] = k
                      \/ /\ is_terminal(j)
                         /\ \/ at[j] = "signal"
                            \/ step \in {"down", "leave"}
                            \/ step = "walk" /\ j \in todo
    BY Zenon DEF NoFrozenCommand
  <2>1. k = launches[j]
    BY Zenon DEF PauseInv, AttemptInv, TypeOK, Processes
  <2>2. Frozen(j)
    BY <2>1, Zenon DEF Frozen
  <2> QED
    BY <2>1, <2>2, FrozenHas, Zenon DEF Excused
<1> QED
  BY <1>1, <1>2, PauseStep, PTL DEF Spec

-----------------------------------------------------------------------------
(* What a step leaves of the processes of a job. *)

\* A group may become S: nothing but zombies are left of zombies, and a new
\* zombie is a child of the daemon, whose exit code is the wrapper's.
Fades(j, k, S) ==
    /\ members[j][k] \subseteq Zombie => S \subseteq Zombie
    /\ S \cap Zombie # {} =>
           members[j][k] \cap Zombie # {} \/ j \in running \/ at[j] = "spawned"
    /\ S \cap Outcome \subseteq members[j][k] \cup {exits[j][k]}

\* Every group of job j may become what the step makes of it.
FadesAll(j) == \A l \in Launch : Fades(j, l, members'[j][l])

\* One group that fades.
LEMMA UpdateFades ==
  ASSUME AttemptInv, NEW j \in Jobs, NEW k, NEW S, members' = [members EXCEPT ![j][k] = S],
         k \in Launch => Fades(j, k, S)
  PROVE  FadesAll(j)
<1> SUFFICES ASSUME NEW l \in Launch PROVE Fades(j, l, members'[j][l])
  BY Zenon DEF FadesAll
<1>1. members \in [Jobs -> [Launch -> SUBSET Member]]
  BY Zenon DEF AttemptInv, TypeOK
<1>2. CASE l = k
  <2>1. members'[j][l] = S
    BY <1>1, <1>2, Zenon
  <2> QED
    BY <1>2, <2>1, Zenon
<1>3. CASE l # k
  <2>1. members'[j][l] = members[j][l]
    BY <1>1, <1>3, Zenon
  <2> QED
    BY <2>1, Zenon DEF Fades
<1> QED
  BY <1>2, <1>3, Zenon

\* What is left of a wrapper is a zombie, of a child of the daemon.
LEMMA RemainsFade ==
  ASSUME NEW j \in Jobs, NEW k \in Launch, NEW z \in Zombie
  PROVE  /\ Remains(j, k, z) \subseteq Zombie /\ Remains(j, k, z) \subseteq {z}
         /\ Remains(j, k, z) # {} => j \in running \/ at[j] = "spawned"
BY Zenon DEF Remains, IsChild

\* Signals, exits and reaps.
LEMMA JobStepFades ==
  ASSUME AttemptInv, NEW j \in Jobs, JobStep(j), ~LaunchJob(j)
  PROVE  FadesAll(j)
<1> USE DEF specVars, diskVars, osVars, memVars, pcVars
<1>0. UNCHANGED members => FadesAll(j)
  BY Zenon DEF FadesAll, Fades
<1>1. ASSUME NEW k, KillGroup(j, k)
      PROVE  FadesAll(j)
  <2>1. k \in Launch => Fades(j, k, AfterKill(j, k))
    <3> SUFFICES ASSUME k \in Launch PROVE Fades(j, k, AfterKill(j, k))
      BY Zenon
    <3>1. "signalled" \in Zombie /\ "signalled" \notin Outcome
      BY Zenon DEF Zombie, Outcome
    <3> QED
      BY <3>1, RemainsFade DEF Fades, AfterKill
  <2> QED
    BY <1>1, <2>1, UpdateFades, ZenonT(30) DEF KillGroup
<1>2. ASSUME NEW k, TermGroup(j, k)
      PROVE  FadesAll(j)
  <2>1. PICK keep \in SUBSET {"wrapper", "command"} :
            members' = [members EXCEPT ![j][k] = AfterTerm(j, k, keep)]
    BY <1>2, ZenonT(30) DEF TermGroup
  <2>2. k \in Launch => Fades(j, k, AfterTerm(j, k, keep))
    <3> SUFFICES ASSUME k \in Launch PROVE Fades(j, k, AfterTerm(j, k, keep))
      BY Zenon
    <3>1. "signalled" \in Zombie /\ "signalled" \notin Outcome /\ "wrapper" \notin Zombie
      BY Zenon DEF Zombie, Outcome
    <3> QED
      BY <3>1, RemainsFade DEF Fades, AfterTerm
  <2> QED
    BY <2>1, <2>2, UpdateFades, Zenon
<1>3. ASSUME NEW k \in Launch,
             CommandExits(j, k) \/ WrapperExits(j, k) \/ WrapperKilled(j, k)
      PROVE  FadesAll(j)
  <2>0. /\ "signalled" \in Zombie /\ "wrapper" \notin Zombie /\ "command" \notin Zombie
        /\ "signalled" \notin Outcome
    BY Zenon DEF Zombie, Outcome
  <2>1. CASE CommandExits(j, k)
    <3>1. Fades(j, k, members[j][k] \ {"command"})
      BY Zenon DEF Fades
    <3> QED
      BY <2>1, <3>1, UpdateFades, Zenon DEF CommandExits
  <2>2. CASE WrapperExits(j, k)
    <3>1. exits[j][k] \in Zombie /\ "wrapper" \in members[j][k]
      BY <2>2 DEF WrapperExits, AttemptInv, TypeOK, Zombie
    <3>2. Fades(j, k, (members[j][k] \ {"wrapper"}) \cup Remains(j, k, exits[j][k]))
      BY <2>0, <3>1, RemainsFade DEF Fades
    <3> QED
      BY <2>2, <3>2, UpdateFades, ZenonT(30) DEF WrapperExits
  <2>3. CASE WrapperKilled(j, k)
    <3>1. "wrapper" \in members[j][k]
      BY <2>3, Zenon DEF WrapperKilled
    <3>2. Fades(j, k, (members[j][k] \ {"wrapper"}) \cup Remains(j, k, "signalled"))
      BY <2>0, <3>1, RemainsFade, Zenon DEF Fades
    <3> QED
      BY <2>3, <3>2, UpdateFades, Zenon DEF WrapperKilled
  <2> QED
    BY <1>3, <2>1, <2>2, <2>3, Zenon
<1>4. CASE record_finish(j)
  <2>1. PICK z \in members[j][pgid[j]] \cap Zombie :
          members' = [members EXCEPT ![j][pgid[j]] = IF Stranded(j, z) THEN {} ELSE @ \ Zombie]
    BY <1>4, Zenon DEF record_finish
  <2> DEFINE S == IF Stranded(j, z) THEN {} ELSE members[j][pgid[j]] \ Zombie
  <2>2. Fades(j, pgid[j], S)
    BY Zenon DEF Fades
  <2>3. members' = [members EXCEPT ![j][pgid[j]] = S]
    BY <2>1, Zenon
  <2> HIDE DEF S
  <2> QED
    BY <2>2, <2>3, UpdateFades, Zenon
<1>5. CASE FillPid(j)
  <2>1. Fades(j, launches[j], {})
    BY Zenon DEF Fades
  <2> QED
    BY <1>0, <1>5, <2>1, UpdateFades, ZenonT(30) DEF FillPid
<1>6. CASE ProcessStep(j)
  BY <1>0, <1>3, <1>6, Zenon DEF ProcessStep, WrapperMarks
<1>7. CASE CliStep(j) \/ PauserStep(j) \/ DeadlinePasses(j)
  BY <1>0, <1>2, <1>7, ZenonT(30)
     DEF CliStep, kill_job, PauseArms, resume_job, PauserStep, PauseSignals, PauseCommits,
         PauserDies, DeadlinePasses
<1>8. CASE WalkStep(j)
  BY <1>0, <1>1, <1>8, ZenonT(30)
     DEF WalkStep, WalkSettled, WalkReads, WalkAborts, WalkReattaches, WalkFinishes, auto_resume
<1>9. CASE PassStep(j) /\ ~record_finish(j)
  <2>1. CASE \/ NoPauseIntent(j) \/ reconcile_pause_intent(j) \/ OrphanStays(j)
             \/ WatchdogOk(j) \/ WatchdogVerdict(j) \/ WatchdogMarks(j)
    BY <1>0, <2>1, ZenonT(30)
       DEF NoPauseIntent, reconcile_pause_intent, OrphanStays, WatchdogOk, WatchdogVerdict,
           WatchdogMarks
  <2>2. CASE \/ escalate_if_killed(j) \/ reconcile_terminal_survivor(j) \/ OrphanEnds(j)
             \/ WatchdogSignals(j) \/ WatchdogKills(j)
    BY <1>0, <1>1, <1>2, <2>2, ZenonT(30)
       DEF escalate_if_killed, reconcile_terminal_survivor, OrphanEnds, WatchdogSignals,
           WatchdogKills
  <2> QED
    BY <1>9, <2>1, <2>2, Zenon DEF PassStep
<1>10. CASE DispatchStep(j) /\ ~FillPid(j)
  BY <1>0, <1>10, ZenonT(30)
     DEF DispatchStep, DispatchHeld, StartRejected, StartJob, ClaimJob, ClaimGivesUp, LaunchFails
<1> QED
  BY <1>4, <1>5, <1>6, <1>7, <1>8, <1>9, <1>10, Zenon DEF JobStep

-----------------------------------------------------------------------------
(* Outcomes. *)

\* Job j's workspace is its own; a collected exit code and a marker are those
\* of the wrapper of its last launch; and a label that reports an end is not
\* put on a claimed job.  The last two clauses are OutcomeIsTrue's, the second
\* of them with what keeps it: an aborted job has no process left to write.
Truth(j) ==
    /\ cwd[j] = j
    /\ \A k \in Launch : members[j][k] \cap Outcome \subseteq {exits[j][k]}
    /\ marker[j] # NoMarker => launches[j] # 0 /\ exits[j][launches[j]] = marker[j].rc
    /\ at[j] \in {"setup", "claimed"} => marker[j] = NoMarker
    /\ at[j] = "claimed" => state[j] \notin {"COMPLETED", "ABORTED_BY_QUEUE"}
    /\ state[j] = "COMPLETED" => launches[j] # 0 /\ exits[j][launches[j]] = "zero"
    /\ state[j] = "ABORTED_BY_QUEUE" /\ pgid[j] # 0 => marker[j] = NoMarker /\ NoProcess(j)

\* The strengthening of OutcomeIsTrue, when nothing is resubmitted.
TruthInv ==
    /\ AttemptInv
    /\ step \in {"resume", "leave"} => todo = {}
    /\ \A j \in Jobs : Truth(j)

\* A reap does not write the marker.
LEMMA RecordOrphanMarker ==
  ASSUME NEW j \in Jobs, RecordOrphan(j)
  PROVE  marker' = marker
BY Zenon DEF RecordOrphan, FinishDisk, diskVars

\* Who writes a marker, or an exit code.
LEMMA MarkerStep ==
  ASSUME NEW j \in Jobs, JobStep(j)
  PROVE  \/ UNCHANGED <<exits, marker>>
         \/ \E k \in Launch : \E rc \in Outcome : WrapperMarks(j, k, rc)
         \/ StartJob(j)
<1> USE DEF diskVars, osVars
<1>1. CASE ProcessStep(j)
  BY <1>1, ZenonT(30) DEF ProcessStep, CommandExits, WrapperExits, WrapperKilled
<1>2. CASE CliStep(j) \/ PauserStep(j) \/ DeadlinePasses(j)
  BY <1>2, ZenonT(30)
     DEF CliStep, kill_job, PauseArms, resume_job, PauserStep, PauseSignals, PauseCommits,
         PauserDies, DeadlinePasses
<1>3. CASE WalkStep(j)
  BY <1>3, RecordOrphanMarker, ZenonT(30)
     DEF WalkStep, WalkSettled, WalkReads, WalkAborts, WalkReattaches, WalkFinishes, auto_resume
<1>4. CASE PassStep(j)
  BY <1>4, RecordOrphanMarker, ZenonT(30)
     DEF PassStep, NoPauseIntent, reconcile_pause_intent, record_finish, FinishDisk,
         escalate_if_killed, reconcile_terminal_survivor, OrphanStays, OrphanEnds,
         WatchdogOk, WatchdogVerdict, WatchdogMarks, WatchdogSignals, WatchdogKills
<1>5. CASE DispatchStep(j)
  BY <1>5, ZenonT(30)
     DEF DispatchStep, DispatchHeld, StartRejected, ClaimJob, ClaimGivesUp, LaunchJob,
         LaunchFails, FillPid
<1> QED
  BY <1>1, <1>2, <1>3, <1>4, <1>5, Zenon DEF JobStep

\* Who writes a label that reports an end, and who a process group.
LEMMA EndingStep ==
  ASSUME AttemptInv, NEW j \in Jobs, JobStep(j), ~auto_resume(j)
  PROVE  /\ cwd' = cwd
         /\ \/ state'[j] = state[j] \/ state'[j] \notin {"COMPLETED", "ABORTED_BY_QUEUE"}
            \/ record_finish(j) \/ WalkAborts(j) \/ WalkFinishes(j) \/ OrphanEnds(j)
         /\ pgid'[j] = pgid[j] \/ pgid'[j] = 0 \/ FillPid(j)
<1> USE DEF specVars
<1>t. state \in [Jobs -> JobState] /\ pgid \in [Jobs -> Launch \cup {0}]
  BY Zenon DEF AttemptInv, TypeOK
<1>f. ASSUME NEW ok, FinishSpec(j, ok)
      PROVE  cwd' = cwd /\ (pgid'[j] = pgid[j] \/ pgid'[j] = 0)
  BY <1>t, <1>f, Zenon DEF FinishSpec
<1>r. ASSUME RecordOrphan(j)
      PROVE  cwd' = cwd /\ (pgid'[j] = pgid[j] \/ pgid'[j] = 0)
  BY <1>f, <1>r, Zenon DEF RecordOrphan
<1>1. CASE ProcessStep(j) \/ DeadlinePasses(j)
  BY <1>1, ZenonT(30)
     DEF ProcessStep, CommandExits, WrapperMarks, WrapperExits, WrapperKilled, DeadlinePasses
<1>2. CASE CliStep(j) \/ PauserStep(j)
  <2>1. UNCHANGED <<cwd, pgid>>
    BY <1>2, ZenonT(30)
       DEF CliStep, kill_job, PauseArms, resume_job, PauserStep, PauseSignals, PauseCommits,
           PauserDies
  <2>2. state' = state \/ \E s \in {"KILLED", "RUNNING", "SUSPENDED"} : state' = [state EXCEPT ![j] = s]
    BY <1>2, Zenon DEF CliStep, kill_job, PauseArms, resume_job, PauserStep, PauseSignals, PauseCommits,
                PauserDies
  <2> QED
    BY <1>t, <2>1, <2>2, Zenon
<1>3. CASE WalkStep(j)
  <2>1. CASE WalkSettled(j) \/ WalkReads(j) \/ WalkReattaches(j)
    BY <2>1, Zenon DEF WalkSettled, WalkReads, WalkReattaches
  <2>2. CASE WalkAborts(j) \/ WalkFinishes(j)
    BY <1>r, <2>2, ZenonT(30) DEF WalkAborts, WalkFinishes
  <2> QED
    BY <1>3, <2>1, <2>2, Zenon DEF WalkStep
<1>4. CASE PassStep(j)
  <2>1. CASE record_finish(j) \/ OrphanEnds(j)
    BY <1>f, <1>r, <2>1, ZenonT(30) DEF record_finish, OrphanEnds
  <2>2. CASE reconcile_pause_intent(j) \/ WatchdogMarks(j)
    <3>1. UNCHANGED <<cwd, pgid>>
      BY <2>2, Zenon DEF reconcile_pause_intent, WatchdogMarks
    <3>2. \/ state' = state
          \/ \E s \in {"TIME_EXCEEDED", "SUSPENDED"} : state' = [state EXCEPT ![j] = s]
          \/ state' = [state EXCEPT ![j] = state[j]]
      BY <2>2, Zenon DEF reconcile_pause_intent, WatchdogMarks
    <3> QED
      BY <1>t, <3>1, <3>2, Zenon
  <2>3. CASE \/ NoPauseIntent(j) \/ escalate_if_killed(j) \/ reconcile_terminal_survivor(j)
             \/ OrphanStays(j) \/ WatchdogOk(j) \/ WatchdogVerdict(j) \/ WatchdogSignals(j)
             \/ WatchdogKills(j)
    BY <2>3, ZenonT(30)
       DEF NoPauseIntent, escalate_if_killed, reconcile_terminal_survivor, OrphanStays,
           WatchdogOk, WatchdogVerdict, WatchdogSignals, WatchdogKills
  <2> QED
    BY <1>4, <2>1, <2>2, <2>3, ZenonT(30) DEF PassStep
<1>5. CASE DispatchStep(j)
  <2>1. CASE DispatchHeld(j) \/ StartJob(j) \/ ClaimGivesUp(j) \/ LaunchJob(j) \/ FillPid(j)
    BY <2>1, ZenonT(30) DEF DispatchHeld, StartJob, ClaimGivesUp, LaunchJob, FillPid
  <2>2. CASE StartRejected(j) \/ LaunchFails(j) \/ ClaimJob(j)
    <3>1. cwd' = cwd /\ (pgid'[j] = pgid[j] \/ pgid'[j] = 0)
      BY <1>t, <2>2, ZenonT(30) DEF StartRejected, LaunchFails, ClaimJob
    <3>2. \/ \E s \in {"FAILED", "RUNNING"} : state' = [state EXCEPT ![j] = s]
          \/ state' = [state EXCEPT ![j] = state[j]]
      BY <2>2, Zenon DEF StartRejected, LaunchFails, ClaimJob
    <3> QED
      BY <1>t, <3>1, <3>2, Zenon
  <2> QED
    BY <1>5, <2>1, <2>2, Zenon DEF DispatchStep
<1> QED
  BY <1>1, <1>2, <1>3, <1>4, <1>5, ZenonT(30) DEF JobStep

\* The end of an attempt, by the exit status or by the marker, is what the
\* wrapper reported.
LEMMA EndIsTrue ==
  ASSUME TruthInv, NEW j \in Jobs, UNCHANGED <<launches, exits, cwd>>, Shrinks,
         record_finish(j) \/ WalkAborts(j) \/ WalkFinishes(j) \/ OrphanEnds(j)
  PROVE  /\ state'[j] = "COMPLETED" => launches'[j] # 0 /\ exits'[j][launches'[j]] = "zero"
         /\ state'[j] = "ABORTED_BY_QUEUE" /\ pgid'[j] # 0 => marker'[j] = NoMarker /\ NoProcess(j)'
         /\ at'[j] = "idle"
<1>t. /\ state \in [Jobs -> JobState] /\ pgid \in [Jobs -> Launch \cup {0}]
      /\ launches \in [Jobs -> Launch \cup {0}] /\ at \in [Jobs -> Stage]
      /\ Truth(j) /\ Record(j) /\ Processes(j)
  BY Zenon DEF TruthInv, AttemptInv, TypeOK
<1>s. NoProcess(j) => NoProcess(j)'
  BY Zenon DEF Shrinks, NoProcess
<1>f. ASSUME NEW ok \in BOOLEAN, FinishSpec(j, ok)
      PROVE  /\ state'[j] = state[j] \/ state'[j] \in {"PENDING", "FAILED"}
                \/ (ok /\ state'[j] = "COMPLETED")
             /\ pgid'[j] = pgid[j] \/ pgid'[j] = 0
  BY <1>t, <1>f, Zenon DEF FinishSpec
<1>1. CASE record_finish(j)
  <2>1. PICK z \in members[j][pgid[j]] \cap Zombie :
          FinishSpec(j, z = "zero") /\ FinishDisk(j, z = "zero")
    BY <1>1, ZenonT(30) DEF record_finish
  <2>2. pgid[j] \in Launch /\ pgid[j] = launches[j] /\ launches[j] # 0
    <3>1. pgid[j] # 0
      BY <1>t, <1>1, ZenonT(30) DEF record_finish, On, Record
    <3> QED
      BY <1>t, <3>1, ZenonT(30) DEF Record
  <2>3. z = "zero" => exits[j][launches[j]] = "zero"
    <3>1. "zero" \in Outcome
      BY ZenonT(30) DEF Outcome
    <3> QED
      BY <1>t, <2>2, <3>1, ZenonT(30) DEF Truth
  <2>4. marker' = marker
    BY <2>1, ZenonT(30) DEF FinishDisk
  <2>5. /\ state'[j] = state[j] \/ state'[j] \in {"PENDING", "FAILED"}
           \/ (z = "zero" /\ state'[j] = "COMPLETED")
        /\ pgid'[j] = pgid[j] \/ pgid'[j] = 0
    <3> DEFINE ok == z = "zero"
    <3>1. ok \in BOOLEAN /\ FinishSpec(j, ok)
      BY <2>1, Zenon
    <3> HIDE DEF ok
    <3>2. /\ state'[j] = state[j] \/ state'[j] \in {"PENDING", "FAILED"}
             \/ (ok /\ state'[j] = "COMPLETED")
          /\ pgid'[j] = pgid[j] \/ pgid'[j] = 0
      BY <1>f, <3>1, ZenonT(30)
    <3> QED
      BY <3>2, Zenon DEF ok
  <2>6. at'[j] = "idle"
    BY <1>1, Zenon DEF record_finish, On, Idle
  <2> QED
    BY <1>s, <1>t, <2>2, <2>3, <2>4, <2>5, <2>6, ZenonT(30) DEF Truth
<1>2. CASE WalkAborts(j)
  <2>1. pgid'[j] = 0 /\ at'[j] = "idle"
    BY <1>t, <1>2, ZenonT(30) DEF WalkAborts, SetStage
  <2>2. state'[j] = "COMPLETED" => state[j] = "COMPLETED"
    BY <1>t, <1>2, ZenonT(30) DEF WalkAborts
  <2> QED
    BY <1>t, <2>1, <2>2, ZenonT(30) DEF Truth
<1>3. CASE WalkFinishes(j) \/ OrphanEnds(j)
  <2>1. RecordOrphan(j) /\ cwd[j] = j /\ marker' = marker
    BY <1>t, <1>3, RecordOrphanMarker, ZenonT(30) DEF WalkFinishes, OrphanEnds, Truth
  <2>2. at'[j] = "idle"
    BY <1>t, <1>3, ZenonT(30) DEF WalkFinishes, OrphanEnds, SetStage, On, Idle
  <2>3. ~is_terminal(j) => NoProcess(j)
    <3>1. pgid[j] # 0
      <4>1. CASE WalkFinishes(j)
        BY <4>1, ZenonT(30) DEF WalkFinishes
      <4>2. CASE OrphanEnds(j)
        BY <1>t, <4>2, ZenonT(30) DEF OrphanEnds, On, Record
      <4> QED
        BY <1>3, <4>1, <4>2, Zenon
    <3>2. pgid[j] = launches[j]
      BY <1>t, <3>1, Zenon DEF Record
    <3>3. ~is_terminal(j) => members[j][launches[j]] = {}
      BY <1>3, <3>2, ZenonT(30) DEF WalkFinishes, OrphanEnds, pgroup_alive
    <3> QED
      BY <1>t, <3>3, Zenon DEF Processes, NoProcess
  <2>4. CASE marker[j] # NoMarker
    <3> DEFINE ok == marker[j].rc = "zero"
    <3>1. ok \in BOOLEAN /\ FinishSpec(j, ok)
      BY <2>1, <2>4, ZenonT(30) DEF RecordOrphan
    <3>2. ok => launches[j] # 0 /\ exits[j][launches[j]] = "zero"
      BY <1>t, <2>4, Zenon DEF Truth
    <3> HIDE DEF ok
    <3>3. /\ state'[j] = state[j] \/ state'[j] \in {"PENDING", "FAILED"}
             \/ (ok /\ state'[j] = "COMPLETED")
          /\ pgid'[j] = pgid[j] \/ pgid'[j] = 0
      BY <1>f, <3>1, ZenonT(30)
    <3> QED
      BY <1>s, <1>t, <2>1, <2>2, <3>2, <3>3, ZenonT(30) DEF Truth
  <2>5. CASE marker[j] = NoMarker
    <3>1. CASE is_terminal(j)
      <4>1. UNCHANGED <<state, pgid>>
        BY <2>1, <2>5, <3>1, ZenonT(30) DEF RecordOrphan, specVars
      <4> QED
        BY <1>s, <1>t, <2>1, <2>2, <4>1, ZenonT(30) DEF Truth
    <3>2. CASE ~is_terminal(j)
      <4>1. state'[j] = "ABORTED_BY_QUEUE"
        BY <1>t, <2>1, <2>5, <3>2, ZenonT(30) DEF RecordOrphan
      <4> QED
        BY <1>s, <2>1, <2>2, <2>3, <2>5, <3>2, <4>1, Zenon
    <3> QED
      BY <3>1, <3>2, ZenonT(30)
  <2> QED
    BY <2>4, <2>5, ZenonT(30)
<1> QED
  BY <1>1, <1>2, <1>3, ZenonT(30)

\* The wrapper of the last launch reports once.
LEMMA MarkIsTrue ==
  ASSUME TruthInv, NEW j \in Jobs, NEW k \in Launch, NEW rc \in Outcome, WrapperMarks(j, k, rc)
  PROVE  Truth(j)'
<1>t. /\ members \in [Jobs -> [Launch -> SUBSET Member]]
      /\ exits \in [Jobs -> [Launch -> Outcome \cup {"none"}]] /\ marker \in [Jobs -> Marker]
      /\ Truth(j) /\ Record(j) /\ Processes(j)
  BY Zenon DEF TruthInv, AttemptInv, TypeOK
<1>1. /\ UNCHANGED <<state, pgid, cwd, launches, members, at>>
      /\ "wrapper" \in members[j][k] /\ exits[j][k] = "none"
      /\ exits' = [exits EXCEPT ![j][k] = rc]
      /\ \/ marker' = marker
         \/ marker' = [marker EXCEPT ![j] = [rc |-> rc, job |-> j, launch |-> k]]
  <2>1. cwd[j] = j
    BY <1>t, ZenonT(30) DEF Truth
  <2> QED
    BY <2>1, Zenon DEF WrapperMarks, specVars, osVars, memVars, pcVars
<1>2. k = launches[j] /\ k # 0 /\ ~NoProcess(j)
  BY <1>1, <1>t DEF Processes, NoProcess, Launch
<1>3. "none" \notin Outcome
  BY Zenon DEF Outcome
<1>4. marker[j] = NoMarker
  <2>1. marker[j] # NoMarker => marker[j].rc \in Outcome
    BY <1>t, Zenon DEF Marker
  <2> QED
    BY <1>1, <1>2, <1>3, <1>t, <2>1, ZenonT(30) DEF Truth
<1>5. exits'[j][k] = rc /\ \A l \in Launch : l # k => exits'[j][l] = exits[j][l]
  BY <1>1, <1>t, Zenon
<1>6. \A l \in Launch : members'[j][l] \cap Outcome \subseteq {exits'[j][l]}
  <2>1. members[j][k] \cap Outcome = {}
    BY <1>1, <1>3, <1>t, ZenonT(30) DEF Truth
  <2> QED
    BY <1>1, <1>5, <1>t, <2>1, ZenonT(30) DEF Truth
<1>7. marker'[j] # NoMarker => exits'[j][launches[j]] = marker'[j].rc
  BY <1>1, <1>2, <1>4, <1>5, <1>t
<1>8. at[j] \notin {"setup", "claimed"}
  BY <1>2, <1>t, ZenonT(30) DEF Record
<1>9. state[j] # "COMPLETED"
  BY <1>1, <1>2, <1>t, ZenonT(30) DEF Truth
<1>10. ~(state[j] = "ABORTED_BY_QUEUE" /\ pgid[j] # 0)
  BY <1>2, <1>t, ZenonT(30) DEF Truth
<1> QED
  BY <1>1, <1>2, <1>6, <1>7, <1>8, <1>9, <1>10, <1>t, ZenonT(30) DEF Truth

\* The steps of job j keep its record true.
LEMMA TruthJobStep ==
  ASSUME TruthInv, NEW j \in Jobs, JobStep(j), ~auto_resume(j)
  PROVE  Truth(j)'
<1>t. /\ members \in [Jobs -> [Launch -> SUBSET Member]] /\ pgid \in [Jobs -> Launch \cup {0}]
      /\ launches \in [Jobs -> Launch \cup {0}] /\ at \in [Jobs -> Stage]
      /\ marker \in [Jobs -> Marker]
      /\ AttemptInv /\ Truth(j) /\ Record(j) /\ Processes(j)
  BY Zenon DEF TruthInv, AttemptInv, TypeOK
<1>c. cwd' = cwd /\ cwd[j] = j
  BY <1>t, EndingStep, Zenon DEF Truth
<1>1. CASE \E k \in Launch : \E rc \in Outcome : WrapperMarks(j, k, rc)
  BY <1>1, MarkIsTrue, Zenon
<1>2. CASE StartJob(j)
  <2>1. /\ UNCHANGED <<state, pgid, launches, exits, members>>
        /\ marker'[j] = NoMarker /\ at'[j] = "setup"
    BY <1>t, <1>c, <1>2, ZenonT(30) DEF StartJob, SetStage, specVars, osVars
  <2> QED
    BY <1>c, <1>t, <2>1, ZenonT(30) DEF Truth, NoProcess
<1>3. CASE LaunchJob(j)
  <2>1. /\ UNCHANGED <<state, pgid, exits, marker>>
        /\ launches'[j] = launches[j] + 1 /\ at'[j] = "spawned" /\ at[j] = "claimed"
        /\ members' = [members EXCEPT ![j][launches[j] + 1] = {"wrapper", "command"}]
    BY <1>t, <1>3, Zenon DEF LaunchJob, SetStage, specVars, diskVars
  <2>2. pgid[j] = 0 /\ marker[j] = NoMarker /\ state[j] \notin {"COMPLETED", "ABORTED_BY_QUEUE"}
    BY <1>t, <2>1, ZenonT(30) DEF Record, Truth
  <2>3. ASSUME NEW k \in Launch PROVE members'[j][k] \cap Outcome \subseteq {exits'[j][k]}
    <3>1. members'[j][k] = members[j][k] \/ members'[j][k] = {"wrapper", "command"}
      BY <1>t, <2>1, Zenon
    <3> QED
      BY <1>t, <2>1, <3>1, ZenonT(30) DEF Truth, Outcome
  <2> QED
    BY <1>c, <1>t, <2>1, <2>2, <2>3, ZenonT(30) DEF Truth
<1>4. CASE UNCHANGED <<exits, marker>> /\ ~LaunchJob(j)
  <2>1. Shrinks /\ launches' = launches /\ FadesAll(j)
    BY <1>t, <1>4, JobStepShrinks, JobStepFades, Zenon
  <2>2. \A k \in Launch : members'[j][k] \cap Outcome \subseteq {exits'[j][k]}
    BY <1>4, <1>t, <2>1, ZenonT(30) DEF FadesAll, Fades, Truth
  <2>3. at'[j] \in {"setup", "claimed"} => at[j] \in {"setup", "claimed"} \/ StartJob(j)
    BY <1>t, <1>4, StageStep, ZenonT(30) DEF SetStage
  <2>n. NoProcess(j) => NoProcess(j)'
    BY <2>1, ZenonT(30) DEF Shrinks, NoProcess
  <2>4. CASE record_finish(j) \/ WalkAborts(j) \/ WalkFinishes(j) \/ OrphanEnds(j)
    <3>1. /\ state'[j] = "COMPLETED" => launches'[j] # 0 /\ exits'[j][launches'[j]] = "zero"
          /\ state'[j] = "ABORTED_BY_QUEUE" /\ pgid'[j] # 0 => marker'[j] = NoMarker /\ NoProcess(j)'
          /\ at'[j] = "idle"
      BY <1>c, <1>4, <2>1, <2>4, EndIsTrue, ZenonT(30)
    <3> QED
      BY <1>c, <1>4, <1>t, <2>1, <2>2, <3>1, ZenonT(30) DEF Truth
  <2>5. CASE /\ state'[j] = state[j] \/ state'[j] \notin {"COMPLETED", "ABORTED_BY_QUEUE"}
             /\ ~StartJob(j)
    <3>1. state'[j] = "COMPLETED" => launches'[j] # 0 /\ exits'[j][launches'[j]] = "zero"
      BY <1>4, <1>t, <2>1, <2>5, ZenonT(30) DEF Truth
    <3>2. state'[j] = "ABORTED_BY_QUEUE" /\ pgid'[j] # 0 => marker'[j] = NoMarker /\ NoProcess(j)'
      <4>1. CASE FillPid(j)
        <5>1. state[j] = "ABORTED_BY_QUEUE" => pgid' = pgid
          BY <4>1, Zenon DEF FillPid, is_terminal, TERMINAL_STATES
        <5> QED
          BY <1>4, <1>t, <2>5, <2>n, <5>1, ZenonT(30) DEF Truth
      <4>2. CASE pgid'[j] = pgid[j] \/ pgid'[j] = 0
        BY <1>4, <1>t, <2>5, <2>n, <4>2, ZenonT(30) DEF Truth
      <4> QED
        BY <1>t, <4>1, <4>2, EndingStep, ZenonT(30)
    <3>3. at'[j] = "claimed" => state'[j] \notin {"COMPLETED", "ABORTED_BY_QUEUE"}
      <4>1. at'[j] = "claimed" => at[j] = "claimed" \/ ClaimJob(j)
        BY <1>t, StageStep, ZenonT(30) DEF SetStage
      <4>2. ClaimJob(j) => state'[j] = "RUNNING"
        BY <1>t, Zenon DEF ClaimJob, AttemptInv, TypeOK
      <4> QED
        BY <1>t, <2>5, <4>1, <4>2, ZenonT(30) DEF Truth
    <3> QED
      BY <1>c, <1>4, <1>t, <2>1, <2>2, <2>3, <2>5, <3>1, <3>2, <3>3, ZenonT(30) DEF Truth
  <2>6. StartJob(j) => Truth(j)'
    BY <1>2, Zenon
  <2> QED
    BY <1>t, <2>4, <2>5, <2>6, EndingStep, ZenonT(30)
<1> QED
  BY <1>1, <1>2, <1>3, <1>4, MarkerStep, Zenon

\* Every step keeps the record true, when no job is to be resubmitted.
LEMMA TruthStep ==
  ASSUME Recover = {}, TruthInv, [Next]_vars
  PROVE  TruthInv'
<1> USE DEF specVars, diskVars, osVars, memVars, pcVars
<1>a. AttemptInv /\ AttemptInv'
  BY AttemptNext, Zenon DEF TruthInv
<1>b. \A j \in Jobs : ~auto_resume(j)
  BY Zenon DEF TruthInv, auto_resume
<1>t. \A j \in Jobs : Truth(j)
  BY Zenon DEF TruthInv
<1>1. ASSUME NEW j \in Jobs, JobStep(j) PROVE TruthInv'
  <2>1. Truth(j)'
    BY <1>1, <1>b, TruthJobStep, Zenon
  <2>2. ASSUME NEW i \in Jobs, i # j PROVE Truth(i)'
    <3>1. Untouched(i)
      BY <1>1, <1>a, <1>b, <2>2, JobStepAlone, Zenon
    <3>2. marker'[i] = marker[i]
      <4>1. cwd[j] = j /\ marker \in [Jobs -> Marker]
        BY <1>a, <1>t, ZenonT(30) DEF Truth, AttemptInv, TypeOK
      <4> QED
        BY <1>1, <2>2, <4>1, MarkerStep, ZenonT(30) DEF WrapperMarks, StartJob
    <3>3. Truth(i)
      BY <1>t, Zenon
    <3> QED
      BY <3>1, <3>2, <3>3, ZenonT(30) DEF Truth, Untouched, NoProcess
  <2>3. step' \in {"resume", "leave"} => todo' = {}
    <3>1. step' = step /\ todo' \subseteq todo
      BY <1>1, StageStep, Zenon
    <3> QED
      BY <3>1, Zenon DEF TruthInv
  <2> QED
    BY <1>a, <2>1, <2>2, <2>3, Zenon DEF TruthInv
<1>2. CASE DaemonStarts \/ WalkEnds \/ PassEnds \/ DaemonLeaves \/ WalkStops \/ DaemonCrashes
           \/ HostReboots \/ UNCHANGED vars
  <2>1. UNCHANGED <<state, pgid, cwd, launches, exits, marker>>
    BY <1>2, ZenonT(30)
       DEF DaemonStarts, WalkEnds, PassEnds, DaemonLeaves, WalkStops, DaemonCrashes, HostReboots,
           vars
  <2>2. ASSUME NEW j \in Jobs
        PROVE  /\ \A k \in Launch : members'[j][k] \subseteq members[j][k]
               /\ at'[j] = at[j] \/ at'[j] = "idle"
    <3>1. CASE DaemonStarts \/ WalkEnds \/ PassEnds \/ WalkStops \/ UNCHANGED vars
      BY <3>1, Zenon DEF DaemonStarts, WalkEnds, PassEnds, WalkStops, vars
    <3>2. CASE DaemonLeaves
      BY <3>2, Zenon DEF DaemonLeaves, Forget
    <3>3. CASE DaemonCrashes
      BY <3>3, Zenon DEF DaemonCrashes, Forget
    <3>4. CASE HostReboots
      BY <3>4, Zenon DEF HostReboots, Forget
    <3> QED
      BY <1>2, <3>1, <3>2, <3>3, <3>4, Zenon
  <2>3. ASSUME NEW j \in Jobs PROVE Truth(j)'
    <3>1. Truth(j) /\ (NoProcess(j) => NoProcess(j)')
      BY <1>t, <2>2, ZenonT(30) DEF NoProcess
    <3>2. \A k \in Launch : members'[j][k] \cap Outcome \subseteq {exits'[j][k]}
      BY <2>1, <2>2, <3>1, ZenonT(30) DEF Truth
    <3> QED
      BY <2>1, <2>2, <3>1, <3>2, Zenon DEF Truth
  <2>4. step' \in {"resume", "leave"} => todo' = {}
    BY <1>2, Zenon DEF DaemonStarts, WalkEnds, PassEnds, DaemonLeaves, WalkStops, DaemonCrashes,
                HostReboots, vars, Forget, After, Pass, TruthInv
  <2> QED
    BY <1>a, <2>3, <2>4, Zenon DEF TruthInv
<1> QED
  BY <1>1, <1>2, NextSplits, Zenon

\* The label of a job that is not resubmitted in place is true: COMPLETED only
\* after its last attempt exited zero, and ABORTED_BY_QUEUE of a recorded group
\* only where no marker was left, nor can be written any more.  Whatever dies in
\* between, for any jobs, retry budget and number of outages.  The hypothesis
\* excludes the sibling that _auto_resume starts in the same workspace, whose
\* marker replaces the first job's.
THEOREM OutcomesAreTrue == Recover = {} => (Spec => []OutcomeIsTrue)
<1> SUFFICES ASSUME Recover = {} PROVE Spec => []OutcomeIsTrue
  BY Zenon
<1>1. Init => TruthInv
  <2> SUFFICES ASSUME Init PROVE \A j \in Jobs : Truth(j)
    BY AttemptInit, Zenon DEF TruthInv, Init
  <2> QED
    BY Zenon DEF Init, Truth
<1>2. TruthInv /\ [Next]_vars => TruthInv'
  BY TruthStep, Zenon
<1>3. TruthInv => OutcomeIsTrue
  BY ZenonT(30) DEF TruthInv, Truth, OutcomeIsTrue
<1> QED
  BY <1>1, <1>2, <1>3, PTL DEF Spec

-----------------------------------------------------------------------------
(* Slots. *)

\* Job j has processes on the host that the record, or _start_job, knows of.
Present(j) == ~NoProcess(j) /\ (pgid[j] # 0 \/ at[j] = "spawned")

Hosted == {j \in Jobs : Present(j)}

\* A zombie is a child of the daemon; what was SIGKILLed has only zombies left;
\* a survivor has a label and is no child; and the daemon that dispatches has
\* every job on the host in its memory, which the startup walk fills.
Slot(j) ==
    /\ \A k \in Launch : members[j][k] \cap Zombie # {} => j \in running \/ at[j] = "spawned"
    /\ term[j] = "killed" => j \in running /\ \A k \in Launch : members[j][k] \subseteq Zombie
    /\ j \in survivors => is_terminal(j) /\ j \notin running
    /\ step = "survivors" /\ j \in todo => j \in survivors
    /\ step = "leave" => j \notin running
    /\ at[j] \in {"verdict", "signal"} => step = "watchdog"
    /\ step = "walk" /\ Present(j) => j \in orphans \/ j \in todo
    /\ step \in Pass \cup {"resume"} /\ Present(j) => j \in Charged \/ at[j] = "spawned"

\* The daemon is at one row at a time, and a dispatch that it has begun has a
\* free slot.
Slots ==
    /\ IsFiniteSet(Charged) /\ IsFiniteSet(Hosted)
    /\ Cardinality(Hosted) <= MaxJobs
    /\ \A i, j \in Jobs : at[i] # "idle" /\ at[j] # "idle" => i = j
    /\ \A j \in Jobs : at[j] \in {"setup", "claimed", "spawned"} => Cardinality(Charged) < MaxJobs

\* The strengthening of Capacity.
SlotInv == AttemptInv /\ Slots /\ \A j \in Jobs : Slot(j)

\* Only a launch brings a job to the host, and only the end of a dispatch or of
\* a row of the walk into the memory.
Stays(j) ==
    /\ LaunchJob(j) \/ (Present(j)' => Present(j))
    /\ j \in Charged' => j \in Charged \/ (at[j] # "idle" /\ at'[j] = "idle")

\* A step that launches nothing of job i, and leaves the daemon's memory of it
\* alone.
LEMMA SlotFrame ==
  ASSUME SlotInv, NEW i \in Jobs, Shrinks, FadesAll(i), Keeps,
         pgid'[i] # 0 => pgid[i] # 0,
         at'[i] = "spawned" <=> at[i] = "spawned",
         at'[i] \in {"verdict", "signal"} => step = "watchdog",
         i \in running' <=> i \in running,
         i \in orphans' <=> i \in orphans,
         i \in survivors' <=> i \in survivors,
         term'[i] = "killed" => term[i] = "killed",
         step' = step, i \in todo' => i \in todo,
         step = "walk" /\ i \in todo => i \in todo'
  PROVE  Slot(i)' /\ Stays(i)
<1>1. Present(i)' => Present(i)
  BY Zenon DEF Present, NoProcess, Shrinks
<1>2. is_terminal(i) => is_terminal(i)'
  BY Zenon DEF Keeps, is_terminal
<1>3. /\ \A k \in Launch : members'[i][k] \cap Zombie # {} => i \in running' \/ at'[i] = "spawned"
      /\ term'[i] = "killed" => i \in running' /\ \A k \in Launch : members'[i][k] \subseteq Zombie
  BY Zenon DEF FadesAll, Fades, SlotInv, Slot
<1>4. i \in Charged' <=> i \in Charged
  BY Zenon DEF Charged
<1> QED
  BY <1>1, <1>2, <1>3, <1>4, ZenonT(30) DEF SlotInv, Slot, Stays

\* A job in the walk, or idle and not a child of the daemon, has no zombie, so
\* that SIGKILL leaves nothing of it.
LEMMA KillEmpties ==
  ASSUME SlotInv, NEW j \in Jobs, j \notin running, at[j] # "spawned", KillGroup(j, pgid[j])
  PROVE  pgid[j] # 0 => NoProcess(j)'
<1> SUFFICES ASSUME pgid[j] # 0, NEW l \in Launch PROVE members'[j][l] = {}
  BY Zenon DEF NoProcess
<1>1. members \in [Jobs -> [Launch -> SUBSET Member]] /\ pgid[j] \in Launch
  BY Zenon DEF SlotInv, AttemptInv, TypeOK
<1>2. members[j][pgid[j]] \cap Zombie = {}
  BY <1>1, ZenonT(30) DEF SlotInv, Slot
<1>3. AfterKill(j, pgid[j]) = {}
  BY <1>2, Zenon DEF AfterKill, Remains, IsChild
<1>4. CASE l = pgid[j]
  BY <1>1, <1>3, <1>4, Zenon DEF KillGroup
<1>5. CASE l # pgid[j]
  <2>1. members[j][l] = {}
    <3>1. pgid[j] = launches[j]
      BY ZenonT(30) DEF SlotInv, AttemptInv, Record
    <3> QED
      BY <1>5, <3>1, Zenon DEF SlotInv, AttemptInv, Processes
  <2> QED
    BY <1>1, <1>5, <2>1, Zenon DEF KillGroup
<1> QED
  BY <1>4, <1>5, Zenon

\* _record_finish takes a child out of the memory only with its last process,
\* or keeps it as a survivor.
LEMMA SlotReap ==
  ASSUME SlotInv, NEW j \in Jobs, Keeps, record_finish(j)
  PROVE  Slot(j)' /\ Stays(j)
<1>0. /\ step = "running" /\ j \in todo /\ at[j] = "idle"
      /\ step' = step /\ at' = at /\ running' = running \ {j}
  BY Zenon DEF record_finish, On, Idle
<1>1. /\ step = "running" /\ step' = "running" /\ at[j] = "idle" /\ at' = at
      /\ j \in running /\ running' = running \ {j}
      /\ pgid[j] # 0 /\ pgid[j] \in Launch /\ pgid[j] = launches[j]
  <2>1. pgid[j] \in Launch \cup {0} /\ Record(j)
    BY Zenon DEF SlotInv, AttemptInv, TypeOK
  <2> QED
    BY <1>0, <2>1, Zenon DEF Record
<1>2. PICK z \in members[j][pgid[j]] \cap Zombie :
        /\ members' = [members EXCEPT ![j][pgid[j]] = IF Stranded(j, z) THEN {} ELSE @ \ Zombie]
        /\ survivors' = IF Survives(j, z) THEN survivors \cup {j} ELSE survivors
        /\ term' = [term EXCEPT ![j] = IF Survives(j, z) THEN Grace(j) ELSE "none"]
  BY ZenonT(30) DEF record_finish
<1>3. \A l \in Launch : members'[j][l] \cap Zombie = {}
  <2>1. \A l \in Launch : l # pgid[j] => members[j][l] = {}
    BY <1>1, Zenon DEF SlotInv, AttemptInv, Processes
  <2>2. \A l \in Launch : members'[j][l] =
            IF l = pgid[j] THEN IF Stranded(j, z) THEN {} ELSE members[j][l] \ Zombie
            ELSE members[j][l]
    BY <1>1, <1>2, ZenonT(30) DEF SlotInv, AttemptInv, TypeOK
  <2> QED
    BY <2>1, <2>2, Zenon
<1>4. term'[j] # "killed"
  <2>1. term'[j] = IF Survives(j, z) THEN Grace(j) ELSE "none"
    BY <1>2, Zenon DEF SlotInv, AttemptInv, TypeOK
  <2> QED
    BY <2>1, Zenon DEF Survives, Grace
<1>5. j \in survivors' => Survives(j, z)
  <2>1. j \notin survivors
    BY <1>1, Zenon DEF SlotInv, Slot
  <2> QED
    BY <1>2, <2>1, Zenon
<1>6. j \in survivors' => is_terminal(j)'
  BY <1>5, Zenon DEF Survives, Keeps, is_terminal
<1>7. ~NoProcess(j)' => j \in survivors'
  <2> SUFFICES ASSUME ~Survives(j, z) PROVE NoProcess(j)'
    BY <1>2, Zenon
  <2>1. CASE ~is_terminal(j)
    BY <1>1, <1>2, <2>1, ReapIsAlone, ZenonT(30) DEF SlotInv
  <2>2. CASE is_terminal(j)
    <3>1. Stranded(j, z) \/ members[j][pgid[j]] \subseteq Zombie
      <4>1. term[j] = "killed" => members[j][pgid[j]] \subseteq Zombie
        BY <1>1, Zenon DEF SlotInv, Slot
      <4> QED
        BY <2>2, <4>1, Zenon DEF Survives
    <3>2. \A l \in Launch : l # pgid[j] => members[j][l] = {}
      BY <1>1, Zenon DEF SlotInv, AttemptInv, Processes
    <3>3. \A l \in Launch : members'[j][l] =
              IF l = pgid[j] THEN IF Stranded(j, z) THEN {} ELSE members[j][l] \ Zombie
              ELSE members[j][l]
      BY <1>1, <1>2, ZenonT(30) DEF SlotInv, AttemptInv, TypeOK
    <3> QED
      BY <3>1, <3>2, <3>3, ZenonT(30) DEF NoProcess
  <2> QED
    BY <2>1, <2>2, Zenon
<1>8. Present(j)' => j \in Charged'
  BY <1>7, Zenon DEF Present, Charged
<1>9. Stays(j)
  BY <1>1, <1>2, Zenon DEF Stays, Present, NoProcess, Charged
<1>10. Slot(j)'
  BY <1>1, <1>3, <1>4, <1>6, <1>8, Zenon DEF Slot
<1> QED
  BY <1>9, <1>10, Zenon

\* A launch is known to _start_job, and what follows it puts the group into the
\* memory, or ends it.
LEMMA SlotLaunch ==
  ASSUME SlotInv, NEW j \in Jobs, Keeps, LaunchJob(j) \/ (FillPid(j) /\ Shrinks)
  PROVE  Slot(j)' /\ Stays(j)
<1> USE DEF specVars, diskVars, osVars, memVars, pcVars
<1>1. /\ step = "dispatch" /\ j \notin running /\ launches[j] \in Launch \cup {0}
      /\ members \in [Jobs -> [Launch -> SUBSET Member]] /\ at \in [Jobs -> Stage]
      /\ at[j] = "spawned" => launches[j] # 0
  BY ZenonT(30) DEF LaunchJob, FillPid, SlotInv, AttemptInv, Record, TypeOK
<1>2. step' = step /\ term' = term /\ survivors' = survivors /\ orphans' = orphans /\ state' = state
  BY Zenon DEF LaunchJob, FillPid
<1>3. term[j] # "killed" /\ (j \in survivors => is_terminal(j)')
  BY <1>1, <1>2, Zenon DEF SlotInv, Slot, is_terminal
<1>4. CASE LaunchJob(j)
  <2>1. at'[j] = "spawned" /\ running' = running
    BY <1>1, <1>4, Zenon DEF LaunchJob, SetStage
  <2> QED
    BY <1>1, <1>2, <1>3, <1>4, <2>1, Zenon DEF Slot, Stays, Charged
<1>5. CASE FillPid(j) /\ is_terminal(j)
  <2>1. /\ members' = [members EXCEPT ![j][launches[j]] = {}] /\ running' = running
        /\ at'[j] = "idle"
    BY <1>1, <1>5, Zenon DEF FillPid, SetStage
  <2>2. NoProcess(j)'
    <3>1. \A l \in Launch : l # launches[j] => members[j][l] = {}
      BY Zenon DEF SlotInv, AttemptInv, Processes
    <3>2. launches[j] \in Launch
      BY <1>1, <1>5, Zenon DEF FillPid
    <3> QED
      BY <1>1, <2>1, <3>1, <3>2, Zenon DEF NoProcess
  <2> QED
    BY <1>1, <1>2, <1>3, <2>1, <2>2, Zenon DEF Slot, Present, NoProcess, Stays, Charged
<1>6. CASE FillPid(j) /\ ~is_terminal(j)
  <2>1. running' = running \cup {j} /\ at'[j] = "idle"
    BY <1>1, <1>6, Zenon DEF FillPid, SetStage
  <2>2. j \in Charged' /\ j \notin survivors
    BY <1>6, <2>1, ZenonT(30) DEF Charged, SlotInv, Slot
  <2>3. Present(j)' => Present(j)
    BY <1>6, Zenon DEF FillPid, Present, NoProcess, Shrinks
  <2>4. Stays(j)
    BY <1>6, <2>1, <2>3, Zenon DEF FillPid, Stays
  <2> QED
    BY <1>1, <1>2, <1>3, <2>1, <2>2, <2>4, ZenonT(30) DEF Slot
<1> QED
  BY <1>4, <1>5, <1>6, Zenon

\* The steps of job j keep Slot(j).
LEMMA SlotJobStep ==
  ASSUME SlotInv, NEW j \in Jobs, JobStep(j), Keeps
  PROVE  Slot(j)' /\ Stays(j)
<1> USE DEF specVars, diskVars, osVars, memVars, pcVars
<1>t. /\ AttemptInv /\ Record(j) /\ Slot(j)
      /\ pgid \in [Jobs -> Launch \cup {0}] /\ at \in [Jobs -> Stage]
      /\ term \in [Jobs -> {"none", "armed", "due", "killed"}]
  BY Zenon DEF SlotInv, AttemptInv, TypeOK
<1>q. ~LaunchJob(j) => Shrinks /\ FadesAll(j)
  BY <1>t, JobStepShrinks, JobStepFades, Zenon
<1>1. CASE record_finish(j)
  BY <1>1, SlotReap, Zenon
<1>2. CASE LaunchJob(j) \/ FillPid(j)
  BY <1>2, <1>q, SlotLaunch, Zenon
<1> SUFFICES ASSUME ~record_finish(j), ~LaunchJob(j), ~FillPid(j)
             PROVE  Slot(j)' /\ Stays(j)
  BY <1>1, <1>2, Zenon
<1>f. ASSUME pgid' = pgid \/ pgid' = [pgid EXCEPT ![j] = 0],
             \/ at' = at
             \/ /\ at[j] # "spawned" /\ at'[j] # "spawned"
                /\ at'[j] \in {"verdict", "signal"} => step = "watchdog",
             UNCHANGED <<running, orphans, survivors, step>>,
             term' = term \/ term'[j] # "killed",
             todo' \subseteq todo, step = "walk" => todo' = todo
      PROVE  Slot(j)' /\ Stays(j)
  <2>1. pgid'[j] # 0 => pgid[j] # 0
    BY <1>t, <1>f, Zenon
  <2>2. /\ at'[j] = "spawned" <=> at[j] = "spawned"
        /\ at'[j] \in {"verdict", "signal"} => step = "watchdog"
    BY <1>t, <1>f, Zenon DEF Slot
  <2> QED
    BY <1>q, <1>f, <2>1, <2>2, SlotFrame, ZenonT(30)
\* A step that ends what the daemon knows of j with its processes.
<1>e. ASSUME NoProcess(j)', UNCHANGED <<running, step, at>>, FadesAll(j),
             term'[j] # "killed", survivors' \subseteq survivors,
             orphans' \subseteq orphans, todo' = todo \ {j}
      PROVE  Slot(j)' /\ Stays(j)
  <2>1. ~Present(j)' /\ j \notin todo'
    BY <1>e, Zenon DEF Present
  <2>2. \A k \in Launch : members'[j][k] \cap Zombie = {}
    BY <1>e, Zenon DEF NoProcess
  <2>3. j \in survivors => is_terminal(j)' /\ j \notin running
    BY <1>t, Zenon DEF Slot, Keeps, is_terminal
  <2> QED
    BY <1>t, <1>e, <2>1, <2>2, <2>3, ZenonT(30) DEF Slot, Stays, Charged
<1>3. CASE ProcessStep(j)
  <2>1. UNCHANGED <<pgid, at, running, orphans, survivors, step, term, todo>>
    BY <1>3, ZenonT(30)
       DEF ProcessStep, CommandExits, WrapperMarks, WrapperExits, WrapperKilled
  <2> QED
    BY <1>f, <2>1, Zenon
<1>4. CASE CliStep(j) \/ PauserStep(j)
  <2>1. UNCHANGED <<pgid, at, running, orphans, survivors, step, term, todo>>
    BY <1>4, ZenonT(30)
       DEF CliStep, kill_job, PauseArms, resume_job, PauserStep, PauseSignals, PauseCommits,
           PauserDies
  <2> QED
    BY <1>f, <2>1, Zenon
<1>5. CASE DeadlinePasses(j)
  <2>1. term'[j] # "killed" /\ UNCHANGED <<pgid, at, running, orphans, survivors, step, todo>>
    BY <1>t, <1>5, Zenon DEF DeadlinePasses
  <2> QED
    BY <1>f, <2>1, Zenon
<1>6. CASE WalkReads(j)
  <2>1. /\ UNCHANGED <<pgid, running, orphans, survivors, step, term, todo>>
        /\ at[j] = "idle" /\ at'[j] \in Walked
    BY <1>t, <1>6, Zenon DEF WalkReads, On, Idle, SetStage, Walked
  <2>2. at[j] # "spawned" /\ at'[j] \notin {"spawned", "verdict", "signal"}
    BY <2>1, ZenonT(30) DEF Walked
  <2> QED
    BY <1>f, <2>1, <2>2, Zenon
<1>7. CASE auto_resume(j)
  <2>1. /\ UNCHANGED <<pgid, at, running, orphans, survivors, step, term>>
        /\ todo' \subseteq todo /\ step # "walk"
    BY <1>7, Zenon DEF auto_resume, Visited
  <2> QED
    BY <1>f, <2>1, Zenon
<1>8. CASE WalkSettled(j)
  <2>1. /\ step = "walk" /\ UNCHANGED <<pgid, at, running, orphans, survivors, step, term>>
        /\ todo' = todo \ {j} /\ at[j] = "idle" /\ j \in todo
        /\ state[j] = "PENDING" \/ is_terminal(j)
    BY <1>8, Zenon DEF WalkSettled, On, Idle, Visited
  <2>2. j \notin running /\ term[j] # "killed"
    BY <1>t, <2>1, ZenonT(30) DEF Record, Slot
  <2>3. CASE is_terminal(j) /\ pgid[j] # 0
    <3>1. KillGroup(j, pgid[j])
      BY <1>8, <2>3, Zenon DEF WalkSettled
    <3>2. NoProcess(j)'
      BY <2>1, <2>2, <2>3, <3>1, KillEmpties, Zenon
    <3> QED
      BY <1>e, <1>q, <2>1, <2>2, <3>2, Zenon
  <2>4. CASE ~(is_terminal(j) /\ pgid[j] # 0)
    <3>1. NoProcess(j) \/ pgid[j] = 0
      BY <1>t, <2>1, <2>4, Zenon DEF Record
    <3>2. UNCHANGED members
      BY <1>8, <2>4, ZenonT(30) DEF WalkSettled
    <3>3. ~Present(j)' /\ j \notin todo'
      BY <2>1, <3>1, <3>2, ZenonT(30) DEF Present, NoProcess
    <3>4. j \in survivors => is_terminal(j)'
      BY <1>t, ZenonT(30) DEF Slot, Keeps, is_terminal
    <3> QED
      BY <1>t, <2>1, <2>2, <3>2, <3>3, <3>4, ZenonT(30) DEF Slot, Stays, Charged
  <2> QED
    BY <2>3, <2>4, Zenon
<1>9. CASE WalkAborts(j) \/ WalkReattaches(j) \/ WalkFinishes(j)
  <2>1. /\ at[j] \in Walked /\ UNCHANGED <<running, survivors, step, term, members>>
        /\ todo' = todo \ {j} /\ at'[j] = "idle"
    BY <1>t, <1>9, ZenonT(30)
       DEF WalkAborts, WalkReattaches, WalkFinishes, Visited, SetStage, Walked
  <2>2. step = "walk" /\ at[j] # "spawned"
    BY <1>t, <2>1, Zenon DEF Record, Walked
  <2>3. j \notin running /\ term[j] # "killed"
    BY <1>t, <2>2, Zenon DEF Record, Slot
  <2>4. Present(j)' => j \in orphans'
    <3>1. CASE WalkAborts(j)
      BY <2>1, <3>1, ZenonT(30) DEF WalkAborts, Present
    <3>2. CASE WalkReattaches(j)
      BY <3>2, ZenonT(30) DEF WalkReattaches
    <3>3. CASE WalkFinishes(j)
      <4>1. pgid[j] # 0 /\ members[j][pgid[j]] = {}
        BY <3>3, Zenon DEF WalkFinishes, pgroup_alive
      <4>2. pgid[j] = launches[j]
        BY <1>t, <4>1, ZenonT(30) DEF Record
      <4>3. \A k \in Launch : k # launches[j] => members[j][k] = {}
        BY <1>t, ZenonT(30) DEF AttemptInv, Processes
      <4> QED
        BY <2>1, <4>1, <4>2, <4>3, Zenon DEF Present, NoProcess
    <3> QED
      BY <1>9, <3>1, <3>2, <3>3, Zenon
  <2>5. j \in survivors => is_terminal(j)'
    BY <1>t, Zenon DEF Slot, Keeps, is_terminal
  <2>6. Present(j)' => Present(j)
    <3>1. CASE WalkAborts(j) \/ WalkReattaches(j)
      BY <2>1, <3>1, Zenon DEF WalkAborts, WalkReattaches, Present, NoProcess
    <3>2. CASE WalkFinishes(j)
      <4>1. j \notin orphans /\ orphans' = orphans
        BY <1>t, <2>1, <2>2, <3>2, ZenonT(30) DEF WalkFinishes, Record, Walked
      <4> QED
        BY <2>4, <4>1, Zenon
    <3> QED
      BY <1>9, <3>1, <3>2, Zenon
  <2>7. Slot(j)'
    BY <1>t, <2>1, <2>2, <2>3, <2>4, <2>5, Zenon DEF Slot, Pass
  <2>8. at[j] # "idle"
    BY <2>1, ZenonT(30) DEF Walked
  <2> QED
    BY <2>1, <2>6, <2>7, <2>8, Zenon DEF Stays
<1>10. CASE \/ NoPauseIntent(j) \/ reconcile_pause_intent(j) \/ WatchdogOk(j) \/ WatchdogKills(j)
            \/ DispatchHeld(j) \/ StartRejected(j)
  <2>1. /\ UNCHANGED <<pgid, at, running, orphans, survivors, step, term>> /\ todo' = todo \ {j}
        /\ step # "walk"
    BY <1>10, ZenonT(30)
       DEF NoPauseIntent, reconcile_pause_intent, WatchdogOk, WatchdogKills, DispatchHeld,
           StartRejected, On, Visited
  <2> QED
    BY <1>f, <2>1, Zenon
<1>11. CASE WatchdogVerdict(j) \/ WatchdogMarks(j) \/ WatchdogSignals(j)
  <2>1. /\ UNCHANGED <<pgid, running, orphans, survivors, step, term>> /\ todo' \subseteq todo
        /\ at[j] # "spawned" /\ at'[j] # "spawned" /\ step = "watchdog"
    <3>1. CASE WatchdogVerdict(j)
      BY <1>t, <3>1, Zenon DEF WatchdogVerdict, On, Idle, SetStage
    <3>2. CASE WatchdogMarks(j)
      BY <1>t, <3>2, Zenon DEF WatchdogMarks, SetStage, Slot
    <3>3. CASE WatchdogSignals(j)
      BY <1>t, <3>3, Zenon DEF WatchdogSignals, SetStage, Visited, Slot
    <3> QED
      BY <1>11, <3>1, <3>2, <3>3, Zenon
  <2> QED
    BY <1>f, <2>1, Zenon
<1>12. CASE OrphanStays(j)
  <2>1. /\ UNCHANGED <<pgid, at, running, orphans, survivors, step>> /\ todo' = todo \ {j}
        /\ step = "orphans" /\ j \in todo /\ term'[j] = Grace(j)
    BY <1>t, <1>12, Zenon DEF OrphanStays, On, Visited
  <2>2. j \notin running
    BY <1>t, <2>1, ZenonT(30) DEF Record
  <2>3. term[j] # "killed"
    BY <1>t, <2>2, ZenonT(30) DEF Slot
  <2>4. term'[j] # "killed" /\ step # "walk"
    BY <2>1, <2>3, Zenon DEF Grace
  <2> QED
    BY <1>f, <2>1, <2>4, Zenon
<1>13. CASE escalate_if_killed(j)
  <2>1. /\ UNCHANGED <<pgid, at, running, orphans, survivors, step>> /\ todo' = todo \ {j}
        /\ step = "running" /\ j \in todo
        /\ term'[j] = IF term[j] = "killed" \/ (is_terminal(j) /\ term[j] = "due")
                      THEN "killed" ELSE Grace(j)
    BY <1>t, <1>13, Zenon DEF escalate_if_killed, On, Visited
  <2>2. CASE term[j] # "killed" /\ ~(is_terminal(j) /\ term[j] = "due")
    <3>1. term'[j] # "killed" /\ step # "walk"
      BY <2>1, <2>2, Zenon DEF Grace
    <3> QED
      BY <1>f, <2>1, <3>1, Zenon
  <2>3. CASE term[j] = "killed"
    <3>1. (term'[j] = "killed" => term[j] = "killed") /\ (pgid'[j] # 0 => pgid[j] # 0)
      BY <2>1, <2>3, Zenon
    <3>2. j \in todo' => j \in todo
      BY <2>1, Zenon
    <3> QED
      BY <1>t, <1>q, <2>1, <3>1, <3>2, SlotFrame, ZenonT(30) DEF Slot
  <2>4. CASE is_terminal(j) /\ term[j] = "due"
    <3>1. KillGroup(j, pgid[j])
      BY <1>13, <2>4, Zenon DEF escalate_if_killed
    <3>2. j \in running
      BY <1>t, <2>1, Zenon DEF Record
    <3>3. pgid[j] # 0 /\ pgid[j] = launches[j] /\ pgid[j] \in Launch
      BY <1>t, <3>2, ZenonT(30) DEF Record
    <3>4. \A k \in Launch : members'[j][k] \subseteq Zombie
      <4>1. AfterKill(j, pgid[j]) \subseteq Zombie
        BY <1>t, <3>3, AfterKillShrinks, Zenon
      <4>2. \A k \in Launch : k # pgid[j] => members[j][k] = {}
        BY <1>t, <3>3, Zenon DEF AttemptInv, Processes
      <4>3. members \in [Jobs -> [Launch -> SUBSET Member]]
        BY <1>t, ZenonT(30) DEF AttemptInv, TypeOK
      <4> QED
        BY <3>1, <3>3, <4>1, <4>2, <4>3, ZenonT(30) DEF KillGroup
    <3>5. j \in Charged' /\ j \notin survivors /\ step # "leave"
      BY <1>t, <2>1, <3>2, ZenonT(30) DEF Charged, Slot
    <3> QED
      <4>1. Slot(j)'
        BY <1>t, <2>1, <3>2, <3>4, <3>5, ZenonT(30) DEF Slot
      <4>2. Stays(j)
        BY <1>q, <2>1, Zenon DEF Stays, Charged, Present, NoProcess, Shrinks
      <4> QED
        BY <4>1, <4>2, Zenon
  <2> QED
    BY <2>2, <2>3, <2>4, Zenon
<1>14. CASE reconcile_terminal_survivor(j)
  <2>1. /\ UNCHANGED <<pgid, at, running, orphans, step>> /\ todo' = todo \ {j}
        /\ step = "survivors" /\ j \in todo /\ at[j] = "idle"
    BY <1>14, ZenonT(30) DEF reconcile_terminal_survivor, On, Idle, Visited
  <2>2. j \in survivors /\ j \notin running
    BY <1>t, <2>1, Zenon DEF Slot
  <2>3. CASE pgroup_alive(j, pgid[j]) /\ term[j] # "due"
    <3>1. UNCHANGED <<survivors, term>> /\ step # "walk"
      BY <1>14, <2>1, <2>3, Zenon DEF reconcile_terminal_survivor
    <3> QED
      BY <1>f, <2>1, <3>1, Zenon
  <2>4. CASE ~(pgroup_alive(j, pgid[j]) /\ term[j] # "due")
    <3>1. KillGroup(j, pgid[j]) /\ survivors' = survivors \ {j} /\ term'[j] = "none"
      BY <1>t, <1>14, <2>4, Zenon DEF reconcile_terminal_survivor
    <3>2. CASE pgid[j] # 0
      <4>1. NoProcess(j)'
        BY <2>1, <2>2, <3>1, <3>2, KillEmpties, Zenon
      <4> QED
        BY <1>e, <1>q, <2>1, <3>1, <4>1, Zenon
    <3>3. CASE pgid[j] = 0
      <4>1. ~Present(j)' /\ j \notin todo' /\ j \notin survivors'
        BY <2>1, <3>1, <3>3, Zenon DEF Present
      <4>2. \A k \in Launch : members'[j][k] \cap Zombie = {}
        BY <1>t, <1>q, <2>1, <2>2, ZenonT(30) DEF FadesAll, Fades, Slot
      <4> QED
        BY <2>1, <2>2, <3>1, <4>1, <4>2, Zenon DEF Slot, Stays, Charged
    <3> QED
      BY <3>2, <3>3, Zenon
  <2> QED
    BY <2>3, <2>4, Zenon
<1>15. CASE OrphanEnds(j)
  <2>1. /\ UNCHANGED <<at, running, survivors, step>> /\ todo' = todo \ {j}
        /\ step = "orphans" /\ j \in todo /\ at[j] = "idle" /\ term'[j] = "none"
        /\ KillGroup(j, pgid[j])
    BY <1>t, <1>15, Zenon DEF OrphanEnds, On, Idle, Visited
  <2>2. j \notin running /\ pgid[j] # 0
    BY <1>t, <2>1, ZenonT(30) DEF Record
  <2>3. NoProcess(j)'
    BY <2>1, <2>2, KillEmpties, ZenonT(30)
  <2>4. orphans' \subseteq orphans
    BY <1>15, Zenon DEF OrphanEnds
  <2> QED
    BY <1>e, <1>q, <2>1, <2>3, <2>4, Zenon
<1>16. CASE StartJob(j) \/ ClaimJob(j) \/ ClaimGivesUp(j) \/ LaunchFails(j)
  <2>1. /\ UNCHANGED <<running, orphans, survivors, step, term>> /\ todo' \subseteq todo
        /\ pgid' = pgid \/ pgid' = [pgid EXCEPT ![j] = 0]
        /\ at[j] # "spawned" /\ at'[j] \notin {"spawned", "verdict", "signal"}
    <3>1. CASE StartJob(j)
      BY <1>t, <3>1, ZenonT(30) DEF StartJob, On, Idle, SetStage
    <3>2. CASE ClaimJob(j)
      BY <1>t, <3>2, Zenon DEF ClaimJob, SetStage
    <3>3. CASE ClaimGivesUp(j)
      BY <1>t, <3>3, Zenon DEF ClaimGivesUp, SetStage, Visited
    <3>4. CASE LaunchFails(j)
      BY <1>t, <3>4, Zenon DEF LaunchFails, SetStage, Visited
    <3> QED
      BY <1>16, <3>1, <3>2, <3>3, <3>4, ZenonT(30)
  <2>2. step # "walk"
    BY <1>t, <1>16, ZenonT(30) DEF StartJob, ClaimJob, ClaimGivesUp, LaunchFails, On, Record
  <2> QED
    BY <1>f, <2>1, <2>2, ZenonT(30)
<1> QED
  BY <1>3, <1>4, <1>5, <1>6, <1>7, <1>8, <1>9, <1>10, <1>11, <1>12, <1>13, <1>14, <1>15,
     <1>16, ZenonT(30)
     DEF JobStep, WalkStep, PassStep, DispatchStep
-----------------------------------------------------------------------------
(* Counting the jobs on the host. *)

INSTANCE FiniteSetTheorems

\* Fewer jobs in a finite set of them.
LEMMA Fewer ==
  ASSUME NEW S, NEW T, IsFiniteSet(S), T \subseteq S, NEW n \in Nat
  PROVE  /\ IsFiniteSet(T)
         /\ Cardinality(S) <= n => Cardinality(T) <= n
         /\ Cardinality(S) < n => Cardinality(T) < n
<1>1. IsFiniteSet(T) /\ Cardinality(T) <= Cardinality(S)
  BY FS_Subset, Zenon
<1>2. Cardinality(T) \in Nat /\ Cardinality(S) \in Nat
  BY <1>1, FS_CardinalityType, Zenon
<1> QED
  BY <1>1, <1>2

\* The steps of job j keep Slots.
LEMMA SlotsJobStep ==
  ASSUME SlotInv, TypeOK', NEW j \in Jobs, JobStep(j), Keeps
  PROVE  Slots' /\ \A i \in Jobs : Slot(i)'
<1>a. /\ AttemptInv /\ Record(j) /\ at \in [Jobs -> Stage] /\ MaxJobs \in Nat
      /\ running \subseteq Jobs /\ orphans \subseteq Jobs /\ survivors \subseteq Jobs
  BY ConstantsAssumption, Zenon DEF ConstantsAssumption, SlotInv, AttemptInv, TypeOK
<1>b. /\ IsFiniteSet(Charged) /\ IsFiniteSet(Hosted) /\ Cardinality(Hosted) <= MaxJobs
      /\ \A i, l \in Jobs : at[i] # "idle" /\ at[l] # "idle" => i = l
      /\ \A i \in Jobs : at[i] \in {"setup", "claimed", "spawned"} => Cardinality(Charged) < MaxJobs
  BY Zenon DEF SlotInv, Slots
<1>c. Slot(j)' /\ Stays(j)
  BY SlotJobStep, Zenon
<1>d. \A i \in Jobs : i # j => Untouched(i) \/ auto_resume(j)
  BY <1>a, JobStepAlone, Zenon
\* Nothing that Slot is about changes in a resubmission, but for the list.
<1>e. ASSUME NEW i \in Jobs, i # j
      PROVE  /\ Slot(i)' /\ (Present(i)' <=> Present(i)) /\ (i \in Charged' <=> i \in Charged)
             /\ at'[i] = at[i]
  <2>1. CASE Untouched(i)
    BY <2>1, <1>a, ZenonT(30) DEF Untouched, SlotInv, Slot, Present, NoProcess, Charged, is_terminal
  <2>2. CASE auto_resume(j)
    <3>1. /\ UNCHANGED <<members, pgid, at, running, orphans, survivors, term, step>>
          /\ step \in {"resume", "leave"}
      BY <2>2, Zenon DEF auto_resume, diskVars, osVars, memVars
    <3>2. is_terminal(i) => is_terminal(i)'
      BY Zenon DEF Keeps, is_terminal
    <3> QED
      BY <3>1, <3>2, Zenon DEF SlotInv, Slot, Present, NoProcess, Charged
  <2> QED
    BY <1>d, <1>e, <2>1, <2>2, Zenon
<1>1. \A i, l \in Jobs : at'[i] # "idle" /\ at'[l] # "idle" => i = l
  <2>1. at'[j] = "idle" \/ at[j] # "idle" \/ Idle
    BY <1>a, StageStep, ZenonT(30) DEF SetStage
  <2> QED
    BY <1>b, <1>e, <2>1, Zenon DEF Idle
<1>2. IsFiniteSet(Charged') /\ (Charged' \subseteq Charged \/ (at[j] # "idle" /\ at'[j] = "idle"))
  <2>1. Charged' \subseteq Charged \cup {j}
    <3>1. running' \subseteq Jobs /\ orphans' \subseteq Jobs /\ survivors' \subseteq Jobs
      BY Zenon DEF TypeOK
    <3> QED
      BY <1>e, <3>1, Zenon DEF Charged
  <2>2. IsFiniteSet(Charged \cup {j})
    BY <1>b, FS_AddElement, Zenon
  <2> QED
    BY <1>b, <1>c, <2>1, <2>2, FS_Subset, ZenonT(30) DEF Stays
<1>3. ASSUME NEW i \in Jobs, at'[i] \in {"setup", "claimed", "spawned"}
      PROVE  Cardinality(Charged') < MaxJobs
  <2>1. at'[i] # "idle"
    BY <1>3, Zenon
  <2>2. Charged' \subseteq Charged
    BY <1>1, <1>2, <1>b, <1>e, <2>1, ZenonT(30)
  <2>3. Cardinality(Charged) < MaxJobs
    BY <1>3, <1>a, <1>b, <1>e, StageStep, ZenonT(30) DEF SetStage
  <2> QED
    BY <1>a, <1>b, <2>2, <2>3, Fewer, ZenonT(30)
<1>4. IsFiniteSet(Hosted') /\ Cardinality(Hosted') <= MaxJobs
  <2>1. CASE ~LaunchJob(j)
    <3>1. Hosted' \subseteq Hosted
      BY <1>c, <1>e, <2>1, Zenon DEF Hosted, Stays
    <3> QED
      BY <1>a, <1>b, <3>1, Fewer, ZenonT(30)
  <2>2. CASE LaunchJob(j)
    <3>1. step = "dispatch" /\ at[j] = "claimed"
      BY <1>a, <2>2, ZenonT(30) DEF LaunchJob, Record
    <3>2. \A i \in Jobs : i # j => at[i] = "idle"
      BY <1>b, <3>1, Zenon
    <3>3. Hosted' \subseteq Charged \cup {j}
      <4>1. ASSUME NEW i \in Jobs, i # j, Present(i)
            PROVE  i \in Charged
        BY <3>1, <3>2, <4>1, Zenon DEF SlotInv, Slot, Pass
      <4> QED
        BY <1>e, <4>1, Zenon DEF Hosted
    <3>4. /\ IsFiniteSet(Charged \cup {j})
          /\ Cardinality(Charged \cup {j}) <= Cardinality(Charged) + 1
      <4>1. Cardinality(Charged) \in Nat
        BY <1>b, FS_CardinalityType, Zenon
      <4>2. /\ IsFiniteSet(Charged \cup {j})
            /\ Cardinality(Charged \cup {j}) = IF j \in Charged THEN Cardinality(Charged)
                                               ELSE Cardinality(Charged) + 1
        BY <1>b, FS_AddElement, Zenon
      <4> QED
        BY <4>1, <4>2
    <3>5. Cardinality(Charged) \in Nat /\ Cardinality(Charged) < MaxJobs
      BY <1>b, <3>1, FS_CardinalityType, Zenon
    <3>6. Cardinality(Charged \cup {j}) <= MaxJobs
      BY <1>a, <3>4, <3>5, FS_CardinalityType
    <3> QED
      BY <1>a, <3>3, <3>4, <3>6, Fewer, ZenonT(30)
  <2> QED
    BY <2>1, <2>2, Zenon
<1> QED
  BY <1>1, <1>2, <1>3, <1>4, <1>c, <1>e, ZenonT(30) DEF Slots

\* Every step keeps the slots.
LEMMA SlotStep == SlotInv /\ [Next]_vars => SlotInv'
<1> SUFFICES ASSUME SlotInv, [Next]_vars
             PROVE  Slots' /\ \A i \in Jobs : Slot(i)'
  BY AttemptNext, Zenon DEF SlotInv
<1> USE DEF specVars, diskVars, osVars, memVars, pcVars
<1>a. AttemptInv /\ Keeps /\ TypeOK' /\ MaxJobs \in Nat
  BY AttemptNext, NextKeeps, ConstantsAssumption, ZenonT(30) DEF ConstantsAssumption, SlotInv, AttemptInv
<1>b. /\ IsFiniteSet(Charged) /\ IsFiniteSet(Hosted) /\ Cardinality(Hosted) <= MaxJobs
      /\ \A i, l \in Jobs : at[i] # "idle" /\ at[l] # "idle" => i = l
      /\ \A i \in Jobs : at[i] \in {"setup", "claimed", "spawned"} => Cardinality(Charged) < MaxJobs
  BY Zenon DEF SlotInv, Slots
<1>c. \A i \in Jobs : Slot(i) /\ Record(i)
  BY <1>a, Zenon DEF SlotInv, AttemptInv
<1>1. ASSUME NEW j \in Jobs, JobStep(j) PROVE Slots' /\ \A i \in Jobs : Slot(i)'
  BY <1>1, <1>a, SlotsJobStep, Zenon
<1>2. CASE DaemonStarts \/ WalkEnds \/ PassEnds \/ WalkStops \/ UNCHANGED vars
  <2>1. UNCHANGED <<members, pgid, state, at, running, orphans, survivors, term>>
    BY <1>2, ZenonT(30) DEF DaemonStarts, WalkEnds, PassEnds, WalkStops, vars
  <2>2. Charged' = Charged /\ Hosted' = Hosted
    BY <2>1, Zenon DEF Charged, Hosted, Present, NoProcess
  <2>3. Slots'
    BY <1>b, <2>1, <2>2, Zenon DEF Slots
  <2>4. ASSUME NEW i \in Jobs
        PROVE  /\ \A k \in Launch :
                      members'[i][k] \cap Zombie # {} => i \in running' \/ at'[i] = "spawned"
               /\ term'[i] = "killed" =>
                      i \in running' /\ \A k \in Launch : members'[i][k] \subseteq Zombie
               /\ i \in survivors' => is_terminal(i)' /\ i \notin running'
               /\ Present(i)' <=> Present(i)
    BY <1>c, <2>1, Zenon DEF Slot, is_terminal, Present, NoProcess
  <2>5. CASE DaemonStarts
    <3>1. step = "down" /\ step' = "walk" /\ todo' = {i \in Jobs : state[i] # "absent"}
      BY <2>5, Zenon DEF DaemonStarts
    <3>2. \A i \in Jobs : Present(i) => i \in todo'
      BY <1>c, <3>1, ZenonT(30) DEF Record, Present
    <3>3. \A i \in Jobs : at[i] \notin {"verdict", "signal"}
      BY <1>c, <3>1, ZenonT(30) DEF Slot
    <3> QED
      BY <2>1, <2>3, <2>4, <3>1, <3>2, <3>3, ZenonT(30) DEF Slot, Pass
  <2>6. CASE WalkEnds
    <3>1. step = "walk" /\ step' = "resume" /\ todo = {} /\ \A i \in Jobs : at[i] = "idle"
      BY <2>6, Zenon DEF WalkEnds, Idle
    <3>2. \A i \in Jobs : Present(i) => i \in Charged'
      BY <1>c, <2>2, <3>1, ZenonT(30) DEF Slot, Charged
    <3> QED
      BY <2>1, <2>3, <2>4, <3>1, <3>2, ZenonT(30) DEF Slot
  <2>7. CASE WalkStops
    <3>1. step = "walk" /\ step' = "leave" /\ \A i \in Jobs : at[i] = "idle"
      BY <2>7, Zenon DEF WalkStops, Idle
    <3>2. \A i \in Jobs : i \notin running
      BY <1>c, <3>1, ZenonT(30) DEF Record
    <3> QED
      BY <2>1, <2>3, <2>4, <3>1, <3>2, ZenonT(30) DEF Slot, Pass
  <2>8. CASE PassEnds
    <3>1. /\ step \in Pass \cup {"resume"} /\ step' = After(step) /\ todo' = Targets(After(step))
          /\ \A i \in Jobs : at[i] = "idle"
      BY <2>8, Zenon DEF PassEnds, Idle
    <3>2. step' \in Pass /\ step' \notin {"walk", "leave"}
      BY <3>1, Zenon DEF After, Pass
    <3>3. step' = "survivors" => todo' = survivors
      BY <3>1, Zenon DEF Targets
    <3>4. \A i \in Jobs : Present(i) => i \in Charged'
      BY <1>c, <2>2, <3>1, ZenonT(30) DEF Slot
    <3> QED
      BY <2>1, <2>3, <2>4, <3>1, <3>2, <3>3, <3>4, ZenonT(30) DEF Slot
  <2>9. CASE UNCHANGED vars
    BY <1>c, <2>1, <2>2, <2>3, <2>4, <2>9, ZenonT(30) DEF vars, Slot
  <2> QED
    BY <1>2, <2>5, <2>6, <2>7, <2>8, <2>9, ZenonT(30)
<1>3. CASE DaemonLeaves \/ DaemonCrashes \/ HostReboots
  <2>1. /\ running' = {} /\ orphans' = {} /\ survivors' = {} /\ step' = "down" /\ todo' = {}
        /\ term' = [i \in Jobs |-> "none"] /\ at' = [i \in Jobs |-> "idle"] /\ pgid' = pgid
    BY <1>3, Zenon DEF DaemonLeaves, DaemonCrashes, HostReboots, Forget
  <2>2. \A i \in Jobs : \A k \in Launch : members'[i][k] \cap Zombie = {}
    <3>1. CASE DaemonLeaves
      <4>1. step = "leave" /\ UNCHANGED members
        BY <3>1, Zenon DEF DaemonLeaves
      <4>2. \A i \in Jobs : i \notin running /\ at[i] # "spawned"
        BY <1>c, <4>1, ZenonT(30) DEF Slot, Record
      <4> QED
        BY <1>c, <4>1, <4>2, Zenon DEF Slot
    <3>2. CASE DaemonCrashes \/ HostReboots
      <4>1. CASE DaemonCrashes
        <5>1. members' = [i \in Jobs |-> [k \in Launch |-> members[i][k] \ Zombie]]
          BY <4>1, Zenon DEF DaemonCrashes
        <5> QED
          BY <5>1, Zenon
      <4>2. CASE HostReboots
        <5>1. members' = [i \in Jobs |-> [k \in Launch |-> {}]]
          BY <4>2, Zenon DEF HostReboots
        <5> QED
          BY <5>1, Zenon
      <4> QED
        BY <3>2, <4>1, <4>2, Zenon
    <3> QED
      BY <1>3, <3>1, <3>2, Zenon
  <2>3. \A i \in Jobs : Slot(i)'
    BY <2>1, <2>2, Zenon DEF Slot, Pass
  <2>4. Hosted' \subseteq Hosted
    <3>1. \A i \in Jobs : \A k \in Launch : members'[i][k] \subseteq members[i][k]
      BY <1>3 DEF DaemonLeaves, DaemonCrashes, HostReboots
    <3>2. ASSUME NEW i \in Jobs, Present(i)' PROVE Present(i)
      BY <2>1, <3>1, <3>2, Zenon DEF Present, NoProcess
    <3> QED
      BY <3>2, Zenon DEF Hosted
  <2>5. Charged' = {}
    BY <2>1, Zenon DEF Charged
  <2>6. IsFiniteSet(Hosted') /\ Cardinality(Hosted') <= MaxJobs
    BY <1>a, <1>b, <2>4, Fewer, ZenonT(30)
  <2> QED
    BY <2>1, <2>3, <2>5, <2>6, FS_EmptySet, ZenonT(30) DEF Slots
<1> QED
  BY <1>1, <1>2, <1>3, NextSplits, ZenonT(30)

\* The daemon never has more jobs on the host than max_jobs: the walk of a new
\* daemon takes over what the last one left before anything is dispatched, a
\* launch is paid for before it is made, and a slot comes back only with the
\* last process.  For any jobs, capacity and number of outages.
THEOREM HostWithinCapacity == Spec => []Capacity
<1>1. Init => SlotInv
  <2> SUFFICES ASSUME Init PROVE Slots /\ \A j \in Jobs : Slot(j)
    BY AttemptInit, Zenon DEF SlotInv
  <2>1. Charged = {} /\ Hosted = {}
    BY Zenon DEF Init, Charged, Hosted, Present, NoProcess
  <2>2. Slots
    BY <2>1, FS_EmptySet, ConstantsAssumption DEF ConstantsAssumption, Init, Slots
  <2> QED
    BY <2>2, Zenon DEF Init, Slot, Pass
<1>2. SlotInv => Capacity
  <2> SUFFICES ASSUME SlotInv PROVE Capacity
    BY Zenon
  <2>1. OnHost \subseteq Hosted
    <3> SUFFICES ASSUME NEW j \in Jobs, NEW k \in Launch, pgroup_alive(j, k),
                        k = pgid[j] \/ (k = launches[j] /\ at[j] = "spawned")
                 PROVE  Present(j)
      BY Zenon DEF OnHost, Hosted
    <3>1. k # 0
      BY DEF Launch
    <3> QED
      BY <3>1, Zenon DEF Present, NoProcess, pgroup_alive
  <2>2. IsFiniteSet(Hosted) /\ Cardinality(Hosted) <= MaxJobs /\ MaxJobs \in Nat
    BY ConstantsAssumption, Zenon DEF ConstantsAssumption, SlotInv, Slots
  <2> QED
    BY <2>1, <2>2, Fewer, Zenon DEF Capacity
<1> QED
  BY <1>1, <1>2, SlotStep, PTL DEF Spec

=============================================================================
