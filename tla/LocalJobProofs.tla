--------------------------- MODULE LocalJobProofs ---------------------------
(***************************************************************************)
(* Proofs about LocalJob, for every value of its constants: its types, that *)
(* two attempts of a job never overlap, that terminal labels are final, and *)
(* that no two unfinished jobs share a workspace.  LocalJobHostProofs goes  *)
(* on from the invariant AttemptInv.                                        *)
(***************************************************************************)
EXTENDS LocalJob, TLAPS

\* What no signal, exit or reap undoes in the process groups.
Shrinks ==
    \A i \in Jobs : \A l \in Launch :
        /\ members[i][l] = {} => members'[i][l] = {}
        /\ "command" \in members'[i][l] => "command" \in members[i][l]
        /\ members'[i][l] \cap Outcome # {} => members'[i][l] \subseteq Zombie

\* The parts of TypeOK that a group of actions shares.
MembersType == members \in [Jobs -> [Launch -> SUBSET Member]]
StoppedType == stopped \in [Jobs -> SUBSET Launch]

SpecType ==
    /\ state \in [Jobs -> JobState]
    /\ pgid \in [Jobs -> Launch \cup {0}]
    /\ intent \in [Jobs -> Launch \cup {0}]
    /\ retries \in [Jobs -> 0 .. RetryMax]
    /\ cwd \in [Jobs -> Jobs]

DiskType ==
    /\ marker \in [Jobs -> Marker]
    /\ cleaned \in SUBSET Jobs

-----------------------------------------------------------------------------
(* What the signals, the exits and the reaps do to the process groups. *)

\* A signal or a reap changes one process group of one job, and keeps its
\* type.
LEMMA UpdateType ==
  ASSUME TypeOK, NEW j \in Jobs, NEW k, NEW S \in SUBSET Member,
         members' = [members EXCEPT ![j][k] = S]
  PROVE  MembersType'
BY Zenon DEF TypeOK, MembersType

\* Such a change is a Shrinks step if it is one for the group it touches.
LEMMA UpdateShrinks ==
  ASSUME AttemptInv, NEW j \in Jobs, NEW k, NEW S \in SUBSET Member,
         members' = [members EXCEPT ![j][k] = S],
         k \in Launch =>
             /\ members[j][k] = {} => S = {}
             /\ "command" \in S => "command" \in members[j][k]
             /\ S \cap Outcome # {} => S \subseteq Zombie
  PROVE  Shrinks
<1> SUFFICES ASSUME NEW i \in Jobs, NEW l \in Launch
             PROVE  /\ members[i][l] = {} => members'[i][l] = {}
                    /\ "command" \in members'[i][l] => "command" \in members[i][l]
                    /\ members'[i][l] \cap Outcome # {} => members'[i][l] \subseteq Zombie
  BY Zenon DEF Shrinks
<1>1. CASE i = j /\ l = k
  <2>1. members'[i][l] = S
    BY <1>1, Zenon DEF AttemptInv, TypeOK
  <2> QED
    BY <1>1, <2>1, Zenon
<1>2. CASE ~(i = j /\ l = k)
  <2>1. members'[i][l] = members[i][l]
    BY <1>2, Zenon DEF AttemptInv, TypeOK
  <2> QED
    BY <2>1, Zenon DEF AttemptInv, Processes
<1> QED
  BY <1>1, <1>2, Zenon

\* SIGKILL leaves at most the zombie of the wrapper, and nothing of an empty
\* group.
LEMMA AfterKillShrinks ==
  ASSUME AttemptInv, NEW j \in Jobs, NEW k \in Launch \cup {0}
  PROVE  /\ AfterKill(j, k) \in SUBSET Zombie
         /\ members[j][k] = {} => AfterKill(j, k) = {}
BY Zenon DEF AfterKill, Remains, Zombie, Outcome

\* killpg(SIGCONT), killpg(SIGKILL): the types, and no process is added.
LEMMA KillFacts ==
  ASSUME AttemptInv, NEW j \in Jobs, NEW k \in Launch \cup {0}, KillGroup(j, k)
  PROVE  MembersType' /\ StoppedType' /\ Shrinks
<1>1. AfterKill(j, k) \in SUBSET Member /\ "command" \notin AfterKill(j, k)
  BY AfterKillShrinks, Zenon DEF Zombie, Member, Outcome
<1>2. MembersType'
  BY <1>1, UpdateType, Zenon DEF KillGroup, AttemptInv
<1>3. StoppedType'
  BY Zenon DEF KillGroup, StoppedType, AttemptInv, TypeOK
<1>4. Shrinks
  BY <1>1, AfterKillShrinks, UpdateShrinks, Zenon DEF KillGroup
<1> QED
  BY <1>2, <1>3, <1>4, Zenon

\* killpg(SIGCONT), killpg(SIGTERM): the types, and no process is added,
\* whichever members ignore the signal.
LEMMA TermFacts ==
  ASSUME AttemptInv, NEW j \in Jobs, NEW k \in Launch \cup {0}, TermGroup(j, k)
  PROVE  MembersType' /\ StoppedType' /\ Shrinks
<1>1. PICK keep \in SUBSET {"wrapper", "command"} :
          members' = [members EXCEPT ![j][k] = AfterTerm(j, k, keep)]
  BY Zenon DEF TermGroup
<1>2. AfterTerm(j, k, keep) \in SUBSET Member
  BY Zenon DEF AfterTerm, Remains, Zombie, Member, Outcome
<1>3. ASSUME k \in Launch
      PROVE  /\ members[j][k] = {} => AfterTerm(j, k, keep) = {}
             /\ "command" \in AfterTerm(j, k, keep) => "command" \in members[j][k]
             /\ AfterTerm(j, k, keep) \cap Outcome # {} => AfterTerm(j, k, keep) \subseteq Zombie
  BY <1>3, Zenon DEF AfterTerm, Remains, Zombie, Outcome, AttemptInv, Processes
<1>4. MembersType'
  BY <1>1, <1>2, UpdateType, Zenon DEF AttemptInv
<1>5. StoppedType'
  BY Zenon DEF TermGroup, StoppedType, AttemptInv, TypeOK
<1>6. Shrinks
  BY <1>1, <1>2, <1>3, UpdateShrinks, Zenon
<1> QED
  BY <1>4, <1>5, <1>6, Zenon

-----------------------------------------------------------------------------
(* How an end is recorded. *)

\* The record of a finished attempt is well typed: in particular _maybe_retry
\* stays within retry_max.
LEMMA FinishSpecType ==
  ASSUME AttemptInv, NEW j \in Jobs, NEW ok \in BOOLEAN, FinishSpec(j, ok)
  PROVE  SpecType'
<1>1. state' \in [Jobs -> JobState]
  BY Zenon DEF FinishSpec, AttemptInv, TypeOK, JobState, TERMINAL_STATES
<1>2. retries' \in [Jobs -> 0 .. RetryMax]
  <2>1. retries \in [Jobs -> 0 .. RetryMax]
    BY Zenon DEF AttemptInv, TypeOK
  <2>2. CASE Retries(j, ok)
    <3>1. retries[j] + 1 \in 0 .. RetryMax
      BY <2>1, <2>2, ConstantsAssumption DEF ConstantsAssumption, Retries
    <3> QED
      BY <2>1, <2>2, <3>1, Zenon DEF FinishSpec
  <2> QED
    BY <2>1, <2>2, Zenon DEF FinishSpec
<1>3. pgid' \in [Jobs -> Launch \cup {0}]
  BY Zenon DEF FinishSpec, AttemptInv, TypeOK
<1> QED
  BY <1>1, <1>2, <1>3, Zenon DEF FinishSpec, SpecType, AttemptInv, TypeOK

\* _maybe_cleanup_workdir keeps the type of the disk.
LEMMA FinishDiskType ==
  ASSUME AttemptInv, NEW j \in Jobs, NEW ok \in BOOLEAN, FinishDisk(j, ok)
  PROVE  DiskType'
BY DEF FinishDisk, CleanWorkdir, DiskType, AttemptInv, TypeOK

\* _record_orphan_finish and _mark_aborted_by_queue write a well-typed
\* record.
LEMMA RecordOrphanType ==
  ASSUME AttemptInv, NEW j \in Jobs, RecordOrphan(j)
  PROVE  SpecType' /\ DiskType'
<1>1. CASE marker[cwd[j]] # NoMarker
  BY <1>1, FinishSpecType, FinishDiskType, Zenon DEF RecordOrphan
<1>2. CASE marker[cwd[j]] = NoMarker
  <2>1. CASE is_terminal(j)
    BY <1>2, <2>1, Zenon
       DEF RecordOrphan, specVars, diskVars, SpecType, DiskType, AttemptInv, TypeOK
  <2>2. CASE ~is_terminal(j)
    <3>1. /\ state' = [state EXCEPT ![j] = "ABORTED_BY_QUEUE"]
          /\ cleaned' = cleaned \cup {j}
          /\ UNCHANGED <<pgid, intent, retries, cwd, marker>>
      BY <1>2, <2>2, Zenon DEF RecordOrphan, CleanWorkdir
    <3>2. state' \in [Jobs -> JobState]
      BY <3>1, Zenon DEF AttemptInv, TypeOK, JobState, TERMINAL_STATES
    <3> QED
      BY <3>1, <3>2, Zenon DEF SpecType, DiskType, AttemptInv, TypeOK
  <2> QED
    BY <2>1, <2>2, Zenon
<1> QED
  BY <1>1, <1>2, Zenon

\* The processes' own exits add no process; resource_receipt's wrapper exits
\* with a status only after its command.
LEMMA ExitFacts ==
  ASSUME AttemptInv, NEW j \in Jobs, NEW k \in Launch,
         CommandExits(j, k) \/ WrapperExits(j, k) \/ WrapperKilled(j, k)
  PROVE  MembersType' /\ Shrinks
<1>1. CASE CommandExits(j, k)
  <2> DEFINE S == members[j][k] \ {"command"}
  <2>1. S \in SUBSET Member
    BY DEF AttemptInv, TypeOK
  <2>2. members' = [members EXCEPT ![j][k] = S]
    BY <1>1, Zenon DEF CommandExits
  <2>3. S \cap Outcome # {} => S \subseteq Zombie
    BY Zenon DEF AttemptInv, Processes
  <2> HIDE DEF S
  <2>4. /\ members[j][k] = {} => S = {}
        /\ "command" \in S => "command" \in members[j][k]
    BY Zenon DEF S
  <2> QED
    BY <2>1, <2>2, <2>3, <2>4, UpdateType, UpdateShrinks, Zenon DEF AttemptInv
<1>2. CASE WrapperExits(j, k)
  <2> DEFINE S == (members[j][k] \ {"wrapper"}) \cup Remains(j, k, exits[j][k])
  <2>1. "wrapper" \in members[j][k] /\ exits[j][k] \in Outcome /\ "command" \notin members[j][k]
    <3>1. "wrapper" \in members[j][k] /\ exits[j][k] # "none"
      BY <1>2, Zenon DEF WrapperExits
    <3>2. exits[j][k] \in Outcome \cup {"none"}
      BY DEF AttemptInv, TypeOK
    <3>3. exits[j][k] # "none" => "command" \notin members[j][k]
      BY Zenon DEF AttemptInv, Processes
    <3> QED
      BY <3>1, <3>2, <3>3, Zenon
  <2>2. S \in SUBSET Zombie /\ S \in SUBSET Member
    <3>1. members[j][k] \in SUBSET Member
      BY DEF AttemptInv, TypeOK
    <3>2. Remains(j, k, exits[j][k]) \in SUBSET Outcome
      BY <2>1, Zenon DEF Remains
    <3> QED
      BY <2>1, <3>1, <3>2, Zenon DEF Member, Zombie
  <2>3. members' = [members EXCEPT ![j][k] = S]
    BY <1>2, Zenon DEF WrapperExits
  <2>4. "command" \notin S
    BY <2>2, Zenon DEF Zombie, Outcome
  <2> HIDE DEF S
  <2> QED
    BY <2>1, <2>2, <2>3, <2>4, UpdateType, UpdateShrinks, Zenon DEF AttemptInv
<1>3. CASE WrapperKilled(j, k)
  <2> DEFINE S == (members[j][k] \ {"wrapper"}) \cup Remains(j, k, "signalled")
  <2>1. "wrapper" \in members[j][k]
    BY <1>3, Zenon DEF WrapperKilled
  <2>2. S \in SUBSET Member /\ S \cap Outcome = {}
    <3>1. members[j][k] \in SUBSET Member
      BY DEF AttemptInv, TypeOK
    <3>2. members[j][k] \cap Outcome # {} => members[j][k] \subseteq Zombie
      BY Zenon DEF AttemptInv, Processes
    <3>3. Remains(j, k, "signalled") \in SUBSET {"signalled"}
      BY Zenon DEF Remains
    <3> QED
      BY <2>1, <3>1, <3>2, <3>3, Zenon DEF Member, Zombie, Outcome
  <2>3. members' = [members EXCEPT ![j][k] = S]
    BY <1>3, Zenon DEF WrapperKilled
  <2>4. "command" \in S => "command" \in members[j][k]
    BY Zenon DEF Remains
  <2> HIDE DEF S
  <2> QED
    BY <2>1, <2>2, <2>3, <2>4, UpdateType, UpdateShrinks, Zenon DEF AttemptInv
<1> QED
  BY <1>1, <1>2, <1>3, Zenon

\* _record_finish's reap of the wrapper, and of a stranded group, adds no
\* process.
LEMMA ReapFacts ==
  ASSUME AttemptInv, NEW j \in Jobs, NEW z,
         members' = [members EXCEPT ![j][pgid[j]] = IF Stranded(j, z) THEN {} ELSE @ \ Zombie],
         stopped' = IF Stranded(j, z)
                    THEN [stopped EXCEPT ![j] = @ \ {pgid[j]}]
                    ELSE stopped,
         pgid[j] # 0
  PROVE  MembersType' /\ StoppedType' /\ Shrinks
<1> DEFINE S == IF Stranded(j, z) THEN {} ELSE members[j][pgid[j]] \ Zombie
<1>1. pgid[j] \in Launch
  BY Zenon DEF AttemptInv, TypeOK
<1>2. /\ S \in SUBSET Member
      /\ S \cap Outcome = {}
      /\ members[j][pgid[j]] = {} => S = {}
      /\ "command" \in S => "command" \in members[j][pgid[j]]
  BY <1>1 DEF AttemptInv, TypeOK, Zombie
<1>3. members' = [members EXCEPT ![j][pgid[j]] = S]
  BY Zenon
<1>4. StoppedType'
  BY Zenon DEF StoppedType, AttemptInv, TypeOK
<1> HIDE DEF S
<1> QED
  BY <1>1, <1>2, <1>3, <1>4, UpdateType, UpdateShrinks, Zenon DEF AttemptInv

\* One more outage is within the bound.
LEMMA OutageType ==
  ASSUME AttemptInv, outages < MaxOutages
  PROVE  outages + 1 \in 0 .. MaxOutages
BY ConstantsAssumption DEF ConstantsAssumption, AttemptInv, TypeOK

\* The SIGTERM grace has one of its four values.
LEMMA GraceType ==
  ASSUME AttemptInv, NEW j \in Jobs
  PROVE  Grace(j) \in {"none", "armed", "due", "killed"}
BY Zenon DEF Grace, AttemptInv, TypeOK

-----------------------------------------------------------------------------
(* Type correctness. *)

\* Every step of the daemon, the CLI, the pausers, the processes and the host
\* keeps TypeOK.
LEMMA TypeStep == AttemptInv /\ [Next]_vars => TypeOK'
<1> SUFFICES ASSUME AttemptInv, [Next]_vars
             PROVE  TypeOK'
  BY Zenon
<1> USE DEF specVars, diskVars, osVars, memVars, pcVars
<1>1. ASSUME NEW j \in Jobs, NEW k \in Launch, CommandExits(j, k) PROVE TypeOK'
  BY <1>1, ExitFacts, Zenon DEF CommandExits, MembersType, AttemptInv, TypeOK
<1>2. ASSUME NEW j \in Jobs, NEW k \in Launch, NEW rc \in Outcome, WrapperMarks(j, k, rc)
      PROVE  TypeOK'
  <2> DEFINE m == [rc |-> rc, job |-> j, launch |-> k]
  <2>1. m \in Marker
    BY Zenon DEF Marker
  <2>2. cwd[j] \in Jobs
    BY Zenon DEF AttemptInv, TypeOK
  <2> HIDE DEF m
  <2>3. marker' \in {marker, [marker EXCEPT ![cwd[j]] = m]}
    BY <1>2, Zenon DEF WrapperMarks, m
  <2>4. marker' \in [Jobs -> Marker]
    <3>1. marker \in [Jobs -> Marker]
      BY Zenon DEF AttemptInv, TypeOK
    <3>2. marker' = marker \/ marker' = [marker EXCEPT ![cwd[j]] = m]
      BY <2>3, Zenon
    <3> QED
      BY <2>1, <2>2, <3>1, <3>2, Zenon
  <2>5. exits' \in [Jobs -> [Launch -> Outcome \cup {"none"}]]
    BY <1>2, Zenon DEF WrapperMarks, AttemptInv, TypeOK
  <2> QED
    BY <1>2, <2>4, <2>5, Zenon DEF WrapperMarks, AttemptInv, TypeOK
<1>3. ASSUME NEW j \in Jobs, NEW k \in Launch, WrapperExits(j, k) PROVE TypeOK'
  BY <1>3, ExitFacts, Zenon DEF WrapperExits, MembersType, AttemptInv, TypeOK
<1>4. ASSUME NEW j \in Jobs, NEW k \in Launch, WrapperKilled(j, k) PROVE TypeOK'
  BY <1>4, ExitFacts, Zenon DEF WrapperKilled, MembersType, AttemptInv, TypeOK
<1>5. ASSUME NEW j \in Jobs, kill_job(j) PROVE TypeOK'
  BY <1>5, TermFacts, Zenon
     DEF kill_job, MembersType, StoppedType, JobState, TERMINAL_STATES, AttemptInv,
         TypeOK
<1>6. ASSUME NEW j \in Jobs, PauseArms(j) PROVE TypeOK'
  BY <1>6, Zenon DEF PauseArms, AttemptInv, TypeOK
<1>7. ASSUME NEW j \in Jobs, PauseSignals(j) PROVE TypeOK'
  <2>1. pgid[j] \in Launch
    <3>1. pgid[j] \in Launch \cup {0}
      BY Zenon DEF AttemptInv, TypeOK
    <3>2. pgid[j] # 0
      BY <1>7, Zenon DEF PauseSignals, AttemptInv, Record
    <3> QED
      BY <3>1, <3>2, Zenon
  <2>2. stopped' \in [Jobs -> SUBSET Launch]
    <3>1. stopped \in [Jobs -> SUBSET Launch]
      BY Zenon DEF AttemptInv, TypeOK
    <3>2. stopped' \in {stopped, [stopped EXCEPT ![j] = @ \cup {pgid[j]}]}
      BY <1>7, Zenon DEF PauseSignals
    <3> QED
      BY <2>1, <3>1, <3>2, Zenon
  <2> QED
    BY <1>7, <2>2, ZenonT(30) DEF PauseSignals, AttemptInv, TypeOK
<1>8. ASSUME NEW j \in Jobs, PauseCommits(j) PROVE TypeOK'
  BY <1>8, Zenon DEF PauseCommits, JobState, TERMINAL_STATES, AttemptInv, TypeOK
<1>9. ASSUME NEW j \in Jobs, PauserDies(j) PROVE TypeOK'
  BY <1>9, Zenon DEF PauserDies, AttemptInv, TypeOK
<1>10. ASSUME NEW j \in Jobs, resume_job(j) PROVE TypeOK'
  BY <1>10, Zenon DEF resume_job, JobState, TERMINAL_STATES, AttemptInv, TypeOK
<1>11. ASSUME DaemonStarts PROVE TypeOK'
  BY <1>11, Zenon DEF DaemonStarts, Step, AttemptInv, TypeOK
<1>12. ASSUME NEW j \in Jobs, WalkSettled(j) PROVE TypeOK'
  BY <1>12, KillFacts, Zenon
     DEF WalkSettled, MembersType, StoppedType, On, Visited, AttemptInv, TypeOK
<1>13. ASSUME NEW j \in Jobs, WalkReads(j) PROVE TypeOK'
  BY <1>13, Zenon DEF WalkReads, Stage, SetStage, On, AttemptInv, TypeOK
<1>14. ASSUME NEW j \in Jobs, WalkAborts(j) PROVE TypeOK'
  BY <1>14, Zenon
     DEF WalkAborts, JobState, TERMINAL_STATES, Stage, SetStage, Visited,
         RememberAborted, AttemptInv, TypeOK
<1>15. ASSUME NEW j \in Jobs, WalkReattaches(j) PROVE TypeOK'
  BY <1>15, Zenon DEF WalkReattaches, Stage, SetStage, Visited, AttemptInv, TypeOK
<1>16. ASSUME NEW j \in Jobs, WalkFinishes(j) PROVE TypeOK'
  <2>1. SpecType' /\ DiskType'
    BY <1>16, RecordOrphanType, Zenon DEF WalkFinishes
  <2>2. aborted' \in SUBSET Jobs
    <3>1. aborted' = aborted \/ aborted' = aborted \cup {j}
      BY <1>16, Zenon DEF WalkFinishes, RememberAborted
    <3> QED
      BY <3>1, Zenon DEF AttemptInv, TypeOK
  <2> QED
    BY <1>16, <2>1, <2>2, ZenonT(30)
       DEF WalkFinishes, SpecType, DiskType, Visited, Stage, SetStage, AttemptInv, TypeOK
<1>17. ASSUME WalkStops PROVE TypeOK'
  BY <1>17, OutageType, Zenon DEF WalkStops, Step, AttemptInv, TypeOK
<1>18. ASSUME WalkEnds PROVE TypeOK'
  BY <1>18, Zenon DEF WalkEnds, Step, AttemptInv, TypeOK
<1>19. ASSUME NEW j \in Jobs, auto_resume(j) PROVE TypeOK'
  <2>1. CASE UNCHANGED <<state, retries, cwd>>
    BY <1>19, <2>1, ZenonT(30) DEF auto_resume, Visited, AttemptInv, TypeOK
  <2>2. ASSUME NEW s \in Jobs,
               state' = [state EXCEPT ![s] = "PENDING"],
               retries' = [retries EXCEPT ![s] = retries[j]],
               cwd' = [cwd EXCEPT ![s] = cwd[j]]
        PROVE  TypeOK'
    <3>1. SpecType'
      BY <1>19, <2>2, Zenon DEF auto_resume, SpecType, AttemptInv, TypeOK, JobState
    <3> QED
      BY <1>19, <3>1, ZenonT(30) DEF auto_resume, Visited, SpecType, AttemptInv, TypeOK
  <2> QED
    BY <1>19, <2>1, <2>2, Zenon DEF auto_resume
<1>20. ASSUME NEW j \in Jobs, NoPauseIntent(j) PROVE TypeOK'
  BY <1>20, Zenon DEF NoPauseIntent, On, Visited, AttemptInv, TypeOK
<1>21. ASSUME NEW j \in Jobs, reconcile_pause_intent(j) PROVE TypeOK'
  <2>1. CASE intent[j] # pgid[j]
    BY <1>21, <2>1, Zenon DEF reconcile_pause_intent, On, Visited, AttemptInv, TypeOK
  <2>2. CASE intent[j] = pgid[j]
    <3>1. pgid[j] \in Launch
      BY <1>21, <2>2 DEF reconcile_pause_intent, AttemptInv, TypeOK
    <3>2. intent' \in [Jobs -> Launch \cup {0}]
      BY <1>21, <2>2, Zenon DEF reconcile_pause_intent, AttemptInv, TypeOK
    <3>3. state' \in [Jobs -> JobState]
      <4>1. state \in [Jobs -> JobState] /\ "SUSPENDED" \in JobState
        BY Zenon DEF AttemptInv, TypeOK, JobState
      <4>2. state' \in {state, [state EXCEPT ![j] = "SUSPENDED"]}
        BY <1>21, <2>2, Zenon DEF reconcile_pause_intent
      <4> QED
        BY <4>1, <4>2, Zenon
    <3>4. stopped' \in [Jobs -> SUBSET Launch]
      <4>1. stopped \in [Jobs -> SUBSET Launch]
        BY Zenon DEF AttemptInv, TypeOK
      <4>2. stopped' \in {stopped, [stopped EXCEPT ![j] = @ \cup {pgid[j]}],
                          [stopped EXCEPT ![j] = @ \ {pgid[j]}]}
        BY <1>21, <2>2, Zenon DEF reconcile_pause_intent
      <4> QED
        BY <3>1, <4>1, <4>2, Zenon
    <3> QED
      BY <1>21, <3>2, <3>3, <3>4, Zenon DEF reconcile_pause_intent, On, Visited, AttemptInv, TypeOK
  <2> QED
    BY <2>1, <2>2, Zenon
<1>22. ASSUME NEW j \in Jobs, record_finish(j) PROVE TypeOK'
  <2>1. pgid[j] # 0
    BY <1>22, Zenon DEF record_finish, On, AttemptInv, Record
  <2>2. PICK z \in Zombie :
          /\ members' = [members EXCEPT ![j][pgid[j]] = IF Stranded(j, z) THEN {} ELSE @ \ Zombie]
          /\ stopped' = IF Stranded(j, z)
                        THEN [stopped EXCEPT ![j] = @ \ {pgid[j]}]
                        ELSE stopped
          /\ FinishSpec(j, z = "zero")
          /\ FinishDisk(j, z = "zero")
          /\ survivors' = IF Survives(j, z) THEN survivors \cup {j} ELSE survivors
          /\ term' = [term EXCEPT ![j] = IF Survives(j, z) THEN Grace(j) ELSE "none"]
    BY <1>22, Zenon DEF record_finish
  <2>3. MembersType' /\ StoppedType'
    BY <2>1, <2>2, ReapFacts, Zenon
  <2>4. SpecType' /\ DiskType'
    BY <2>2, FinishSpecType, FinishDiskType, Zenon
  <2>5. survivors' \in SUBSET Jobs /\ term' \in [Jobs -> {"none", "armed", "due", "killed"}]
    BY <2>2, GraceType, ZenonT(30) DEF AttemptInv, TypeOK
  <2> QED
    BY <1>22, <2>3, <2>4, <2>5, Zenon
       DEF record_finish, Visited, MembersType, StoppedType, SpecType, DiskType, AttemptInv, TypeOK
<1>23. ASSUME NEW j \in Jobs, escalate_if_killed(j) PROVE TypeOK'
  BY <1>23, KillFacts, GraceType, ZenonT(30)
     DEF escalate_if_killed, MembersType, StoppedType, On, Visited, AttemptInv, TypeOK
<1>24. ASSUME NEW j \in Jobs, reconcile_terminal_survivor(j) PROVE TypeOK'
  BY <1>24, KillFacts, ZenonT(30)
     DEF reconcile_terminal_survivor, MembersType, StoppedType, On, Visited, AttemptInv,
         TypeOK
<1>25. ASSUME NEW j \in Jobs, OrphanStays(j) PROVE TypeOK'
  BY <1>25, GraceType, Zenon DEF OrphanStays, On, Visited, AttemptInv, TypeOK
<1>26. ASSUME NEW j \in Jobs, OrphanEnds(j) PROVE TypeOK'
  BY <1>26, KillFacts, RecordOrphanType, ZenonT(30)
     DEF OrphanEnds, MembersType, StoppedType, SpecType, DiskType, On, Visited,
         AttemptInv, TypeOK
<1>27. ASSUME NEW j \in Jobs, WatchdogOk(j) PROVE TypeOK'
  BY <1>27, Zenon DEF WatchdogOk, On, Visited, AttemptInv, TypeOK
<1>28. ASSUME NEW j \in Jobs, WatchdogVerdict(j) PROVE TypeOK'
  BY <1>28, Zenon DEF WatchdogVerdict, On, Stage, SetStage, AttemptInv, TypeOK
<1>29. ASSUME NEW j \in Jobs, WatchdogMarks(j) PROVE TypeOK'
  BY <1>29, ZenonT(30) DEF WatchdogMarks, JobState, TERMINAL_STATES, Stage, SetStage, AttemptInv, TypeOK
<1>30. ASSUME NEW j \in Jobs, WatchdogSignals(j) PROVE TypeOK'
  BY <1>30, TermFacts, ZenonT(30)
     DEF WatchdogSignals, MembersType, StoppedType, Visited, Stage, SetStage,
         AttemptInv, TypeOK
<1>31. ASSUME NEW j \in Jobs, WatchdogKills(j) PROVE TypeOK'
  BY <1>31, KillFacts, ZenonT(30)
     DEF WatchdogKills, MembersType, StoppedType, On, Visited, AttemptInv, TypeOK
<1>32. ASSUME NEW j \in Jobs, DispatchHeld(j) PROVE TypeOK'
  BY <1>32, Zenon DEF DispatchHeld, On, Visited, AttemptInv, TypeOK
<1>33. ASSUME NEW j \in Jobs, StartRejected(j) PROVE TypeOK'
  BY <1>33, Zenon DEF StartRejected, JobState, TERMINAL_STATES, On, Visited, AttemptInv, TypeOK
<1>34. ASSUME NEW j \in Jobs, StartJob(j) PROVE TypeOK'
  BY <1>34, Zenon DEF StartJob, Marker, On, Stage, SetStage, AttemptInv, TypeOK
<1>35. ASSUME NEW j \in Jobs, ClaimJob(j) PROVE TypeOK'
  BY <1>35, Zenon DEF ClaimJob, JobState, TERMINAL_STATES, Stage, SetStage, AttemptInv, TypeOK
<1>36. ASSUME NEW j \in Jobs, ClaimGivesUp(j) PROVE TypeOK'
  BY <1>36, Zenon DEF ClaimGivesUp, Stage, SetStage, Visited, AttemptInv, TypeOK
<1>37. ASSUME NEW j \in Jobs, LaunchJob(j) PROVE TypeOK'
  <2>1. launches[j] + 1 \in Launch
    <3>1. launches[j] \in Launch \cup {0}
      BY Zenon DEF AttemptInv, TypeOK
    <3>2. launches[j] < MaxLaunches
      BY <1>37, Zenon DEF LaunchJob, AttemptInv, Record
    <3> QED
      BY <3>1, <3>2, ConstantsAssumption DEF Launch, ConstantsAssumption
  <2>2. {"wrapper", "command"} \in SUBSET Member
    BY Zenon DEF Member
  <2>3. MembersType'
    BY <1>37, <2>2, UpdateType, Zenon DEF LaunchJob, AttemptInv
  <2>4. launches' \in [Jobs -> Launch \cup {0}]
    BY <1>37, <2>1, Zenon DEF LaunchJob, AttemptInv, TypeOK
  <2> QED
    BY <1>37, <2>3, <2>4, ZenonT(30) DEF LaunchJob, SetStage, Stage, MembersType, AttemptInv, TypeOK
<1>38. ASSUME NEW j \in Jobs, LaunchFails(j) PROVE TypeOK'
  BY <1>38, ZenonT(30)
     DEF LaunchFails, JobState, TERMINAL_STATES, Stage, SetStage, Visited, AttemptInv,
         TypeOK
<1>39. ASSUME NEW j \in Jobs, FillPid(j) PROVE TypeOK'
  <2>1. MembersType'
    <3>1. CASE is_terminal(j)
      <4>1. members' = [members EXCEPT ![j][launches[j]] = {}]
        BY <1>39, <3>1, Zenon DEF FillPid
      <4>2. {} \in SUBSET Member
        BY Zenon
      <4> QED
        BY <4>1, <4>2, UpdateType, Zenon DEF AttemptInv
    <3>2. CASE ~is_terminal(j)
      BY <1>39, <3>2, Zenon DEF FillPid, MembersType, AttemptInv, TypeOK
    <3> QED
      BY <3>1, <3>2, Zenon
  <2>2. pgid' \in [Jobs -> Launch \cup {0}] /\ running' \in SUBSET Jobs
    <3>1. CASE is_terminal(j)
      BY <1>39, <3>1, Zenon DEF FillPid, AttemptInv, TypeOK
    <3>2. CASE ~is_terminal(j)
      BY <1>39, <3>2 DEF FillPid, AttemptInv, TypeOK
    <3> QED
      BY <3>1, <3>2, Zenon
  <2> QED
    BY <1>39, <2>1, <2>2, ZenonT(30)
       DEF FillPid, SetStage, Stage, Visited, MembersType, AttemptInv, TypeOK
<1>40. ASSUME PassEnds PROVE TypeOK'
  BY <1>40, Zenon DEF PassEnds, Targets, After, Step, Pass, AttemptInv, TypeOK
<1>41. ASSUME NEW j \in Jobs, DeadlinePasses(j) PROVE TypeOK'
  BY <1>41, Zenon DEF DeadlinePasses, AttemptInv, TypeOK
<1>42. ASSUME DaemonLeaves PROVE TypeOK'
  BY <1>42, Zenon DEF DaemonLeaves, Forget, Step, Stage, AttemptInv, TypeOK
<1>43. ASSUME DaemonCrashes PROVE TypeOK'
  <2>1. MembersType'
    BY <1>43, ZenonT(30) DEF DaemonCrashes, MembersType, AttemptInv, TypeOK
  <2> QED
    BY <1>43, <2>1, OutageType, Zenon
       DEF DaemonCrashes, Forget, MembersType, Step, Stage, AttemptInv, TypeOK
<1>44. ASSUME HostReboots PROVE TypeOK'
  <2>1. MembersType'
    BY <1>44, Zenon DEF HostReboots, MembersType
  <2> QED
    BY <1>44, <2>1, OutageType, ZenonT(30)
       DEF HostReboots, Forget, MembersType, Step, Stage, AttemptInv, TypeOK
<1>45. CASE UNCHANGED vars
  BY <1>45, Zenon DEF vars, AttemptInv, TypeOK
<1> QED
  BY <1>1, <1>2, <1>3, <1>4, <1>5, <1>6, <1>7, <1>8, <1>9, <1>10, <1>11, <1>12, <1>13,
     <1>14, <1>15, <1>16, <1>17, <1>18, <1>19, <1>20, <1>21, <1>22, <1>23, <1>24, <1>25,
     <1>26, <1>27, <1>28, <1>29, <1>30, <1>31, <1>32, <1>33, <1>34, <1>35, <1>36, <1>37,
     <1>38, <1>39, <1>40, <1>41, <1>42, <1>43, <1>44, <1>45, ZenonT(30)
     DEF Next, DaemonStep, WalkStep, PassStep, DispatchStep, ProcessStep, CliStep, PauserStep

-----------------------------------------------------------------------------
(* The attempts of a job. *)

\* A step that launches nothing and writes no exit code.
Quiet == Shrinks /\ UNCHANGED <<launches, exits>>

\* A step that leaves the processes alone is quiet.
LEMMA SameIsQuiet ==
  ASSUME AttemptInv, UNCHANGED <<members, launches, exits>>
  PROVE  Quiet
BY Zenon DEF Quiet, Shrinks, AttemptInv, Processes

\* A quiet step keeps Processes, and starts no process of a job that has
\* none.
LEMMA QuietProcesses ==
  ASSUME AttemptInv, Quiet, NEW i \in Jobs
  PROVE  Processes(i)' /\ (NoProcess(i) => NoProcess(i)')
<1>1. \A l \in Launch :
        /\ members[i][l] = {} => members'[i][l] = {}
        /\ "command" \in members'[i][l] => "command" \in members[i][l]
        /\ members'[i][l] \cap Outcome # {} => members'[i][l] \subseteq Zombie
  BY Zenon DEF Quiet, Shrinks
<1>2. launches' = launches /\ exits' = exits
  BY Zenon DEF Quiet
<1>3. Processes(i)
  BY Zenon DEF AttemptInv
<1>4. NoProcess(i) => NoProcess(i)'
  BY <1>1, Zenon DEF NoProcess
<1> QED
  BY <1>1, <1>2, <1>3, <1>4, Zenon DEF Processes

\* resource_receipt.main's write of the exit code keeps Processes: it has
\* waited for the command, and its group is the last one launched.
LEMMA MarkProcesses ==
  ASSUME AttemptInv, NEW j \in Jobs, NEW k \in Launch, NEW rc \in Outcome,
         WrapperMarks(j, k, rc), NEW i \in Jobs
  PROVE  Processes(i)' /\ (NoProcess(i) => NoProcess(i)')
<1>1. members' = members /\ launches' = launches
  BY Zenon DEF WrapperMarks
<1>2. "wrapper" \in members[j][k] /\ "command" \notin members[j][k]
  BY Zenon DEF WrapperMarks
<1>3. k = launches[j] /\ k \in Nat
  BY <1>2 DEF AttemptInv, Processes, Launch
<1>4. \A l \in Launch : exits'[i][l] = exits[i][l] \/ (i = j /\ l = k)
  <2>1. exits \in [Jobs -> [Launch -> Outcome \cup {"none"}]]
    BY Zenon DEF AttemptInv, TypeOK
  <2>2. exits' = [exits EXCEPT ![j][k] = rc]
    BY Zenon DEF WrapperMarks
  <2> QED
    BY <2>1, <2>2, Zenon
<1>5. NoProcess(i) => NoProcess(i)'
  BY <1>1, Zenon DEF NoProcess
<1>6. Processes(i)
  BY Zenon DEF AttemptInv
<1>7. \A l \in Launch : l > launches'[i] => exits'[i][l] = "none"
  <2> SUFFICES ASSUME NEW l \in Launch, l > launches[i]
               PROVE  exits'[i][l] = "none"
    BY <1>1, Zenon
  <2>1. exits[i][l] = "none"
    BY <1>6, Zenon DEF Processes
  <2>2. ~(i = j /\ l = k)
    BY <1>3
  <2> QED
    BY <1>4, <2>1, <2>2, Zenon
<1>8. \A l \in Launch : exits'[i][l] # "none" => "command" \notin members'[i][l]
  <2> SUFFICES ASSUME NEW l \in Launch, exits'[i][l] # "none"
               PROVE  "command" \notin members[i][l]
    BY <1>1, Zenon
  <2>1. CASE i = j /\ l = k
    BY <1>2, <2>1, Zenon
  <2>2. CASE exits'[i][l] = exits[i][l]
    BY <1>6, <2>2, Zenon DEF Processes
  <2> QED
    BY <1>4, <2>1, <2>2, Zenon
<1>9. Processes(i)'
  <2>1. \A l \in Launch : l # launches'[i] => members'[i][l] = {}
    BY <1>1, <1>6, Zenon DEF Processes
  <2>2. \A l \in Launch : members'[i][l] \cap Outcome # {} => members'[i][l] \subseteq Zombie
    BY <1>1, <1>6, Zenon DEF Processes
  <2> QED
    BY <1>7, <1>8, <2>1, <2>2, Zenon DEF Processes
<1> QED
  BY <1>5, <1>9, Zenon

\* dispatcher.launch keeps Processes: the job has no process left when Popen
\* runs (Record's clause on a claimed dispatch).
LEMMA LaunchProcesses ==
  ASSUME AttemptInv, NEW j \in Jobs, LaunchJob(j), NEW i \in Jobs
  PROVE  Processes(i)' /\ (i # j /\ NoProcess(i) => NoProcess(i)')
<1>1. launches[j] + 1 \in Launch /\ launches[j] \in Nat
  <2>1. launches[j] \in Launch \cup {0}
    BY Zenon DEF AttemptInv, TypeOK
  <2>2. launches[j] < MaxLaunches
    BY Zenon DEF LaunchJob, AttemptInv, Record
  <2> QED
    BY <2>1, <2>2, ConstantsAssumption DEF Launch, ConstantsAssumption
<1>2. Processes(i)
  BY Zenon DEF AttemptInv
<1>3. exits' = exits
  BY Zenon DEF LaunchJob
<1>4. CASE i # j
  <2>1. members'[i] = members[i] /\ launches'[i] = launches[i]
    BY <1>4, Zenon DEF LaunchJob, AttemptInv, TypeOK
  <2> QED
    BY <1>2, <1>3, <2>1, Zenon DEF Processes, NoProcess
<1>5. CASE i = j
  <2>1. launches'[j] = launches[j] + 1
    BY Zenon DEF LaunchJob, AttemptInv, TypeOK
  <2>2. NoProcess(j)
    BY Zenon DEF LaunchJob, AttemptInv, Record
  <2>3. \A l \in Launch : members'[j][l] =
            IF l = launches[j] + 1 THEN {"wrapper", "command"} ELSE members[j][l]
    BY Zenon DEF LaunchJob, AttemptInv, TypeOK
  <2>4. \A l \in Launch : l # launches'[j] => members'[j][l] = {}
    BY <2>1, <2>2, <2>3, Zenon DEF NoProcess
  <2>5. \A l \in Launch : l > launches'[j] => exits'[j][l] = "none"
    <3> SUFFICES ASSUME NEW l \in Launch, l > launches[j] + 1
                 PROVE  exits[j][l] = "none"
      BY <1>3, <2>1, Zenon
    <3>1. l > launches[j]
      BY <1>1 DEF Launch
    <3> QED
      BY <1>2, <1>5, <3>1, Zenon DEF Processes
  <2>6. \A l \in Launch : exits'[j][l] # "none" => "command" \notin members'[j][l]
    <3>1. exits'[j][launches[j] + 1] = "none"
      <4>1. launches[j] + 1 > launches[j]
        BY <1>1
      <4>2. \A l \in Launch : l > launches[j] => exits[j][l] = "none"
        BY <1>2, <1>5, Zenon DEF Processes
      <4> QED
        BY <1>1, <1>3, <4>1, <4>2, Zenon
    <3> QED
      BY <2>2, <2>3, <3>1, Zenon DEF NoProcess
  <2>7. \A l \in Launch : members'[j][l] \cap Outcome = {}
    BY <2>2, <2>3, Zenon DEF NoProcess, Outcome
  <2> QED
    BY <1>5, <2>4, <2>5, <2>6, <2>7, Zenon DEF Processes
<1> QED
  BY <1>4, <1>5, Zenon

\* The types of the variables of Record.
RecordType ==
    /\ state \in [Jobs -> JobState]
    /\ pgid \in [Jobs -> Launch \cup {0}]
    /\ launches \in [Jobs -> Launch \cup {0}]
    /\ at \in [Jobs -> Stage]
    /\ pausing \in [Jobs -> {"none", "armed", "signalled"}]

\* The invariant gives Record and its types.
LEMMA RecordHas == AttemptInv => RecordType /\ \A i \in Jobs : Record(i)
BY Zenon DEF AttemptInv, RecordType, TypeOK

\* What a recorded end is to the invariant: a retry of a job without label,
\* or a terminal label on the same process group.
Finished(j) ==
    /\ \/ /\ ~is_terminal(j)
          /\ state' = [state EXCEPT ![j] = "PENDING"]
          /\ pgid' = [pgid EXCEPT ![j] = 0]
       \/ /\ \E t \in TERMINAL_STATES : state' = [state EXCEPT ![j] = t]
          /\ pgid' = pgid

\* _record_finish's write is one of the two.
LEMMA FinishSpecFinishes ==
  ASSUME AttemptInv, NEW j \in Jobs, NEW ok \in BOOLEAN, FinishSpec(j, ok)
  PROVE  Finished(j)
<1>1. CASE Retries(j, ok)
  BY <1>1, Zenon DEF FinishSpec, Retries, Finished
<1>2. CASE ~Retries(j, ok)
  <2>1. PICK t \in TERMINAL_STATES : state' = [state EXCEPT ![j] = t]
    <3>1. CASE is_terminal(j)
      BY <3>1, Zenon DEF FinishSpec, is_terminal
    <3>2. CASE ~is_terminal(j) /\ ok
      BY <1>2, <3>2, Zenon DEF FinishSpec, TERMINAL_STATES
    <3>3. CASE ~is_terminal(j) /\ ~ok
      BY <1>2, <3>3, Zenon DEF FinishSpec, TERMINAL_STATES
    <3> QED
      BY <3>1, <3>2, <3>3, Zenon
  <2> QED
    BY <1>2, <2>1, Zenon DEF FinishSpec, Finished
<1> QED
  BY <1>1, <1>2, Zenon

\* So is _record_orphan_finish's, or _mark_aborted_by_queue's.
LEMMA RecordOrphanFinishes ==
  ASSUME AttemptInv, NEW j \in Jobs, RecordOrphan(j)
  PROVE  Finished(j)
<1>1. CASE marker[cwd[j]] # NoMarker
  BY <1>1, FinishSpecFinishes, Zenon DEF RecordOrphan
<1>2. CASE marker[cwd[j]] = NoMarker /\ is_terminal(j)
  <2>1. state' = [state EXCEPT ![j] = state[j]] /\ pgid' = pgid
    BY <1>2, Zenon DEF RecordOrphan, specVars, AttemptInv, TypeOK
  <2> QED
    BY <1>2, <2>1, Zenon DEF Finished, is_terminal
<1>3. CASE marker[cwd[j]] = NoMarker /\ ~is_terminal(j)
  BY <1>3, Zenon DEF RecordOrphan, Finished, TERMINAL_STATES
<1> QED
  BY <1>1, <1>2, <1>3, Zenon

\* When _record_finish reaps the wrapper of a job without label, no process
\* of the job remains: a wrapper that exited had waited for its command, and
\* the group of one that was signalled is killed (_reap_stranded_group).
LEMMA ReapIsAlone ==
  ASSUME AttemptInv, NEW j \in Jobs, ~is_terminal(j), pgid[j] \in Launch,
         NEW z \in members[j][pgid[j]] \cap Zombie,
         members' = [members EXCEPT ![j][pgid[j]] = IF Stranded(j, z) THEN {} ELSE @ \ Zombie]
  PROVE  NoProcess(j)'
<1>1. \A l \in Launch : members'[j][l] =
          IF l = pgid[j] THEN IF Stranded(j, z) THEN {} ELSE members[j][l] \ Zombie
          ELSE members[j][l]
  BY Zenon DEF AttemptInv, TypeOK
<1>2. \A l \in Launch : l # pgid[j] => members[j][l] = {}
  <2>1. pgid[j] # 0
    BY DEF Launch
  <2>2. pgid[j] = launches[j]
    BY <2>1, Zenon DEF AttemptInv, Record
  <2> QED
    BY <2>2, Zenon DEF AttemptInv, Processes
<1>3. ~Stranded(j, z) => members[j][pgid[j]] \ Zombie = {}
  <2>1. CASE z = "signalled"
    BY <2>1, Zenon DEF Stranded
  <2>2. CASE z \in Outcome
    BY <2>2, Zenon DEF AttemptInv, Processes
  <2> QED
    BY <2>1, <2>2, Zenon DEF Zombie
<1> QED
  BY <1>1, <1>2, <1>3, Zenon DEF NoProcess

\* Every step keeps Processes and Record, of every job.
LEMMA AttemptStep == AttemptInv /\ [Next]_vars => \A i \in Jobs : Processes(i)' /\ Record(i)'
<1> SUFFICES ASSUME AttemptInv, [Next]_vars, NEW i \in Jobs
             PROVE  Processes(i)' /\ Record(i)'
  BY Zenon
<1>0. RecordType /\ \A j \in Jobs : Record(j)
  BY RecordHas, Zenon
<1> USE DEF specVars, diskVars, osVars, memVars, pcVars
<1>1. ASSUME NEW j \in Jobs, NEW k \in Launch, CommandExits(j, k)
      PROVE  Processes(i)' /\ Record(i)'
  <2>1. Quiet
    BY <1>1, ExitFacts, SameIsQuiet, ZenonT(30) DEF CommandExits, Quiet, AttemptInv, TypeOK
  <2>2. Processes(i)' /\ (NoProcess(i) => NoProcess(i)')
    BY <2>1, QuietProcesses, Zenon
  <2>3. Record(i)'
    BY <1>0, <1>1, <2>2, Zenon DEF CommandExits, Record, RecordType
  <2> QED
    BY <2>2, <2>3, Zenon
<1>2. ASSUME NEW j \in Jobs, NEW k \in Launch, NEW rc \in Outcome, WrapperMarks(j, k, rc)
      PROVE  Processes(i)' /\ Record(i)'
  <2>1. Processes(i)' /\ (NoProcess(i) => NoProcess(i)')
    BY <1>2, MarkProcesses, Zenon
  <2>2. Record(i)'
    BY <1>0, <1>2, <2>1, Zenon DEF WrapperMarks, Record
  <2> QED
    BY <2>1, <2>2, Zenon
<1>3. ASSUME NEW j \in Jobs, NEW k \in Launch, WrapperExits(j, k)
      PROVE  Processes(i)' /\ Record(i)'
  <2>1. Quiet
    BY <1>3, ExitFacts, SameIsQuiet, ZenonT(30) DEF WrapperExits, Quiet, AttemptInv, TypeOK
  <2>2. Processes(i)' /\ (NoProcess(i) => NoProcess(i)')
    BY <2>1, QuietProcesses, Zenon
  <2>3. Record(i)'
    BY <1>0, <1>3, <2>2, Zenon DEF WrapperExits, Record, RecordType
  <2> QED
    BY <2>2, <2>3, Zenon
<1>4. ASSUME NEW j \in Jobs, NEW k \in Launch, WrapperKilled(j, k)
      PROVE  Processes(i)' /\ Record(i)'
  <2>1. Quiet
    BY <1>4, ExitFacts, SameIsQuiet, Zenon DEF WrapperKilled, Quiet, AttemptInv, TypeOK
  <2>2. Processes(i)' /\ (NoProcess(i) => NoProcess(i)')
    BY <2>1, QuietProcesses, Zenon
  <2>3. Record(i)'
    BY <1>0, <1>4, <2>2, Zenon DEF WrapperKilled, Record, RecordType
  <2> QED
    BY <2>2, <2>3, Zenon
<1>5. ASSUME NEW j \in Jobs, kill_job(j)
      PROVE  Processes(i)' /\ Record(i)'
  <2>1. Quiet
    BY <1>5, TermFacts, SameIsQuiet, ZenonT(30) DEF kill_job, Quiet, AttemptInv, TypeOK
  <2>2. Processes(i)' /\ (NoProcess(i) => NoProcess(i)')
    BY <2>1, QuietProcesses, Zenon
  <2>3. Record(i)'
    BY <1>0, <1>5, <2>2, Zenon DEF kill_job, LockFree, Record, RecordType
  <2> QED
    BY <2>2, <2>3, Zenon
<1>6. ASSUME NEW j \in Jobs, PauseArms(j)
      PROVE  Processes(i)' /\ Record(i)'
  <2>1. Quiet
    BY <1>6, SameIsQuiet, Zenon DEF PauseArms
  <2>2. Processes(i)' /\ (NoProcess(i) => NoProcess(i)')
    BY <2>1, QuietProcesses, Zenon
  <2>3. /\ UNCHANGED <<state, pgid, launches, running, orphans, step, todo, at>>
        /\ pausing' = [pausing EXCEPT ![j] = "armed"]
        /\ state[j] = "RUNNING" /\ pgid[j] # 0
    BY <1>6, Zenon DEF PauseArms
  <2>4. Record(i)'
    BY <1>0, <2>2, <2>3, ZenonT(30) DEF Record, RecordType
  <2> QED
    BY <2>2, <2>4, Zenon
<1>7. ASSUME NEW j \in Jobs, PauseSignals(j)
      PROVE  Processes(i)' /\ Record(i)'
  <2>1. Quiet
    BY <1>7, SameIsQuiet, Zenon DEF PauseSignals
  <2>2. Processes(i)' /\ (NoProcess(i) => NoProcess(i)')
    BY <2>1, QuietProcesses, Zenon
  <2>3. Record(i)'
    BY <1>0, <1>7, <2>2, ZenonT(30) DEF PauseSignals, Record, RecordType
  <2> QED
    BY <2>2, <2>3, Zenon
<1>8. ASSUME NEW j \in Jobs, PauseCommits(j)
      PROVE  Processes(i)' /\ Record(i)'
  <2>1. Quiet
    BY <1>8, SameIsQuiet, Zenon DEF PauseCommits
  <2>2. Processes(i)' /\ (NoProcess(i) => NoProcess(i)')
    BY <2>1, QuietProcesses, Zenon
  <2>3. Record(i)'
    BY <1>0, <1>8, <2>2, ZenonT(30) DEF PauseCommits, Record, RecordType
  <2> QED
    BY <2>2, <2>3, Zenon
<1>9. ASSUME NEW j \in Jobs, PauserDies(j)
      PROVE  Processes(i)' /\ Record(i)'
  <2>1. Quiet
    BY <1>9, SameIsQuiet, Zenon DEF PauserDies
  <2>2. Processes(i)' /\ (NoProcess(i) => NoProcess(i)')
    BY <2>1, QuietProcesses, Zenon
  <2>3. Record(i)'
    BY <1>0, <1>9, <2>2, ZenonT(30) DEF PauserDies, Record, RecordType
  <2> QED
    BY <2>2, <2>3, Zenon
<1>10. ASSUME NEW j \in Jobs, resume_job(j)
      PROVE  Processes(i)' /\ Record(i)'
  <2>1. Quiet
    BY <1>10, SameIsQuiet, Zenon DEF resume_job
  <2>2. Processes(i)' /\ (NoProcess(i) => NoProcess(i)')
    BY <2>1, QuietProcesses, Zenon
  <2>3. Record(i)'
    BY <1>0, <1>10, <2>2, ZenonT(30) DEF resume_job, Record, RecordType
  <2> QED
    BY <2>2, <2>3, Zenon
<1>11. ASSUME DaemonStarts
      PROVE  Processes(i)' /\ Record(i)'
  <2>1. Quiet
    BY <1>11, SameIsQuiet, Zenon DEF DaemonStarts
  <2>2. Processes(i)' /\ (NoProcess(i) => NoProcess(i)')
    BY <2>1, QuietProcesses, Zenon
  <2>3. Record(i)'
    BY <1>0, <1>11, <2>2, Zenon DEF DaemonStarts, Record, RecordType
  <2> QED
    BY <2>2, <2>3, Zenon
<1>12. ASSUME NEW j \in Jobs, WalkSettled(j)
      PROVE  Processes(i)' /\ Record(i)'
  <2>1. Quiet
    BY <1>12, KillFacts, SameIsQuiet, ZenonT(30) DEF WalkSettled, Quiet, AttemptInv, TypeOK
  <2>2. Processes(i)' /\ (NoProcess(i) => NoProcess(i)')
    BY <2>1, QuietProcesses, Zenon
  <2>3. Record(i)'
    BY <1>0, <1>12, <2>2, Zenon DEF WalkSettled, On, Idle, Visited, Record, RecordType
  <2> QED
    BY <2>2, <2>3, Zenon
<1>13. ASSUME NEW j \in Jobs, WalkReads(j)
      PROVE  Processes(i)' /\ Record(i)'
  <2>1. Quiet
    BY <1>13, SameIsQuiet, Zenon DEF WalkReads
  <2>2. Processes(i)' /\ (NoProcess(i) => NoProcess(i)')
    BY <2>1, QuietProcesses, Zenon
  <2>3. Record(i)'
    BY <1>0, <1>13, <2>2, Zenon DEF WalkReads, On, Idle, SetStage, Record, RecordType
  <2> QED
    BY <2>2, <2>3, Zenon
<1>14. ASSUME NEW j \in Jobs, WalkAborts(j)
      PROVE  Processes(i)' /\ Record(i)'
  <2>1. Quiet
    BY <1>14, SameIsQuiet, Zenon DEF WalkAborts
  <2>2. Processes(i)' /\ (NoProcess(i) => NoProcess(i)')
    BY <2>1, QuietProcesses, Zenon
  <2>3. Record(i)'
    BY <1>0, <1>14, <2>2, ZenonT(30)
       DEF WalkAborts, Visited, SetStage, is_terminal, TERMINAL_STATES, Record,
           RecordType
  <2> QED
    BY <2>2, <2>3, Zenon
<1>15. ASSUME NEW j \in Jobs, WalkReattaches(j)
      PROVE  Processes(i)' /\ Record(i)'
  <2>1. Quiet
    BY <1>15, SameIsQuiet, Zenon DEF WalkReattaches
  <2>2. Processes(i)' /\ (NoProcess(i) => NoProcess(i)')
    BY <2>1, QuietProcesses, Zenon
  <2>3. pgid[j] # 0 /\ ~NoProcess(j)
    BY <1>0, <1>15, Zenon DEF WalkReattaches, pgroup_alive, NoProcess, RecordType
  <2>4. Record(i)'
    BY <1>0, <1>15, <2>2, <2>3, Zenon DEF WalkReattaches, Visited, SetStage, Record, RecordType
  <2> QED
    BY <2>2, <2>4, Zenon
<1>16. ASSUME NEW j \in Jobs, WalkFinishes(j)
      PROVE  Processes(i)' /\ Record(i)'
  <2>1. Quiet
    BY <1>16, SameIsQuiet, Zenon DEF WalkFinishes
  <2>2. Processes(i)' /\ (NoProcess(i) => NoProcess(i)')
    BY <2>1, QuietProcesses, Zenon
  <2>3. NoProcess(j)
    <3>1. pgid[j] # 0 /\ members[j][pgid[j]] = {}
      BY <1>16, Zenon DEF WalkFinishes, pgroup_alive
    <3>2. pgid[j] = launches[j]
      BY <1>0, <3>1, Zenon DEF Record
    <3>3. \A k \in Launch : k # launches[j] => members[j][k] = {}
      BY Zenon DEF AttemptInv, Processes
    <3> QED
      BY <3>1, <3>2, <3>3, Zenon DEF NoProcess
  <2>4. Finished(j)
    BY <1>16, RecordOrphanFinishes, Zenon DEF WalkFinishes
  <2>5. Record(i)'
    BY <1>0, <1>16, <2>2, <2>3, <2>4, ZenonT(30)
       DEF WalkFinishes, Finished, LockFree, SetStage, Visited, Record, RecordType
  <2> QED
    BY <2>2, <2>5, Zenon
<1>17. ASSUME WalkStops
      PROVE  Processes(i)' /\ Record(i)'
  <2>1. Quiet
    BY <1>17, SameIsQuiet, Zenon DEF WalkStops
  <2>2. Processes(i)' /\ (NoProcess(i) => NoProcess(i)')
    BY <2>1, QuietProcesses, Zenon
  <2>3. Record(i)'
    BY <1>0, <1>17, <2>2, Zenon DEF WalkStops, Idle, Record, RecordType
  <2> QED
    BY <2>2, <2>3, Zenon
<1>18. ASSUME WalkEnds
      PROVE  Processes(i)' /\ Record(i)'
  <2>1. Quiet
    BY <1>18, SameIsQuiet, Zenon DEF WalkEnds
  <2>2. Processes(i)' /\ (NoProcess(i) => NoProcess(i)')
    BY <2>1, QuietProcesses, Zenon
  <2>3. Record(i)'
    BY <1>0, <1>18, <2>2, Zenon DEF WalkEnds, Idle, Record, RecordType
  <2> QED
    BY <2>2, <2>3, Zenon
<1>19. ASSUME NEW j \in Jobs, auto_resume(j)
      PROVE  Processes(i)' /\ Record(i)'
  <2>1. Quiet
    BY <1>19, SameIsQuiet, Zenon DEF auto_resume
  <2>2. Processes(i)' /\ (NoProcess(i) => NoProcess(i)')
    BY <2>1, QuietProcesses, Zenon
  <2>3. Record(i)'
    BY <1>0, <1>19, <2>2, ZenonT(30) DEF auto_resume, Visited, Record, RecordType
  <2> QED
    BY <2>2, <2>3, Zenon
<1>20. ASSUME NEW j \in Jobs, NoPauseIntent(j)
      PROVE  Processes(i)' /\ Record(i)'
  <2>1. Quiet
    BY <1>20, SameIsQuiet, Zenon DEF NoPauseIntent
  <2>2. Processes(i)' /\ (NoProcess(i) => NoProcess(i)')
    BY <2>1, QuietProcesses, Zenon
  <2>3. Record(i)'
    BY <1>0, <1>20, <2>2, Zenon DEF NoPauseIntent, On, Visited, Record, RecordType
  <2> QED
    BY <2>2, <2>3, Zenon
<1>21. ASSUME NEW j \in Jobs, reconcile_pause_intent(j)
      PROVE  Processes(i)' /\ Record(i)'
  <2>1. Quiet
    BY <1>21, SameIsQuiet, Zenon DEF reconcile_pause_intent
  <2>2. Processes(i)' /\ (NoProcess(i) => NoProcess(i)')
    BY <2>1, QuietProcesses, Zenon
  <2>3. /\ UNCHANGED <<pgid, launches, running, orphans, step, at, pausing>>
        /\ step = "intents" /\ at[i] = "idle" /\ pausing[j] = "none" /\ todo' = todo \ {j}
    BY <1>21, Zenon DEF reconcile_pause_intent, On, Idle, LockFree, Visited
  <2>4. state' = state \/ state' = [state EXCEPT ![j] = "SUSPENDED"]
    BY <1>21, Zenon DEF reconcile_pause_intent
  <2>5. Record(i)'
    BY <1>0, <2>2, <2>3, <2>4, Zenon DEF Record, RecordType
  <2> QED
    BY <2>2, <2>5, Zenon
<1>22. ASSUME NEW j \in Jobs, record_finish(j)
      PROVE  Processes(i)' /\ Record(i)'
  <2>1. pgid[j] # 0 /\ pgid[j] \in Launch
    BY <1>0, <1>22, Zenon DEF record_finish, On, Record, RecordType
  <2>2. PICK z \in members[j][pgid[j]] \cap Zombie :
          /\ members' = [members EXCEPT ![j][pgid[j]] = IF Stranded(j, z) THEN {} ELSE @ \ Zombie]
          /\ stopped' = IF Stranded(j, z)
                        THEN [stopped EXCEPT ![j] = @ \ {pgid[j]}]
                        ELSE stopped
          /\ FinishSpec(j, z = "zero")
    BY <1>22, Zenon DEF record_finish
  <2>3. Shrinks
    BY <2>1, <2>2, ReapFacts, Zenon
  <2>4. Quiet
    BY <1>22, <2>3, Zenon DEF record_finish, Quiet
  <2>5. Processes(i)' /\ (NoProcess(i) => NoProcess(i)')
    BY <2>4, QuietProcesses, Zenon
  <2>6. ~is_terminal(j) => NoProcess(j)'
    BY <1>0, <2>1, <2>2, ReapIsAlone, Zenon
  <2>7. Finished(j)
    BY <2>2, FinishSpecFinishes, Zenon
  <2>8. /\ pausing[j] = "none" /\ at' = at /\ at[i] = "idle" /\ step' = "running" /\ step = "running"
        /\ running' = running \ {j} /\ orphans' = orphans /\ todo' = todo \ {j} /\ j \notin orphans
        /\ pausing' = pausing /\ launches' = launches
    BY <1>0, <1>22, Zenon DEF record_finish, LockFree, On, Idle, Visited, Record
  <2>9. CASE i = j
    BY <1>0, <2>5, <2>6, <2>7, <2>8, <2>9, ZenonT(30) DEF Finished, Record, RecordType, TERMINAL_STATES
  <2>10. CASE i # j
    BY <1>0, <2>5, <2>7, <2>8, <2>10, ZenonT(30) DEF Finished, Record, RecordType
  <2> QED
    BY <2>5, <2>9, <2>10, Zenon
<1>23. ASSUME NEW j \in Jobs, escalate_if_killed(j)
      PROVE  Processes(i)' /\ Record(i)'
  <2>1. Quiet
    BY <1>23, KillFacts, SameIsQuiet, ZenonT(30) DEF escalate_if_killed, Quiet, AttemptInv, TypeOK
  <2>2. Processes(i)' /\ (NoProcess(i) => NoProcess(i)')
    BY <2>1, QuietProcesses, Zenon
  <2>3. Record(i)'
    BY <1>0, <1>23, <2>2, Zenon DEF escalate_if_killed, On, Visited, Record, RecordType
  <2> QED
    BY <2>2, <2>3, Zenon
<1>24. ASSUME NEW j \in Jobs, reconcile_terminal_survivor(j)
      PROVE  Processes(i)' /\ Record(i)'
  <2>1. Quiet
    BY <1>24, KillFacts, SameIsQuiet, ZenonT(30)
       DEF reconcile_terminal_survivor, Quiet, AttemptInv, TypeOK
  <2>2. Processes(i)' /\ (NoProcess(i) => NoProcess(i)')
    BY <2>1, QuietProcesses, Zenon
  <2>3. Record(i)'
    BY <1>0, <1>24, <2>2, Zenon DEF reconcile_terminal_survivor, On, Visited, Record, RecordType
  <2> QED
    BY <2>2, <2>3, Zenon
<1>25. ASSUME NEW j \in Jobs, OrphanStays(j)
      PROVE  Processes(i)' /\ Record(i)'
  <2>1. Quiet
    BY <1>25, SameIsQuiet, Zenon DEF OrphanStays
  <2>2. Processes(i)' /\ (NoProcess(i) => NoProcess(i)')
    BY <2>1, QuietProcesses, Zenon
  <2>3. Record(i)'
    BY <1>0, <1>25, <2>2, Zenon DEF OrphanStays, On, Visited, Record, RecordType
  <2> QED
    BY <2>2, <2>3, Zenon
<1>26. ASSUME NEW j \in Jobs, OrphanEnds(j)
      PROVE  Processes(i)' /\ Record(i)'
  <2>1. Quiet
    BY <1>26, KillFacts, Zenon DEF OrphanEnds, Quiet, AttemptInv, TypeOK
  <2>2. Processes(i)' /\ (NoProcess(i) => NoProcess(i)')
    BY <2>1, QuietProcesses, Zenon
  <2>3. ~is_terminal(j) => NoProcess(j)
    BY <1>0, <1>26, ZenonT(30)
       DEF OrphanEnds, On, pgroup_alive, NoProcess, AttemptInv, Processes, Record
  <2>4. Finished(j)
    BY <1>26, RecordOrphanFinishes, Zenon DEF OrphanEnds
  <2>5. /\ pausing[j] = "none" /\ at' = at /\ at[i] = "idle" /\ step' = "orphans" /\ step = "orphans"
        /\ running' = running /\ orphans' = orphans \ {j} /\ todo' = todo \ {j} /\ j \notin running
        /\ pausing' = pausing /\ launches' = launches
    BY <1>0, <1>26, Zenon DEF OrphanEnds, LockFree, On, Idle, Visited, Record
  <2>6. CASE i = j
    BY <1>0, <2>2, <2>3, <2>4, <2>5, <2>6, ZenonT(30) DEF Finished, Record, RecordType, TERMINAL_STATES
  <2>7. CASE i # j
    BY <1>0, <2>2, <2>4, <2>5, <2>7, ZenonT(30) DEF Finished, Record, RecordType
  <2> QED
    BY <2>2, <2>6, <2>7, Zenon
<1>27. ASSUME NEW j \in Jobs, WatchdogOk(j)
      PROVE  Processes(i)' /\ Record(i)'
  <2>1. Quiet
    BY <1>27, SameIsQuiet, Zenon DEF WatchdogOk
  <2>2. Processes(i)' /\ (NoProcess(i) => NoProcess(i)')
    BY <2>1, QuietProcesses, Zenon
  <2>3. Record(i)'
    BY <1>0, <1>27, <2>2, Zenon DEF WatchdogOk, On, Visited, Record, RecordType
  <2> QED
    BY <2>2, <2>3, Zenon
<1>28. ASSUME NEW j \in Jobs, WatchdogVerdict(j)
      PROVE  Processes(i)' /\ Record(i)'
  <2>1. Quiet
    BY <1>28, SameIsQuiet, Zenon DEF WatchdogVerdict
  <2>2. Processes(i)' /\ (NoProcess(i) => NoProcess(i)')
    BY <2>1, QuietProcesses, Zenon
  <2>3. Record(i)'
    BY <1>0, <1>28, <2>2, ZenonT(30) DEF WatchdogVerdict, On, Idle, SetStage, Record, RecordType
  <2> QED
    BY <2>2, <2>3, Zenon
<1>29. ASSUME NEW j \in Jobs, WatchdogMarks(j)
      PROVE  Processes(i)' /\ Record(i)'
  <2>1. Quiet
    BY <1>29, SameIsQuiet, Zenon DEF WatchdogMarks
  <2>2. Processes(i)' /\ (NoProcess(i) => NoProcess(i)')
    BY <2>1, QuietProcesses, Zenon
  <2>3. Record(i)'
    BY <1>0, <1>29, <2>2, ZenonT(30)
       DEF WatchdogMarks, LockFree, SetStage, is_terminal, TERMINAL_STATES, Record,
           RecordType
  <2> QED
    BY <2>2, <2>3, Zenon
<1>30. ASSUME NEW j \in Jobs, WatchdogSignals(j)
      PROVE  Processes(i)' /\ Record(i)'
  <2>1. Quiet
    BY <1>30, TermFacts, SameIsQuiet, ZenonT(30) DEF WatchdogSignals, Quiet, AttemptInv, TypeOK
  <2>2. Processes(i)' /\ (NoProcess(i) => NoProcess(i)')
    BY <2>1, QuietProcesses, Zenon
  <2>3. Record(i)'
    BY <1>0, <1>30, <2>2, Zenon DEF WatchdogSignals, SetStage, Visited, Record, RecordType
  <2> QED
    BY <2>2, <2>3, Zenon
<1>31. ASSUME NEW j \in Jobs, WatchdogKills(j)
      PROVE  Processes(i)' /\ Record(i)'
  <2>1. Quiet
    BY <1>31, KillFacts, SameIsQuiet, ZenonT(30) DEF WatchdogKills, Quiet, AttemptInv, TypeOK
  <2>2. Processes(i)' /\ (NoProcess(i) => NoProcess(i)')
    BY <2>1, QuietProcesses, Zenon
  <2>3. Record(i)'
    BY <1>0, <1>31, <2>2, Zenon DEF WatchdogKills, On, Visited, Record, RecordType
  <2> QED
    BY <2>2, <2>3, Zenon
<1>32. ASSUME NEW j \in Jobs, DispatchHeld(j)
      PROVE  Processes(i)' /\ Record(i)'
  <2>1. Quiet
    BY <1>32, SameIsQuiet, Zenon DEF DispatchHeld
  <2>2. Processes(i)' /\ (NoProcess(i) => NoProcess(i)')
    BY <2>1, QuietProcesses, Zenon
  <2>3. Record(i)'
    BY <1>0, <1>32, <2>2, Zenon DEF DispatchHeld, On, Visited, Record, RecordType
  <2> QED
    BY <2>2, <2>3, Zenon
<1>33. ASSUME NEW j \in Jobs, StartRejected(j)
      PROVE  Processes(i)' /\ Record(i)'
  <2>1. Quiet
    BY <1>33, SameIsQuiet, Zenon DEF StartRejected
  <2>2. Processes(i)' /\ (NoProcess(i) => NoProcess(i)')
    BY <2>1, QuietProcesses, Zenon
  <2>3. Record(i)'
    BY <1>0, <1>33, <2>2, ZenonT(30) DEF StartRejected, On, Idle, Visited, Record, RecordType
  <2> QED
    BY <2>2, <2>3, Zenon
<1>34. ASSUME NEW j \in Jobs, StartJob(j)
      PROVE  Processes(i)' /\ Record(i)'
  <2>1. Quiet
    BY <1>34, SameIsQuiet, Zenon DEF StartJob
  <2>2. Processes(i)' /\ (NoProcess(i) => NoProcess(i)')
    BY <2>1, QuietProcesses, Zenon
  <2>3. Record(i)'
    BY <1>0, <1>34, <2>2, Zenon DEF StartJob, On, Idle, SetStage, Record, RecordType
  <2> QED
    BY <2>2, <2>3, Zenon
<1>35. ASSUME NEW j \in Jobs, ClaimJob(j)
      PROVE  Processes(i)' /\ Record(i)'
  <2>1. Quiet
    BY <1>35, SameIsQuiet, Zenon DEF ClaimJob
  <2>2. Processes(i)' /\ (NoProcess(i) => NoProcess(i)')
    BY <2>1, QuietProcesses, Zenon
  <2>3. Record(i)'
    BY <1>0, <1>35, <2>2, ZenonT(30) DEF ClaimJob, LockFree, SetStage, Record, RecordType
  <2> QED
    BY <2>2, <2>3, Zenon
<1>36. ASSUME NEW j \in Jobs, ClaimGivesUp(j)
      PROVE  Processes(i)' /\ Record(i)'
  <2>1. Quiet
    BY <1>36, SameIsQuiet, Zenon DEF ClaimGivesUp
  <2>2. Processes(i)' /\ (NoProcess(i) => NoProcess(i)')
    BY <2>1, QuietProcesses, Zenon
  <2>3. Record(i)'
    BY <1>0, <1>36, <2>2, Zenon DEF ClaimGivesUp, SetStage, Visited, Record, RecordType
  <2> QED
    BY <2>2, <2>3, Zenon
<1>37. ASSUME NEW j \in Jobs, LaunchJob(j)
      PROVE  Processes(i)' /\ Record(i)'
  <2>1. Processes(i)' /\ (i # j /\ NoProcess(i) => NoProcess(i)')
    BY <1>37, LaunchProcesses, Zenon
  <2>2. launches[j] + 1 # 0
    BY <1>0, ConstantsAssumption DEF RecordType, Launch, ConstantsAssumption
  <2>3. pgid[j] = 0 /\ state[j] \notin {"absent", "PENDING"} /\ step = "dispatch"
    BY <1>0, <1>37, Zenon DEF LaunchJob, Record
  <2>4. CASE i = j
    <3>1. at'[i] = "spawned" /\ launches'[i] # 0
      BY <1>0, <1>37, <2>2, <2>4, Zenon DEF LaunchJob, SetStage, RecordType
    <3>2. /\ pgid[i] = 0 /\ pausing[i] = "none" /\ i \notin running \cup orphans
          /\ state[i] \notin {"absent", "PENDING"}
      BY <1>0, <1>37, <2>3, <2>4, ZenonT(30) DEF LaunchJob, Record, RecordType
    <3>3. UNCHANGED <<state, pgid, pausing, running, orphans, step, todo>>
      BY <1>37, Zenon DEF LaunchJob
    <3> QED
      BY <2>1, <2>3, <3>1, <3>2, <3>3, ZenonT(30) DEF Record
  <2>5. CASE i # j
    BY <1>0, <1>37, <2>1, <2>5, ZenonT(30) DEF LaunchJob, SetStage, Record, RecordType
  <2> QED
    BY <2>1, <2>4, <2>5, Zenon
<1>38. ASSUME NEW j \in Jobs, LaunchFails(j)
      PROVE  Processes(i)' /\ Record(i)'
  <2>1. Quiet
    BY <1>38, SameIsQuiet, Zenon DEF LaunchFails
  <2>2. Processes(i)' /\ (NoProcess(i) => NoProcess(i)')
    BY <2>1, QuietProcesses, Zenon
  <2>3. Record(i)'
    BY <1>0, <1>38, <2>2, Zenon
       DEF LaunchFails, SetStage, Visited, is_terminal, TERMINAL_STATES, Record,
           RecordType
  <2> QED
    BY <2>2, <2>3, Zenon
<1>39. ASSUME NEW j \in Jobs, FillPid(j)
      PROVE  Processes(i)' /\ Record(i)'
  <2>1. Shrinks
    <3>1. CASE is_terminal(j)
      <4>1. members' = [members EXCEPT ![j][launches[j]] = {}]
        BY <1>39, <3>1, Zenon DEF FillPid
      <4>2. {} \in SUBSET Member
        BY Zenon
      <4> QED
        BY <4>1, <4>2, UpdateShrinks, Zenon
    <3>2. CASE ~is_terminal(j)
      BY <1>39, <3>2, SameIsQuiet, Zenon DEF FillPid, Quiet
    <3> QED
      BY <3>1, <3>2, Zenon
  <2>2. Processes(i)' /\ (NoProcess(i) => NoProcess(i)')
    BY <1>39, <2>1, QuietProcesses, Zenon DEF FillPid, Quiet
  <2>3. /\ at' = [at EXCEPT ![j] = "idle"] /\ todo' = todo \ {j}
        /\ UNCHANGED <<state, launches, pausing, orphans, step>>
        /\ step = "dispatch" /\ launches[j] # 0 /\ j \notin orphans
        /\ state[j] \notin {"absent", "PENDING"}
    BY <1>0, <1>39, Zenon DEF FillPid, SetStage, Visited, Record
  <2>4. CASE is_terminal(j)
    <3>1. UNCHANGED <<pgid, running>>
      BY <1>39, <2>4, Zenon DEF FillPid
    <3> QED
      BY <1>0, <2>2, <2>3, <3>1, ZenonT(30) DEF Record, RecordType
  <2>5. CASE ~is_terminal(j)
    <3>1. pgid' = [pgid EXCEPT ![j] = launches[j]] /\ running' = running \cup {j}
      BY <1>39, <2>5, Zenon DEF FillPid
    <3> QED
      BY <1>0, <2>2, <2>3, <3>1, ZenonT(30) DEF Record, RecordType
  <2> QED
    BY <2>2, <2>4, <2>5, Zenon
<1>40. ASSUME PassEnds
      PROVE  Processes(i)' /\ Record(i)'
  <2>1. Quiet
    BY <1>40, SameIsQuiet, Zenon DEF PassEnds
  <2>2. Processes(i)' /\ (NoProcess(i) => NoProcess(i)')
    BY <2>1, QuietProcesses, Zenon
  <2>3. Record(i)'
    BY <1>0, <1>40, <2>2, ZenonT(30) DEF PassEnds, Idle, After, Targets, Pass, Record, RecordType
  <2> QED
    BY <2>2, <2>3, Zenon
<1>41. ASSUME NEW j \in Jobs, DeadlinePasses(j)
      PROVE  Processes(i)' /\ Record(i)'
  <2>1. Quiet
    BY <1>41, SameIsQuiet, Zenon DEF DeadlinePasses
  <2>2. Processes(i)' /\ (NoProcess(i) => NoProcess(i)')
    BY <2>1, QuietProcesses, Zenon
  <2>3. Record(i)'
    BY <1>0, <1>41, <2>2, ZenonT(30) DEF DeadlinePasses, Record, RecordType
  <2> QED
    BY <2>2, <2>3, Zenon
<1>42. ASSUME DaemonLeaves
      PROVE  Processes(i)' /\ Record(i)'
  <2>1. Quiet
    BY <1>42, SameIsQuiet, Zenon DEF DaemonLeaves
  <2>2. Processes(i)' /\ (NoProcess(i) => NoProcess(i)')
    BY <2>1, QuietProcesses, Zenon
  <2>3. Record(i)'
    BY <1>0, <1>42, <2>2, ZenonT(30) DEF DaemonLeaves, Forget, Record, RecordType
  <2> QED
    BY <2>2, <2>3, Zenon
<1>43. ASSUME DaemonCrashes
      PROVE  Processes(i)' /\ Record(i)'
  <2>1. Shrinks
    BY <1>43, Zenon DEF DaemonCrashes, Shrinks, Zombie
  <2>2. Processes(i)' /\ (NoProcess(i) => NoProcess(i)')
    BY <1>43, <2>1, QuietProcesses, Zenon DEF DaemonCrashes, Quiet
  <2>3. Record(i)'
    BY <1>0, <1>43, <2>2, ZenonT(30) DEF DaemonCrashes, Forget, Record, RecordType
  <2> QED
    BY <2>2, <2>3, Zenon
<1>44. ASSUME HostReboots
      PROVE  Processes(i)' /\ Record(i)'
  <2>1. Shrinks
    BY <1>44, Zenon DEF HostReboots, Shrinks
  <2>2. Processes(i)' /\ (NoProcess(i) => NoProcess(i)')
    BY <1>44, <2>1, QuietProcesses, Zenon DEF HostReboots, Quiet
  <2>3. Record(i)'
    BY <1>0, <1>44, <2>2, ZenonT(30) DEF HostReboots, Forget, Record, RecordType
  <2> QED
    BY <2>2, <2>3, Zenon
<1>45. CASE UNCHANGED vars
  <2>1. Quiet
    BY <1>45, SameIsQuiet, Zenon DEF vars
  <2>2. Processes(i)' /\ (NoProcess(i) => NoProcess(i)')
    BY <2>1, QuietProcesses, Zenon
  <2>3. Record(i)'
    BY <1>0, <1>45, <2>2, ZenonT(30) DEF vars, Record
  <2> QED
    BY <2>2, <2>3, Zenon
<1> QED
  BY <1>1, <1>2, <1>3, <1>4, <1>5, <1>6, <1>7, <1>8, <1>9, <1>10, <1>11, <1>12, <1>13,
     <1>14, <1>15, <1>16, <1>17, <1>18, <1>19, <1>20, <1>21, <1>22, <1>23, <1>24, <1>25,
     <1>26, <1>27, <1>28, <1>29, <1>30, <1>31, <1>32, <1>33, <1>34, <1>35, <1>36, <1>37,
     <1>38, <1>39, <1>40, <1>41, <1>42, <1>43, <1>44, <1>45, ZenonT(30)
     DEF Next, DaemonStep, WalkStep, PassStep, DispatchStep, ProcessStep, CliStep, PauserStep

-----------------------------------------------------------------------------
(* The theorems. *)

\* The invariant holds when the jobs have been submitted and no daemon has
\* run.
LEMMA AttemptInit == Init => AttemptInv
<1> SUFFICES ASSUME Init
             PROVE  AttemptInv
  BY Zenon
<1>1. TypeOK
  <2>1. state \in [Jobs -> JobState]
    BY Zenon DEF Init, JobState
  <2>2. /\ pgid \in [Jobs -> Launch \cup {0}]
        /\ intent \in [Jobs -> Launch \cup {0}]
        /\ launches \in [Jobs -> Launch \cup {0}]
    BY Zenon DEF Init
  <2>3. retries \in [Jobs -> 0 .. RetryMax] /\ outages \in 0 .. MaxOutages
    BY ConstantsAssumption DEF ConstantsAssumption, Init
  <2>4. marker \in [Jobs -> Marker] /\ cwd \in [Jobs -> Jobs]
    BY Zenon DEF Init, Marker
  <2>5. /\ members \in [Jobs -> [Launch -> SUBSET Member]]
        /\ stopped \in [Jobs -> SUBSET Launch]
        /\ exits \in [Jobs -> [Launch -> Outcome \cup {"none"}]]
    BY Zenon DEF Init
  <2>6. step \in Step /\ at \in [Jobs -> Stage]
    BY Zenon DEF Init, Step, Stage
  <2> QED
    BY <2>1, <2>2, <2>3, <2>4, <2>5, <2>6, Zenon DEF Init, TypeOK
<1>2. \A j \in Jobs : Processes(j) /\ NoProcess(j)
  BY Zenon DEF Init, Processes, NoProcess
<1>3. \A j \in Jobs : Record(j)
  BY <1>2, Zenon DEF Init, Record
<1> QED
  BY <1>1, <1>2, <1>3, Zenon DEF AttemptInv

\* Every step keeps the types and the attempts apart.
LEMMA AttemptNext == AttemptInv /\ [Next]_vars => AttemptInv'
BY TypeStep, AttemptStep, Zenon DEF AttemptInv

\* AttemptInv is an invariant of the local job system.
LEMMA AttemptInductive == Spec => []AttemptInv
BY AttemptNext, AttemptInit, PTL DEF Spec

\* For any jobs, retry budget, capacity and number of outages, every variable
\* of the local job system keeps its type.
THEOREM TypeCorrect == Spec => []TypeOK
<1>1. AttemptInv => TypeOK
  BY Zenon DEF AttemptInv
<1> QED
  BY <1>1, AttemptInductive, PTL

\* _maybe_retry and _start_job never run an attempt beside what is left of an
\* earlier one, whatever dies in between, for any number of jobs, retries,
\* launches and outages.
THEOREM AttemptsNeverOverlap == Spec => []OneAttempt
<1>1. AttemptInv => OneAttempt
  BY Zenon DEF AttemptInv, Processes, OneAttempt, pgroup_alive
<1> QED
  BY <1>1, AttemptInductive, PTL

\* No terminal label is replaced.
Keeps == \A j \in Jobs : is_terminal(j) => state'[j] = state[j]

\* A write of the state of a job without label replaces no label.
LEMMA OverwriteKeeps ==
  ASSUME AttemptInv, NEW j \in Jobs, NEW s, ~is_terminal(j),
         state' = [state EXCEPT ![j] = s]
  PROVE  Keeps
BY Zenon DEF Keeps, AttemptInv, TypeOK

\* _record_finish keeps a label that is there.
LEMMA FinishKeeps ==
  ASSUME AttemptInv, NEW j \in Jobs, NEW ok \in BOOLEAN, FinishSpec(j, ok)
  PROVE  Keeps
BY Zenon DEF FinishSpec, Keeps, AttemptInv, TypeOK

\* So do _record_orphan_finish and _mark_aborted_by_queue.
LEMMA RecordOrphanKeeps ==
  ASSUME AttemptInv, NEW j \in Jobs, RecordOrphan(j)
  PROVE  Keeps
<1>1. CASE marker[cwd[j]] # NoMarker
  BY <1>1, FinishKeeps, ZenonT(30) DEF RecordOrphan
<1>2. CASE marker[cwd[j]] = NoMarker /\ is_terminal(j)
  BY <1>2, Zenon DEF RecordOrphan, specVars, Keeps
<1>3. CASE marker[cwd[j]] = NoMarker /\ ~is_terminal(j)
  BY <1>3, OverwriteKeeps, Zenon DEF RecordOrphan
<1> QED
  BY <1>1, <1>2, <1>3, Zenon

\* No step replaces a terminal label.  The pauser's last write needs the
\* invariant: it re-reads nothing, and relies on the spec lock it has held
\* since it read RUNNING.
LEMMA NextKeeps == AttemptInv /\ [Next]_vars => Keeps
<1> SUFFICES ASSUME AttemptInv, [Next]_vars
             PROVE  Keeps
  BY Zenon
<1>0. UNCHANGED state => Keeps
  BY Zenon DEF Keeps
<1> USE DEF specVars
<1>1. CASE UNCHANGED vars
  BY <1>0, <1>1, Zenon DEF vars
<1>2. CASE DaemonStarts \/ WalkEnds \/ PassEnds \/ DaemonLeaves \/ WalkStops \/ DaemonCrashes
           \/ HostReboots
  BY <1>0, <1>2, Zenon
     DEF DaemonStarts, WalkEnds, PassEnds, DaemonLeaves, WalkStops, DaemonCrashes, HostReboots
<1>3. ASSUME NEW j \in Jobs, ProcessStep(j) PROVE Keeps
  BY <1>0, <1>3, Zenon DEF ProcessStep, CommandExits, WrapperMarks, WrapperExits, WrapperKilled
<1>4. ASSUME NEW j \in Jobs, CliStep(j) PROVE Keeps
  <2>1. CASE PauseArms(j)
    BY <1>0, <2>1, Zenon DEF PauseArms
  <2>2. CASE kill_job(j)
    BY <2>2, OverwriteKeeps, Zenon DEF kill_job, is_terminal, TERMINAL_STATES
  <2>3. CASE resume_job(j)
    BY <2>3, OverwriteKeeps, Zenon DEF resume_job, is_terminal, TERMINAL_STATES
  <2> QED
    BY <1>4, <2>1, <2>2, <2>3, Zenon DEF CliStep
<1>5. ASSUME NEW j \in Jobs, PauserStep(j) PROVE Keeps
  <2>1. CASE PauseSignals(j) \/ PauserDies(j)
    BY <1>0, <2>1, Zenon DEF PauseSignals, PauserDies
  <2>2. CASE PauseCommits(j)
    <3>1. ~is_terminal(j)
      BY <2>2, Zenon DEF PauseCommits, AttemptInv, Record, is_terminal, TERMINAL_STATES
    <3> QED
      BY <2>2, <3>1, OverwriteKeeps, Zenon DEF PauseCommits
  <2> QED
    BY <1>5, <2>1, <2>2, Zenon DEF PauserStep
<1>6. ASSUME NEW j \in Jobs, DeadlinePasses(j) PROVE Keeps
  BY <1>0, <1>6, Zenon DEF DeadlinePasses
<1>7. ASSUME NEW j \in Jobs, WalkStep(j) PROVE Keeps
  <2>1. CASE WalkSettled(j) \/ WalkReads(j) \/ WalkReattaches(j)
    BY <1>0, <2>1, Zenon DEF WalkSettled, WalkReads, WalkReattaches
  <2>2. CASE WalkAborts(j)
    BY <2>2, Zenon DEF WalkAborts, Keeps, AttemptInv, TypeOK
  <2>3. CASE WalkFinishes(j)
    BY <2>3, RecordOrphanKeeps, Zenon DEF WalkFinishes
  <2>4. CASE auto_resume(j)
    <3>1. ASSUME NEW s \in Jobs, state[s] = "absent", state' = [state EXCEPT ![s] = "PENDING"]
          PROVE  Keeps
      <4>1. ~is_terminal(s)
        BY <3>1, Zenon DEF is_terminal, TERMINAL_STATES
      <4> QED
        BY <3>1, <4>1, OverwriteKeeps, Zenon
    <3> QED
      BY <1>0, <2>4, <3>1, Zenon DEF auto_resume
  <2> QED
    BY <1>7, <2>1, <2>2, <2>3, <2>4, Zenon DEF WalkStep
<1>8. ASSUME NEW j \in Jobs, PassStep(j) PROVE Keeps
  <2>1. CASE \/ NoPauseIntent(j) \/ escalate_if_killed(j) \/ reconcile_terminal_survivor(j)
             \/ OrphanStays(j) \/ WatchdogOk(j) \/ WatchdogVerdict(j) \/ WatchdogSignals(j)
             \/ WatchdogKills(j)
    BY <1>0, <2>1, ZenonT(30)
       DEF NoPauseIntent, escalate_if_killed, reconcile_terminal_survivor, OrphanStays,
           WatchdogOk, WatchdogVerdict, WatchdogSignals, WatchdogKills
  <2>2. CASE reconcile_pause_intent(j)
    <3>1. CASE UNCHANGED state
      BY <1>0, <3>1, Zenon
    <3>2. CASE state' # state
      <4>1. state[j] \in {"RUNNING", "SUSPENDED"} /\ state' = [state EXCEPT ![j] = "SUSPENDED"]
        BY <2>2, <3>2, Zenon DEF reconcile_pause_intent
      <4> QED
        BY <4>1, OverwriteKeeps, Zenon DEF is_terminal, TERMINAL_STATES
    <3> QED
      BY <3>1, <3>2, Zenon
  <2>3. CASE record_finish(j)
    BY <2>3, FinishKeeps, Zenon DEF record_finish
  <2>4. CASE OrphanEnds(j)
    BY <2>4, RecordOrphanKeeps, Zenon DEF OrphanEnds
  <2>5. CASE WatchdogMarks(j)
    BY <2>5, Zenon DEF WatchdogMarks, Keeps, AttemptInv, TypeOK
  <2> QED
    BY <1>8, <2>1, <2>2, <2>3, <2>4, <2>5, Zenon DEF PassStep
<1>9. ASSUME NEW j \in Jobs, DispatchStep(j) PROVE Keeps
  <2>1. CASE DispatchHeld(j) \/ StartJob(j) \/ ClaimGivesUp(j) \/ LaunchJob(j) \/ FillPid(j)
    BY <1>0, <2>1, Zenon DEF DispatchHeld, StartJob, ClaimGivesUp, LaunchJob, FillPid
  <2>2. CASE StartRejected(j)
    BY <2>2, OverwriteKeeps, Zenon DEF StartRejected, is_terminal, TERMINAL_STATES
  <2>3. CASE ClaimJob(j)
    BY <2>3, OverwriteKeeps, Zenon DEF ClaimJob, is_terminal, TERMINAL_STATES
  <2>4. CASE LaunchFails(j)
    BY <2>4, Zenon DEF LaunchFails, Keeps, AttemptInv, TypeOK
  <2> QED
    BY <1>9, <2>1, <2>2, <2>3, <2>4, Zenon DEF DispatchStep
<1> QED
  BY <1>1, <1>2, <1>3, <1>4, <1>5, <1>6, <1>7, <1>8, <1>9, Zenon DEF Next, DaemonStep

\* Whichever of kill_job, the watchdog, the reaps, the startup walk and the
\* dispatch labels a job first, none of the others replaces that label.
THEOREM LabelsAreFinal == Spec => TerminalIsFinal
<1>1. AttemptInv /\ [Next]_vars => [\A j \in Jobs : is_terminal(j) => state'[j] = state[j]]_vars
  BY NextKeeps, Zenon DEF Keeps
<1> QED
  BY <1>1, AttemptInductive, PTL DEF Spec, TerminalIsFinal

-----------------------------------------------------------------------------
(* What a step of one job leaves alone. *)

\* A step that job j takes part in: of its processes, of the CLI or a pauser,
\* or of the daemon at its row.
JobStep(j) ==
    \/ ProcessStep(j) \/ CliStep(j) \/ PauserStep(j) \/ DeadlinePasses(j)
    \/ WalkStep(j) \/ PassStep(j) \/ DispatchStep(j)

\* The other steps of Next.
LEMMA NextSplits ==
  ASSUME [Next]_vars
  PROVE  \/ \E j \in Jobs : JobStep(j)
         \/ DaemonStarts \/ WalkEnds \/ PassEnds \/ DaemonLeaves
         \/ WalkStops \/ DaemonCrashes \/ HostReboots \/ UNCHANGED vars
BY ZenonT(30) DEF Next, DaemonStep, JobStep

\* Nothing that is job i's changes, but for its marker.
Untouched(i) ==
    /\ state'[i] = state[i] /\ pgid'[i] = pgid[i] /\ intent'[i] = intent[i] /\ cwd'[i] = cwd[i]
    /\ members'[i] = members[i] /\ stopped'[i] = stopped[i]
    /\ launches'[i] = launches[i] /\ exits'[i] = exits[i]
    /\ term'[i] = term[i] /\ at'[i] = at[i] /\ pausing'[i] = pausing[i]
    /\ i \in running' <=> i \in running
    /\ i \in orphans' <=> i \in orphans
    /\ i \in survivors' <=> i \in survivors
    /\ i \in todo' <=> i \in todo
    /\ step' = step

\* How an end is recorded touches one job.
LEMMA FinishSpecAlone ==
  ASSUME AttemptInv, NEW j \in Jobs, NEW ok, FinishSpec(j, ok), NEW i \in Jobs, i # j
  PROVE  /\ state'[i] = state[i] /\ pgid'[i] = pgid[i] /\ intent'[i] = intent[i]
         /\ cwd'[i] = cwd[i]
<1>1. state \in [Jobs -> JobState] /\ pgid \in [Jobs -> Launch \cup {0}]
  BY Zenon DEF AttemptInv, TypeOK
<1>2. pgid' = pgid \/ pgid' = [pgid EXCEPT ![j] = 0]
  BY Zenon DEF FinishSpec
<1>3. state'[i] = state[i]
  BY <1>1, Zenon DEF FinishSpec
<1> QED
  BY <1>1, <1>2, <1>3, Zenon DEF FinishSpec

\* So does the end of an orphan.
LEMMA RecordOrphanAlone ==
  ASSUME AttemptInv, NEW j \in Jobs, RecordOrphan(j), NEW i \in Jobs, i # j
  PROVE  /\ state'[i] = state[i] /\ pgid'[i] = pgid[i] /\ intent'[i] = intent[i]
         /\ cwd'[i] = cwd[i]
<1>1. CASE marker[cwd[j]] # NoMarker
  BY <1>1, FinishSpecAlone, Zenon DEF RecordOrphan
<1>2. CASE marker[cwd[j]] = NoMarker
  BY <1>2, Zenon DEF RecordOrphan, specVars, AttemptInv, TypeOK
<1> QED
  BY <1>1, <1>2, Zenon

\* A step of job j leaves every other job alone: except _auto_resume's.
LEMMA JobStepAlone ==
  ASSUME AttemptInv, NEW j \in Jobs, JobStep(j), ~auto_resume(j), NEW i \in Jobs, i # j
  PROVE  Untouched(i)
<1> USE DEF specVars, diskVars, osVars, memVars, pcVars
<1>t. /\ state \in [Jobs -> JobState] /\ pgid \in [Jobs -> Launch \cup {0}]
      /\ intent \in [Jobs -> Launch \cup {0}]
      /\ members \in [Jobs -> [Launch -> SUBSET Member]]
      /\ stopped \in [Jobs -> SUBSET Launch]
      /\ launches \in [Jobs -> Launch \cup {0}]
      /\ exits \in [Jobs -> [Launch -> Outcome \cup {"none"}]]
      /\ term \in [Jobs -> {"none", "armed", "due", "killed"}]
      /\ at \in [Jobs -> Stage]
      /\ pausing \in [Jobs -> {"none", "armed", "signalled"}]
  BY Zenon DEF AttemptInv, TypeOK
<1>k. ASSUME NEW k, KillGroup(j, k) \/ TermGroup(j, k) \/ UNCHANGED <<members, stopped>>
      PROVE  members'[i] = members[i] /\ stopped'[i] = stopped[i]
  BY <1>t, <1>k, Zenon DEF KillGroup, TermGroup
<1>1. CASE ProcessStep(j)
  BY <1>t, <1>1, ZenonT(30)
     DEF ProcessStep, CommandExits, WrapperMarks, WrapperExits, WrapperKilled, Untouched
<1>2. CASE CliStep(j)
  <2>1. CASE kill_job(j)
    BY <1>t, <1>k, <2>1, ZenonT(30) DEF kill_job, Untouched
  <2>2. CASE PauseArms(j) \/ resume_job(j)
    BY <1>t, <2>2, ZenonT(30) DEF PauseArms, resume_job, Untouched
  <2> QED
    BY <1>2, <2>1, <2>2, Zenon DEF CliStep
<1>3. CASE PauserStep(j) \/ DeadlinePasses(j)
  BY <1>t, <1>3, ZenonT(30)
     DEF PauserStep, PauseSignals, PauseCommits, PauserDies, DeadlinePasses, Untouched
<1>4. CASE WalkStep(j)
  <2>1. CASE WalkSettled(j)
    BY <1>t, <1>k, <2>1, ZenonT(30) DEF WalkSettled, Visited, Untouched
  <2>2. CASE WalkReads(j) \/ WalkAborts(j) \/ WalkReattaches(j)
    BY <1>t, <2>2, ZenonT(30)
       DEF WalkReads, WalkAborts, WalkReattaches, Visited, SetStage, Untouched
  <2>3. CASE WalkFinishes(j)
    BY <1>t, <2>3, RecordOrphanAlone, ZenonT(30) DEF WalkFinishes, Visited, SetStage, Untouched
  <2> QED
    BY <1>4, <2>1, <2>2, <2>3, Zenon DEF WalkStep
<1>5. CASE PassStep(j)
  <2>1. CASE NoPauseIntent(j) \/ OrphanStays(j) \/ WatchdogOk(j) \/ WatchdogVerdict(j)
             \/ WatchdogMarks(j)
    BY <1>t, <2>1, ZenonT(30)
       DEF NoPauseIntent, OrphanStays, WatchdogOk, WatchdogVerdict, WatchdogMarks, Visited,
           SetStage, Untouched
  <2>2. CASE reconcile_pause_intent(j)
    BY <1>t, <2>2, ZenonT(30) DEF reconcile_pause_intent, Visited, Untouched
  <2>3. CASE record_finish(j)
    <3>1. PICK z \in members[j][pgid[j]] \cap Zombie :
            /\ members' = [members EXCEPT ![j][pgid[j]] =
                             IF Stranded(j, z) THEN {} ELSE @ \ Zombie]
            /\ \/ stopped' = [stopped EXCEPT ![j] = @ \ {pgid[j]}]
               \/ stopped' = stopped
            /\ FinishSpec(j, z = "zero")
      BY <2>3, Zenon DEF record_finish
    <3>2. /\ state'[i] = state[i] /\ pgid'[i] = pgid[i] /\ intent'[i] = intent[i]
          /\ cwd'[i] = cwd[i]
      BY <3>1, FinishSpecAlone, Zenon
    <3>3. members'[i] = members[i] /\ stopped'[i] = stopped[i]
      BY <1>t, <3>1, Zenon
    <3>4. term'[i] = term[i] /\ (i \in survivors' <=> i \in survivors)
      BY <1>t, <2>3, Zenon DEF record_finish
    <3> QED
      BY <1>t, <2>3, <3>2, <3>3, <3>4, Zenon DEF record_finish, Visited, Untouched
  <2>4. CASE escalate_if_killed(j) \/ WatchdogSignals(j) \/ WatchdogKills(j)
    BY <1>t, <1>k, <2>4, ZenonT(30)
       DEF escalate_if_killed, WatchdogSignals, WatchdogKills, Visited, SetStage, Untouched
  <2>5. CASE reconcile_terminal_survivor(j)
    BY <1>t, <1>k, <2>5, ZenonT(30) DEF reconcile_terminal_survivor, Visited, Untouched
  <2>6. CASE OrphanEnds(j)
    BY <1>t, <1>k, <2>6, RecordOrphanAlone, ZenonT(30) DEF OrphanEnds, Visited, Untouched
  <2> QED
    BY <1>5, <2>1, <2>2, <2>3, <2>4, <2>5, <2>6, Zenon DEF PassStep
<1>6. CASE DispatchStep(j)
  <2>1. CASE DispatchHeld(j) \/ StartRejected(j) \/ StartJob(j) \/ ClaimJob(j)
             \/ ClaimGivesUp(j) \/ LaunchFails(j)
    BY <1>t, <2>1, ZenonT(30)
       DEF DispatchHeld, StartRejected, StartJob, ClaimJob, ClaimGivesUp, LaunchFails,
           Visited, SetStage, Untouched
  <2>2. CASE LaunchJob(j) \/ FillPid(j)
    <3>1. CASE LaunchJob(j)
      <4>1. launches'[i] = launches[i]
        BY <1>t, <3>1, Zenon DEF LaunchJob
      <4> QED
        BY <1>t, <3>1, <4>1, ZenonT(30) DEF LaunchJob, SetStage, Untouched
    <3>2. CASE FillPid(j)
      BY <1>t, <3>2, ZenonT(30) DEF FillPid, Visited, SetStage, Untouched
    <3> QED
      BY <2>2, <3>1, <3>2, Zenon
  <2> QED
    BY <1>6, <2>1, <2>2, Zenon DEF DispatchStep
<1> QED
  BY <1>1, <1>2, <1>3, <1>4, <1>5, <1>6, Zenon DEF JobStep

\* Only a launch adds processes.
LEMMA JobStepShrinks ==
  ASSUME AttemptInv, NEW j \in Jobs, JobStep(j), ~LaunchJob(j)
  PROVE  Shrinks /\ UNCHANGED launches
<1> USE DEF specVars, diskVars, osVars, memVars, pcVars
<1>0. UNCHANGED members => Shrinks
  BY Zenon DEF Shrinks, AttemptInv, Processes
<1>k. ASSUME KillGroup(j, pgid[j]) \/ TermGroup(j, pgid[j]) \/ UNCHANGED <<members, stopped>>
      PROVE  Shrinks
  <2>1. pgid[j] \in Launch \cup {0}
    BY Zenon DEF AttemptInv, TypeOK
  <2> QED
    BY <1>0, <1>k, <2>1, KillFacts, TermFacts, Zenon
<1>1. CASE ProcessStep(j)
  <2>1. PICK k \in Launch : \/ CommandExits(j, k) \/ WrapperExits(j, k) \/ WrapperKilled(j, k)
                            \/ \E rc \in Outcome : WrapperMarks(j, k, rc)
    BY <1>1, Zenon DEF ProcessStep
  <2>2. CASE CommandExits(j, k) \/ WrapperExits(j, k) \/ WrapperKilled(j, k)
    BY <2>2, ExitFacts, Zenon DEF CommandExits, WrapperExits, WrapperKilled
  <2>3. CASE \E rc \in Outcome : WrapperMarks(j, k, rc)
    BY <1>0, <2>3, Zenon DEF WrapperMarks
  <2> QED
    BY <2>1, <2>2, <2>3, Zenon
<1>2. CASE CliStep(j)
  BY <1>0, <1>k, <1>2, Zenon DEF CliStep, kill_job, PauseArms, resume_job
<1>3. CASE PauserStep(j) \/ DeadlinePasses(j)
  BY <1>0, <1>3, Zenon DEF PauserStep, PauseSignals, PauseCommits, PauserDies, DeadlinePasses
<1>4. CASE WalkStep(j)
  BY <1>0, <1>k, <1>4, ZenonT(30)
     DEF WalkStep, WalkSettled, WalkReads, WalkAborts, WalkReattaches, WalkFinishes, auto_resume
<1>5. CASE PassStep(j)
  <2>1. CASE record_finish(j)
    <3>1. pgid[j] # 0
      BY <2>1, Zenon DEF record_finish, On, AttemptInv, Record
    <3>2. UNCHANGED launches
      BY <2>1, Zenon DEF record_finish
    <3> QED
      BY <2>1, <3>1, <3>2, ReapFacts, Zenon DEF record_finish
  <2>2. CASE \/ NoPauseIntent(j) \/ reconcile_pause_intent(j) \/ OrphanStays(j)
             \/ WatchdogOk(j) \/ WatchdogVerdict(j) \/ WatchdogMarks(j)
    BY <1>0, <2>2, ZenonT(30)
       DEF NoPauseIntent, reconcile_pause_intent, OrphanStays, WatchdogOk, WatchdogVerdict,
           WatchdogMarks
  <2>3. CASE \/ escalate_if_killed(j) \/ reconcile_terminal_survivor(j) \/ OrphanEnds(j)
             \/ WatchdogSignals(j) \/ WatchdogKills(j)
    BY <1>k, <2>3, ZenonT(30)
       DEF escalate_if_killed, reconcile_terminal_survivor, OrphanEnds, WatchdogSignals,
           WatchdogKills
  <2> QED
    BY <1>5, <2>1, <2>2, <2>3, Zenon DEF PassStep
<1>6. CASE DispatchStep(j)
  <2>1. CASE \/ DispatchHeld(j) \/ StartRejected(j) \/ StartJob(j) \/ ClaimJob(j)
             \/ ClaimGivesUp(j) \/ LaunchFails(j)
    BY <1>0, <2>1, ZenonT(30)
       DEF DispatchHeld, StartRejected, StartJob, ClaimJob, ClaimGivesUp, LaunchFails
  <2>2. CASE FillPid(j)
    <3>1. UNCHANGED launches
      BY <2>2, Zenon DEF FillPid
    <3>2. CASE is_terminal(j)
      <4>1. members' = [members EXCEPT ![j][launches[j]] = {}]
        BY <2>2, <3>2, Zenon DEF FillPid
      <4>2. {} \in SUBSET Member
        BY Zenon
      <4> QED
        BY <3>1, <4>1, <4>2, UpdateShrinks, Zenon
    <3>3. CASE ~is_terminal(j)
      BY <1>0, <2>2, <3>1, <3>3, Zenon DEF FillPid
    <3> QED
      BY <3>2, <3>3, Zenon
  <2> QED
    BY <1>6, <2>1, <2>2, Zenon DEF DispatchStep
<1> QED
  BY <1>1, <1>2, <1>3, <1>4, <1>5, <1>6, Zenon DEF JobStep


\* Where the daemon is with job j: it takes up a row only when it is at none,
\* and a dispatch only with a free slot; and it stays in its pass.
LEMMA StageStep ==
  ASSUME NEW j \in Jobs, JobStep(j)
  PROVE  /\ \/ at' = at
            \/ at' = [at EXCEPT ![j] = "idle"]
            \/ Idle /\ WalkReads(j) /\ \E a \in {"walk RUNNING", "walk SUSPENDED"} : SetStage(j, a)
            \/ Idle /\ SetStage(j, "verdict")
            \/ at[j] = "verdict" /\ SetStage(j, "signal")
            \/ Idle /\ Cardinality(Charged) < MaxJobs /\ StartJob(j) /\ SetStage(j, "setup")
            \/ at[j] = "setup" /\ ClaimJob(j) /\ SetStage(j, "claimed")
            \/ at[j] = "claimed" /\ SetStage(j, "spawned")
         /\ step' = step /\ todo' \subseteq todo
<1> USE DEF specVars, diskVars, osVars, memVars, pcVars
<1>v. Visited(j) => todo' \subseteq todo
  BY Zenon DEF Visited
<1>1. CASE ProcessStep(j) \/ CliStep(j) \/ PauserStep(j) \/ DeadlinePasses(j)
  <2>1. UNCHANGED <<at, step, todo>>
    BY <1>1, ZenonT(30)
       DEF ProcessStep, CommandExits, WrapperMarks, WrapperExits, WrapperKilled, CliStep,
           kill_job, PauseArms, resume_job, PauserStep, PauseSignals, PauseCommits,
           PauserDies, DeadlinePasses
  <2> QED
    BY <2>1, Zenon
<1>2. CASE WalkStep(j)
  <2>1. CASE WalkReads(j)
    BY <2>1, Zenon DEF WalkReads, On
  <2>2. CASE ~WalkReads(j)
    <3>1. /\ at' = at \/ at' = [at EXCEPT ![j] = "idle"]
          /\ step' = step /\ Visited(j)
      BY <1>2, <2>2, ZenonT(30)
         DEF WalkStep, WalkSettled, WalkAborts, WalkReattaches, WalkFinishes, auto_resume, SetStage
    <3> QED
      BY <1>v, <3>1, Zenon
  <2> QED
    BY <2>1, <2>2, Zenon
<1>3. CASE PassStep(j)
  <2>1. CASE WatchdogVerdict(j) \/ WatchdogMarks(j)
    BY <2>1, Zenon DEF WatchdogVerdict, WatchdogMarks, On
  <2>2. CASE ~WatchdogVerdict(j) /\ ~WatchdogMarks(j)
    <3>1. /\ at' = at \/ at' = [at EXCEPT ![j] = "idle"]
          /\ step' = step /\ Visited(j)
      BY <1>3, <2>2, ZenonT(30)
         DEF PassStep, NoPauseIntent, reconcile_pause_intent, record_finish,
             escalate_if_killed, reconcile_terminal_survivor, OrphanStays, OrphanEnds,
             WatchdogOk, WatchdogSignals, WatchdogKills, SetStage
    <3> QED
      BY <1>v, <3>1, Zenon
  <2> QED
    BY <2>1, <2>2, Zenon
<1>4. CASE DispatchStep(j)
  <2>1. CASE StartJob(j)
    BY <2>1, Zenon DEF StartJob, On
  <2>2. CASE ClaimJob(j) \/ LaunchJob(j)
    BY <2>2, Zenon DEF ClaimJob, LaunchJob
  <2>3. CASE DispatchHeld(j) \/ StartRejected(j) \/ ClaimGivesUp(j) \/ LaunchFails(j) \/ FillPid(j)
    <3>1. /\ at' = at \/ at' = [at EXCEPT ![j] = "idle"]
          /\ step' = step /\ Visited(j)
      BY <2>3, ZenonT(30)
         DEF DispatchHeld, StartRejected, ClaimGivesUp, LaunchFails, FillPid, SetStage
    <3> QED
      BY <1>v, <3>1, Zenon
  <2> QED
    BY <1>4, <2>1, <2>2, <2>3, ZenonT(30) DEF DispatchStep
<1> QED
  BY <1>1, <1>2, <1>3, <1>4, Zenon DEF JobStep

-----------------------------------------------------------------------------
(* The workspaces. *)

\* The jobs that may still write into their workspace, or have a sibling do so:
\* a job without terminal label, one that the startup walk has read without
\* label or has put on its list, and one that _auto_resume has still to
\* resubmit.
Occupies(j) ==
    \/ state[j] # "absent" /\ ~is_terminal(j)
    \/ step = "walk" /\ (j \in aborted \/ at[j] \in {"walk RUNNING", "walk SUSPENDED"})
    \/ step \in {"resume", "leave"} /\ j \in todo

\* A workspace has one occupant, and _auto_resume replaces only jobs whose label
\* is terminal.
Workspaces ==
    /\ \A i, j \in Jobs : Occupies(i) /\ Occupies(j) /\ cwd[i] = cwd[j] => i = j
    /\ \A j \in aborted : is_terminal(j)
    /\ \A j \in Jobs : at[j] # "idle" => state[j] # "absent"
    /\ step = "watchdog" => \A j \in todo : state[j] # "absent"
    /\ step \in {"resume", "leave"} => todo \subseteq aborted
    /\ step = "down" => aborted = {}

\* The strengthening of OneJobPerWorkspace.
WorkspaceInv == AttemptInv /\ Workspaces

\* No job appears, disappears or moves.
SameJobs ==
    /\ cwd' = cwd
    /\ \A i \in Jobs : state'[i] = "absent" <=> state[i] = "absent"

\* A write of the state of a job that exists.
LEMMA OverwriteSameJobs ==
  ASSUME AttemptInv, NEW j \in Jobs, NEW s, s # "absent", state[j] # "absent",
         state' = [state EXCEPT ![j] = s], cwd' = cwd
  PROVE  SameJobs
BY Zenon DEF SameJobs, AttemptInv, TypeOK

\* _record_finish, _record_orphan_finish and _mark_aborted_by_queue write the
\* state of a job that exists.
LEMMA FinishedSameJobs ==
  ASSUME AttemptInv, NEW j \in Jobs, state[j] # "absent", Finished(j), cwd' = cwd
  PROVE  SameJobs
<1>1. PICK s \in TERMINAL_STATES \cup {"PENDING"} : state' = [state EXCEPT ![j] = s]
  BY Zenon DEF Finished
<1>2. s # "absent"
  BY Zenon DEF TERMINAL_STATES
<1> QED
  BY <1>1, <1>2, OverwriteSameJobs, Zenon

\* RecordOrphan leaves the workspace of the job alone.
LEMMA RecordOrphanCwd ==
  ASSUME NEW j \in Jobs, RecordOrphan(j)
  PROVE  cwd' = cwd
BY Zenon DEF RecordOrphan, FinishSpec, specVars

\* Only _auto_resume makes a job.
LEMMA NextSameJobs ==
  ASSUME WorkspaceInv, [Next]_vars, ~ \E j \in Jobs : auto_resume(j)
  PROVE  SameJobs
<1>0. UNCHANGED <<state, cwd>> => SameJobs
  BY Zenon DEF SameJobs
<1>a. /\ RecordType /\ \A j \in Jobs : Record(j)
      /\ \A j \in Jobs : at[j] # "idle" => state[j] # "absent"
  BY RecordHas, Zenon DEF WorkspaceInv, Workspaces
<1>b. AttemptInv
  BY Zenon DEF WorkspaceInv
<1> USE DEF specVars
<1>1. CASE UNCHANGED vars
  BY <1>0, <1>1, Zenon DEF vars
<1>2. CASE DaemonStarts \/ WalkEnds \/ PassEnds \/ DaemonLeaves \/ WalkStops \/ DaemonCrashes
           \/ HostReboots
  BY <1>0, <1>2, Zenon
     DEF DaemonStarts, WalkEnds, PassEnds, DaemonLeaves, WalkStops, DaemonCrashes, HostReboots
<1>3. ASSUME NEW j \in Jobs, ProcessStep(j) PROVE SameJobs
  BY <1>0, <1>3, Zenon DEF ProcessStep, CommandExits, WrapperMarks, WrapperExits, WrapperKilled
<1>4. ASSUME NEW j \in Jobs, CliStep(j) PROVE SameJobs
  <2>1. CASE PauseArms(j)
    BY <1>0, <2>1, Zenon DEF PauseArms
  <2>2. CASE kill_job(j)
    BY <1>b, <2>2, OverwriteSameJobs, Zenon DEF kill_job
  <2>3. CASE resume_job(j)
    BY <1>b, <2>3, OverwriteSameJobs, Zenon DEF resume_job
  <2> QED
    BY <1>4, <2>1, <2>2, <2>3, Zenon DEF CliStep
<1>5. ASSUME NEW j \in Jobs, PauserStep(j) PROVE SameJobs
  <2>1. CASE PauseSignals(j) \/ PauserDies(j)
    BY <1>0, <2>1, Zenon DEF PauseSignals, PauserDies
  <2>2. CASE PauseCommits(j)
    BY <1>a, <1>b, <2>2, OverwriteSameJobs, Zenon DEF PauseCommits, Record
  <2> QED
    BY <1>5, <2>1, <2>2, Zenon DEF PauserStep
<1>6. ASSUME NEW j \in Jobs, DeadlinePasses(j) PROVE SameJobs
  BY <1>0, <1>6, Zenon DEF DeadlinePasses
<1>7. ASSUME NEW j \in Jobs, WalkStep(j) PROVE SameJobs
  <2>1. CASE WalkSettled(j) \/ WalkReads(j) \/ WalkReattaches(j)
    BY <1>0, <2>1, ZenonT(30) DEF WalkSettled, WalkReads, WalkReattaches
  <2>2. CASE WalkAborts(j)
    <3>1. state[j] # "absent"
      BY <1>a, <2>2, Zenon DEF WalkAborts
    <3> QED
      BY <1>b, <2>2, <3>1, Zenon DEF WalkAborts, SameJobs, AttemptInv, TypeOK
  <2>3. CASE WalkFinishes(j)
    <3>1. state[j] # "absent"
      BY <1>a, <2>3, ZenonT(30) DEF WalkFinishes
    <3>2. RecordOrphan(j)
      BY <2>3, Zenon DEF WalkFinishes
    <3> QED
      BY <1>b, <3>1, <3>2, RecordOrphanFinishes, RecordOrphanCwd, FinishedSameJobs, Zenon
  <2> QED
    BY <1>7, <2>1, <2>2, <2>3, Zenon DEF WalkStep
<1>8. ASSUME NEW j \in Jobs, PassStep(j) PROVE SameJobs
  <2>1. CASE \/ NoPauseIntent(j) \/ escalate_if_killed(j) \/ reconcile_terminal_survivor(j)
             \/ OrphanStays(j) \/ WatchdogOk(j) \/ WatchdogVerdict(j) \/ WatchdogSignals(j)
             \/ WatchdogKills(j)
    BY <1>0, <2>1, ZenonT(30)
       DEF NoPauseIntent, escalate_if_killed, reconcile_terminal_survivor, OrphanStays,
           WatchdogOk, WatchdogVerdict, WatchdogSignals, WatchdogKills
  <2>2. CASE reconcile_pause_intent(j)
    <3>1. cwd' = cwd
      BY <2>2, Zenon DEF reconcile_pause_intent
    <3>2. CASE UNCHANGED state
      BY <1>0, <3>1, <3>2, Zenon
    <3>3. CASE state' # state
      <4>1. state[j] \in {"RUNNING", "SUSPENDED"} /\ state' = [state EXCEPT ![j] = "SUSPENDED"]
        BY <2>2, <3>3, Zenon DEF reconcile_pause_intent
      <4> QED
        BY <1>b, <3>1, <4>1, OverwriteSameJobs, Zenon
    <3> QED
      BY <3>2, <3>3, Zenon
  <2>3. CASE record_finish(j)
    <3>1. state[j] # "absent"
      BY <1>a, <2>3, Zenon DEF record_finish, On, Record
    <3>2. PICK ok \in BOOLEAN : FinishSpec(j, ok)
      BY <2>3, Zenon DEF record_finish
    <3>3. cwd' = cwd
      BY <3>2, Zenon DEF FinishSpec
    <3> QED
      BY <1>b, <3>1, <3>2, <3>3, FinishSpecFinishes, FinishedSameJobs, Zenon
  <2>4. CASE OrphanEnds(j)
    <3>1. state[j] # "absent"
      BY <1>a, <2>4, Zenon DEF OrphanEnds, On, Record
    <3>2. RecordOrphan(j)
      BY <2>4, Zenon DEF OrphanEnds
    <3> QED
      BY <1>b, <3>1, <3>2, RecordOrphanFinishes, RecordOrphanCwd, FinishedSameJobs, Zenon
  <2>5. CASE WatchdogMarks(j)
    <3>1. state[j] # "absent"
      BY <1>a, <2>5, Zenon DEF WatchdogMarks
    <3> QED
      BY <1>b, <2>5, <3>1, Zenon DEF WatchdogMarks, SameJobs, AttemptInv, TypeOK
  <2> QED
    BY <1>8, <2>1, <2>2, <2>3, <2>4, <2>5, Zenon DEF PassStep
<1>9. ASSUME NEW j \in Jobs, DispatchStep(j) PROVE SameJobs
  <2>1. CASE DispatchHeld(j) \/ StartJob(j) \/ ClaimGivesUp(j) \/ LaunchJob(j) \/ FillPid(j)
    BY <1>0, <2>1, Zenon DEF DispatchHeld, StartJob, ClaimGivesUp, LaunchJob, FillPid
  <2>2. CASE StartRejected(j)
    BY <1>b, <2>2, OverwriteSameJobs, Zenon DEF StartRejected
  <2>3. CASE ClaimJob(j)
    BY <1>b, <2>3, OverwriteSameJobs, ZenonT(30) DEF ClaimJob
  <2>4. CASE LaunchFails(j)
    <3>1. state[j] # "absent"
      BY <1>a, <2>4, Zenon DEF LaunchFails
    <3> QED
      BY <1>b, <2>4, <3>1, Zenon DEF LaunchFails, SameJobs, AttemptInv, TypeOK
  <2> QED
    BY <1>9, <2>1, <2>2, <2>3, <2>4, Zenon DEF DispatchStep
<1> QED
  BY <1>1, <1>2, <1>3, <1>4, <1>5, <1>6, <1>7, <1>8, <1>9, Zenon DEF Next, DaemonStep, WalkStep


\* The stages of a job that the startup walk has read.
Walked == {"walk RUNNING", "walk SUSPENDED"}

\* A step within a pass or between the passes: it visits jobs, and the startup
\* walk lists only jobs it has read and labelled.
WithinPass ==
    /\ step' = step
    /\ todo' \subseteq todo
    /\ aborted \subseteq aborted'
    /\ \A i \in Jobs : at'[i] \in Walked => at[i] \in Walked
    /\ \A i \in Jobs : at'[i] # "idle" => at[i] # "idle" \/ state[i] # "absent"
    /\ \A i \in aborted' \ aborted : step = "walk" /\ at[i] \in Walked /\ is_terminal(i)'

\* Such a step keeps Workspaces.
LEMMA WithinPassKeeps ==
  ASSUME WorkspaceInv, TypeOK', SameJobs, Keeps, WithinPass
  PROVE  Workspaces'
<1>1. ASSUME NEW i \in Jobs, Occupies(i)'
      PROVE  Occupies(i)
  <2>1. CASE state'[i] # "absent" /\ ~is_terminal(i)'
    BY <2>1, Zenon DEF SameJobs, Keeps, Occupies, is_terminal
  <2>2. CASE step' = "walk" /\ (i \in aborted' \/ at'[i] \in Walked)
    BY <2>2, Zenon DEF WithinPass, Occupies, Walked
  <2>3. CASE step' \in {"resume", "leave"} /\ i \in todo'
    BY <2>3, Zenon DEF WithinPass, Occupies
  <2> QED
    BY <1>1, <2>1, <2>2, <2>3, Zenon DEF Occupies, Walked
<1>2. \A i, j \in Jobs : Occupies(i)' /\ Occupies(j)' /\ cwd'[i] = cwd'[j] => i = j
  BY <1>1, Zenon DEF WorkspaceInv, Workspaces, SameJobs
<1>3. \A i \in aborted' : is_terminal(i)'
  <2> SUFFICES ASSUME NEW i \in aborted' PROVE is_terminal(i)'
    BY Zenon
  <2>1. CASE i \in aborted
    BY <2>1, Zenon DEF WorkspaceInv, Workspaces, AttemptInv, TypeOK, Keeps, is_terminal
  <2>2. CASE i \notin aborted
    BY <2>2, Zenon DEF WithinPass
  <2> QED
    BY <2>1, <2>2, Zenon
<1>4. \A i \in Jobs : at'[i] # "idle" => state'[i] # "absent"
  BY Zenon DEF WithinPass, SameJobs, WorkspaceInv, Workspaces
<1>5. step' \in {"resume", "leave"} => todo' \subseteq aborted'
  BY Zenon DEF WithinPass, WorkspaceInv, Workspaces
<1>6. step' = "down" => aborted' = {}
  <2>1. ASSUME step' = "down", NEW i \in aborted'
        PROVE  FALSE
    BY <2>1, Zenon DEF WithinPass, WorkspaceInv, Workspaces
  <2> QED
    BY <2>1, Zenon
<1>7. step' = "watchdog" => \A i \in todo' : state'[i] # "absent"
  <2>1. todo \subseteq Jobs
    BY Zenon DEF WorkspaceInv, AttemptInv, TypeOK
  <2> QED
    BY <2>1, ZenonT(30) DEF WithinPass, SameJobs, WorkspaceInv, Workspaces
<1> QED
  BY <1>2, <1>3, <1>4, <1>5, <1>6, <1>7, Zenon DEF Workspaces

\* The steps of one job other than the walk's reading and _auto_resume, and
\* those of the processes, the CLI and the pausers, are within a pass.
LEMMA JobStepsWithin ==
  ASSUME WorkspaceInv, TypeOK', NEW j \in Jobs,
         JobStep(j),
         ~WalkReads(j), ~auto_resume(j)
  PROVE  WithinPass
<1> USE DEF specVars, diskVars, osVars, memVars, pcVars
<1>a. /\ at \in [Jobs -> Stage] /\ \A i \in Jobs : Record(i)
      /\ \A i \in Jobs : at[i] # "idle" => state[i] # "absent"
  BY Zenon DEF WorkspaceInv, Workspaces, AttemptInv, TypeOK
<1>b. UNCHANGED <<step, todo, aborted, at>> => WithinPass
  BY ZenonT(30) DEF WithinPass
<1>c. UNCHANGED <<step, aborted, at>> /\ Visited(j) => WithinPass
  BY Zenon DEF WithinPass, Visited
<1>d. ASSUME NEW a, step' = step, todo' \subseteq todo, aborted' = aborted, SetStage(j, a),
             a \notin Walked, a = "idle" \/ state[j] # "absent"
      PROVE  WithinPass
  BY <1>a, <1>d, Zenon DEF WithinPass, SetStage
<1>1. CASE ProcessStep(j) \/ CliStep(j) \/ PauserStep(j) \/ DeadlinePasses(j)
  <2>1. UNCHANGED <<step, todo, aborted, at>>
    BY <1>1, ZenonT(30)
       DEF ProcessStep, CliStep, PauserStep, DeadlinePasses, CommandExits, WrapperMarks,
           WrapperExits, WrapperKilled, kill_job, PauseArms, resume_job, PauseSignals,
           PauseCommits, PauserDies
  <2> QED
    BY <1>b, <2>1, Zenon
<1>2. CASE WalkStep(j)
  <2>1. CASE WalkSettled(j)
    BY <1>c, <2>1, Zenon DEF WalkSettled
  <2>2. CASE WalkReattaches(j)
    BY <1>d, <2>2, Zenon DEF WalkReattaches, Visited, Walked
  <2>3. CASE WalkAborts(j) \/ WalkFinishes(j)
    <3>1. /\ step' = step /\ todo' = todo \ {j} /\ at' = [at EXCEPT ![j] = "idle"]
          /\ at[j] \in Walked
      BY <2>3, Zenon DEF WalkAborts, WalkFinishes, Visited, SetStage, Walked
    <3>2. step = "walk"
      BY <1>a, <3>1, ZenonT(30) DEF Record, Walked
    <3>3. aborted' = aborted \/ (aborted' = aborted \cup {j} /\ is_terminal(j)')
      <4>1. CASE WalkAborts(j)
        <5>1. is_terminal(j)'
          <6>1. state'[j] = IF is_terminal(j) THEN state[j] ELSE "ABORTED_BY_QUEUE"
            BY <4>1, ZenonT(30) DEF WalkAborts, WorkspaceInv, AttemptInv, TypeOK
          <6> QED
            BY <6>1, Zenon DEF is_terminal, TERMINAL_STATES
        <5> QED
          BY <4>1, <5>1, Zenon DEF WalkAborts, RememberAborted
      <4>2. CASE WalkFinishes(j) /\ marker[cwd[j]] # NoMarker
        BY <4>2, Zenon DEF WalkFinishes
      <4>3. CASE WalkFinishes(j) /\ marker[cwd[j]] = NoMarker
        <5>1. is_terminal(j)'
          <6>1. CASE is_terminal(j)
            BY <4>3, <6>1, ZenonT(30) DEF WalkFinishes, RecordOrphan, is_terminal
          <6>2. CASE ~is_terminal(j)
            <7>1. state' = [state EXCEPT ![j] = "ABORTED_BY_QUEUE"]
              BY <4>3, <6>2, Zenon DEF WalkFinishes, RecordOrphan
            <7> QED
              BY <7>1, ZenonT(30) DEF is_terminal, TERMINAL_STATES, WorkspaceInv, AttemptInv, TypeOK
          <6> QED
            BY <6>1, <6>2, Zenon
        <5> QED
          BY <4>3, <5>1, Zenon DEF WalkFinishes, RememberAborted
      <4> QED
        BY <2>3, <4>1, <4>2, <4>3, Zenon
    <3> QED
      BY <1>a, <3>1, <3>2, <3>3, ZenonT(30) DEF WithinPass, Walked
  <2> QED
    BY <1>2, <2>1, <2>2, <2>3, Zenon DEF WalkStep
<1>3. CASE PassStep(j)
  <2>1. CASE \/ NoPauseIntent(j) \/ reconcile_pause_intent(j) \/ record_finish(j)
             \/ escalate_if_killed(j) \/ reconcile_terminal_survivor(j) \/ OrphanStays(j)
             \/ OrphanEnds(j) \/ WatchdogOk(j) \/ WatchdogKills(j)
    <3>1. UNCHANGED <<step, aborted, at>> /\ Visited(j)
      BY <2>1, ZenonT(30)
         DEF NoPauseIntent, reconcile_pause_intent, record_finish, escalate_if_killed,
             reconcile_terminal_survivor, OrphanStays, OrphanEnds, WatchdogOk, WatchdogKills
    <3> QED
      BY <1>c, <3>1, Zenon
  <2>2. CASE WatchdogVerdict(j)
    <3>1. state[j] # "absent"
      BY <2>2, Zenon DEF WatchdogVerdict, On, WorkspaceInv, Workspaces
    <3> QED
      BY <1>d, <2>2, <3>1, Zenon DEF WatchdogVerdict, Walked
  <2>3. CASE WatchdogMarks(j)
    <3>1. state[j] # "absent"
      BY <1>a, <2>3, Zenon DEF WatchdogMarks
    <3> QED
      BY <1>d, <2>3, <3>1, Zenon DEF WatchdogMarks, Walked
  <2>4. CASE WatchdogSignals(j)
    BY <1>d, <2>4, Zenon DEF WatchdogSignals, Visited, Walked
  <2> QED
    BY <1>3, <2>1, <2>2, <2>3, <2>4, Zenon DEF PassStep
<1>4. CASE DispatchStep(j)
  <2>1. CASE DispatchHeld(j) \/ StartRejected(j)
    BY <1>c, <2>1, Zenon DEF DispatchHeld, StartRejected
  <2>2. CASE StartJob(j) \/ ClaimJob(j)
    <3>1. state[j] # "absent"
      BY <2>2, Zenon DEF StartJob, ClaimJob
    <3> QED
      BY <1>d, <2>2, <3>1, ZenonT(30) DEF StartJob, ClaimJob, Walked
  <2>3. CASE LaunchJob(j)
    <3>1. state[j] # "absent"
      BY <1>a, <2>3, Zenon DEF LaunchJob
    <3> QED
      BY <1>d, <2>3, <3>1, Zenon DEF LaunchJob, Walked
  <2>4. CASE ClaimGivesUp(j) \/ LaunchFails(j) \/ FillPid(j)
    BY <1>d, <2>4, Zenon DEF ClaimGivesUp, LaunchFails, FillPid, Visited, Walked
  <2> QED
    BY <1>4, <2>1, <2>2, <2>3, <2>4, Zenon DEF DispatchStep
<1> QED
  BY <1>1, <1>2, <1>3, <1>4, Zenon DEF JobStep


\* _auto_resume hands the workspace over: the job it replaces has a terminal
\* label and leaves its list, and the sibling becomes the occupant.
LEMMA AutoResumeKeeps ==
  ASSUME WorkspaceInv, TypeOK', Keeps, NEW j \in Jobs, auto_resume(j)
  PROVE  Workspaces'
<1> USE DEF specVars, diskVars, osVars, memVars, pcVars
<1>1. /\ step \in {"resume", "leave"} /\ j \in todo /\ todo' = todo \ {j}
      /\ step' = step /\ at' = at /\ aborted' = aborted
  BY Zenon DEF auto_resume, Visited
<1>2. j \in aborted /\ is_terminal(j) /\ aborted \subseteq Jobs
  BY <1>1, ZenonT(30) DEF WorkspaceInv, Workspaces, AttemptInv, TypeOK
<1>3. Occupies(j)
  BY <1>1, Zenon DEF Occupies
<1>4. \A i \in aborted' : is_terminal(i)'
  BY <1>1, <1>2, ZenonT(30) DEF WorkspaceInv, Workspaces, Keeps, is_terminal
<1>5. step' \in {"resume", "leave"} => todo' \subseteq aborted'
  BY <1>1, Zenon DEF WorkspaceInv, Workspaces
<1>6. step' # "down" /\ step' # "walk"
  BY <1>1, Zenon
<1>7. CASE UNCHANGED <<state, retries, cwd>>
  <2>1. SameJobs
    BY <1>7, Zenon DEF SameJobs
  <2>2. WithinPass
    BY <1>1, Zenon DEF WithinPass
  <2> QED
    BY <2>1, <2>2, WithinPassKeeps, Zenon
<1>8. ASSUME NEW s \in Jobs, state[s] = "absent", state' = [state EXCEPT ![s] = "PENDING"],
             cwd' = [cwd EXCEPT ![s] = cwd[j]]
      PROVE  Workspaces'
  <2>1. /\ state'[s] = "PENDING" /\ cwd'[s] = cwd[j]
        /\ \A i \in Jobs : i # s => state'[i] = state[i] /\ cwd'[i] = cwd[i]
    BY <1>8, ZenonT(30) DEF WorkspaceInv, AttemptInv, TypeOK
  <2>2. s # j
    BY <1>2, <1>8, Zenon DEF is_terminal, TERMINAL_STATES
  <2>3. ASSUME NEW i \in Jobs, i # s, Occupies(i)'
        PROVE  Occupies(i) /\ i # j /\ cwd'[i] = cwd[i]
    <3>1. is_terminal(i)' <=> is_terminal(i)
      BY <2>1, <2>3, Zenon DEF is_terminal
    <3>2. Occupies(i) /\ i # j
      BY <1>1, <1>2, <2>1, <2>3, <3>1, Zenon DEF Occupies
    <3> QED
      BY <2>1, <2>3, <3>2, Zenon
  <2>4. ASSUME NEW i \in Jobs, i # s, Occupies(i)', cwd'[i] = cwd'[s]
        PROVE  FALSE
    <3>1. Occupies(i) /\ i # j /\ cwd[i] = cwd[j]
      BY <2>1, <2>3, <2>4, Zenon
    <3> QED
      BY <1>3, <3>1, Zenon DEF WorkspaceInv, Workspaces
  <2>5. ASSUME NEW i \in Jobs, NEW l \in Jobs, Occupies(i)', Occupies(l)', cwd'[i] = cwd'[l]
        PROVE  i = l
    <3>1. CASE i = s \/ l = s
      BY <2>4, <2>5, <3>1, Zenon
    <3>2. CASE i # s /\ l # s
      <4>1. Occupies(i) /\ Occupies(l) /\ cwd[i] = cwd[l]
        BY <2>3, <2>5, <3>2, Zenon
      <4> QED
        BY <4>1, Zenon DEF WorkspaceInv, Workspaces
    <3> QED
      BY <3>1, <3>2, Zenon
  <2>6. \A i \in Jobs : at'[i] # "idle" => state'[i] # "absent"
    BY <1>1, <2>1, Zenon DEF WorkspaceInv, Workspaces
  <2> QED
    BY <1>1, <1>4, <1>5, <1>6, <2>5, <2>6, ZenonT(30) DEF Workspaces
<1> QED
  BY <1>7, <1>8, Zenon DEF auto_resume

\* Every step keeps Workspaces.
LEMMA WorkspaceStep == WorkspaceInv /\ [Next]_vars => WorkspaceInv'
<1> SUFFICES ASSUME WorkspaceInv, [Next]_vars
             PROVE  WorkspaceInv'
  BY Zenon
<1>a. AttemptInv /\ AttemptInv' /\ TypeOK' /\ Keeps
  BY AttemptNext, NextKeeps, Zenon DEF WorkspaceInv, AttemptInv
<1> SUFFICES Workspaces'
  BY <1>a, Zenon DEF WorkspaceInv
<1> USE DEF specVars, diskVars, osVars, memVars, pcVars
<1>b. /\ \A i, j \in Jobs : Occupies(i) /\ Occupies(j) /\ cwd[i] = cwd[j] => i = j
      /\ \A i \in aborted : is_terminal(i)
      /\ \A i \in Jobs : at[i] # "idle" => state[i] # "absent"
      /\ step = "watchdog" => \A i \in todo : state[i] # "absent"
      /\ step \in {"resume", "leave"} => todo \subseteq aborted
      /\ step = "down" => aborted = {}
  BY Zenon DEF WorkspaceInv, Workspaces
<1>c. ASSUME SameJobs, UNCHANGED state, \A i \in Jobs : Occupies(i)' => Occupies(i),
             \A i \in Jobs : at'[i] # "idle" => state[i] # "absent",
             aborted' \subseteq aborted,
             step' = "watchdog" => \A i \in todo' : state[i] # "absent",
             step' \in {"resume", "leave"} => todo' \subseteq aborted',
             step' = "down" => aborted' = {}
      PROVE  Workspaces'
  BY <1>b, <1>c, Zenon DEF Workspaces, SameJobs, is_terminal
<1>1. CASE \E j \in Jobs : auto_resume(j)
  BY <1>1, <1>a, AutoResumeKeeps, Zenon
<1>2. CASE ~ \E j \in Jobs : auto_resume(j)
  <2>0. SameJobs
    BY <1>2, NextSameJobs, Zenon
  <2>1. ASSUME NEW j \in Jobs, JobStep(j), ~WalkReads(j)
        PROVE  Workspaces'
    BY <1>2, <1>a, <2>0, <2>1, JobStepsWithin, WithinPassKeeps, ZenonT(30)
  <2>2. ASSUME NEW j \in Jobs, WalkReads(j) PROVE Workspaces'
    <3>1. /\ step = "walk" /\ state[j] \in {"RUNNING", "SUSPENDED"}
          /\ at' \in {[at EXCEPT ![j] = "walk RUNNING"], [at EXCEPT ![j] = "walk SUSPENDED"]}
          /\ UNCHANGED <<state, step, todo, aborted, cwd>>
      BY <2>2, ZenonT(30) DEF WalkReads, On, SetStage
    <3>2. \A i \in Jobs : i # j => at'[i] = at[i]
      BY <1>a, <3>1, ZenonT(30) DEF AttemptInv, TypeOK
    <3>3. Occupies(j)
      BY <3>1, Zenon DEF Occupies, is_terminal, TERMINAL_STATES
    <3>4. \A i \in Jobs : Occupies(i)' => Occupies(i)
      BY <3>1, <3>2, <3>3, Zenon DEF Occupies, is_terminal
    <3>5. \A i \in Jobs : at'[i] # "idle" => state[i] # "absent"
      BY <1>b, <3>1, <3>2, Zenon
    <3> QED
      BY <1>b, <1>c, <2>0, <3>1, <3>4, <3>5, Zenon
  <2>3. CASE DaemonStarts
    <3>1. /\ step = "down" /\ step' = "walk" /\ UNCHANGED <<state, cwd, aborted, at>>
      BY <2>3, Zenon DEF DaemonStarts
    <3>2. \A i \in Jobs : at[i] \notin Walked
      BY <1>a, <3>1, Zenon DEF AttemptInv, Record, Walked
    <3>3. \A i \in Jobs : Occupies(i)' => Occupies(i)
      BY <1>b, <3>1, <3>2, ZenonT(30) DEF Occupies, Walked, is_terminal
    <3> QED
      BY <1>b, <1>c, <2>0, <3>1, <3>3, Zenon
  <2>4. CASE WalkStops \/ WalkEnds
    <3>1. /\ step = "walk" /\ step' \in {"resume", "leave"} /\ todo' \subseteq aborted
          /\ UNCHANGED <<state, cwd, aborted, at>>
      BY <2>4, Zenon DEF WalkStops, WalkEnds
    <3>2. \A i \in Jobs : Occupies(i)' => Occupies(i)
      BY <3>1, ZenonT(30) DEF Occupies, is_terminal
    <3> QED
      BY <1>b, <1>c, <2>0, <3>1, <3>2, Zenon
  <2>5. CASE PassEnds
    <3>1. step' \in Pass /\ UNCHANGED <<state, cwd, aborted, at>>
      BY <2>5, Zenon DEF PassEnds, After, Pass
    <3>2. step' \notin {"walk", "resume", "leave", "down"}
      BY <3>1, Zenon DEF Pass
    <3>3. \A i \in Jobs : Occupies(i)' => Occupies(i)
      BY <3>1, <3>2, Zenon DEF Occupies, is_terminal
    <3>4. step' = "watchdog" => todo' = running \cup orphans
      BY <2>5, ZenonT(30) DEF PassEnds, After, Pass, Targets
    <3>5. \A i \in running \cup orphans : state[i] # "absent"
      BY <1>a, ZenonT(30) DEF AttemptInv, TypeOK, Record
    <3> QED
      BY <1>b, <1>c, <2>0, <3>1, <3>2, <3>3, <3>4, <3>5, Zenon
  <2>6. CASE DaemonLeaves \/ DaemonCrashes \/ HostReboots
    <3>1. step' = "down" /\ aborted' = {} /\ UNCHANGED <<state, cwd>> /\ at' = [i \in Jobs |-> "idle"]
      BY <2>6, Zenon DEF DaemonLeaves, DaemonCrashes, HostReboots, Forget
    <3>2. \A i \in Jobs : Occupies(i)' => Occupies(i)
      BY <3>1, Zenon DEF Occupies, is_terminal
    <3> QED
      BY <1>b, <1>c, <2>0, <3>1, <3>2, Zenon
  <2>7. CASE UNCHANGED vars
    <3>1. WithinPass
      BY <1>b, <2>7, Zenon DEF vars, WithinPass
    <3> QED
      BY <1>a, <2>0, <3>1, WithinPassKeeps, Zenon
  <2> QED
    BY <2>1, <2>2, <2>3, <2>4, <2>5, <2>6, <2>7, NextSplits, Zenon
<1> QED
  BY <1>1, <1>2, Zenon

\* A workspace never has two jobs without terminal label, whatever the walk's
\* unlocked reads, the kills that race them, the outages and the siblings of
\* _auto_resume: for any jobs, budgets and number of outages.
THEOREM WorkspacesAreExclusive == Spec => []OneJobPerWorkspace
<1>1. Init => WorkspaceInv
  <2> SUFFICES ASSUME Init PROVE Workspaces
    BY AttemptInit, Zenon DEF WorkspaceInv
  <2> QED
    BY Zenon DEF Init, Workspaces, Occupies
<1>2. WorkspaceInv => OneJobPerWorkspace
  BY Zenon DEF WorkspaceInv, Workspaces, Occupies, OneJobPerWorkspace
<1> QED
  BY <1>1, <1>2, WorkspaceStep, PTL DEF Spec

=============================================================================
