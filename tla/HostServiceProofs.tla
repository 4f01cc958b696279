------------------------- MODULE HostServiceProofs -------------------------
(***************************************************************************)
(* Proofs about three services of a host, each a specification of its own: *)
(* the watchdog that pauses jobs when memory runs short (HostPressure),    *)
(* the admission of jobs to runtime generations (GenerationAdmission), and *)
(* the store of those generations (RuntimeSlots), for any sets of jobs,    *)
(* keys and generations and any number of crashes.                         *)
(***************************************************************************)
EXTENDS HostPressure, GenerationAdmission, RuntimeSlots, TLAPS

-----------------------------------------------------------------------------
(* The watchdog.  HeldIsRemembered is not inductive: a pause writes the tag  *)
(* that its intent carries, some steps after the verdict that chose the job. *)
(* So the invariant also says whose intent is armed while pause_job is       *)
(* inside the lock, and that the daemon's own pauses are of jobs it          *)
(* remembered before it began.                                               *)

\* Whoever is inside pause_job armed the intent that stands.
IntentIsThePausers ==
    \A j \in Tracked : pauser[j] # Nobody => intent[j] = pauser[j]

\* The daemon pauses only in its pause pass, and only what it remembers.
PausesAreRemembered ==
    /\ step = "pause" => active /\ todo \subseteq paused_jobids
    /\ \A j \in Tracked :
         pauser[j] = HOST_PRESSURE_PAUSE_TAG => step = "pause" /\ j \in todo

PressureInv == PressureTypeOK /\ IntentIsThePausers /\ PausesAreRemembered /\ HeldIsRemembered

-----------------------------------------------------------------------------

LEMMA PressureTypes ==
  ASSUME PressureTypeOK, [PressureNext]_pvars
  PROVE  PressureTypeOK'
<1> USE DEF PressureTypeOK, specVars, Actor, Begin, Resume, Arm, Finish, FinishPause
<1>1. CASE DaemonStarts
  BY <1>1, Zenon DEF DaemonStarts
<1>2. CASE reseed_host_pressure_paused
  BY <1>2, Zenon DEF reseed_host_pressure_paused
<1>3. CASE PassEnds
  BY <1>3, Zenon DEF PassEnds
<1>4. CASE check_host_pressure
  BY <1>4, Zenon DEF check_host_pressure
<1>5. ASSUME NEW j \in Tracked, reconcile_pause_intent(j)
      PROVE  PressureTypeOK'
  BY <1>5 DEF reconcile_pause_intent
<1>6. ASSUME NEW j \in Tracked, Reap(j)
      PROVE  PressureTypeOK'
  BY <1>6, Zenon DEF Reap
<1>7. ASSUME NEW j \in Tracked, DaemonArms(j)
      PROVE  PressureTypeOK'
  BY <1>7, Zenon DEF DaemonArms
<1>8. ASSUME NEW j \in Tracked, DaemonFinishes(j)
      PROVE  PressureTypeOK'
  BY <1>8 DEF DaemonFinishes
<1>9. ASSUME NEW j \in Tracked, PauseRefused(j)
      PROVE  PressureTypeOK'
  BY <1>9, Zenon DEF PauseRefused
<1>10. ASSUME NEW j \in Tracked, DaemonResumes(j)
       PROVE  PressureTypeOK'
  BY <1>10, Zenon DEF DaemonResumes
<1>11. CASE PressureChanges
  BY <1>11, Zenon DEF PressureChanges
<1>12. CASE DaemonCrashes
  <2>1. crashes' \in 0 .. MaxCrashes
    BY <1>12, CrashAssumption DEF DaemonCrashes, CrashAssumption
  <2> QED
    BY <1>12, <2>1, Zenon DEF DaemonCrashes
<1>13. ASSUME NEW j \in Tracked, GroupExits(j)
       PROVE  PressureTypeOK'
  BY <1>13, Zenon DEF GroupExits
<1>14. ASSUME NEW j \in Tracked, OperatorPauses(j)
       PROVE  PressureTypeOK'
  BY <1>14, Zenon DEF OperatorPauses
<1>15. ASSUME NEW j \in Tracked, OperatorFinishes(j)
       PROVE  PressureTypeOK'
  BY <1>15, Zenon DEF OperatorFinishes
<1>16. ASSUME NEW j \in Tracked, OperatorDies(j)
       PROVE  PressureTypeOK'
  BY <1>16, Zenon DEF OperatorDies
<1>17. ASSUME NEW j \in Tracked, OperatorResumes(j)
       PROVE  PressureTypeOK'
  BY <1>17, Zenon DEF OperatorResumes
<1>18. CASE UNCHANGED pvars
  BY <1>18, Zenon DEF pvars
<1> QED
  BY <1>1, <1>2, <1>3, <1>4, <1>5, <1>6, <1>7, <1>8, <1>9, <1>10, <1>11, <1>12, <1>13, <1>14,
     <1>15, <1>16, <1>17, <1>18, Zenon DEF PressureNext, DaemonStep

-----------------------------------------------------------------------------
(* Each step keeps the three conjuncts. *)

PressureRest == IntentIsThePausers /\ PausesAreRemembered /\ HeldIsRemembered

LEMMA PressureSteps ==
  ASSUME PressureInv, PressureTypeOK', [PressureNext]_pvars
  PROVE  PressureRest'
<1> USE DEF PressureInv, PressureRest, PressureTypeOK, IntentIsThePausers, PausesAreRemembered, HeldIsRemembered,
            HeldForPressure, HOST_PRESSURE_PAUSE_TAG, Actor, Nobody, specVars, Begin, LockFree
<1>1. CASE DaemonStarts
  BY <1>1, Zenon DEF DaemonStarts
<1>2. CASE reseed_host_pressure_paused
  BY <1>2, Zenon DEF reseed_host_pressure_paused
<1>3. CASE PassEnds
  BY <1>3, Zenon DEF PassEnds
<1>4. CASE check_host_pressure
  BY <1>4, Zenon DEF check_host_pressure
<1>5. ASSUME NEW j \in Tracked, reconcile_pause_intent(j)
      PROVE  PressureRest'
  BY <1>5 DEF reconcile_pause_intent, FinishPause
<1>6. ASSUME NEW j \in Tracked, Reap(j)
      PROVE  PressureRest'
  BY <1>6 DEF Reap
<1>7. ASSUME NEW j \in Tracked, DaemonArms(j)
      PROVE  PressureRest'
  BY <1>7 DEF DaemonArms, Arm, MayPause
<1>8. ASSUME NEW j \in Tracked, DaemonFinishes(j)
      PROVE  PressureRest'
  BY <1>8 DEF DaemonFinishes, Finish, FinishPause
<1>9. ASSUME NEW j \in Tracked, PauseRefused(j)
      PROVE  PressureRest'
  BY <1>9, Zenon DEF PauseRefused, MayPause
<1>10. ASSUME NEW j \in Tracked, DaemonResumes(j)
       PROVE  PressureRest'
  BY <1>10 DEF DaemonResumes, MayResume, Resume
<1>11. CASE PressureChanges
  BY <1>11, Zenon DEF PressureChanges
<1>12. CASE DaemonCrashes
  BY <1>12, Zenon DEF DaemonCrashes
<1>13. ASSUME NEW j \in Tracked, GroupExits(j)
       PROVE  PressureRest'
  BY <1>13, Zenon DEF GroupExits
<1>14. ASSUME NEW j \in Tracked, OperatorPauses(j)
       PROVE  PressureRest'
  BY <1>14 DEF OperatorPauses, Arm, MayPause
<1>15. ASSUME NEW j \in Tracked, OperatorFinishes(j)
       PROVE  PressureRest'
  BY <1>15 DEF OperatorFinishes, Finish, FinishPause
<1>16. ASSUME NEW j \in Tracked, OperatorDies(j)
       PROVE  PressureRest'
  BY <1>16 DEF OperatorDies
<1>17. ASSUME NEW j \in Tracked, OperatorResumes(j)
       PROVE  PressureRest'
  BY <1>17 DEF OperatorResumes, MayResume, Resume
<1>18. CASE UNCHANGED pvars
  BY <1>18, Zenon DEF pvars
<1> QED
  BY <1>1, <1>2, <1>3, <1>4, <1>5, <1>6, <1>7, <1>8, <1>9, <1>10, <1>11, <1>12, <1>13, <1>14,
     <1>15, <1>16, <1>17, <1>18, Zenon DEF PressureNext, DaemonStep

\* HeldIsRemembered for any jobs: whatever crashes, restarts and pauses of the
\* operator come between, check_host_pressure forgets no job it holds.
THEOREM WatchdogRemembers == PressureSpec => []HeldIsRemembered
<1>1. PressureInit => PressureInv
  <2> USE DEF PressureInit, Actor, Nobody, HOST_PRESSURE_PAUSE_TAG
  <2>0. 0 \in 0 .. MaxCrashes
    BY CrashAssumption DEF CrashAssumption
  <2>1. PressureInit => PressureTypeOK
    BY <2>0, Zenon DEF PressureTypeOK
  <2>2. PressureInit => IntentIsThePausers /\ PausesAreRemembered
    BY Zenon DEF IntentIsThePausers, PausesAreRemembered
  <2>3. PressureInit => HeldIsRemembered
    BY Zenon DEF HeldIsRemembered, HeldForPressure
  <2> QED
    BY <2>1, <2>2, <2>3, Zenon DEF PressureInv
<1>2. PressureInv /\ [PressureNext]_pvars => PressureInv'
  BY PressureTypes, PressureSteps, Zenon DEF PressureInv, PressureRest
<1>3. PressureInv => HeldIsRemembered
  BY Zenon DEF PressureInv
<1> QED
  BY <1>1, <1>2, <1>3, PTL DEF PressureSpec

-----------------------------------------------------------------------------
(* Admission.  A reservation protects its generation from the sweep until it *)
(* is released, and every job that may still use a generation has one.       *)

Unreleased(k) == row[k].st \in {"reserved", "committed"}

\* What a reservation that is not released protects is there and not swept.
RowsProtect ==
  \A k \in Keys : Unreleased(k) => row[k].gen \in there /\ row[k].gen # sweep

\* A submission past its reservation has one, of no job, and no spec yet.
PublishIsReserved ==
  \A k \in Keys :
    /\ sub[k].pc \in {"reserve", "publish"} => spec[k].st = "none"
    /\ sub[k].pc = "publish" => row[k].st = "reserved" /\ row[k].gen = sub[k].gen

\* Every job that may still use its generation has an unreleased reservation.
JobsAreReserved ==
  \A k \in Keys :
    \/ batch[k] = "live" \/ disp[k] = "staging" \/ spec[k].st \in {"pending", "running"}
    => Unreleased(k) /\ row[k].gen = spec[k].gen

\* What the provider's proof of termination rests on: a job that was never
\* claimed is nowhere, and a claimed one is submitted at most once.
ClaimPrecedesBatch ==
  \A k \in Keys :
    /\ spec[k].st \in {"none", "pending"} => ~spec[k].begun
    /\ ~spec[k].begun => batch[k] = "none" /\ disp[k] # "staging"
    /\ disp[k] = "staging" => batch[k] = "none"

IInv == TypeOK /\ RowsProtect /\ PublishIsReserved /\ JobsAreReserved /\ ClaimPrecedesBatch

\* The initial state has no reservation and no job.
LEMMA InitHolds == Init => IInv
  BY NoGenIsNone, MaxIdsIsNat DEF Init, IInv, TypeOK, RowsProtect, PublishIsReserved, JobsAreReserved,
     ClaimPrecedesBatch, Unreleased, Row, Sub, SpecT, NoSub, Ids

\* What a submission, a reservation and a spec become is of their type.
LEMMA Shapes ==
  /\ NoSub \in Sub
  /\ \A x \in Sub, pc \in {"publish", "claim", "commit"} : At(x, pc) \in Sub
  /\ \A x \in Row, id \in Ids :
       /\ [st |-> "committed", job |-> id, gen |-> x.gen] \in Row
       /\ [st |-> "released", job |-> x.job, gen |-> x.gen] \in Row
  /\ \A x \in SpecT, st \in {"pending", "running", "terminal", "deleted"}, b, v \in BOOLEAN :
       Marked(x, st, b, v) \in SpecT
  /\ \A x \in SpecT : x.id \in Ids /\ x.begun \in BOOLEAN /\ x.seen \in BOOLEAN
  BY Zenon DEF NoSub, Sub, At, Row, SpecT, Marked

\* Every action keeps the types.
LEMMA TypeStep == TypeOK /\ [Next]_vars => TypeOK'
<1> SUFFICES ASSUME TypeOK, [Next]_vars PROVE TypeOK'
  BY Zenon
<1> USE DEF TypeOK
<1>1. ASSUME NEW k \in Keys, NEW g \in Gens, StartSubmit(k, g) PROVE TypeOK'
  <2>1. ids[k] + 1 \in Ids /\ [pc |-> "reserve", gen |-> g] \in Sub
    BY <1>1, MaxIdsIsNat DEF StartSubmit, Ids, Sub
  <2> QED
    BY <1>1, <2>1, Zenon DEF StartSubmit
<1>2. ASSUME NEW k \in Keys, ReserveSpec(k) PROVE TypeOK'
  <2>1. sub' \in [Keys -> Sub]
    <3>1. sub[k] \in Sub /\ NoSub \in Sub /\ At(sub[k], "publish") \in Sub
      BY Shapes, Zenon
    <3> QED
      BY <1>2, <3>1, Zenon DEF ReserveSpec
  <2>2. Reservable(k, sub[k].gen) => Reserved(k, sub[k].gen) \in Row
    BY MaxIdsIsNat DEF Reservable, Reserved, Row, Ids
  <2>3. row' \in [Keys -> Row]
    BY <1>2, <2>2, Zenon DEF ReserveSpec
  <2> QED
    BY <1>2, <2>1, <2>3, Zenon DEF ReserveSpec
<1>3. ASSUME NEW k \in Keys, PublishSpec(k) PROVE TypeOK'
  <2>1. [st |-> "pending", id |-> ids[k], gen |-> sub[k].gen, begun |-> FALSE, seen |-> FALSE]
          \in SpecT
    BY Zenon DEF Sub, SpecT
  <2> QED
    BY <1>3, <2>1, Shapes, Zenon DEF PublishSpec
<1>4. ASSUME NEW k \in Keys, PublishClaim(k) PROVE TypeOK'
  BY <1>4, Shapes, Zenon DEF PublishClaim
<1>5. ASSUME NEW k \in Keys, CommitSpec(k) PROVE TypeOK'
  <2>1. row[k] \in Row /\ ids[k] \in Ids /\ NoSub \in Sub
    BY Shapes, Zenon
  <2>2. [st |-> "committed", job |-> ids[k], gen |-> row[k].gen] \in Row
    BY <2>1, Shapes, Zenon
  <2>3. row' \in [Keys -> Row]
    BY <1>5, <2>2, Zenon DEF CommitSpec, Commit
  <2> QED
    BY <1>5, <2>1, <2>3, Zenon DEF CommitSpec
<1>6. ASSUME NEW k \in Keys, SubmitterDies(k) PROVE TypeOK'
  BY <1>6, Shapes, Zenon DEF SubmitterDies
<1>7. ASSUME NEW k \in Keys, CheckSpec(k) PROVE TypeOK'
  <2>0. row[k] \in Row /\ spec[k] \in SpecT
    BY Zenon
  <2>1. row' \in [Keys -> Row]
    <3>1. [st |-> "committed", job |-> spec[k].id, gen |-> row[k].gen] \in Row
      BY <2>0, Shapes, Zenon
    <3> QED
      BY <1>7, <3>1 DEF CheckSpec, Commit
  <2>2. spec' \in [Keys -> SpecT]
    <3>1. Marked(spec[k], "terminal", spec[k].begun, spec[k].seen) \in SpecT
      BY <2>0, Shapes, Zenon
    <3> QED
      BY <1>7, <3>1, Zenon DEF CheckSpec
  <2> QED
    BY <1>7, <2>1, <2>2, Zenon DEF CheckSpec
<1>8. ASSUME NEW k \in Keys, ClaimSpec(k) PROVE TypeOK'
  <2>1. spec[k] \in SpecT /\ TRUE \in BOOLEAN
    BY Zenon
  <2>2. Marked(spec[k], "running", TRUE, spec[k].seen) \in SpecT
    BY <2>1, Shapes, Zenon
  <2>3. spec' \in [Keys -> SpecT]
    BY <1>8, <2>2, Zenon DEF ClaimSpec
  <2> QED
    BY <1>8, <2>3, Zenon DEF ClaimSpec
<1>9. ASSUME NEW k \in Keys, SubmitBatch(k) PROVE TypeOK'
  <2>1. spec[k] \in SpecT /\ \A v \in BOOLEAN :
          /\ Marked(spec[k], spec[k].st, spec[k].begun, v) \in SpecT
          /\ Marked(spec[k], IF spec[k].st = "running" THEN "terminal" ELSE spec[k].st,
                    spec[k].begun, v) \in SpecT
    BY Zenon DEF SpecT, Marked
  <2>2. spec' \in [Keys -> SpecT]
    <3>1. Marked(spec[k], IF spec[k].st = "running" THEN "terminal" ELSE spec[k].st,
                 spec[k].begun, spec[k].seen) \in SpecT
      BY <2>1, Shapes, Zenon
    <3> QED
      BY <1>9, <2>1, <3>1 DEF SubmitBatch
  <2> QED
    BY <1>9, <2>2, Zenon DEF SubmitBatch
<1>10. ASSUME NEW k \in Keys, BatchEnds(k) PROVE TypeOK'
  BY <1>10, Zenon DEF BatchEnds
<1>11. ASSUME NEW k \in Keys, SpecEnds(k) PROVE TypeOK'
  <2>1. \E v \in BOOLEAN : spec' = [spec EXCEPT ![k] = Marked(@, "terminal", @.begun, v)]
    BY <1>11, Shapes, Zenon DEF SpecEnds
  <2>2. spec' \in [Keys -> SpecT]
    BY <2>1, Shapes
  <2> QED
    BY <1>11, <2>2, Zenon DEF SpecEnds
<1>12. ASSUME NEW k \in Keys, ReleaseSpec(k) PROVE TypeOK'
  <2>1. row' \in [Keys -> Row]
    <3>1. row[k] \in Row
      BY Zenon
    <3>2. [st |-> "released", job |-> row[k].job, gen |-> row[k].gen] \in Row
      BY <3>1, Shapes, Zenon DEF Row
    <3> QED
      BY <1>12, <3>2, Zenon DEF ReleaseSpec
  <2>2. spec' \in [Keys -> SpecT]
    <3>1. spec[k] \in SpecT
      BY Zenon
    <3>2. \A st \in {"terminal", "deleted"} :
            Marked(spec[k], st, spec[k].begun, spec[k].seen) \in SpecT
      BY <3>1, Shapes, Zenon
    <3> QED
      BY <1>12, <3>2 DEF ReleaseSpec
  <2> QED
    BY <1>12, <2>1, <2>2, Zenon DEF ReleaseSpec
<1>13. ASSUME DaemonDies PROVE TypeOK'
  BY <1>13, Zenon DEF DaemonDies
<1>14. ASSUME EndSweep PROVE TypeOK'
  BY <1>14, Zenon DEF EndSweep
<1>15. ASSUME NEW g \in Gens, StartSweep(g) PROVE TypeOK'
  BY <1>15, Zenon DEF StartSweep
<1>16. CASE UNCHANGED vars
  BY <1>16, Zenon DEF vars
<1> QED
  BY <1>1, <1>2, <1>3, <1>4, <1>5, <1>6, <1>7, <1>8, <1>9, <1>10, <1>11, <1>12, <1>13, <1>14,
     <1>15, <1>16, Zenon DEF Next

\* Every action keeps the four parts of the invariant; an action of key k
\* leaves every other key as it is.
LEMMA InvStep == IInv /\ [Next]_vars => IInv'
<1> SUFFICES ASSUME IInv, [Next]_vars PROVE IInv'
  BY Zenon
<1>t. TypeOK'
  BY TypeStep, Zenon DEF IInv
<1> DEFINE Parts == RowsProtect /\ PublishIsReserved /\ JobsAreReserved /\ ClaimPrecedesBatch
<1> USE NoGenIsNone DEF IInv, TypeOK, RowsProtect, PublishIsReserved, JobsAreReserved,
        ClaimPrecedesBatch, Unreleased
<1>1. ASSUME NEW k \in Keys, NEW g \in Gens, StartSubmit(k, g) PROVE Parts'
  BY <1>1 DEF StartSubmit
<1>2. ASSUME NEW k \in Keys, ReserveSpec(k) PROVE Parts'
  BY <1>2 DEF ReserveSpec, Reserved, Reservable, Unlocked, NoSub, At
<1>3. ASSUME NEW k \in Keys, PublishSpec(k) PROVE Parts'
  BY <1>3 DEF PublishSpec, At
<1>4. ASSUME NEW k \in Keys, PublishClaim(k) PROVE Parts'
  BY <1>4 DEF PublishClaim, At
<1>5. ASSUME NEW k \in Keys, CommitSpec(k) PROVE Parts'
  BY <1>5, SMTT(30) DEF CommitSpec, Commit, Committable, NoSub
<1>6. ASSUME NEW k \in Keys, SubmitterDies(k) PROVE Parts'
  BY <1>6 DEF SubmitterDies, NoSub
<1>7. ASSUME NEW k \in Keys, CheckSpec(k) PROVE Parts'
  <2>1. /\ \A j \in Keys \ {k} : row'[j] = row[j]
        /\ row'[k].gen = row[k].gen
        /\ row'[k].st \in {row[k].st, "committed"} /\ (row'[k].st # row[k].st => Unreleased(k))
    BY <1>7 DEF CheckSpec, Commit, Committable
  <2>2. /\ \A j \in Keys \ {k} : spec'[j] = spec[j] /\ disp'[j] = disp[j]
        /\ spec'[k].gen = spec[k].gen /\ spec'[k].begun = spec[k].begun
        /\ spec[k].st = "pending" /\ spec'[k].st \in {"pending", "terminal"}
        /\ disp'[k] # "staging"
    BY <1>7 DEF CheckSpec, Marked
  <2>3. UNCHANGED <<there, sweep, sub, batch>>
    BY <1>7, Zenon DEF CheckSpec
  <2>4. RowsProtect'
    BY <2>1, <2>3
  <2>5. PublishIsReserved'
    BY <2>1, <2>2, <2>3
  <2>6. JobsAreReserved'
    BY <2>1, <2>2, <2>3
  <2>7. ClaimPrecedesBatch'
    BY <2>2, <2>3
  <2> QED
    BY <2>4, <2>5, <2>6, <2>7, Zenon
<1>8. ASSUME NEW k \in Keys, ClaimSpec(k) PROVE Parts'
  BY <1>8 DEF ClaimSpec, Marked
<1>9. ASSUME NEW k \in Keys, SubmitBatch(k) PROVE Parts'
  BY <1>9 DEF SubmitBatch, Marked
<1>10. ASSUME NEW k \in Keys, BatchEnds(k) PROVE Parts'
  BY <1>10 DEF BatchEnds
<1>11. ASSUME NEW k \in Keys, SpecEnds(k) PROVE Parts'
  BY <1>11 DEF SpecEnds, Marked
<1>12. ASSUME NEW k \in Keys, ReleaseSpec(k) PROVE Parts'
  BY <1>12 DEF ReleaseSpec, Releasable, Proven, Marked
<1>13. ASSUME DaemonDies PROVE Parts'
  BY <1>13 DEF DaemonDies
<1>14. ASSUME EndSweep PROVE Parts'
  BY <1>14 DEF EndSweep
<1>15. ASSUME NEW g \in Gens, StartSweep(g) PROVE Parts'
  BY <1>15, SMTT(30) DEF StartSweep, Protects
<1>16. CASE UNCHANGED vars
  BY <1>16 DEF vars
<1> QED
  BY <1>t, <1>1, <1>2, <1>3, <1>4, <1>5, <1>6, <1>7, <1>8, <1>9, <1>10, <1>11, <1>12, <1>13,
     <1>14, <1>15, <1>16, Zenon DEF Next

\* For every set of keys and generations, the generation of a job that is
\* published, being dispatched or running is there and is not being removed
\* (ReservationStore and its callers reserve_spec, check_spec, release_spec).
THEOREM AdmittedGenerationIsKept == Spec => []AdmittedIsKept
<1>1. IInv => AdmittedIsKept
  BY Zenon DEF IInv, RowsProtect, JobsAreReserved, AdmittedIsKept
<1> QED
  BY InitHolds, InvStep, <1>1, PTL DEF Spec

-----------------------------------------------------------------------------
(* The store of generations: what every step of an update, of a retention    *)
(* and of a job keeps.                                                        *)

\* The retention command holds the store and works off its candidates.
Retaining == ret.pc \notin {"idle", "reviewed"}

\* The generations that it removes, or may still remove.
Doomed == ret.cands \cup (IF ret.pc \in {"pointer", "tree", "rest"} THEN {ret.at} ELSE {})

\* Who holds the lifecycle lock.
Locks ==
  /\ upd.pc # "idle" => lock = "update" /\ upd.sha \in Shas /\ upd.tx # 0
  /\ Retaining => lock = "retain"

\* A generation that is not there has only its receipt; one that is sealed and
\* not yet verified is whole; one left unfinished by a build is recognised.
Generation(s) ==
  /\ ~slot[s].there => slot[s].mark = "none" /\ slot[s].body = "none" /\ ~slot[s].sealed
  /\ slot[s].mark = "building" /\ slot[s].sealed => slot[s].body = "whole"
  /\ s \notin torn /\ slot[s].there /\ ~Verified(s) =>
       /\ slot[s].receipt # 0
       /\ \/ slot[s].mark = "building" /\ slot[s].tx = slot[s].receipt
          \/ slot[s].mark = "none" /\ slot[s].body = "none" /\ ~slot[s].sealed

\* What the update has made of its generation at each of its steps.
Built ==
  LET g == slot[upd.sha] IN
  /\ upd.pc = "clean" => g.mark # "verified" /\ ~g.sealed
  /\ upd.pc \in {"cleaned", "reserve", "mkdir"} => ~g.there
  /\ upd.pc = "mark" => g.there /\ g.mark = "none" /\ g.body = "none"
  /\ upd.pc \in {"source", "ancestry", "seed", "build", "seal"} =>
       g.there /\ g.mark = "building" /\ g.tx = g.receipt
  /\ upd.pc \in {"mkdir", "mark", "source", "ancestry", "seed", "build", "seal"} =>
       g.receipt = upd.tx /\ ~g.sealed
  /\ upd.pc = "seal" => g.body = "whole"
  /\ upd.pc = "state" => g.there /\ g.mark = "building" /\ g.sealed
  /\ upd.pc \in {"unlink", "point"} => Intact(upd.sha)
  /\ upd.pc \in {"reuse", "activate"} => Verified(upd.sha)

\* The pointers name whole generations, which no retention removes: it unlinks
\* a previous pointer first.  Nor does it remove an unfinished one.
Pointers ==
  /\ current.sha # NoSha => Intact(current.sha)
  /\ previous.sha # NoSha => Intact(previous.sha)
  /\ Retaining => current.sha \notin Doomed
  /\ ret.pc \in {"tree", "rest"} => ret.at \in Shas /\ ret.at # previous.sha
  /\ ret.pc = "pointer" => ret.at \in Shas
  /\ Retaining => \A s \in Doomed : slot[s].mark # "building"

StoreInv ==
  /\ SlotsTypeOK /\ Locks /\ Built /\ Pointers
  /\ \A s \in Shas : Generation(s)

\* Generation s is whole, and no retention under way removes it.
Safe(s) == s \in Shas /\ Intact(s) /\ (Retaining => s \notin Doomed)

\* A job keeps the generation it is pinned to until it runs, and the one it has
\* chosen from then on; only a census can miss it, between the choice and the
\* record.
Holds(j) ==
  /\ job[j].st = "selected" => job[j].via = "program"
  /\ job[j].st \in {"pending", "admitted", "selected"} /\ job[j].pin # NoSha => Safe(job[j].pin)
  /\ job[j].st = "selected" /\ job[j].pin # NoSha => job[j].held = job[j].pin
  /\ job[j].st \in {"selected", "running"} /\ j \notin raced => Safe(job[j].held)
  /\ job[j].st = "running" /\ job[j].via = "program" => job[j].rec = job[j].held

\* The inductive invariant behind StoreIsSound and RuntimeStaysWhole.
HoldInv == StoreInv /\ \A j \in Jobs : Holds(j)

-----------------------------------------------------------------------------
(* The steps of an update. *)

\* The places of an update process.
Places == {"idle", "begin", "clean", "cleaned", "reserve", "mkdir", "mark", "source",
           "ancestry", "seed", "build", "seal", "state", "unlink", "reuse", "activate", "point"}

\* No whole generation is touched.
Spares == \A t \in Shas : Intact(t) => Intact(t)'

\* Nothing but generation s changes in the store.
Alone(s) ==
  /\ slot' \in [Shas -> Slot]
  /\ \A t \in Shas : t # s => slot'[t] = slot[t] /\ (t \in torn' <=> t \in torn)

\* A write of generation s.
LEMMA WriteGeneration ==
  ASSUME SlotsTypeOK, NEW s \in Shas, NEW g \in Slot, slot' = [slot EXCEPT ![s] = g],
         \A t \in Shas : t # s => (t \in torn' <=> t \in torn)
  PROVE  Alone(s) /\ slot'[s] = g
BY Zenon DEF SlotsTypeOK, Alone

\* What holds of the one that changes holds of all.
LEMMA OneGeneration ==
  ASSUME StoreInv, NEW s \in Shas, Alone(s), Generation(s)', Intact(s) => Intact(s)'
  PROVE  Spares /\ \A t \in Shas : Generation(t)'
<1>1. ASSUME NEW t \in Shas, t # s PROVE Generation(t)' /\ (Intact(t) => Intact(t)')
  <2>1. slot'[t] = slot[t] /\ (t \in torn' <=> t \in torn) /\ Generation(t)
    BY <1>1, Zenon DEF Alone, StoreInv
  <2> QED
    BY <2>1, Zenon DEF Generation, Verified, Intact, ContentMatches
<1> QED
  BY <1>1, Zenon DEF Spares

\* Nothing changes in the store.
LEMMA StoreStands ==
  ASSUME StoreInv, UNCHANGED <<slot, torn>>
  PROVE  Spares /\ \A t \in Shas : Generation(t)'
BY Zenon DEF Spares, StoreInv, Generation, Verified, Intact, ContentMatches

\* The update goes on, or exits.
LEMMA ToFacts ==
  ASSUME SlotsTypeOK, NEW pc \in Places, To(pc)
  PROVE  /\ upd' \in Upd /\ lock' = lock /\ marker' \in BOOLEAN
         /\ upd'.pc = pc /\ upd'.sha = upd.sha /\ upd'.tx = upd.tx
BY Zenon DEF To, SlotsTypeOK, Upd, Places

\* Its exit frees the lock.
LEMMA ExitFacts ==
  ASSUME SlotsTypeOK, UpdateExit
  PROVE  upd' \in Upd /\ upd'.pc = "idle" /\ lock' = "free" /\ marker' \in BOOLEAN
<1>1. upd' \in Upd /\ upd'.pc = "idle" /\ lock' = "free"
  BY SlotsAssumption DEF UpdateExit, IdleUpd, Upd, SlotsAssumption
<1>2. marker' \in BOOLEAN
  BY Zenon DEF UpdateExit
<1> QED
  BY <1>1, <1>2, Zenon

\* An update holds the lock, so that no retention is under way.
LEMMA UpdateExcludes ==
  ASSUME StoreInv, upd.pc # "idle"
  PROVE  lock = "update" /\ ~Retaining /\ upd.sha \in Shas /\ upd.tx # 0
BY Zenon DEF StoreInv, Locks

\* A step of an update that leaves the pointers alone.
LEMMA UpdateFrame ==
  ASSUME StoreInv, upd.pc # "idle", UNCHANGED <<ret, job, raced>>, StoreSame, txs' = txs,
         Spares, \A t \in Shas : Generation(t)', slot' \in [Shas -> Slot], torn' \subseteq Shas,
         upd' \in Upd, marker' \in BOOLEAN, Built',
         \/ upd'.pc = "idle" /\ lock' \in {"free", "child"}
         \/ lock' = lock /\ upd'.sha = upd.sha /\ upd'.tx # 0
  PROVE  StoreInv' /\ Spares
<1>1. lock = "update" /\ ~Retaining /\ upd.sha \in Shas
  BY UpdateExcludes, Zenon
<1>2. SlotsTypeOK'
  BY <1>1, Zenon DEF StoreInv, SlotsTypeOK, StoreSame
<1>3. Locks'
  BY <1>1, Zenon DEF Locks, Retaining
<1>4. Pointers'
  <2>1. current.sha \in Shas \cup {NoSha} /\ previous.sha \in Shas \cup {NoSha}
    BY Zenon DEF StoreInv, SlotsTypeOK, Pointer
  <2>2. ~Retaining' /\ ret'.pc \notin {"tree", "rest", "pointer"}
    BY <1>1, Zenon DEF Retaining
  <2> QED
    BY <2>1, <2>2, Zenon DEF Pointers, StoreInv, Spares, StoreSame
<1> QED
  BY <1>2, <1>3, <1>4, Zenon DEF StoreInv

\* The operator starts an update.
LEMMA UpdateStartHolds ==
  ASSUME StoreInv, NEW s \in Shas, NEW prep \in BOOLEAN, UpdateStart(s, prep)
  PROVE  StoreInv' /\ Spares
<1>1. Spares /\ \A t \in Shas : Generation(t)'
  BY StoreStands, Zenon DEF UpdateStart
<1>2. txs + 1 \in 0 .. MaxTx /\ txs + 1 # 0
  BY SlotsAssumption DEF UpdateStart, StoreInv, SlotsTypeOK, SlotsAssumption
<1>3. upd' \in Upd /\ upd'.pc = "begin" /\ upd'.sha = s /\ upd'.tx # 0
  BY <1>2, Zenon DEF UpdateStart, Upd
<1>4. marker' \in BOOLEAN
  BY Zenon DEF UpdateStart
<1>5. SlotsTypeOK'
  BY <1>2, <1>3, <1>4, Zenon DEF UpdateStart, StoreInv, SlotsTypeOK, StoreSame, OthersSame
<1>6. ~Retaining /\ ret' = ret
  BY Zenon DEF UpdateStart, StoreInv, Locks, OthersSame
<1>7. Locks'
  BY <1>3, <1>6, Zenon DEF UpdateStart, Locks, Retaining
<1>8. Built'
  BY <1>3, Zenon DEF Built
<1>9. Pointers'
  <2>1. current.sha \in Shas \cup {NoSha} /\ previous.sha \in Shas \cup {NoSha}
    BY Zenon DEF StoreInv, SlotsTypeOK, Pointer
  <2>2. ~Retaining' /\ ret'.pc \notin {"tree", "rest", "pointer"}
    BY <1>6, Zenon DEF Retaining
  <2> QED
    BY <1>1, <2>1, <2>2, Zenon DEF Pointers, StoreInv, Spares, StoreSame, UpdateStart
<1> QED
  BY <1>1, <1>5, <1>7, <1>8, <1>9, Zenon DEF StoreInv


\* begin_slot_build: only a receipt is removed.
LEMMA BeginBuildHolds ==
  ASSUME StoreInv, NEW s \in Shas, s = upd.sha, BeginBuild
  PROVE  StoreInv' /\ Spares
<1>a. /\ upd.pc = "begin" /\ UNCHANGED <<ret, job, raced>> /\ StoreSame /\ txs' = txs /\ torn' = torn
      /\ SlotsTypeOK /\ slot \in [Shas -> Slot]
  BY Zenon DEF BeginBuild, OthersSame, StoreInv, SlotsTypeOK
<1>b. upd.tx # 0 /\ Generation(s) /\ slot[s] \in Slot /\ torn \subseteq Shas
  BY <1>a, UpdateExcludes, Zenon DEF StoreInv, SlotsTypeOK
<1>1. CASE UpdateExit /\ UNCHANGED slot
  <2>1. Spares /\ \A t \in Shas : Generation(t)'
    BY <1>1, <1>a, StoreStands, Zenon
  <2>2. upd' \in Upd /\ upd'.pc = "idle" /\ lock' = "free" /\ marker' \in BOOLEAN
    BY <1>1, <1>a, ExitFacts, Zenon
  <2>3. Built'
    BY <2>2, Zenon DEF Built
  <2> QED
    BY <1>1, <1>a, <1>b, <2>1, <2>2, <2>3, UpdateFrame, Zenon
<1>2. CASE Verified(s) /\ To("reuse") /\ slot' = [slot EXCEPT ![s].receipt = 0]
  <2> DEFINE g == [slot[s] EXCEPT !.receipt = 0]
  <2>1. /\ g \in Slot /\ g.there = slot[s].there /\ g.mark = slot[s].mark /\ g.sealed = slot[s].sealed
        /\ g.body = slot[s].body
    BY <1>b, SlotsAssumption DEF Slot, SlotsAssumption
  <2>2. slot' = [slot EXCEPT ![s] = g]
    BY <1>2, Zenon
  <2> HIDE DEF g
  <2>3. Alone(s) /\ slot'[s] = g
    BY <1>a, <1>b, <2>1, <2>2, WriteGeneration, Zenon
  <2>4. Verified(s)' /\ Generation(s)' /\ (Intact(s) => Intact(s)')
    <3>1. slot'[s].there /\ slot'[s].mark = "verified" /\ slot'[s].sealed /\ slot'[s].body = slot[s].body
      BY <1>2, <2>1, <2>3, Zenon DEF Verified
    <3> QED
      BY <3>1, Zenon DEF Verified, Generation, Intact, ContentMatches
  <2>5. Spares /\ \A t \in Shas : Generation(t)'
    BY <1>b, <2>3, <2>4, OneGeneration, Zenon
  <2>6. /\ upd' \in Upd /\ lock' = lock /\ marker' \in BOOLEAN
        /\ upd'.pc = "reuse" /\ upd'.sha = s /\ upd'.tx = upd.tx
    BY <1>2, <1>a, ToFacts, Zenon DEF Places
  <2>7. Built'
    BY <2>4, <2>6, Zenon DEF Built
  <2> QED
    BY <1>a, <1>b, <2>3, <2>5, <2>6, <2>7, UpdateFrame, Zenon DEF Alone
<1>3. CASE ~Verified(s) /\ UNCHANGED slot /\ ~UpdateExit
  <2>1. Spares /\ \A t \in Shas : Generation(t)'
    BY <1>3, <1>a, StoreStands, Zenon
  <2>2. CASE To("cleaned") /\ ~slot[s].there
    <3>1. /\ upd' \in Upd /\ lock' = lock /\ marker' \in BOOLEAN
          /\ upd'.pc = "cleaned" /\ upd'.sha = s /\ upd'.tx = upd.tx
      BY <2>2, <1>a, ToFacts, Zenon DEF Places
    <3>2. Built'
      BY <1>3, <2>2, <3>1, Zenon DEF Built
    <3> QED
      BY <1>3, <1>a, <1>b, <2>1, <3>1, <3>2, UpdateFrame, Zenon
  <2>3. CASE To("reserve") /\ ~slot[s].there
    <3>1. /\ upd' \in Upd /\ lock' = lock /\ marker' \in BOOLEAN
          /\ upd'.pc = "reserve" /\ upd'.sha = s /\ upd'.tx = upd.tx
      BY <2>3, <1>a, ToFacts, Zenon DEF Places
    <3>2. Built'
      BY <1>3, <2>3, <3>1, Zenon DEF Built
    <3> QED
      BY <1>3, <1>a, <1>b, <2>1, <3>1, <3>2, UpdateFrame, Zenon
  <2>4. CASE To("clean") /\ Ours(s) /\ ~slot[s].sealed
    <3>1. /\ upd' \in Upd /\ lock' = lock /\ marker' \in BOOLEAN
          /\ upd'.pc = "clean" /\ upd'.sha = s /\ upd'.tx = upd.tx
      BY <2>4, <1>a, ToFacts, Zenon DEF Places
    <3>2. Built'
      BY <1>3, <2>4, <3>1, Zenon DEF Built, Ours
    <3> QED
      BY <1>3, <1>a, <1>b, <2>1, <3>1, <3>2, UpdateFrame, Zenon
  <2>5. CASE /\ slot[s].there /\ Ours(s) /\ slot[s].sealed
             /\ upd' = [upd EXCEPT !.pc = "state", !.tx = slot[s].tx, !.again = TRUE]
             /\ UNCHANGED <<lock, marker>>
    <3>1. slot[s].mark = "building" /\ slot[s].tx # 0 /\ slot[s].tx \in 0 .. MaxTx
      BY <1>b, <2>5, Zenon DEF Ours, Slot
    <3>2. upd' \in Upd /\ upd'.pc = "state" /\ upd'.sha = s /\ upd'.tx # 0 /\ marker' \in BOOLEAN
      BY <1>a, <2>5, <3>1, Zenon DEF Upd, SlotsTypeOK
    <3>3. Built'
      BY <1>3, <2>5, <3>1, <3>2, Zenon DEF Built
    <3> QED
      BY <1>3, <1>a, <1>b, <2>1, <2>5, <3>2, <3>3, UpdateFrame, Zenon
  <2> QED
    BY <1>3, <2>2, <2>3, <2>4, <2>5, Zenon DEF BeginBuild
<1>4. CASE Verified(s) /\ UNCHANGED slot /\ To("reserve") /\ ~slot[s].there
  BY <1>4, Zenon DEF Verified
<1> QED
  BY <1>1, <1>2, <1>3, <1>4, Zenon DEF BeginBuild

\* What an interrupted rmtree leaves.
LEMMA PartFacts ==
  ASSUME NEW g \in Slot, NEW h \in PartRemoved(g)
  PROVE  /\ h \in Slot /\ h.there = g.there /\ h.receipt = g.receipt
         /\ h.mark \in {"none", g.mark} /\ h.sealed \in {FALSE, g.sealed}
         /\ g.body = "none" => h.body = "none"
<1>1. PICK m \in {"none", g.mark}, z \in {FALSE, g.sealed} :
        h = [g EXCEPT !.mark = m, !.tx = IF m = "none" THEN 0 ELSE g.tx, !.sealed = z,
                      !.body = IF g.body = "none" THEN "none" ELSE "some"]
  BY DEF PartRemoved
<1>2. m \in {"none", "building", "verified"} /\ z \in BOOLEAN
  BY Zenon DEF Slot
<1>3. (IF m = "none" THEN 0 ELSE g.tx) \in 0 .. MaxTx
  BY SlotsAssumption DEF Slot, SlotsAssumption
<1>4. (IF g.body = "none" THEN "none" ELSE "some") \in {"none", "some", "whole"}
  BY Zenon
<1> QED
  BY <1>1, <1>2, <1>3, <1>4, ZenonT(30) DEF Slot

\* A directory without anything in it, or not there, under its receipt.
LEMMA EmptyFacts ==
  ASSUME NEW g \in Slot
  PROVE  LET h == [NoSlot EXCEPT !.receipt = g.receipt]
         IN  /\ h \in Slot /\ ~h.there /\ h.mark = "none" /\ h.body = "none" /\ ~h.sealed
<1> DEFINE h == [NoSlot EXCEPT !.receipt = g.receipt]
<1>1. g.receipt \in 0 .. MaxTx /\ 0 \in 0 .. MaxTx
  BY SlotsAssumption DEF Slot, SlotsAssumption
<1>2. NoSlot \in Slot
  BY <1>1, Zenon DEF Slot, NoSlot
<1>3. h \in Slot
  BY <1>1, <1>2, Zenon DEF Slot
<1>4. h.mark = "none" /\ h.body = "none"
  BY Zenon DEF NoSlot
<1>5. h.there = FALSE /\ h.sealed = FALSE
  BY Zenon DEF NoSlot
<1> HIDE DEF h
<1>6. ~h.there /\ ~h.sealed
  BY <1>5, Zenon
<1> QED
  BY <1>3, <1>4, <1>6, Zenon DEF h

\* The removal of a failed generation.
LEMMA CleanTreeHolds ==
  ASSUME StoreInv, NEW s \in Shas, s = upd.sha, CleanTree
  PROVE  StoreInv' /\ Spares
<1>a. /\ upd.pc = "clean" /\ UNCHANGED <<ret, job, raced>> /\ StoreSame /\ txs' = txs
      /\ SlotsTypeOK /\ slot \in [Shas -> Slot]
  BY Zenon DEF CleanTree, OthersSame, StoreInv, SlotsTypeOK
<1>b. upd.tx # 0 /\ slot[s] \in Slot /\ torn \subseteq Shas
  BY <1>a, UpdateExcludes, Zenon DEF StoreInv, SlotsTypeOK
<1>c. slot[s].mark # "verified" /\ ~slot[s].sealed /\ slot[s].there
  BY <1>a, Zenon DEF CleanTree, StoreInv, Built
<1>d. ~Intact(s)
  BY <1>c, Zenon DEF Intact, Verified
<1>1. CASE s \notin torn
  <2>1. PICK g \in PartRemoved(slot[s]) : slot' = [slot EXCEPT ![s] = g]
    BY <1>1, Zenon DEF CleanTree
  <2>2. torn' = torn \cup {s} /\ To("clean")
    BY <1>1, Zenon DEF CleanTree
  <2>3. /\ g \in Slot /\ g.there /\ g.mark # "verified" /\ ~g.sealed
    BY <1>b, <1>c, PartFacts, Zenon
  <2>4. Alone(s) /\ slot'[s] = g
    BY <1>a, <1>b, <2>1, <2>2, <2>3, WriteGeneration, Zenon
  <2>5. /\ upd' \in Upd /\ lock' = lock /\ marker' \in BOOLEAN
        /\ upd'.pc = "clean" /\ upd'.sha = s /\ upd'.tx = upd.tx
    BY <2>2, <1>a, ToFacts, Zenon DEF Places
  <2>6. Generation(s)'
    BY <2>2, <2>3, <2>4, <2>5, Zenon DEF Generation
  <2>7. Spares /\ \A t \in Shas : Generation(t)'
    BY <1>b, <1>d, <2>4, <2>5, <2>6, OneGeneration, Zenon
  <2>8. Built'
    BY <2>3, <2>4, <2>5, Zenon DEF Built
  <2> QED
    BY <1>a, <1>b, <2>2, <2>4, <2>5, <2>7, <2>8, UpdateFrame, Zenon DEF Alone
<1>2. CASE s \in torn
  <2> DEFINE g == [NoSlot EXCEPT !.receipt = slot[s].receipt]
  <2>1. slot' = [slot EXCEPT ![s] = g] /\ torn' = torn \ {s} /\ To("cleaned")
    BY <1>2, Zenon DEF CleanTree
  <2>2. g \in Slot /\ ~g.there /\ g.mark = "none" /\ g.body = "none" /\ ~g.sealed
    BY <1>b, EmptyFacts, Zenon
  <2> HIDE DEF g
  <2>3. Alone(s) /\ slot'[s] = g
    BY <1>a, <1>b, <2>1, <2>2, WriteGeneration, Zenon
  <2>4. /\ upd' \in Upd /\ lock' = lock /\ marker' \in BOOLEAN
        /\ upd'.pc = "cleaned" /\ upd'.sha = s /\ upd'.tx = upd.tx
    BY <2>1, <1>a, ToFacts, Zenon DEF Places
  <2>5. Generation(s)'
    BY <2>2, <2>3, <2>4, Zenon DEF Generation
  <2>6. Spares /\ \A t \in Shas : Generation(t)'
    BY <1>b, <1>d, <2>3, <2>4, <2>5, OneGeneration, Zenon
  <2>7. Built'
    BY <2>2, <2>3, <2>4, Zenon DEF Built
  <2> QED
    BY <1>a, <1>b, <2>1, <2>3, <2>4, <2>6, <2>7, UpdateFrame, Zenon DEF Alone
<1> QED
  BY <1>1, <1>2, Zenon


\* One more step of the build of generation s, which is not verified yet, or
\* stays so: the fields that it writes are those of g.
LEMMA BuildStep ==
  ASSUME StoreInv, NEW s \in Shas, s = upd.sha, upd.pc # "idle", NEW g \in Slot, NEW pc \in Places,
         slot' = [slot EXCEPT ![s] = g], To(pc), UNCHANGED <<txs, torn>>, StoreSame, OthersSame,
         ~Intact(s) \/ (g.there /\ g.mark = "verified" /\ g.sealed /\ g.body = "whole"),
         Generation(s)', Built'
  PROVE  StoreInv' /\ Spares
<1>a. SlotsTypeOK /\ torn \subseteq Shas /\ upd.tx # 0
  BY UpdateExcludes, Zenon DEF StoreInv, SlotsTypeOK
<1>1. Alone(s) /\ slot'[s] = g
  BY <1>a, WriteGeneration, Zenon
<1>2. Intact(s) => Intact(s)'
  BY <1>1, Zenon DEF Intact, Verified, ContentMatches
<1>3. Spares /\ \A t \in Shas : Generation(t)'
  BY <1>1, <1>2, OneGeneration, Zenon
<1>4. upd' \in Upd /\ lock' = lock /\ marker' \in BOOLEAN /\ upd'.sha = upd.sha /\ upd'.tx = upd.tx
  BY <1>a, ToFacts, Zenon
<1> QED
  BY <1>a, <1>1, <1>3, <1>4, UpdateFrame, Zenon DEF Alone, OthersSame

\* A step of the update that writes no generation, and goes on.
LEMMA GoesOn ==
  ASSUME StoreInv, upd.pc # "idle", NEW pc \in Places, To(pc), UNCHANGED <<slot, txs, torn>>,
         StoreSame, OthersSame, Built'
  PROVE  StoreInv' /\ Spares
<1>a. SlotsTypeOK /\ slot \in [Shas -> Slot] /\ torn \subseteq Shas /\ upd.tx # 0
  BY UpdateExcludes, Zenon DEF StoreInv, SlotsTypeOK
<1>1. Spares /\ \A t \in Shas : Generation(t)'
  BY StoreStands, Zenon
<1>2. upd' \in Upd /\ lock' = lock /\ marker' \in BOOLEAN /\ upd'.sha = upd.sha /\ upd'.tx = upd.tx
  BY <1>a, ToFacts, Zenon
<1> QED
  BY <1>a, <1>1, <1>2, UpdateFrame, Zenon DEF OthersSame

\* A step with which the update ends.
LEMMA Exits ==
  ASSUME StoreInv, upd.pc # "idle", UpdateExit, UNCHANGED <<txs, torn>>, StoreSame, OthersSame,
         Spares, \A t \in Shas : Generation(t)', slot' \in [Shas -> Slot]
  PROVE  StoreInv' /\ Spares
<1>a. SlotsTypeOK /\ torn \subseteq Shas
  BY Zenon DEF StoreInv, SlotsTypeOK
<1>1. upd' \in Upd /\ upd'.pc = "idle" /\ lock' = "free" /\ marker' \in BOOLEAN
  BY <1>a, ExitFacts, Zenon
<1>2. Built'
  BY <1>1, Zenon DEF Built
<1> QED
  BY <1>a, <1>1, <1>2, UpdateFrame, Zenon DEF OthersSame

\* The receipt, the directory and the state marker, in this order.
LEMMA ReserveHolds ==
  ASSUME StoreInv, NEW s \in Shas, s = upd.sha, DropReceipt \/ Reserve
  PROVE  StoreInv' /\ Spares
<1>a. SlotsTypeOK /\ slot \in [Shas -> Slot] /\ slot[s] \in Slot /\ upd.tx \in 0 .. MaxTx /\ Generation(s)
  BY Zenon DEF StoreInv, SlotsTypeOK, Upd
<1>b. upd.pc \in {"cleaned", "reserve"} /\ ~slot[s].there
  BY Zenon DEF DropReceipt, Reserve, StoreInv, Built
<1>c. slot[s].mark = "none" /\ slot[s].body = "none" /\ ~slot[s].sealed
  BY <1>a, <1>b, Zenon DEF Generation
<1> DEFINE n == IF upd.pc = "cleaned" THEN 0 ELSE upd.tx
           g == [slot[s] EXCEPT !.receipt = n]
           pc == IF upd.pc = "cleaned" THEN "reserve" ELSE "mkdir"
<1>1. n \in 0 .. MaxTx
  BY <1>a, SlotsAssumption DEF SlotsAssumption
<1>2. g \in Slot /\ ~g.there /\ ~g.sealed /\ g.mark = "none" /\ g.body = "none" /\ g.receipt = n
  BY <1>a, <1>b, <1>c, <1>1, Zenon DEF Slot
<1>3. slot' = [slot EXCEPT ![s] = g]
  BY <1>a, Zenon DEF DropReceipt, Reserve
<1>4. pc \in Places /\ To(pc)
  BY Zenon DEF DropReceipt, Reserve, Places
<1>5. UNCHANGED <<txs, torn>> /\ StoreSame /\ OthersSame
  BY Zenon DEF DropReceipt, Reserve
<1>6. upd'.pc = pc /\ upd'.sha = s /\ upd'.tx = upd.tx
  BY <1>a, <1>4, ToFacts, Zenon
<1>7. slot'[s] = g
  BY <1>a, <1>3, Zenon
<1>8. Generation(s)'
  BY <1>2, <1>7, Zenon DEF Generation
<1>9. Built'
  BY <1>b, <1>2, <1>6, <1>7, Zenon DEF Built
<1>10. ~Intact(s)
  BY <1>b, Zenon DEF Intact, Verified
<1> HIDE DEF g, pc, n
<1> QED
  BY <1>b, <1>2, <1>3, <1>4, <1>5, <1>8, <1>9, <1>10, BuildStep, Zenon

\* The directory is made for the transaction that the receipt names.
LEMMA MakeDirectoryHolds ==
  ASSUME StoreInv, NEW s \in Shas, s = upd.sha, MakeDirectory
  PROVE  StoreInv' /\ Spares
<1>a. SlotsTypeOK /\ slot \in [Shas -> Slot] /\ slot[s] \in Slot /\ Generation(s)
  BY Zenon DEF StoreInv, SlotsTypeOK
<1>b. upd.pc = "mkdir" /\ ~slot[s].there /\ slot[s].receipt = upd.tx /\ upd.tx # 0
  BY UpdateExcludes, Zenon DEF MakeDirectory, StoreInv, Built
<1>c. slot[s].mark = "none" /\ slot[s].body = "none" /\ ~slot[s].sealed
  BY <1>a, <1>b, Zenon DEF Generation
<1> DEFINE g == [slot[s] EXCEPT !.there = TRUE]
<1>1. g \in Slot /\ g.there /\ ~g.sealed /\ g.mark = "none" /\ g.body = "none" /\ g.receipt = upd.tx
  BY <1>a, <1>b, <1>c, Zenon DEF Slot
<1>2. slot' = [slot EXCEPT ![s] = g] /\ slot'[s] = g
  BY <1>a, Zenon DEF MakeDirectory
<1>3. "mark" \in Places /\ To("mark") /\ UNCHANGED <<txs, torn>> /\ StoreSame /\ OthersSame
  BY Zenon DEF MakeDirectory, Places
<1>4. upd'.pc = "mark" /\ upd'.sha = s /\ upd'.tx = upd.tx
  BY <1>a, <1>3, ToFacts, Zenon
<1> HIDE DEF g
<1>5. Generation(s)'
  BY <1>b, <1>1, <1>2, Zenon DEF Generation
<1>6. Built'
  BY <1>1, <1>2, <1>4, Zenon DEF Built
<1>7. ~Intact(s)
  BY <1>b, Zenon DEF Intact, Verified
<1> QED
  BY <1>b, <1>1, <1>2, <1>3, <1>5, <1>6, <1>7, BuildStep, Zenon

\* The marker that it is being built names that transaction too.
LEMMA MarkBuildingHolds ==
  ASSUME StoreInv, NEW s \in Shas, s = upd.sha, MarkBuilding
  PROVE  StoreInv' /\ Spares
<1>a. SlotsTypeOK /\ slot \in [Shas -> Slot] /\ slot[s] \in Slot /\ upd.tx \in 0 .. MaxTx
  BY Zenon DEF StoreInv, SlotsTypeOK, Upd
<1>b. /\ upd.pc = "mark" /\ slot[s].there /\ slot[s].receipt = upd.tx /\ ~slot[s].sealed
      /\ slot[s].mark = "none" /\ upd.tx # 0
  BY UpdateExcludes, Zenon DEF MarkBuilding, StoreInv, Built
<1> DEFINE g == [slot[s] EXCEPT !.mark = "building", !.tx = upd.tx]
<1>1. /\ g \in Slot /\ g.there /\ ~g.sealed /\ g.mark = "building" /\ g.tx = upd.tx
      /\ g.receipt = upd.tx
  BY <1>a, <1>b, Zenon DEF Slot
<1>2. slot' = [slot EXCEPT ![s] = g] /\ slot'[s] = g
  BY <1>a, Zenon DEF MarkBuilding
<1>3. "source" \in Places /\ To("source") /\ UNCHANGED <<txs, torn>> /\ StoreSame /\ OthersSame
  BY Zenon DEF MarkBuilding, Places
<1>4. upd'.pc = "source" /\ upd'.sha = s /\ upd'.tx = upd.tx
  BY <1>a, <1>3, ToFacts, Zenon
<1> HIDE DEF g
<1>5. Generation(s)'
  BY <1>b, <1>1, <1>2, Zenon DEF Generation
<1>6. Built'
  BY <1>1, <1>2, <1>4, Zenon DEF Built
<1>7. ~Intact(s)
  BY <1>b, Zenon DEF Intact, Verified
<1> QED
  BY <1>b, <1>1, <1>2, <1>3, <1>5, <1>6, <1>7, BuildStep, Zenon


\* What the source and the build write.
LEMMA MaterializeHolds ==
  ASSUME StoreInv, NEW s \in Shas, s = upd.sha, MaterializeSource \/ RunBuild
  PROVE  StoreInv' /\ Spares
<1>a. SlotsTypeOK /\ slot \in [Shas -> Slot] /\ slot[s] \in Slot /\ Generation(s)
  BY Zenon DEF StoreInv, SlotsTypeOK
<1>b. /\ upd.pc \in {"source", "build"} /\ slot[s].there /\ slot[s].receipt = upd.tx
      /\ ~slot[s].sealed /\ slot[s].mark = "building" /\ slot[s].tx = slot[s].receipt /\ upd.tx # 0
  BY UpdateExcludes, Zenon DEF MaterializeSource, RunBuild, StoreInv, Built
<1>c. UNCHANGED <<txs, torn>> /\ StoreSame /\ OthersSame
  BY Zenon DEF MaterializeSource, RunBuild
<1>d. ~Intact(s)
  BY <1>b, Zenon DEF Intact, Verified
<1> DEFINE body == IF upd.pc = "source" THEN "some" ELSE "whole"
           pc == IF upd.pc = "source" THEN "ancestry" ELSE "seal"
           g == [slot[s] EXCEPT !.body = body]
<1>1. /\ g \in Slot /\ g.there /\ ~g.sealed /\ g.mark = "building" /\ g.tx = upd.tx
      /\ g.receipt = upd.tx /\ g.body = body
  BY <1>a, <1>b, Zenon DEF Slot
<1>2. CASE slot' = [slot EXCEPT ![s].body = body]
  <2>1. slot' = [slot EXCEPT ![s] = g] /\ slot'[s] = g
    BY <1>2, <1>a, Zenon
  <2>2. Generation(s)'
    BY <1>b, <1>1, <2>1 DEF Generation
  <2>3. CASE To(pc)
    <3>1. pc \in Places
      BY Zenon DEF Places
    <3>2. upd'.pc = pc /\ upd'.sha = s /\ upd'.tx = upd.tx
      BY <1>a, <2>3, <3>1, ToFacts, Zenon
    <3>3. Built'
      BY <1>b, <1>1, <2>1, <3>2, ZenonT(30) DEF Built
    <3> HIDE DEF g, pc, body
    <3> QED
      BY <1>b, <1>c, <1>d, <1>1, <2>1, <2>2, <2>3, <3>1, <3>3, BuildStep, Zenon
  <2>4. CASE UpdateExit
    <3>1. Alone(s)
      BY <1>a, <1>c, <1>1, <2>1, WriteGeneration, Zenon
    <3>2. Spares /\ \A t \in Shas : Generation(t)'
      BY <1>d, <2>2, <3>1, OneGeneration, Zenon
    <3> QED
      BY <1>b, <1>c, <2>4, <3>1, <3>2, Exits, Zenon DEF Alone
  <2> QED
    BY <1>2, <2>3, <2>4, Zenon DEF MaterializeSource, RunBuild
<1>3. CASE UpdateExit /\ UNCHANGED slot
  <2>1. Spares /\ \A t \in Shas : Generation(t)'
    BY <1>3, <1>c, StoreStands, Zenon
  <2> QED
    BY <1>3, <1>a, <1>b, <1>c, <2>1, Exits, Zenon
<1> QED
  BY <1>2, <1>3, Zenon DEF MaterializeSource, RunBuild

\* The gates between the source and the build, and the probe of a reused
\* generation.
LEMMA GateHolds ==
  ASSUME StoreInv, NEW s \in Shas, s = upd.sha, AncestryGate \/ SeedNatives \/ ProbeReused
  PROVE  StoreInv' /\ Spares
<1>a. SlotsTypeOK /\ slot \in [Shas -> Slot]
  BY Zenon DEF StoreInv, SlotsTypeOK
<1>b. upd.pc \in {"ancestry", "seed", "reuse"} /\ UNCHANGED <<slot, txs, torn>> /\ StoreSame /\ OthersSame
  BY Zenon DEF AncestryGate, SeedNatives, ProbeReused
<1>1. CASE UpdateExit
  <2>1. Spares /\ \A t \in Shas : Generation(t)'
    BY <1>b, StoreStands, Zenon
  <2> QED
    BY <1>1, <1>a, <1>b, <2>1, Exits, Zenon
<1>2. CASE ~UpdateExit
  <2> DEFINE pc == IF upd.pc = "ancestry" THEN "seed" ELSE IF upd.pc = "seed" THEN "build" ELSE "activate"
  <2>1. pc \in Places /\ To(pc)
    BY <1>2, Zenon DEF AncestryGate, SeedNatives, ProbeReused, Places
  <2>2. upd'.pc = pc /\ upd'.sha = s /\ upd'.tx = upd.tx
    BY <1>a, <2>1, ToFacts, Zenon
  <2>3. Built'
    BY <1>b, <2>2, Zenon DEF Built, StoreInv, Verified
  <2> HIDE DEF pc
  <2> QED
    BY <1>b, <2>1, <2>3, GoesOn, Zenon
<1> QED
  BY <1>1, <1>2, Zenon

\* seal_slot_build's immutable marker and verified state.
LEMMA SealHolds ==
  ASSUME StoreInv, NEW s \in Shas, s = upd.sha, SealImmutable \/ SealState
  PROVE  StoreInv' /\ Spares
<1>a. SlotsTypeOK /\ slot \in [Shas -> Slot] /\ slot[s] \in Slot /\ Generation(s)
  BY Zenon DEF StoreInv, SlotsTypeOK
<1>b. /\ upd.pc \in {"seal", "state"} /\ slot[s].there /\ slot[s].mark = "building"
      /\ slot[s].body = "whole"
      /\ upd.pc = "state" => slot[s].sealed
  BY <1>a, Zenon DEF SealImmutable, SealState, StoreInv, Built, Generation
<1>c. UNCHANGED <<txs, torn>> /\ StoreSame /\ OthersSame
  BY Zenon DEF SealImmutable, SealState
<1>d. ~Intact(s)
  BY <1>b, Zenon DEF Intact, Verified
<1>1. CASE upd.pc = "seal" /\ slot[s].tx = upd.tx /\ slot[s].receipt = upd.tx
  <2> DEFINE g == [slot[s] EXCEPT !.sealed = TRUE]
  <2>1. /\ g \in Slot /\ g.there /\ g.sealed /\ g.mark = "building" /\ g.body = "whole"
        /\ g.tx = g.receipt /\ g.receipt # 0
    <3>1. slot[s].tx = slot[s].receipt /\ slot[s].receipt # 0
      BY <1>1, UpdateExcludes, Zenon
    <3> QED
      BY <1>1, <1>a, <1>b, <3>1, Zenon DEF Slot
  <2>2. /\ slot' = [slot EXCEPT ![s] = g] /\ slot'[s] = g
        /\ "state" \in Places /\ To("state")
    BY <1>1, <1>a, Zenon DEF SealImmutable, SealState, Places
  <2>3. upd'.pc = "state" /\ upd'.sha = s /\ upd'.tx = upd.tx
    BY <1>a, <2>2, ToFacts, Zenon
  <2> HIDE DEF g
  <2>4. Generation(s)'
    BY <2>1, <2>2, Zenon DEF Generation
  <2>5. Built'
    BY <2>1, <2>2, <2>3, Zenon DEF Built
  <2> QED
    BY <1>1, <1>c, <1>d, <2>1, <2>2, <2>4, <2>5, BuildStep, Zenon
<1>2. CASE upd.pc = "seal" /\ ~(slot[s].tx = upd.tx /\ slot[s].receipt = upd.tx)
  <2>1. UpdateExit /\ UNCHANGED slot
    BY <1>2, Zenon DEF SealImmutable, SealState
  <2>2. Spares /\ \A t \in Shas : Generation(t)'
    BY <1>c, <2>1, StoreStands, Zenon
  <2> QED
    BY <1>2, <1>a, <1>c, <2>1, <2>2, Exits, Zenon
<1>3. CASE upd.pc = "state"
  <2> DEFINE g == [slot[s] EXCEPT !.mark = "verified"]
  <2>1. g \in Slot /\ g.there /\ g.sealed /\ g.mark = "verified" /\ g.body = "whole"
    BY <1>3, <1>a, <1>b, Zenon DEF Slot
  <2>2. /\ slot' = [slot EXCEPT ![s] = g] /\ slot'[s] = g
        /\ "unlink" \in Places /\ To("unlink")
    BY <1>3, <1>a, Zenon DEF SealImmutable, SealState, Places
  <2>3. upd'.pc = "unlink" /\ upd'.sha = s /\ upd'.tx = upd.tx
    BY <1>a, <2>2, ToFacts, Zenon
  <2> HIDE DEF g
  <2>4. Generation(s)'
    BY <2>1, <2>2, Zenon DEF Generation, Verified
  <2>5. Built'
    BY <2>1, <2>2, <2>3, Zenon DEF Built, Intact, Verified, ContentMatches
  <2> QED
    BY <1>3, <1>c, <1>d, <2>1, <2>2, <2>4, <2>5, BuildStep, Zenon
<1> QED
  BY <1>b, <1>1, <1>2, <1>3, Zenon

\* The receipt goes last.
LEMMA UnlinkHolds ==
  ASSUME StoreInv, NEW s \in Shas, s = upd.sha, UnlinkReceipt
  PROVE  StoreInv' /\ Spares
<1>a. SlotsTypeOK /\ slot \in [Shas -> Slot] /\ slot[s] \in Slot
  BY Zenon DEF StoreInv, SlotsTypeOK
<1>b. /\ upd.pc = "unlink" /\ slot[s].there /\ slot[s].mark = "verified" /\ slot[s].sealed
      /\ slot[s].body = "whole"
  BY Zenon DEF UnlinkReceipt, StoreInv, Built, Intact, Verified, ContentMatches
<1>c. UNCHANGED <<txs, torn>> /\ StoreSame /\ OthersSame
  BY Zenon DEF UnlinkReceipt
<1> DEFINE g == [slot[s] EXCEPT !.receipt = 0]
<1>1. g \in Slot /\ g.there /\ g.sealed /\ g.mark = "verified" /\ g.body = "whole"
  BY <1>a, <1>b, SlotsAssumption DEF Slot, SlotsAssumption
<1>2. slot' = [slot EXCEPT ![s] = g] /\ slot'[s] = g
  BY <1>a, Zenon DEF UnlinkReceipt
<1> HIDE DEF g
<1>3. Generation(s)'
  BY <1>1, <1>2, Zenon DEF Generation, Verified
<1>4. CASE UpdateExit
  <2>1. Alone(s)
    BY <1>a, <1>c, <1>1, <1>2, WriteGeneration, Zenon
  <2>2. Intact(s)'
    BY <1>1, <1>2, Zenon DEF Intact, Verified, ContentMatches
  <2>3. Spares /\ \A t \in Shas : Generation(t)'
    BY <1>3, <2>1, <2>2, OneGeneration, Zenon
  <2> QED
    BY <1>4, <1>b, <1>c, <2>1, <2>3, Exits, Zenon DEF Alone
<1>5. ASSUME NEW pc \in {"reuse", "activate"}, To(pc) PROVE StoreInv' /\ Spares
  <2>1. pc \in Places
    BY Zenon DEF Places
  <2>2. upd'.pc = pc /\ upd'.sha = s /\ upd'.tx = upd.tx
    BY <1>5, <1>a, <2>1, ToFacts, Zenon
  <2>3. Built'
    BY <1>1, <1>2, <2>2, Zenon DEF Built, Verified
  <2> QED
    BY <1>5, <1>b, <1>c, <1>1, <1>2, <1>3, <2>1, <2>3, BuildStep, Zenon
<1> QED
  BY <1>4, <1>5, Zenon DEF UnlinkReceipt


\* activate: both pointers only ever name whole generations.
LEMMA ActivateHolds ==
  ASSUME StoreInv, NEW s \in Shas, s = upd.sha, ActivatePrevious \/ ActivateCurrent
  PROVE  StoreInv' /\ Spares
<1>a. /\ SlotsTypeOK /\ slot \in [Shas -> Slot] /\ torn \subseteq Shas
      /\ current \in Pointer /\ previous \in Pointer /\ inos \in 0 .. MaxInos
  BY Zenon DEF StoreInv, SlotsTypeOK
<1>b. upd.pc \in {"activate", "point"} /\ UNCHANGED <<slot, txs, torn>> /\ OthersSame
  BY Zenon DEF ActivatePrevious, ActivateCurrent
<1>c. Spares /\ \A t \in Shas : Generation(t)'
  BY <1>b, StoreStands, Zenon
<1>d. lock = "update" /\ ~Retaining /\ upd.tx # 0
  BY <1>b, UpdateExcludes, Zenon
<1>e. ~Retaining' /\ ret'.pc \notin {"tree", "rest", "pointer"}
  BY <1>b, <1>d, Zenon DEF Retaining, OthersSame
<1>f. /\ current.sha # NoSha => current.sha \in Shas /\ Intact(current.sha)
      /\ previous.sha # NoSha => previous.sha \in Shas /\ Intact(previous.sha)
  BY <1>a, Zenon DEF StoreInv, Pointers, Pointer
<1>1. CASE StoreSame /\ UpdateExit
  BY <1>1, <1>a, <1>b, <1>c, Exits, Zenon
<1>2. CASE upd.pc = "activate" /\ ~(StoreSame /\ UpdateExit)
  <2>1. To("point") /\ Intact(s) /\ "point" \in Places
    BY <1>2, Zenon DEF ActivatePrevious, ActivateCurrent, Places
  <2>2. /\ upd' \in Upd /\ lock' = lock /\ marker' \in BOOLEAN
        /\ upd'.pc = "point" /\ upd'.sha = s /\ upd'.tx = upd.tx
    BY <1>a, <2>1, ToFacts, Zenon
  <2>3. Built'
    BY <1>c, <2>1, <2>2, Zenon DEF Built, Spares
  <2>4. CASE StoreSame
    BY <1>2, <1>b, <2>1, <2>3, <2>4, GoesOn, Zenon
  <2>5. CASE /\ current.sha # NoSha /\ inos < MaxInos /\ inos' = inos + 1
             /\ previous' = [sha |-> current.sha, ino |-> inos + 1] /\ UNCHANGED current
    <3>1. inos' \in 0 .. MaxInos /\ previous' \in Pointer /\ previous'.sha = current.sha
      BY <1>a, <2>5, SlotsAssumption DEF Pointer, SlotsAssumption
    <3>2. SlotsTypeOK'
      BY <1>a, <1>b, <1>d, <2>2, <2>5, <3>1, Zenon DEF SlotsTypeOK, OthersSame
    <3>3. Locks'
      BY <1>d, <1>e, <2>2, Zenon DEF Locks
    <3>4. Pointers'
      BY <1>c, <1>e, <1>f, <2>5, <3>1, Zenon DEF Pointers, Spares
    <3> QED
      BY <1>c, <2>3, <3>2, <3>3, <3>4, Zenon DEF StoreInv
  <2> QED
    BY <1>2, <2>4, <2>5, Zenon DEF ActivatePrevious, ActivateCurrent
<1>3. CASE upd.pc = "point"
  <2>1. /\ inos < MaxInos /\ inos' = inos + 1 /\ current' = [sha |-> s, ino |-> inos + 1]
        /\ UpdateExit /\ previous' = previous
    BY <1>3, Zenon DEF ActivatePrevious, ActivateCurrent
  <2>2. Intact(s)
    BY <1>3, Zenon DEF StoreInv, Built
  <2>3. upd' \in Upd /\ upd'.pc = "idle" /\ lock' = "free" /\ marker' \in BOOLEAN
    BY <1>a, <2>1, ExitFacts, Zenon
  <2>4. inos' \in 0 .. MaxInos /\ current' \in Pointer /\ current'.sha = s
    BY <1>a, <2>1, SlotsAssumption DEF Pointer, SlotsAssumption
  <2>5. SlotsTypeOK'
    BY <1>a, <1>b, <2>1, <2>3, <2>4, Zenon DEF SlotsTypeOK, OthersSame
  <2>6. Locks' /\ Built'
    BY <1>e, <2>3, Zenon DEF Locks, Built
  <2>7. Pointers'
    BY <1>c, <1>e, <1>f, <2>1, <2>2, <2>4, Zenon DEF Pointers, Spares
  <2> QED
    BY <1>c, <2>5, <2>6, <2>7, Zenon DEF StoreInv
<1> QED
  BY <1>b, <1>1, <1>2, <1>3, Zenon

\* A death of the update, the exit of its child, and the operator's cleanup.
LEMMA DeathHolds ==
  ASSUME StoreInv, UpdateDies \/ ChildExits \/ ClearMarker
  PROVE  StoreInv' /\ Spares
<1>a. SlotsTypeOK /\ UNCHANGED <<slot, txs, torn>> /\ StoreSame /\ OthersSame
  BY Zenon DEF StoreInv, UpdateDies, ChildExits, ClearMarker
<1>1. Spares /\ \A t \in Shas : Generation(t)'
  BY <1>a, StoreStands, Zenon
<1>2. Built'
  <2>1. CASE upd' = upd
    BY <1>a, <2>1, Zenon DEF StoreInv, Built, Verified, Intact, ContentMatches
  <2>2. CASE upd' = IdleUpd
    BY <2>2, Zenon DEF Built, IdleUpd
  <2> QED
    BY <2>1, <2>2, Zenon DEF UpdateDies, ChildExits, ClearMarker
<1>3. /\ upd' \in Upd /\ lock' \in {"free", "update", "child", "retain", "migrate"}
      /\ marker' \in BOOLEAN
  <2>1. IdleUpd \in Upd
    BY SlotsAssumption DEF IdleUpd, Upd, SlotsAssumption
  <2>2. upd' = upd \/ upd' = IdleUpd
    BY Zenon DEF UpdateDies, ChildExits, ClearMarker
  <2>3. lock' \in {"free", "child", lock}
    BY Zenon DEF UpdateDies, ChildExits, ClearMarker
  <2>4. marker' \in {FALSE, marker}
    BY Zenon DEF UpdateDies, ChildExits, ClearMarker
  <2> QED
    BY <1>a, <2>1, <2>2, <2>3, <2>4, Zenon DEF SlotsTypeOK
<1>4. SlotsTypeOK'
  BY <1>a, <1>3, Zenon DEF SlotsTypeOK, StoreSame, OthersSame
<1>5. Locks'
  <2>1. CASE UpdateDies
    BY <2>1, <1>a, UpdateExcludes, Zenon DEF UpdateDies, IdleUpd, Locks, Retaining, OthersSame
  <2>2. CASE ChildExits \/ ClearMarker
    BY <2>2, <1>a, Zenon DEF ChildExits, ClearMarker, StoreInv, Locks, Retaining, OthersSame
  <2> QED
    BY <2>1, <2>2, Zenon
<1>6. Pointers'
  <2>1. current.sha \in Shas \cup {NoSha} /\ previous.sha \in Shas \cup {NoSha}
    BY <1>a, Zenon DEF SlotsTypeOK, Pointer
  <2> QED
    BY <1>a, <1>1, <2>1, Zenon
       DEF Pointers, StoreInv, Spares, StoreSame, OthersSame, Retaining, Doomed
<1> QED
  BY <1>1, <1>2, <1>4, <1>5, <1>6, Zenon DEF StoreInv

\* Every step of an update keeps the store, and every whole generation.
LEMMA UpdateHolds ==
  ASSUME StoreInv, UpdateNext
  PROVE  StoreInv' /\ Spares /\ UNCHANGED <<ret, job, raced>>
<1>1. UNCHANGED <<ret, job, raced>>
  BY ZenonT(30)
     DEF UpdateNext, UpdateStart, BeginBuild, CleanTree, DropReceipt, Reserve, MakeDirectory,
         MarkBuilding, MaterializeSource, AncestryGate, SeedNatives, RunBuild, SealImmutable,
         SealState, UnlinkReceipt, ProbeReused, ActivatePrevious, ActivateCurrent, UpdateDies,
         ChildExits, ClearMarker, OthersSame
<1>2. ASSUME NEW s \in Shas, UpdateStart(s, FALSE) PROVE StoreInv' /\ Spares
  <2>1. FALSE \in BOOLEAN
    BY Zenon
  <2> QED
    BY <1>2, <2>1, UpdateStartHolds, Zenon
<1>3. CASE UpdateDies \/ ChildExits \/ ClearMarker
  BY <1>1, <1>3, DeathHolds, Zenon
<1>4. CASE upd.pc # "idle"
  <2>1. PICK s \in Shas : s = upd.sha
    BY <1>4, UpdateExcludes, Zenon
  <2>2. CASE \E t \in Shas : UpdateStart(t, FALSE)
    BY <1>1, <1>2, <2>2, Zenon
  <2>3. CASE ~ \E t \in Shas : UpdateStart(t, FALSE)
    BY <1>1, <1>3, <2>1, <2>3, BeginBuildHolds, CleanTreeHolds, ReserveHolds, MakeDirectoryHolds,
       MarkBuildingHolds, MaterializeHolds, GateHolds, SealHolds, UnlinkHolds, ActivateHolds,
       ZenonT(30) DEF UpdateNext
  <2> QED
    BY <2>2, <2>3, Zenon
<1>5. CASE upd.pc = "idle"
  BY <1>1, <1>2, <1>3, <1>5, ZenonT(30)
     DEF UpdateNext, BeginBuild, CleanTree, DropReceipt, Reserve, MakeDirectory,
         MarkBuilding, MaterializeSource, AncestryGate, SeedNatives, RunBuild, SealImmutable,
         SealState, UnlinkReceipt, ProbeReused, ActivatePrevious, ActivateCurrent
<1> QED
  BY <1>1, <1>4, <1>5, Zenon


-----------------------------------------------------------------------------
(* Jobs. *)

\* A step that spares every whole generation, and no step of a retention, keeps
\* what a job holds.
LEMMA HoldsFrame ==
  ASSUME NEW j \in Jobs, Holds(j), Spares, UNCHANGED <<ret, raced>>, job'[j] = job[j]
  PROVE  Holds(j)'
<1>1. ASSUME NEW s, Safe(s) PROVE Safe(s)'
  BY <1>1, Zenon DEF Safe, Spares, Retaining, Doomed
<1> QED
  BY <1>1, Zenon DEF Holds

\* A step that leaves the store and the admin alone.
LEMMA StoreUntouched ==
  ASSUME StoreInv, UNCHANGED StoreAndAdmin, job' \in [Jobs -> Job], raced' \subseteq Jobs
  PROVE  StoreInv' /\ Spares
<1>1. Spares /\ \A t \in Shas : Generation(t)'
  BY StoreStands, Zenon DEF StoreAndAdmin
<1>2. SlotsTypeOK'
  BY ZenonT(30) DEF StoreInv, SlotsTypeOK, StoreAndAdmin
<1>3. Locks'
  BY ZenonT(30) DEF StoreInv, Locks, Retaining, StoreAndAdmin
<1>4. Built'
  BY ZenonT(30) DEF StoreInv, Built, Verified, Intact, ContentMatches, StoreAndAdmin
<1>5. Pointers'
  BY ZenonT(30) DEF StoreInv, Pointers, Retaining, Doomed, Verified, Intact, ContentMatches,
                    StoreAndAdmin
<1> QED
  BY <1>1, <1>2, <1>3, <1>4, <1>5, Zenon DEF StoreInv

\* The current generation is safe.
LEMMA CurrentIsSafe ==
  ASSUME StoreInv, current.sha # NoSha
  PROVE  Safe(current.sha)
BY Zenon DEF StoreInv, SlotsTypeOK, Pointer, Pointers, Safe

\* A write of one job, which then holds what it must.
LEMMA JobWrite ==
  ASSUME HoldInv, NEW j \in Jobs, NEW w \in Job, job' = [job EXCEPT ![j] = w],
         UNCHANGED <<StoreAndAdmin, raced>>,
         w.st = "selected" => w.via = "program",
         w.st \in {"pending", "admitted", "selected"} /\ w.pin # NoSha => Safe(w.pin),
         w.st = "selected" /\ w.pin # NoSha => w.held = w.pin,
         w.st \in {"selected", "running"} /\ j \notin raced => Safe(w.held),
         w.st = "running" /\ w.via = "program" => w.rec = w.held
  PROVE  HoldInv'
<1>1. job' \in [Jobs -> Job] /\ job'[j] = w /\ raced' \subseteq Jobs
  BY Zenon DEF HoldInv, StoreInv, SlotsTypeOK
<1>2. StoreInv' /\ Spares
  BY <1>1, StoreUntouched, Zenon DEF HoldInv
<1>3. UNCHANGED <<ret, raced>>
  BY Zenon DEF StoreAndAdmin
<1>4. ASSUME NEW i \in Jobs, i # j PROVE Holds(i)'
  <2>1. job'[i] = job[i] /\ Holds(i)
    BY <1>4, Zenon DEF HoldInv, StoreInv, SlotsTypeOK
  <2> QED
    BY <1>2, <1>3, <2>1, HoldsFrame, Zenon
<1>5. Holds(j)'
  <2>1. ASSUME NEW s, Safe(s) PROVE Safe(s)'
    BY <1>2, <1>3, <2>1, Zenon DEF Safe, Spares, Retaining, Doomed
  <2> QED
    BY <1>1, <1>3, <2>1, Zenon DEF Holds
<1> QED
  BY <1>2, <1>4, <1>5, Zenon DEF HoldInv

\* Jobs bind only the current generation, or the pin they hold.
LEMMA JobHolds ==
  ASSUME HoldInv, JobNext
  PROVE  HoldInv'
<1>a. StoreInv /\ job \in [Jobs -> Job] /\ \A j \in Jobs : Holds(j)
  BY Zenon DEF HoldInv, StoreInv, SlotsTypeOK
<1>1. ASSUME NEW j \in Jobs, NEW via \in {"program", "launcher"}, NEW pin \in Shas \cup {NoSha},
             SubmitJob(j, via, pin)
      PROVE  HoldInv'
  <2> DEFINE w == NewJob(via, pin)
  <2>1. w \in Job /\ w.st = "pending" /\ w.pin = pin
    BY Zenon DEF NewJob, Job
  <2>2. pin # NoSha => Safe(pin)
    BY <1>1, <1>a, CurrentIsSafe, Zenon DEF SubmitJob
  <2>3. job' = [job EXCEPT ![j] = w] /\ UNCHANGED <<StoreAndAdmin, raced>>
    BY <1>1, Zenon DEF SubmitJob
  <2> HIDE DEF w
  <2> QED
    BY <2>1, <2>2, <2>3, JobWrite, Zenon
<1>2. ASSUME NEW j \in Jobs, AdmitJob(j) PROVE HoldInv'
  <2> DEFINE w == [job[j] EXCEPT !.st = "admitted"]
  <2>1. w \in Job /\ w.st = "admitted" /\ w.pin = job[j].pin
    BY <1>a DEF Job
  <2>2. job[j].pin # NoSha => Safe(job[j].pin)
    BY <1>2, <1>a, Zenon DEF AdmitJob, Holds
  <2>3. job' = [job EXCEPT ![j] = w] /\ UNCHANGED <<StoreAndAdmin, raced>>
    BY <1>2, Zenon DEF AdmitJob
  <2> HIDE DEF w
  <2> QED
    BY <2>1, <2>2, <2>3, JobWrite, Zenon
<1>3. ASSUME NEW j \in Jobs, NEW w \in Job, job' = [job EXCEPT ![j] = w], w.st = "done",
             UNCHANGED <<StoreAndAdmin, raced>>
      PROVE  HoldInv'
  BY <1>3, JobWrite, Zenon
<1>4. ASSUME NEW j \in Jobs, SelectRuntime(j) PROVE HoldInv'
  <2> DEFINE s == IF job[j].pin # NoSha THEN job[j].pin ELSE current.sha
  <2>1. CASE s # NoSha /\ Verified(s)
    <3> DEFINE w == [job[j] EXCEPT !.st = "selected", !.held = s]
    <3>0. Safe(s) /\ s \in Shas
      BY <1>4, <1>a, <2>1, CurrentIsSafe, Zenon DEF SelectRuntime, Holds, Safe
    <3>1. /\ w \in Job /\ w.st = "selected" /\ w.pin = job[j].pin /\ w.held = s /\ w.via = "program"
      BY <1>4, <1>a, <3>0, Zenon DEF SelectRuntime, Job
    <3>2. job[j].pin # NoSha => s = job[j].pin
      BY Zenon
    <3>3. job' = [job EXCEPT ![j] = w] /\ UNCHANGED <<StoreAndAdmin, raced>>
      BY <1>4, <2>1, Zenon DEF SelectRuntime
    <3> HIDE DEF w, s
    <3> QED
      BY <3>0, <3>1, <3>2, <3>3, JobWrite, Zenon
  <2>2. CASE ~(s # NoSha /\ Verified(s))
    <3> DEFINE w == [job[j] EXCEPT !.st = "done"]
    <3>1. w \in Job /\ w.st = "done"
      BY <1>a DEF Job
    <3>2. job' = [job EXCEPT ![j] = w] /\ UNCHANGED <<StoreAndAdmin, raced>>
      BY <1>4, <2>2, Zenon DEF SelectRuntime
    <3> HIDE DEF w
    <3> QED
      BY <1>3, <3>1, <3>2, Zenon
  <2> QED
    BY <2>1, <2>2, Zenon
<1>5. ASSUME NEW j \in Jobs, RecordAndStart(j) PROVE HoldInv'
  <2> DEFINE w == [job[j] EXCEPT !.st = "running", !.rec = job[j].held]
  <2>1. w \in Job /\ w.st = "running" /\ w.held = job[j].held /\ w.rec = job[j].held
    BY <1>a, Zenon DEF Job
  <2>2. j \notin raced => Safe(job[j].held)
    BY <1>5, <1>a, Zenon DEF RecordAndStart, Holds
  <2>3. job' = [job EXCEPT ![j] = w] /\ UNCHANGED <<StoreAndAdmin, raced>>
    BY <1>5, Zenon DEF RecordAndStart
  <2> HIDE DEF w
  <2> QED
    BY <2>1, <2>2, <2>3, JobWrite, Zenon
<1>6. ASSUME NEW j \in Jobs, StartLauncher(j) PROVE HoldInv'
  <2>1. CASE current.sha # NoSha /\ Verified(current.sha)
    <3> DEFINE w == [job[j] EXCEPT !.st = "running", !.held = current.sha]
    <3>0. Safe(current.sha) /\ current.sha \in Shas
      BY <1>a, <2>1, CurrentIsSafe, Zenon DEF Safe
    <3>1. w \in Job /\ w.st = "running" /\ w.held = current.sha /\ w.via = "launcher"
      BY <1>6, <1>a, <3>0, Zenon DEF StartLauncher, Job
    <3>2. job' = [job EXCEPT ![j] = w] /\ UNCHANGED <<StoreAndAdmin, raced>>
      BY <1>6, <2>1, Zenon DEF StartLauncher
    <3> HIDE DEF w
    <3> QED
      BY <3>0, <3>1, <3>2, JobWrite, Zenon
  <2>2. CASE ~(current.sha # NoSha /\ Verified(current.sha))
    <3> DEFINE w == [job[j] EXCEPT !.st = "done"]
    <3>1. w \in Job /\ w.st = "done"
      BY <1>a DEF Job
    <3>2. job' = [job EXCEPT ![j] = w] /\ UNCHANGED <<StoreAndAdmin, raced>>
      BY <1>6, <2>2, Zenon DEF StartLauncher
    <3> HIDE DEF w
    <3> QED
      BY <1>3, <3>1, <3>2, Zenon
  <2> QED
    BY <2>1, <2>2, Zenon
<1>7. ASSUME NEW j \in Jobs, EndJob(j) PROVE HoldInv'
  <2> DEFINE w == [job[j] EXCEPT !.st = "done", !.held = NoSha, !.rec = NoSha]
  <2>1. w \in Job /\ w.st = "done"
    BY <1>a, Zenon DEF Job
  <2>2. job' = [job EXCEPT ![j] = w] /\ UNCHANGED StoreAndAdmin /\ raced' = raced \ {j}
    BY <1>7, Zenon DEF EndJob
  <2> HIDE DEF w
  <2>3. job' \in [Jobs -> Job] /\ job'[j] = w /\ raced' \subseteq Jobs
    BY <1>a, <2>1, <2>2, Zenon DEF StoreInv, SlotsTypeOK
  <2>4. StoreInv' /\ Spares
    BY <1>a, <2>2, <2>3, StoreUntouched, Zenon
  <2>5. ASSUME NEW i \in Jobs PROVE Holds(i)'
    <3>1. CASE i = j
      BY <2>1, <2>3, <3>1, Zenon DEF Holds
    <3>2. CASE i # j
      <4>1. job'[i] = job[i] /\ (i \in raced' <=> i \in raced) /\ ret' = ret /\ Holds(i)
        BY <1>a, <2>2, <3>2, Zenon DEF StoreAndAdmin
      <4>2. ASSUME NEW s, Safe(s) PROVE Safe(s)'
        BY <2>4, <4>1, <4>2, Zenon DEF Safe, Spares, Retaining, Doomed
      <4> QED
        BY <4>1, <4>2, Zenon DEF Holds
    <3> QED
      BY <3>1, <3>2, Zenon
  <2> QED
    BY <2>4, <2>5, Zenon DEF HoldInv
<1> QED
  BY <1>1, <1>2, <1>4, <1>5, <1>6, <1>7, Zenon DEF JobNext


-----------------------------------------------------------------------------
(* Retention. *)

\* What a census spares: the pointers, what live jobs prove, what launcher jobs
\* run, and what is not verified.
LEMMA CensusSpares ==
  ASSUME NEW drop \in BOOLEAN, NEW c \in Candidates(drop)
  PROVE  /\ c \subseteq Shas /\ current.sha \notin c /\ \A s \in c : Verified(s)
         /\ \A j \in Jobs : Live(j) => CensusPins(j) \cap c = {}
         /\ \A j \in Launchers : job[j].held \notin c
<1> DEFINE kept == {current.sha} \cup (IF drop THEN {} ELSE {previous.sha})
                     \cup UNION {CensusPins(j) : j \in {k \in Jobs : Live(k)}}
           rest(groups) == {s \in Shas : slot[s].there /\ Verified(s)}
                             \ (kept \cup {job[j].held : j \in groups})
           after(groups) == IF groups = Launchers THEN rest(groups) ELSE {}
<1>1. \E g \in {Launchers, {}} : c \subseteq after(g)
  BY Zenon DEF Candidates
<1>2. c \subseteq rest(Launchers)
  BY <1>1, Zenon
<1>3. /\ c \subseteq Shas /\ \A s \in c : Verified(s) /\ s \notin kept
      /\ \A j \in Launchers : job[j].held \notin c
  BY <1>2, Zenon
<1>4. current.sha \notin c
  BY <1>3, Zenon
<1>5. ASSUME NEW j \in Jobs, Live(j), NEW s \in CensusPins(j), s \in c PROVE FALSE
  <2>1. s \in kept
    BY <1>5, Zenon
  <2> QED
    BY <1>3, <1>5, <2>1, Zenon
<1> QED
  BY <1>3, <1>4, <1>5, Zenon

\* A step of the retention that leaves the generations and the pointers alone.
LEMMA RetentionFrame ==
  ASSUME StoreInv, UNCHANGED <<slot, current, previous, torn, UpdateAndJobs>>, raced' \subseteq Jobs,
         ret' \in Ret, lock' \in {"free", "retain", lock}, Locks',
         Retaining' => current.sha \notin Doomed' /\ \A s \in Doomed' : slot[s].mark # "building",
         ret'.pc \in {"tree", "rest"} => ret'.at \in Shas /\ ret'.at # previous.sha,
         ret'.pc = "pointer" => ret'.at \in Shas
  PROVE  StoreInv' /\ Spares
<1>1. Spares /\ \A t \in Shas : Generation(t)'
  BY StoreStands, Zenon
<1>2. SlotsTypeOK'
  BY Zenon DEF StoreInv, SlotsTypeOK, UpdateAndJobs
<1>3. Built'
  BY Zenon DEF StoreInv, Built, Verified, Intact, ContentMatches, UpdateAndJobs
<1>4. Pointers'
  BY Zenon DEF StoreInv, Pointers, Verified, Intact, ContentMatches
<1> QED
  BY <1>1, <1>2, <1>3, <1>4, Zenon DEF StoreInv

\* What the jobs hold stays safe while no more is doomed.
LEMMA HoldsOn ==
  ASSUME HoldInv, job' = job, raced \subseteq raced',
         \A s \in Shas : Safe(s) => Safe(s)'
  PROVE  \A j \in Jobs : Holds(j)'
<1> SUFFICES ASSUME NEW j \in Jobs PROVE Holds(j)'
  BY Zenon
<1>1. Holds(j) /\ \A s : Safe(s) => Safe(s)'
  BY Zenon DEF HoldInv, Safe
<1> QED
  BY <1>1, Zenon DEF Holds

\* The plan, and a plan that is not applied.
LEMMA ReviewHolds ==
  ASSUME HoldInv, (\E drop \in BOOLEAN : ReviewRetention(drop)) \/ (StartRetention /\ ret' = IdleRet)
                  \/ RetentionEnds
  PROVE  HoldInv'
<1>a. StoreInv /\ SlotsTypeOK
  BY Zenon DEF HoldInv, StoreInv
<1>b. /\ UNCHANGED <<slot, current, previous, torn, UpdateAndJobs, raced>>
      /\ lock' \in {"free", lock}
  BY DEF ReviewRetention, StartRetention, RetentionEnds, IdleRet
<1>1. ret' \in Ret /\ ret'.pc \in {"idle", "reviewed"}
  <2>1. CASE ret' = IdleRet
    BY <2>1, SlotsAssumption DEF IdleRet, Ret, Pointer, SlotsAssumption
  <2>2. CASE \E drop \in BOOLEAN : ReviewRetention(drop)
    <3>1. PICK drop \in BOOLEAN : ReviewRetention(drop)
      BY <2>2, Zenon
    <3>2. PICK c \in Candidates(drop) \ {{}} :
            ret' = [pc |-> "reviewed", drop |-> drop, cands |-> c, cur |-> current,
                    prev |-> previous, cleared |-> FALSE, at |-> NoSha]
      BY <3>1, Zenon DEF ReviewRetention
    <3>3. c \subseteq Shas
      BY <3>2, CensusSpares, Zenon
    <3> QED
      BY <1>a, <3>2, <3>3, Zenon DEF SlotsTypeOK, Ret
  <2> QED
    BY <2>1, <2>2, Zenon DEF RetentionEnds
<1>2. ~Retaining'
  BY <1>1, Zenon DEF Retaining
<1>3. Locks'
  BY <1>a, <1>b, <1>2, Zenon DEF StoreInv, Locks, UpdateAndJobs, RetentionEnds, ReviewRetention,
     StartRetention, Retaining, IdleRet
<1>4. StoreInv' /\ Spares
  <2>1. ret'.pc \notin {"tree", "rest", "pointer"} /\ raced' \subseteq Jobs
    BY <1>1, <1>a, <1>b, Zenon DEF SlotsTypeOK
  <2> QED
    BY <1>a, <1>b, <1>1, <1>2, <1>3, <2>1, RetentionFrame, Zenon
<1>5. \A s \in Shas : Safe(s) => Safe(s)'
  BY <1>2, <1>4, Zenon DEF Safe, Spares
<1>6. \A j \in Jobs : Holds(j)'
  BY <1>b, <1>5, HoldsOn, Zenon DEF UpdateAndJobs
<1> QED
  BY <1>4, <1>6, Zenon DEF HoldInv

\* The census under the lock.
LEMMA StartHolds ==
  ASSUME HoldInv, StartRetention, ret' # IdleRet
  PROVE  HoldInv'
<1>a. StoreInv /\ SlotsTypeOK /\ ret \in Ret
  BY Zenon DEF HoldInv, StoreInv, SlotsTypeOK
<1>b. /\ ret.pc = "reviewed" /\ lock = "free" /\ ret.cands \in Candidates(ret.drop)
      /\ ret' = [ret EXCEPT !.pc = "next"] /\ lock' = "retain"
      /\ raced' = raced \cup {j \in Jobs : job[j].st = "selected" /\ job[j].pin = NoSha}
      /\ UNCHANGED <<slot, current, previous, torn, UpdateAndJobs>>
  BY Zenon DEF StartRetention
<1>1. ret' \in Ret /\ ret'.pc = "next" /\ ret'.cands = ret.cands /\ ret.drop \in BOOLEAN
  BY <1>a, <1>b, Zenon DEF Ret
<1>2. Doomed' = ret.cands /\ Retaining' /\ ~Retaining
  BY <1>b, <1>1, Zenon DEF Doomed, Retaining
<1>3. /\ ret.cands \subseteq Shas /\ current.sha \notin ret.cands /\ \A s \in ret.cands : Verified(s)
      /\ \A j \in Jobs : Live(j) => CensusPins(j) \cap ret.cands = {}
      /\ \A j \in Launchers : job[j].held \notin ret.cands
  BY <1>b, <1>1, CensusSpares, Zenon
<1>4. Locks'
  BY <1>a, <1>b, Zenon DEF StoreInv, Locks, UpdateAndJobs
<1>5. StoreInv' /\ Spares
  <2>1. \A s \in ret.cands : slot[s].mark # "building"
    BY <1>3, Zenon DEF Verified
  <2>2. raced' \subseteq Jobs
    BY <1>a, <1>b, Zenon DEF SlotsTypeOK
  <2> QED
    BY <1>a, <1>b, <1>1, <1>2, <1>3, <1>4, <2>1, <2>2, RetentionFrame, Zenon
<1>6. ASSUME NEW s, Safe(s), s \notin ret.cands PROVE Safe(s)'
  BY <1>2, <1>5, <1>6, Zenon DEF Safe, Spares
<1>7. ASSUME NEW j \in Jobs PROVE Holds(j)'
  <2>1. job' = job /\ Holds(j) /\ raced \subseteq raced'
    BY <1>b, Zenon DEF UpdateAndJobs, HoldInv
  <2>2. ASSUME job[j].st \in {"pending", "admitted", "selected"}, job[j].pin # NoSha
        PROVE  Safe(job[j].pin)'
    <3>1. Safe(job[j].pin) /\ job[j].pin \notin ret.cands
      BY <1>3, <2>1, <2>2, Zenon DEF Holds, Live, CensusPins
    <3>2. Safe(job[j].pin) => \A s : s = job[j].pin => Safe(s)'
      BY <1>6, <3>1, Zenon
    <3> QED
      BY <2>1, <3>1, <3>2, Zenon
  <2>3. ASSUME job[j].st \in {"selected", "running"}, j \notin raced'
        PROVE  Safe(job[j].held)'
    <3>1. Safe(job[j].held)
      BY <2>1, <2>3, Zenon DEF Holds
    <3>2. job[j].held \notin ret.cands
      <4>1. CASE job[j].st = "selected"
        <5>1. job[j].pin # NoSha
          BY <1>b, <2>3, <4>1, Zenon
        <5>2. job[j].held = job[j].pin
          BY <2>1, <4>1, <5>1, Zenon DEF Holds
        <5> QED
          BY <1>3, <4>1, <5>2, Zenon DEF Live, CensusPins
      <4>2. CASE job[j].st = "running" /\ job[j].via = "program"
        BY <1>3, <2>1, <4>2, Zenon DEF Live, CensusPins, Holds
      <4>3. CASE job[j].st = "running" /\ job[j].via = "launcher"
        BY <1>3, <4>3, Zenon DEF Launchers
      <4> QED
        BY <1>a, <2>3, <4>1, <4>2, <4>3, Zenon DEF SlotsTypeOK, Job
    <3>3. \A s : s = job[j].held => Safe(s)'
      BY <1>6, <3>1, <3>2, Zenon
    <3> QED
      BY <2>1, <3>3, Zenon
  <2> QED
    BY <2>1, <2>2, <2>3, Zenon DEF Holds
<1> QED
  BY <1>5, <1>7, Zenon DEF HoldInv


\* The next candidate, and the previous pointer before its tree.
LEMMA CandidateHolds ==
  ASSUME HoldInv, NextCandidate \/ ClearPrevious
  PROVE  HoldInv'
<1>a. /\ StoreInv /\ SlotsTypeOK /\ ret \in Ret /\ previous \in Pointer
      /\ Retaining /\ lock = "retain" /\ upd.pc = "idle"
  BY Zenon DEF HoldInv, StoreInv, SlotsTypeOK, Locks, Retaining, NextCandidate, ClearPrevious
<1>b. UNCHANGED <<slot, current, lock, raced, torn, UpdateAndJobs>>
  BY Zenon DEF NextCandidate, ClearPrevious
<1>c. current.sha \notin Doomed /\ \A s \in Doomed : slot[s].mark # "building"
  BY <1>a, Zenon DEF StoreInv, Pointers
<1>d. raced' \subseteq Jobs /\ job' = job /\ upd' = upd
  BY <1>a, <1>b, Zenon DEF SlotsTypeOK, UpdateAndJobs
<1>s. ASSUME Doomed' \subseteq Doomed, StoreInv', Spares PROVE HoldInv'
  <2>1. \A s \in Shas : Safe(s) => Safe(s)'
    BY <1>a, <1>s, Zenon DEF Safe, Spares
  <2>2. \A j \in Jobs : Holds(j)'
    BY <1>b, <1>d, <2>1, HoldsOn, Zenon
  <2> QED
    BY <1>s, <2>2, Zenon DEF HoldInv
<1>1. CASE NextCandidate
  <2> DEFINE same == /\ Readable(current) /\ Readable(previous)
                     /\ current.sha = ret.cur.sha
                     /\ previous.sha = (IF ret.cleared THEN NoSha ELSE ret.prev.sha)
             r(s) == [ret EXCEPT !.cands = @ \ {s}, !.at = s]
  <2>1. PICK s \in ret.cands :
          ret' = IF ~same \/ s = current.sha \/ (s = previous.sha /\ ~ret.drop) THEN r(s)
                 ELSE IF s = previous.sha THEN [r(s) EXCEPT !.pc = "pointer"]
                 ELSE [r(s) EXCEPT !.pc = "tree"]
    BY <1>1, Zenon DEF NextCandidate
  <2> HIDE DEF same
  <2>2. ret.pc = "next" /\ s \in Shas /\ ret.cands \subseteq Shas
    BY <1>1, <1>a, Zenon DEF NextCandidate, Ret
  <2>3. /\ ret' \in Ret /\ ret'.cands = ret.cands \ {s} /\ ret'.at = s
        /\ ret'.pc \in {"next", "pointer", "tree"}
        /\ ret'.pc = "tree" => s # previous.sha
    <3>1. r(s) \in Ret /\ r(s).cands = ret.cands \ {s} /\ r(s).at = s /\ r(s).pc = "next"
      BY <1>a, <2>2, Zenon DEF Ret
    <3>2. ASSUME NEW pc \in {"pointer", "tree"}
          PROVE  /\ [r(s) EXCEPT !.pc = pc] \in Ret /\ [r(s) EXCEPT !.pc = pc].cands = ret.cands \ {s}
                 /\ [r(s) EXCEPT !.pc = pc].at = s /\ [r(s) EXCEPT !.pc = pc].pc = pc
      BY <1>a, <2>2, Zenon DEF Ret
    <3> HIDE DEF r
    <3> QED
      BY <2>1, <3>1, <3>2, Zenon
  <2>4. Doomed' \subseteq Doomed
    BY <2>2, <2>3, Zenon DEF Doomed
  <2>5. Locks' /\ previous' = previous
    BY <1>1, <1>a, <1>b, <1>d, Zenon DEF Locks, NextCandidate
  <2>6. StoreInv' /\ Spares
    <3>1. current.sha \notin Doomed' /\ \A t \in Doomed' : slot[t].mark # "building"
      BY <1>c, <2>4, Zenon
    <3> QED
      BY <1>a, <1>b, <1>d, <2>2, <2>3, <2>5, <3>1, RetentionFrame, Zenon
  <2> QED
    BY <1>s, <2>4, <2>6, Zenon
<1>2. CASE ClearPrevious
  <2>1. ret.pc = "pointer" /\ ret.at \in Shas /\ previous' = [sha |-> NoSha, ino |-> 0]
    BY <1>2, <1>a, Zenon DEF ClearPrevious, StoreInv, Pointers
  <2>2. /\ ret' \in Ret /\ ret'.pc = "tree" /\ ret'.at = ret.at /\ ret'.cands = ret.cands
        /\ previous' \in Pointer /\ previous'.sha = NoSha
    <3>1. previous' \in Pointer /\ previous'.sha = NoSha
      BY <2>1, SlotsAssumption DEF Pointer, SlotsAssumption
    <3>2. ret' = [ret EXCEPT !.pc = "tree", !.cleared = TRUE]
      BY <1>2, Zenon DEF ClearPrevious
    <3>3. ret' \in Ret /\ ret'.pc = "tree" /\ ret'.at = ret.at /\ ret'.cands = ret.cands
      BY <1>a, <3>2, Zenon DEF Ret
    <3> QED
      BY <3>1, <3>3, Zenon
  <2>3. Doomed' = Doomed /\ Retaining'
    BY <2>1, <2>2, Zenon DEF Doomed, Retaining
  <2>4. Spares /\ \A t \in Shas : Generation(t)'
    BY <1>a, <1>b, StoreStands, Zenon
  <2>5. SlotsTypeOK'
    BY <1>a, <1>b, <2>2, Zenon DEF SlotsTypeOK, UpdateAndJobs
  <2>6. Locks' /\ Built'
    BY <1>a, <1>b, <1>d, Zenon DEF Locks, Built
  <2>7. Pointers'
    <3>1. current.sha # NoSha => Intact(current.sha)'
      BY <1>a, <1>b, <2>4, Zenon DEF StoreInv, Pointers, Spares, SlotsTypeOK, Pointer
    <3> QED
      BY <1>b, <1>c, <2>1, <2>2, <2>3, <3>1, SlotsAssumption, Zenon DEF Pointers, SlotsAssumption
  <2>8. StoreInv'
    BY <2>4, <2>5, <2>6, <2>7, Zenon DEF StoreInv
  <2> QED
    BY <1>s, <2>3, <2>4, <2>8, Zenon
<1> QED
  BY <1>1, <1>2, Zenon

\* The removal of a candidate, which nobody points at or holds.
LEMMA RemovalHolds ==
  ASSUME HoldInv, NEW s \in Shas, s = ret.at, RemoveTree \/ RemoveRest
  PROVE  HoldInv'
<1>a. /\ StoreInv /\ SlotsTypeOK /\ ret \in Ret /\ slot[s] \in Slot /\ torn \subseteq Shas
      /\ Retaining /\ lock = "retain" /\ upd.pc = "idle" /\ Generation(s)
  BY Zenon DEF HoldInv, StoreInv, SlotsTypeOK, Locks, Retaining, RemoveTree, RemoveRest
<1>b. UNCHANGED <<current, previous, lock, raced, UpdateAndJobs>> /\ ret.pc \in {"tree", "rest"}
  BY Zenon DEF RemoveTree, RemoveRest
<1>c. /\ current.sha \notin Doomed /\ s \in Doomed /\ s # previous.sha
      /\ \A t \in Doomed : slot[t].mark # "building"
  BY <1>a, <1>b, Zenon DEF StoreInv, Pointers, Doomed
<1>1. PICK g \in Slot : /\ slot' = [slot EXCEPT ![s] = g] /\ g.mark # "building"
                        /\ ~g.there => g.mark = "none" /\ g.body = "none" /\ ~g.sealed
                        /\ \/ torn' = torn \cup {s}
                           \/ ~g.there /\ torn' = torn \ {s}
  <2>1. CASE RemoveTree
    <3>1. PICK g \in PartRemoved(slot[s]) : slot' = [slot EXCEPT ![s] = g]
      BY <2>1, Zenon DEF RemoveTree
    <3>2. g \in Slot /\ g.mark # "building" /\ torn' = torn \cup {s}
      BY <1>a, <1>c, <2>1, <3>1, PartFacts, Zenon DEF RemoveTree
    <3>3. ~g.there => g.mark = "none" /\ g.body = "none" /\ ~g.sealed
      BY <1>a, <3>1, PartFacts, Zenon DEF Generation
    <3> QED
      BY <3>1, <3>2, <3>3, Zenon
  <2>2. CASE RemoveRest
    <3> DEFINE g == [NoSlot EXCEPT !.receipt = slot[s].receipt]
    <3>1. slot' = [slot EXCEPT ![s] = g] /\ torn' = torn \ {s}
      BY <2>2, Zenon DEF RemoveRest
    <3>2. g \in Slot /\ ~g.there /\ g.mark = "none" /\ g.body = "none" /\ ~g.sealed
      BY <1>a, EmptyFacts, Zenon
    <3> HIDE DEF g
    <3> QED
      BY <3>1, <3>2, Zenon
  <2> QED
    BY <2>1, <2>2, Zenon
<1>2. ret' \in Ret /\ ret'.pc \in {"rest", "next"} /\ ret'.at = s /\ ret'.cands = ret.cands
  BY <1>a, Zenon DEF RemoveTree, RemoveRest, Ret
<1>3. Alone(s) /\ slot'[s] = g /\ torn' \subseteq Shas
  BY <1>a, <1>1, WriteGeneration, Zenon
<1>4. Generation(s)'
  BY <1>1, <1>3, Zenon DEF Generation
<1>5. \A t \in Shas : Generation(t)' /\ (t # s /\ Intact(t) => Intact(t)')
  <2> SUFFICES ASSUME NEW t \in Shas, t # s PROVE Generation(t)' /\ (Intact(t) => Intact(t)')
    BY <1>4, Zenon
  <2>1. slot'[t] = slot[t] /\ (t \in torn' <=> t \in torn) /\ Generation(t)
    BY <1>3, <1>a, Zenon DEF Alone, StoreInv
  <2> QED
    BY <2>1, Zenon DEF Generation, Verified, Intact, ContentMatches
<1>6. Doomed' \subseteq Doomed /\ Retaining'
  BY <1>b, <1>2, Zenon DEF Doomed, Retaining
<1>7. SlotsTypeOK'
  BY <1>a, <1>b, <1>2, <1>3, Zenon DEF SlotsTypeOK, UpdateAndJobs, Alone
<1>8. Locks' /\ Built'
  BY <1>a, <1>b, Zenon DEF Locks, Built, UpdateAndJobs
<1>9. Pointers'
  <2>1. /\ current.sha # NoSha => Intact(current.sha)'
        /\ previous.sha # NoSha => Intact(previous.sha)'
    BY <1>a, <1>b, <1>c, <1>5, Zenon DEF StoreInv, Pointers, SlotsTypeOK, Pointer
  <2>2. \A t \in Doomed' : slot'[t].mark # "building"
    <3> SUFFICES ASSUME NEW t \in Doomed' PROVE slot'[t].mark # "building"
      BY Zenon
    <3>1. t \in Shas
      BY <1>2, Zenon DEF Doomed, Ret
    <3> QED
      BY <1>1, <1>3, <1>6, <1>c, <3>1, Zenon DEF Alone
  <2> QED
    BY <1>2, <1>6, <1>b, <1>c, <2>1, <2>2, Zenon DEF Pointers
<1>10. StoreInv'
  BY <1>5, <1>7, <1>8, <1>9, Zenon DEF StoreInv
<1>11. \A t \in Shas : Safe(t) => Safe(t)'
  BY <1>5, <1>6, <1>a, <1>c, Zenon DEF Safe
<1>12. \A j \in Jobs : Holds(j)'
  BY <1>11, <1>b, HoldsOn, Zenon DEF UpdateAndJobs
<1> QED
  BY <1>10, <1>12, Zenon DEF HoldInv

\* Every step of the store keeps HoldInv.
LEMMA SlotsStep == HoldInv /\ [SlotsNext]_svars => HoldInv'
<1> SUFFICES ASSUME HoldInv, [SlotsNext]_svars PROVE HoldInv'
  BY Zenon
<1>1. CASE UpdateNext
  <2>1. StoreInv' /\ Spares /\ UNCHANGED <<ret, job, raced>>
    BY <1>1, UpdateHolds, Zenon DEF HoldInv
  <2>2. ASSUME NEW j \in Jobs PROVE Holds(j)'
    BY <2>1, HoldsFrame, Zenon DEF HoldInv
  <2> QED
    BY <2>1, <2>2, Zenon DEF HoldInv
<1>2. CASE JobNext
  BY <1>2, JobHolds, Zenon
<1>3. CASE RetentionNext
  <2>1. CASE RemoveTree \/ RemoveRest
    <3>1. PICK s \in Shas : s = ret.at
      BY <2>1, Zenon DEF RemoveTree, RemoveRest, HoldInv, StoreInv, Pointers
    <3> QED
      BY <2>1, <3>1, RemovalHolds, Zenon
  <2> QED
    BY <1>3, <2>1, ReviewHolds, StartHolds, CandidateHolds, Zenon DEF RetentionNext
<1>4. CASE UNCHANGED svars
  <2>1. UNCHANGED StoreAndAdmin /\ job' = job /\ raced' = raced /\ ret' = ret
    BY <1>4, Zenon DEF svars, StoreAndAdmin
  <2>2. StoreInv' /\ Spares
    BY <2>1, StoreUntouched, Zenon DEF HoldInv, StoreInv, SlotsTypeOK
  <2>3. ASSUME NEW j \in Jobs PROVE Holds(j)'
    BY <2>1, <2>2, HoldsFrame, Zenon DEF HoldInv
  <2> QED
    BY <2>2, <2>3, Zenon DEF HoldInv
<1> QED
  BY <1>1, <1>2, <1>3, <1>4, Zenon DEF SlotsNext

\* A store that begins with one whole generation, or with none.
LEMMA SlotsInitHolds == SlotsInit => HoldInv
<1> SUFFICES ASSUME SlotsInit PROVE HoldInv
  BY Zenon
<1>1. PICK first \in Firsts :
        /\ slot = [s \in Shas |-> IF s = first
                                  THEN [there |-> TRUE, mark |-> "verified", tx |-> 0,
                                        sealed |-> TRUE, body |-> "whole", receipt |-> 0]
                                  ELSE NoSlot]
        /\ current = [sha |-> first, ino |-> 0]
  BY Zenon DEF SlotsInit
<1>2. slot \in [Shas -> Slot]
  BY <1>1, SlotsAssumption DEF Slot, NoSlot, SlotsAssumption
<1>3. first \in Shas \cup {NoSha} /\ current \in Pointer /\ current.sha = first
  BY <1>1, SlotsAssumption DEF Pointer, SlotsAssumption
<1>4. /\ upd \in Upd /\ ret \in Ret /\ previous \in Pointer /\ previous.sha = NoSha
      /\ upd.pc = "idle" /\ ret.pc = "idle"
  <2>1. [sha |-> NoSha, ino |-> 0] \in Pointer
    BY SlotsAssumption DEF Pointer, SlotsAssumption
  <2>2. IdleUpd \in Upd /\ IdleUpd.pc = "idle"
    BY SlotsAssumption DEF IdleUpd, Upd, SlotsAssumption
  <2>3. IdleRet \in Ret /\ IdleRet.pc = "idle"
    BY <2>1, Zenon DEF IdleRet, Ret
  <2> QED
    BY <2>1, <2>2, <2>3, Zenon DEF SlotsInit
<1>5. job \in [Jobs -> Job] /\ \A j \in Jobs : job[j].st = "none"
  BY Zenon DEF SlotsInit, Job
<1>6. SlotsTypeOK
  <2>1. inos \in 0 .. MaxInos /\ txs \in 0 .. MaxTx
    BY SlotsAssumption DEF SlotsInit, SlotsAssumption
  <2> QED
    BY <1>2, <1>3, <1>4, <1>5, <2>1, Zenon DEF SlotsInit, SlotsTypeOK
<1>7. Locks /\ Built
  BY <1>4, Zenon DEF Locks, Built, Retaining
<1>8. first \in Shas => Intact(first)
  BY <1>1, Zenon DEF Intact, Verified, ContentMatches
<1>9. Pointers
  BY <1>3, <1>4, <1>8, Zenon DEF Pointers, Retaining
<1>10. \A s \in Shas : Generation(s)
  BY <1>1, Zenon DEF Generation, Verified, NoSlot
<1>11. \A j \in Jobs : Holds(j)
  BY <1>5, Zenon DEF Holds
<1> QED
  BY <1>6, <1>7, <1>9, <1>10, <1>11, Zenon DEF HoldInv, StoreInv

\* For any generations, jobs and number of builds: wherever an update or a
\* retention dies, current and previous name sealed, whole generations, and what
\* an unfinished build left is recognised by the next one.
THEOREM StoreStaysSound == SlotsSpec => []StoreIsSound
<1>1. HoldInv => StoreIsSound
  BY Zenon DEF HoldInv, StoreInv, Pointers, Generation, StoreIsSound
<1> QED
  BY <1>1, SlotsInitHolds, SlotsStep, PTL DEF SlotsSpec

\* A running command keeps its whole generation, for any generations, jobs,
\* updates and retentions, unless a census caught it between the choice and the
\* record of it.
THEOREM RunningKeepsRuntime == SlotsSpec => []RuntimeStaysWhole
<1>1. HoldInv => RuntimeStaysWhole
  BY Zenon DEF HoldInv, Holds, Safe, RuntimeStaysWhole
<1> QED
  BY <1>1, SlotsInitHolds, SlotsStep, PTL DEF SlotsSpec
=============================================================================
