---------------------------- MODULE AdminUpdate ----------------------------
(***************************************************************************)
(* `vq admin update ENV` on one host (admin.py, pause_resume.py): the      *)
(* marker that owns the update, the pause scope it takes over the local    *)
(* jobs, the on-disk work, and for the environment that serves the daemon  *)
(* the failure-atomic transaction of receipt phases around stopping the    *)
(* daemon, moving its virtualenv aside, building, restarting and           *)
(* verifying.  The updater may die at any step, and each step may fail;    *)
(* `vq admin recover-update`, `vq admin clear-update-marker`, `--force`    *)
(* and the daemon's reaping of stale markers are what follows.             *)
(*                                                                         *)
(* admin_update_ownership is a flock held for the whole verb, so at most   *)
(* one updater process `up` exists; a marker is stale when it is idle.     *)
(* Versions of the code are numbers: update n installs version n.          *)
(***************************************************************************)
EXTENDS Integers, FiniteSets

CONSTANTS Jobs,        \* local jobs in the update's scope
          Kinds,       \* environments: "ordinary", "managed" (it serves the
                       \* daemon) and "background" (immutable runtime slot)
          Wakers,      \* who else may resume a job: "operator", "pressure"
          Killable,    \* jobs the operator may kill
          MaxUpdates,  \* bound: updates started
          MaxFaults    \* bound: deaths of the updater and failed steps

ASSUME UpdateAssumption ==
    /\ Kinds \subseteq {"ordinary", "managed", "background"} /\ Kinds # {}
    /\ Wakers \subseteq {"operator", "pressure"}
    /\ Killable \subseteq Jobs
    /\ MaxUpdates \in Nat \ {0} /\ MaxFaults \in Nat

VARIABLES kind,    \* which environment is updated
          job,     \* each job's row (state, paused_by, pause intent) and process
          marker,  \* the admin-update marker file, its receipt included
          up,      \* the process running an admin verb: its memory
          disk,    \* serving venv, rollback backup, quarantined failed target,
                   \* committed backup awaiting removal, checkout
          svc,     \* the version the daemon process runs, or Down
          faults
vars == <<kind, job, marker, up, disk, svc, faults>>

NoToken == 0
Pressure == MaxUpdates + 1    \* HOST_PRESSURE_PAUSE_TAG
Absent == -1
Partial == -2
Down == -1

Phases == {"none", "armed", "backup_moved", "target_ready", "target_verified",
           "restoring_old", "files_restored", "old_restored",
           "target_committed", "target_cleanup_pending"}
Committed == {"target_committed", "target_cleanup_pending"}
NoTx == [phase |-> "none", moved |-> FALSE, pre |-> 0]
NoMarker == [on |-> FALSE, armed |-> FALSE, failed |-> FALSE, tx |-> NoTx]

PausePcs == {"record", "scan", "pause", "stop", "suspend", "prove"}
ForwardPcs == {"halt", "move", "moved", "build", "ready", "start", "verify",
               "commit", "discard", "pending", "purge", "settle"}
RestorePcs == {"restore", "undo", "swap", "putback", "recheck", "restored",
               "sweep", "restart", "reverify"}
Mutating == {"work"} \cup ForwardPcs \cup RestorePcs
Pcs == {"idle", "arm", "reprove", "resume", "wake", "clear", "close"}
         \cup PausePcs \cup Mutating

Idle(n) == [pc |-> "idle", verb |-> "update", n |-> n, out |-> "none", todo |-> {},
            captured |-> {}, moved |-> FALSE, tries |-> 0]

Init ==
    /\ kind \in Kinds
    /\ job = [j \in Jobs |-> [state |-> "PENDING", by |-> NoToken, intent |-> NoToken,
                              proc |-> "none"]]
    /\ marker = NoMarker
    /\ up = Idle(0)
    /\ disk = [venv |-> 0, backup |-> Absent, quar |-> Absent, cleanup |-> Absent,
               checkout |-> 0]
    /\ svc = 0
    /\ faults = 0

Faulty == faults < MaxFaults /\ faults' = faults + 1
Go(pc) == up' = [up EXCEPT !.pc = pc]
Exits == up' = Idle(up.n)
Persist(phase, moved) ==
    marker' = [marker EXCEPT !.tx.phase = phase, !.tx.moved = moved]

\* The spec lock: pause_job holds one row's from its intent to SUSPENDED.
Locked(j) == up.pc \in {"stop", "suspend"} /\ job[j].intent = up.n
Alive(r) == r.proc \in {"runs", "stopped"}

-----------------------------------------------------------------------------
(* The rows: _finish_pause_from_intent, _reconcile_pause_intent_path and     *)
(* resume_job on one row and its process group.                              *)

Suspended(r) ==
    [r EXCEPT !.state = "SUSPENDED", !.by = r.intent, !.intent = NoToken,
              !.proc = "stopped"]

Reconciled(r) ==
    IF r.intent = NoToken THEN r
    ELSE IF r.state = "ENDED"
    THEN [r EXCEPT !.intent = NoToken, !.proc = IF @ = "stopped" THEN "runs" ELSE @]
    ELSE IF Alive(r) THEN Suspended(r)
    ELSE [r EXCEPT !.intent = NoToken]

Resumed(r) ==
    [r EXCEPT !.state = "RUNNING", !.by = NoToken, !.proc = "runs"]

MayResume(r) == r.state = "SUSPENDED" /\ Alive(r)

-----------------------------------------------------------------------------
(* _update_env_logged: admission, the pause scope and its proof.             *)

Replaceable == marker.on => ~marker.armed /\ marker.tx = NoTx

\* acquire_admin_update_marker: no marker, or --force over one without receipts.
Starts ==
    /\ up.pc = "idle"
    /\ up.n < MaxUpdates
    /\ Replaceable
    /\ marker' = [NoMarker EXCEPT !.on = TRUE]
    /\ up' = [Idle(up.n + 1) EXCEPT !.pc = IF kind = "background" THEN "work" ELSE "record"]
    /\ UNCHANGED <<kind, job, disk, svc, faults>>

\* _record_admin_update_pause_scope: the token is durable before any pause.
RecordsScope ==
    /\ up.pc = "record"
    /\ marker' = [marker EXCEPT !.armed = TRUE]
    /\ Go("scan")
    /\ UNCHANGED <<kind, job, disk, svc, faults>>

\* pause_token_scope_with_proof up to its first scan.
Scans ==
    LET rows == [j \in Jobs |-> Reconciled(job[j])]
    IN  /\ up.pc = "scan"
        /\ job' = rows
        /\ up' = [up EXCEPT !.pc = "pause", !.todo = Jobs,
                            !.captured = {j \in Jobs : rows[j].state = "RUNNING"}]
        /\ UNCHANGED <<kind, marker, disk, svc, faults>>

\* pause_all visits a row: pause_job's intent, or the row is passed over.
Visits(j) ==
    LET pausable == job[j].state = "RUNNING" /\ job[j].intent = NoToken
                      /\ job[j].proc # "none"
    IN  /\ up.pc = "pause"
        /\ j \in up.todo
        /\ up' = [up EXCEPT !.todo = @ \ {j}, !.pc = IF pausable THEN "stop" ELSE @]
        /\ job' = IF pausable THEN [job EXCEPT ![j].intent = up.n] ELSE job
        /\ UNCHANGED <<kind, marker, disk, svc, faults>>

\* The SIGSTOP; a group that is gone disarms the intent.
SendsStop(j) ==
    /\ up.pc = "stop"
    /\ Locked(j)
    /\ IF Alive(job[j])
       THEN job' = [job EXCEPT ![j].proc = "stopped"] /\ Go("suspend")
       ELSE job' = [job EXCEPT ![j].intent = NoToken] /\ Go("pause")
    /\ UNCHANGED <<kind, marker, disk, svc, faults>>

WritesSuspended(j) ==
    /\ up.pc = "suspend"
    /\ Locked(j)
    /\ job' = [job EXCEPT ![j] = Suspended(@)]
    /\ Go("pause")
    /\ UNCHANGED <<kind, marker, disk, svc, faults>>

PauseEnds ==
    /\ up.pc = "pause"
    /\ up.todo = {}
    /\ Go("prove")
    /\ UNCHANGED <<kind, job, marker, disk, svc, faults>>

\* Mutant of Unresolved: only the rows of the first scan are looked at again.
UnresolvedCaptured(r, captured) ==
    captured /\ (r.state = "RUNNING" \/ (r.state = "ENDED" /\ Alive(r)))

\* The final scan's verdict on a row, captured RUNNING by the first one or not.
Unresolved(r, captured) ==
    \/ r.state = "RUNNING"
    \/ (captured /\ r.state = "ENDED" /\ Alive(r))

\* The second reconciliation and scan, and require_quiescent, which raises.
Proves ==
    LET rows == [j \in Jobs |-> Reconciled(job[j])]
        refused == \E j \in Jobs : Unresolved(rows[j], j \in up.captured)
    IN  /\ up.pc = "prove"
        /\ job' = rows
        /\ up' = [up EXCEPT !.captured = {},
                            !.out = IF refused THEN "raised" ELSE @,
                            !.pc = IF refused THEN "resume"
                                   ELSE IF kind = "managed" THEN "arm" ELSE "work"]
        /\ UNCHANGED <<kind, marker, disk, svc, faults>>

\* _do_update_work for an environment that does not serve the daemon: it lands,
\* fails or raises.  A background build paused nothing and resumes nothing.
Works ==
    /\ up.pc = "work"
    /\ \/ /\ up' = [up EXCEPT !.out = "landed",
                               !.pc = IF kind = "background" THEN "close" ELSE "resume"]
          /\ UNCHANGED faults
       \/ /\ Faulty
          /\ \E out \in {"failed", "raised"} :
                up' = [up EXCEPT !.out = out,
                                 !.pc = IF kind = "background" THEN "close" ELSE "resume"]
    /\ UNCHANGED <<kind, job, marker, disk, svc>>

-----------------------------------------------------------------------------
(* The managed transaction forward: _begin_managed_daemon_update, the build  *)
(* by update.sh, _complete_managed_daemon_update and                         *)
(* _commit_managed_update_files.                                             *)

\* The receipt precedes the first mutation; a late git refusal precedes it.
Arms ==
    /\ up.pc = "arm"
    /\ \/ /\ marker' = [marker EXCEPT !.tx = [phase |-> "armed", moved |-> FALSE,
                                               pre |-> disk.venv]]
          /\ Go("halt")
          /\ UNCHANGED faults
       \/ /\ Faulty
          /\ \E out \in {"refused", "raised"} :
                up' = [up EXCEPT !.pc = "resume", !.out = out]
          /\ UNCHANGED marker
    /\ UNCHANGED <<kind, job, disk, svc>>

StopsDaemon ==
    /\ up.pc = "halt"
    /\ svc' = Down
    /\ Go("move")
    /\ UNCHANGED <<kind, job, marker, disk, faults>>

\* Mutant of MovesVenv: the old environment is overwritten in place.
MovesNothing ==
    /\ up.pc = "move"
    /\ disk' = [disk EXCEPT !.venv = Absent]
    /\ up' = [up EXCEPT !.pc = "moved", !.moved = TRUE]
    /\ UNCHANGED <<kind, job, marker, svc, faults>>

MovesVenv ==
    /\ up.pc = "move"
    /\ disk' = [disk EXCEPT !.backup = disk.venv, !.venv = Absent]
    /\ up' = [up EXCEPT !.pc = "moved", !.moved = TRUE]
    /\ UNCHANGED <<kind, job, marker, svc, faults>>

RecordsMove ==
    /\ up.pc = "moved"
    /\ Persist("backup_moved", TRUE)
    /\ Go("build")
    /\ UNCHANGED <<kind, job, disk, svc, faults>>

\* _begin's except clause before the rename counts: the old daemon is found
\* running, or is started, or neither, and the exception goes on.
BeginFails ==
    /\ up.pc \in {"halt", "move"}
    /\ Faulty
    /\ svc' \in {disk.venv, Down}
    /\ up' = [up EXCEPT !.pc = "resume", !.out = "raised"]
    /\ UNCHANGED <<kind, job, marker, disk>>

\* update.sh: the checkout moves, a venv appears, and is complete.
Builds ==
    /\ up.pc = "build"
    /\ IF disk.checkout # up.n
       THEN disk' = [disk EXCEPT !.checkout = up.n] /\ UNCHANGED up
       ELSE IF disk.venv = Absent
       THEN disk' = [disk EXCEPT !.venv = Partial] /\ UNCHANGED up
       ELSE disk' = [disk EXCEPT !.venv = up.n] /\ Go("ready")
    /\ UNCHANGED <<kind, job, marker, svc, faults>>

RecordsTarget ==
    /\ up.pc = "ready"
    /\ Persist("target_ready", TRUE)
    /\ Go("start")
    /\ UNCHANGED <<kind, job, disk, svc, faults>>

StartsTarget ==
    /\ up.pc = "start"
    /\ svc' = disk.venv
    /\ Go("verify")
    /\ UNCHANGED <<kind, job, marker, disk, faults>>

\* _verify_restarted_daemon and the service re-attestation.
VerifiesTarget ==
    /\ up.pc = "verify"
    /\ svc = up.n
    /\ Persist("target_verified", TRUE)
    /\ Go("commit")
    /\ UNCHANGED <<kind, job, disk, svc, faults>>

RecordsCommit ==
    /\ up.pc = "commit"
    /\ Persist("target_committed", TRUE)
    /\ Go("discard")
    /\ UNCHANGED <<kind, job, disk, svc, faults>>

DiscardsBackup ==
    /\ up.pc = "discard"
    /\ disk' = [disk EXCEPT !.cleanup = disk.backup, !.backup = Absent]
    /\ up' = [up EXCEPT !.pc = "pending", !.moved = FALSE]
    /\ UNCHANGED <<kind, job, marker, svc, faults>>

\* The cleanup checkpoint; without it the update is reported failed and stays
\* committed, and a recovery goes on with the cleanup.
RecordsCleanup ==
    /\ up.pc = "pending"
    /\ \/ Persist("target_cleanup_pending", FALSE) /\ Go("purge") /\ UNCHANGED faults
       \/ /\ Faulty
          /\ up' = IF up.verb = "recover" THEN [up EXCEPT !.pc = "purge"]
                   ELSE [up EXCEPT !.pc = "resume", !.out = "failed"]
          /\ UNCHANGED marker
    /\ UNCHANGED <<kind, job, disk, svc>>

\* Failed: the caller of a recovery writes FAILED and gives up; the updater of
\* a committed target goes on to resume the jobs.
PurgesBackup ==
    /\ up.pc = "purge"
    /\ \/ disk' = [disk EXCEPT !.cleanup = Absent] /\ Go("settle")
          /\ UNCHANGED <<marker, faults>>
       \/ /\ Faulty
          /\ IF up.verb = "recover"
             THEN /\ marker' = [marker EXCEPT !.failed = TRUE, !.tx.moved = FALSE]
                  /\ Exits
             ELSE up' = [up EXCEPT !.pc = "resume", !.out = "failed"] /\ UNCHANGED marker
          /\ UNCHANGED disk
    /\ UNCHANGED <<kind, job, svc>>

\* The last checkpoint; without it the updater has landed all the same.
SettlesCommit ==
    /\ up.pc = "settle"
    /\ \/ /\ Persist("target_committed", FALSE)
          /\ up' = [up EXCEPT !.pc = "resume", !.out = "landed"]
          /\ UNCHANGED faults
       \/ /\ Faulty
          /\ IF up.verb = "recover"
             THEN /\ marker' = [marker EXCEPT !.failed = TRUE,
                                              !.tx.phase = "target_committed",
                                              !.tx.moved = FALSE]
                  /\ Exits
             ELSE up' = [up EXCEPT !.pc = "resume", !.out = "landed"] /\ UNCHANGED marker
    /\ UNCHANGED <<kind, job, disk, svc>>

\* fail_and_restore (a second attempt follows in the finally clause), an
\* exception out of the work or out of the commit's receipt, or one out of
\* _begin after the rename (one attempt).
ForwardFails ==
    /\ up.pc \in {"moved", "build", "ready", "start", "verify", "commit", "discard"}
    /\ up.verb = "update"
    /\ Faulty
    /\ \E out \in IF up.pc \in {"moved", "commit"} THEN {"raised"}
                  ELSE IF up.pc = "build" THEN {"raised", "failed"} ELSE {"failed"} :
          up' = [up EXCEPT !.pc = "restore", !.out = out,
                           !.tries = IF out = "failed" THEN 1 ELSE 0]
    /\ UNCHANGED <<kind, job, marker, disk, svc>>

\* A recovery's commit fails: its receipt raises, its rename is recorded FAILED.
CommitFails ==
    /\ up.pc \in {"commit", "discard"}
    /\ up.verb = "recover"
    /\ Faulty
    /\ marker' = [marker EXCEPT !.failed = @ \/ up.pc = "discard"]
    /\ Exits
    /\ UNCHANGED <<kind, job, disk, svc>>

-----------------------------------------------------------------------------
(* The way back: _recover_managed_daemon_after_exception and                 *)
(* _restore_managed_update_files.                                            *)

StopsForRestore ==
    /\ up.pc = "restore"
    /\ svc' = Down
    /\ Go("undo")
    /\ UNCHANGED <<kind, job, marker, disk, faults>>

RecordsUndo ==
    /\ up.pc = "undo"
    /\ Persist("restoring_old", up.moved)
    /\ Go(IF up.moved THEN "swap" ELSE "recheck")
    /\ UNCHANGED <<kind, job, disk, svc, faults>>

\* The failed target moves out of the way; an existing quarantine is refused.
Quarantines ==
    /\ up.pc = "swap"
    /\ disk.venv = Absent \/ disk.quar = Absent
    /\ disk' = [disk EXCEPT !.quar = IF disk.venv = Absent THEN @ ELSE disk.venv,
                            !.venv = Absent]
    /\ Go("putback")
    /\ UNCHANGED <<kind, job, marker, svc, faults>>

PutsBack ==
    /\ up.pc = "putback"
    /\ disk' = [disk EXCEPT !.venv = disk.backup, !.backup = Absent]
    /\ up' = [up EXCEPT !.pc = "recheck", !.moved = FALSE]
    /\ UNCHANGED <<kind, job, marker, svc, faults>>

\* _restore_checkout_state and the digest of the restored package.
RestoresCheckout ==
    /\ up.pc = "recheck"
    /\ disk.venv = marker.tx.pre
    /\ disk' = [disk EXCEPT !.checkout = marker.tx.pre]
    /\ Go("restored")
    /\ UNCHANGED <<kind, job, marker, svc, faults>>

RecordsRestored ==
    /\ up.pc = "restored"
    /\ Persist("files_restored", FALSE)
    /\ Go("sweep")
    /\ UNCHANGED <<kind, job, disk, svc, faults>>

SweepsQuarantine ==
    /\ up.pc = "sweep"
    /\ disk' = [disk EXCEPT !.quar = Absent]
    /\ Go("restart")
    /\ UNCHANGED <<kind, job, marker, svc, faults>>

RestartsOld ==
    /\ up.pc = "restart"
    /\ svc' = disk.venv
    /\ Go("reverify")
    /\ UNCHANGED <<kind, job, marker, disk, faults>>

VerifiesOld ==
    /\ up.pc = "reverify"
    /\ svc = marker.tx.pre
    /\ Persist("old_restored", FALSE)
    /\ Go("resume")
    /\ UNCHANGED <<kind, job, disk, svc, faults>>

\* The phases lifecycle.receipt_phase may hold when a step of the way back fails:
\* it is assigned before the receipt is written.
InMemory ==
    CASE up.pc = "undo" -> {"restoring_old"}
      [] up.pc = "restored" -> {"files_restored"}
      [] up.pc = "reverify" -> {marker.tx.phase, "old_restored"}
      [] OTHER -> {marker.tx.phase}

\* A step of the way back fails: the updater tries once more or goes on to the
\* jobs; recover-update writes FAILED with what its memory says.  A failed
\* putback may have returned the quarantined tree.
RestoreFails ==
    /\ up.pc \in RestorePcs
    /\ Faulty
    /\ disk' \in {disk} \cup
          IF up.pc = "putback" /\ disk.quar # Absent
          THEN {[disk EXCEPT !.venv = disk.quar, !.quar = Absent]} ELSE {}
    /\ IF up.verb = "recover"
       THEN /\ \E phase \in InMemory :
                  marker' = [marker EXCEPT !.failed = TRUE, !.tx.phase = phase,
                                           !.tx.moved = up.moved]
            /\ Exits
       ELSE /\ up' = IF up.tries > 0 THEN [up EXCEPT !.pc = "restore", !.tries = @ - 1]
                     ELSE [up EXCEPT !.pc = "resume"]
            /\ UNCHANGED marker
    /\ UNCHANGED <<kind, job, svc>>

-----------------------------------------------------------------------------
(* The end of every verb: resume_token_scope_with_proof, and the marker.     *)

Resumes ==
    /\ up.pc = "resume"
    /\ job' = [j \in Jobs |-> Reconciled(job[j])]
    /\ up' = [up EXCEPT !.pc = "wake", !.todo = Jobs]
    /\ UNCHANGED <<kind, marker, disk, svc, faults>>

\* resume_all with the token as its filter, one row at a time.
Wakes(j) ==
    /\ up.pc = "wake"
    /\ j \in up.todo
    /\ up' = [up EXCEPT !.todo = @ \ {j}]
    /\ job' = IF MayResume(job[j]) /\ job[j].by = up.n
              THEN [job EXCEPT ![j] = Resumed(@)] ELSE job
    /\ UNCHANGED <<kind, marker, disk, svc, faults>>

WakesEnd ==
    /\ up.pc = "wake"
    /\ up.todo = {}
    /\ Go("clear")
    /\ UNCHANGED <<kind, job, marker, disk, svc, faults>>

\* _prove_pause_token_absent: the token in any state, or an intent, is unresolved.
TokenRemains == \E j \in Jobs : up.n \in {job[j].by, job[j].intent}

\* require_clear and what each verb does next.  A scope without a receipt is
\* disarmed; a late git refusal leaves nothing to recover.
ProvesClear ==
    /\ up.pc = "clear"
    /\ IF TokenRemains
       THEN marker' = [marker EXCEPT !.failed = @ \/ up.verb # "clear"] /\ Exits
       ELSE IF up.verb # "update" \/ up.out = "refused"
       THEN marker' = NoMarker /\ Exits
       ELSE /\ marker' = [marker EXCEPT !.armed = marker.tx # NoTx]
            /\ IF up.out = "raised" THEN Exits ELSE Go("close")
    /\ UNCHANGED <<kind, job, disk, svc, faults>>

\* The tail of _update_env_logged: success removes the marker, a failed result
\* leaves it FAILED, an exception leaves it as it is.
Closes ==
    /\ up.pc = "close"
    /\ marker' = CASE up.out = "landed" -> NoMarker
                   [] up.out = "failed" -> [marker EXCEPT !.failed = TRUE]
                   [] up.out = "raised" -> marker
    /\ Exits
    /\ UNCHANGED <<kind, job, disk, svc, faults>>

-----------------------------------------------------------------------------
(* recover-update and clear-update-marker, run when the updater is gone.     *)

\* Mutant of Located: a completed putback is not recognised.
LocatedStrict(tx) ==
    IF disk.venv = Absent THEN IF disk.backup # Absent THEN "moved" ELSE "error"
    ELSE IF disk.backup = Absent
    THEN IF tx.moved /\ tx.phase \notin Committed THEN "error" ELSE "home"
    ELSE IF tx.moved THEN "moved" ELSE "error"

\* _parse_managed_update_receipt's reading of the disk: whether the old venv is
\* in the backup, or "error".
Located(tx) ==
    LET venv == disk.venv # Absent
        backup == disk.backup # Absent
    IN  IF ~venv THEN IF backup THEN "moved" ELSE "error"
        ELSE IF ~backup
        THEN IF tx.moved /\ tx.phase \notin Committed \cup
                  {"target_verified", "old_restored", "files_restored", "restoring_old"}
             THEN "error" ELSE "home"
        ELSE IF tx.moved THEN "moved" ELSE "error"

\* recover_managed_update: a terminal receipt is proved again, any other is
\* taken back.
Recovers ==
    LET tx == marker.tx
    IN  /\ up.pc = "idle"
        /\ marker.on /\ tx # NoTx
        /\ Located(tx) # "error"
        /\ up' = [Idle(up.n) EXCEPT !.verb = "recover", !.moved = Located(tx) = "moved",
                     !.pc = IF tx.phase \in Committed \cup {"old_restored"}
                            THEN "reprove" ELSE "restore"]
        /\ UNCHANGED <<kind, job, marker, disk, svc, faults>>

\* The terminal identity is verified, never started; then the rest of a commit.
Reproves ==
    LET tx == marker.tx
    IN  /\ up.pc = "reprove"
        /\ IF svc = IF tx.phase = "old_restored" THEN tx.pre ELSE up.n
           THEN /\ Go(IF tx.phase = "old_restored" THEN "resume"
                      ELSE IF tx.phase = "target_committed" /\ up.moved THEN "commit"
                      ELSE "purge")
                /\ UNCHANGED marker
           ELSE /\ marker' = [marker EXCEPT !.failed = TRUE, !.tx.moved = up.moved]
                /\ Exits
        /\ UNCHANGED <<kind, job, disk, svc, faults>>

\* clear-update-marker: a pause-only receipt resumes its scope first.
ClearsMarker ==
    /\ up.pc = "idle"
    /\ marker.on /\ marker.tx = NoTx
    /\ IF marker.armed
       THEN up' = [Idle(up.n) EXCEPT !.verb = "clear", !.pc = "resume"] /\ UNCHANGED marker
       ELSE marker' = NoMarker /\ UNCHANGED up
    /\ UNCHANGED <<kind, job, disk, svc, faults>>

UpdaterDies ==
    /\ up.pc # "idle"
    /\ Faulty
    /\ Exits
    /\ UNCHANGED <<kind, job, marker, disk, svc>>

-----------------------------------------------------------------------------
(* The daemon, the jobs and the operator.                                    *)

\* Mutant of ReapsMarker: a stale pause receipt is reaped as well.
ReapsStale ==
    /\ svc # Down
    /\ up.pc = "idle"
    /\ marker.on /\ marker.tx = NoTx
    /\ kind # "background"
    /\ marker' = NoMarker
    /\ UNCHANGED <<kind, job, up, disk, svc, faults>>

\* _poll_admin_update_marker: only a stale marker without receipts, and not of
\* a background build, is reaped.
ReapsMarker ==
    /\ svc # Down
    /\ up.pc = "idle"
    /\ marker.on /\ ~marker.armed /\ marker.tx = NoTx
    /\ kind # "background"
    /\ marker' = NoMarker
    /\ UNCHANGED <<kind, job, up, disk, svc, faults>>

\* _start_job's durable claim, with _admin_update_holds_spec under the lock.
Claims(j) ==
    /\ svc # Down
    /\ job[j].state = "PENDING"
    /\ ~(marker.on /\ kind # "background")
    /\ job' = [job EXCEPT ![j].state = "RUNNING"]
    /\ UNCHANGED <<kind, marker, up, disk, svc, faults>>

Launches(j) ==
    /\ svc # Down
    /\ job[j].state = "RUNNING" /\ job[j].proc = "none"
    /\ job' = [job EXCEPT ![j].proc = "runs"]
    /\ UNCHANGED <<kind, marker, up, disk, svc, faults>>

\* reconcile_pause_intents in the daemon's tick.
DaemonReconciles(j) ==
    /\ svc # Down
    /\ ~Locked(j)
    /\ job[j].intent # NoToken
    /\ job' = [job EXCEPT ![j] = Reconciled(@)]
    /\ UNCHANGED <<kind, marker, up, disk, svc, faults>>

Reaps(j) ==
    /\ svc # Down
    /\ ~Locked(j)
    /\ job[j].state \in {"RUNNING", "SUSPENDED"} /\ job[j].proc = "gone"
    /\ job' = [job EXCEPT ![j].state = "ENDED"]
    /\ UNCHANGED <<kind, marker, up, disk, svc, faults>>

\* _host_pressure_pass holding a running job, and letting it go.
PressurePauses(j) ==
    /\ "pressure" \in Wakers
    /\ svc # Down
    /\ ~Locked(j)
    /\ job[j].state = "RUNNING" /\ job[j].proc = "runs" /\ job[j].intent = NoToken
    /\ job' = [job EXCEPT ![j].state = "SUSPENDED", ![j].by = Pressure,
                          ![j].proc = "stopped"]
    /\ UNCHANGED <<kind, marker, up, disk, svc, faults>>

PressureResumes(j) ==
    /\ svc # Down
    /\ MayResume(job[j]) /\ job[j].by = Pressure
    /\ job' = [job EXCEPT ![j] = Resumed(@)]
    /\ UNCHANGED <<kind, marker, up, disk, svc, faults>>

\* `vq resume`, without a token filter.
OperatorResumes(j) ==
    /\ "operator" \in Wakers
    /\ MayResume(job[j])
    /\ job' = [job EXCEPT ![j] = Resumed(@)]
    /\ UNCHANGED <<kind, marker, up, disk, svc, faults>>

\* kill_job: the terminal row keeps paused_by; a stopped group is continued.
KillJob(j) ==
    /\ j \in Killable
    /\ ~Locked(j)
    /\ job[j].state \in {"RUNNING", "SUSPENDED"}
    /\ job' = [job EXCEPT ![j].state = "ENDED",
                          ![j].proc = IF @ = "stopped" THEN "runs" ELSE @]
    /\ UNCHANGED <<kind, marker, up, disk, svc, faults>>

JobExits(j) ==
    /\ job[j].proc = "runs"
    /\ job' = [job EXCEPT ![j].proc = "gone"]
    /\ UNCHANGED <<kind, marker, up, disk, svc, faults>>

\* `systemctl --user start vq-daemon` by the operator, or a reboot's.
ServiceStarts ==
    /\ svc = Down
    /\ up.pc = "idle"
    /\ disk.venv \notin {Absent, Partial}
    /\ svc' = disk.venv
    /\ UNCHANGED <<kind, job, marker, up, disk, faults>>

-----------------------------------------------------------------------------
PauseStep ==
    \/ RecordsScope \/ Scans \/ PauseEnds \/ Proves \/ Works
    \/ \E j \in Jobs : Visits(j) \/ SendsStop(j) \/ WritesSuspended(j)

ForwardStep ==
    \/ Arms \/ StopsDaemon \/ MovesVenv \/ RecordsMove \/ Builds \/ RecordsTarget
    \/ StartsTarget \/ VerifiesTarget \/ RecordsCommit \/ DiscardsBackup
    \/ RecordsCleanup \/ PurgesBackup \/ SettlesCommit

RestoreStep ==
    \/ StopsForRestore \/ RecordsUndo \/ Quarantines \/ PutsBack \/ RestoresCheckout
    \/ RecordsRestored \/ SweepsQuarantine \/ RestartsOld \/ VerifiesOld

EndStep ==
    \/ Resumes \/ WakesEnd \/ ProvesClear \/ Closes \/ Reproves
    \/ \E j \in Jobs : Wakes(j)

UpdaterStep == PauseStep \/ ForwardStep \/ RestoreStep \/ EndStep

Fault == BeginFails \/ ForwardFails \/ CommitFails \/ RestoreFails \/ UpdaterDies

DaemonStep ==
    \/ ReapsMarker
    \/ \E j \in Jobs : Claims(j) \/ Launches(j) \/ DaemonReconciles(j) \/ Reaps(j)

Next ==
    \/ Starts \/ UpdaterStep \/ Fault \/ Recovers \/ ClearsMarker
    \/ DaemonStep \/ ServiceStarts
    \/ \E j \in Jobs : \/ PressurePauses(j) \/ PressureResumes(j)
                       \/ OperatorResumes(j) \/ KillJob(j) \/ JobExits(j)

Spec == Init /\ [][Next]_vars

\* A live updater goes on, and the operator follows the recipe the marker prints.
Fairness ==
    /\ WF_vars(UpdaterStep)
    /\ WF_vars(Recovers) /\ WF_vars(ClearsMarker)

FairSpec == Spec /\ Fairness

-----------------------------------------------------------------------------
Versions == 0..MaxUpdates
Tokens == 0..MaxUpdates + 1

\* The types of the rows, the marker, the updater's memory, disk and service:
\* the recovery after a failed managed update is attempted at most twice.
TypeOK ==
    /\ kind \in Kinds
    /\ job \in [Jobs -> [state : {"PENDING", "RUNNING", "SUSPENDED", "ENDED"},
                         by : Tokens, intent : Tokens,
                         proc : {"none", "runs", "stopped", "gone"}]]
    /\ marker \in [on : BOOLEAN, armed : BOOLEAN, failed : BOOLEAN,
                   tx : [phase : Phases, moved : BOOLEAN, pre : Versions]]
    /\ up \in [pc : Pcs, verb : {"update", "recover", "clear"}, n : Versions,
               out : {"none", "landed", "failed", "raised", "refused"},
               todo : SUBSET Jobs, captured : SUBSET Jobs, moved : BOOLEAN, tries : 0..1]
    /\ disk \in [venv : Versions \cup {Absent, Partial}, backup : Versions \cup {Absent},
                 quar : Versions \cup {Absent, Partial}, cleanup : Versions \cup {Absent},
                 checkout : Versions]
    /\ svc \in Versions \cup {Down}
    /\ faults \in 0..MaxFaults

\* A job that an update stopped, or was about to stop, and that has not ended is
\* owned by that update's marker, on disk and armed: neither a death of the
\* updater, nor a reaper, nor a later update loses the token that resumes it.
StoppedIsOwned ==
    \A j \in Jobs : \A n \in 1..MaxUpdates :
        job[j].state # "ENDED" /\ n \in {job[j].by, job[j].intent}
          => marker.on /\ marker.armed /\ up.n = n

\* The receipt on disk tells what is where.  It names the version that is whole:
\* the target once it is committed, and the old one, in place or in the backup,
\* before that.  Wherever an updater or a recovery stops, recover-update can
\* read it: _parse_managed_update_receipt does not refuse.  And without one the
\* host is in one piece, with nothing left of the swap.
ReceiptTellsVersion ==
    IF marker.tx = NoTx
    THEN /\ svc = disk.venv /\ disk.venv = disk.checkout
         /\ {disk.backup, disk.quar, disk.cleanup} = {Absent}
    ELSE /\ IF marker.tx.phase \in Committed THEN disk.venv = up.n
            ELSE marker.tx.pre \in {disk.venv, disk.backup}
         /\ up.pc = "idle" => Located(marker.tx) # "error"

Undertaken(u) == kind # "background" /\ u.verb = "update" /\ u.pc \in Mutating \cup {"arm"}

\* An update begins its on-disk work with no job of a live row running, and
\* while it lasts no job starts: a process starts to run only when another
\* actor resumes a held job or a kill lets it die.
QuiescentBuild ==
    [][Undertaken(up') =>
         \A j \in Jobs :
            job'[j].proc = "runs" /\ job'[j].state # "ENDED" =>
                IF Undertaken(up)
                THEN job[j].proc = "runs" \/ job[j].state = "SUSPENDED"
                ELSE FALSE]_vars

\* What no retry of recover-update gets past: a killed job whose terminal row
\* still names the update, and a committed target whose daemon is stopped.
Wedged ==
    \/ \E j \in Jobs : job[j].state = "ENDED" /\ job[j].by = up.n
    \/ marker.tx.phase \in Committed /\ svc = Down

\* Every marker is removed in the end, by its updater, a recovery, a clear or
\* the daemon, unless one of those two is in the way.
MarkerEnds == []<>(~marker.on \/ Wedged)

\* admin.py: the rebuild does not race a running job.
RebuildIsAlone ==
    Undertaken(up) => \A j \in Jobs : job[j].proc # "runs" \/ job[j].state = "ENDED"
=============================================================================
