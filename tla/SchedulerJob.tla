---------------------------- MODULE SchedulerJob ----------------------------
(* One job of a scheduler target (Slurm, PBS/Torque): the daemon's transaction *)
(* around the one command that cannot be repeated, qsub/sbatch, and everything *)
(* that recovers when its answer is lost.                                      *)
(*                                                                             *)
(*   daemon.py                 _start_scheduler_job, the reconciliation of an  *)
(*                             unconfirmed submit, the poll pass, reattach     *)
(*   scheduler_dispatch.py     submit, submit_once (the remote wrapper), the   *)
(*                             job script, cancel, fetch_results               *)
(*   scheduler_start_fence.py  the per-attempt start fence                     *)
(*   scheduler_recovery.py     the operator's import of an accepted id         *)
(*   kill.py                   `vq kill` of a scheduler job                    *)
(*                                                                             *)
(* The actors are the daemon's main loop (`d`), its poll worker (`flight`),    *)
(* the submit wrapper on the cluster's login node (`wrap`), the scheduler and  *)
(* its allocations (`alloc`), `vq kill` (`killer`) and the operator.  The      *)
(* daemon runs for one user; the cluster outlives it.                          *)
EXTENDS Integers, FiniteSets

CONSTANTS
    RetryMax,       \* spec.retry_max: how often a failed attempt is run again
    Dialects,       \* the schedulers the target may run: "torque", "slurm"
    FetchLimit,     \* SCHEDULER_FETCH_FAILURE_LIMIT
    LateWrapper,    \* the wrapper may write its receipt after its job has ended
    MaxFaults       \* bound on crashes, lost answers and failing remote calls

ASSUME SchedulerAssumption ==
    /\ RetryMax \in Nat
    /\ Dialects \subseteq {"torque", "slurm"} /\ Dialects # {}
    /\ FetchLimit \in Nat \ {0}
    /\ LateWrapper \in BOOLEAN
    /\ MaxFaults \in Nat

VARIABLES
    dialect,    \* the scheduler of this target
    spec,       \* the job's spec file
    priv,       \* the daemon's private records: tokens, fence intents, imports
    d,          \* the daemon's main loop: where it is and what it has read
    run,        \* _scheduler_running[jobid]
    flight,     \* the finished observation of a poll worker
    wrap,       \* submit_once on the login node, per attempt
    ws,         \* the shared workspace: script, claims, receipt and markers
    home,       \* the exit marker in the fetched local copy of the workspace
    alloc,      \* the scheduler's allocations
    killer,     \* `vq kill`
    faults      \* faults so far

vars == <<dialect, spec, priv, d, run, flight, wrap, ws, home, alloc, killer,
          faults>>

Attempts == 0..RetryMax
Ids == 1..(RetryMax + 1)        \* each attempt calls the scheduler once
NoId == 0
NoRc == -1
Rcs == {0, 1}
Rejected == -1                  \* a receipt: ordinary nonzero exit, no id
Ambiguous == -2                 \* a receipt or answer that proves nothing
Fenced == -1                    \* a start claim taken by the operator's fence

Terminal == {"completed", "failed", "killed", "aborted"}
States == {"pending", "submitting", "unknown", "running"} \union Terminal

\* scheduler_state, as far as it decides anything.
Conflicts == {"evidence_conflict", "conflict_after_terminal"}
Unconfirmed == {"submitting", "outcome_unknown", "unknown_after_terminal",
                "cancel_pending"}
Marks == Unconfirmed \union Conflicts \union
         {"none", "finishing", "reattach_failed", "cancelled",
          "rejected", "rejected_after", "fenced", "fenced_after"}

IsTerminal == spec.state \in Terminal
Attempt == spec.retry
Live(a) == a.st \in {"queued", "claimed", "running"}
Fault == faults < MaxFaults /\ faults' = faults + 1
NoFault == UNCHANGED faults

Untracked == [id |-> NoId, qdeled |-> FALSE, misses |-> 0]
Tracked(id) == [Untracked EXCEPT !.id = id]
NoFlight == [id |-> NoId, done |-> FALSE]
NoWrapper == [pc |-> "none", out |-> Ambiguous]
Idle == [up |-> TRUE, pc |-> "idle", id |-> NoId, term |-> FALSE,
         receipt |-> NoId, rc |-> NoRc]
Down == [Idle EXCEPT !.up = FALSE]
EmptyWorkspace == [script |-> -1, claim |-> [a \in Attempts |-> NoId],
                   receipt |-> NoId, fence |-> FALSE, marker |-> NoId,
                   exit |-> NoRc]

Init ==
    /\ dialect \in Dialects
    /\ spec = [state |-> "pending", ss |-> "none", id |-> NoId, retry |-> 0,
               rc |-> NoRc]
    /\ priv = [token |-> [a \in Attempts |-> FALSE],
               intent |-> [a \in Attempts |-> FALSE],
               import |-> [a \in Attempts |-> NoId]]
    /\ d = Idle
    /\ run = Untracked
    /\ flight = NoFlight
    /\ wrap = [a \in Attempts |-> NoWrapper]
    /\ ws = EmptyWorkspace
    /\ home = NoRc
    /\ alloc = [i \in Ids |-> [st |-> "none", att |-> 0, del |-> FALSE,
                               ran |-> FALSE, how |-> "none", rc |-> NoRc]]
    /\ killer = [pc |-> "idle", id |-> NoId, warned |-> FALSE]
    /\ faults = 0

At(pc) == d.up /\ d.pc = pc
Goto(pc) == d' = [d EXCEPT !.pc = pc]
GoIdle == d' = Idle

-----------------------------------------------------------------------------
(* Dispatch: _start_scheduler_job.                                             *)

\* _prepare_scheduler_retry_evidence: what the earlier attempt left behind is
\* removed from the workspace.
Rotated(w) == [w EXCEPT !.receipt = NoId, !.fence = FALSE, !.marker = NoId,
                        !.exit = NoRc]

\* Before a retry is shown as SUBMITTING its predecessor's evidence goes; if
\* the workspace is unreachable the job stays PENDING.
RotatesEvidence ==
    /\ At("idle") /\ run.id = NoId
    /\ spec.state = "pending" /\ Attempt > 0
    /\ ws' = Rotated(ws)
    /\ Goto("claim")
    /\ UNCHANGED <<dialect, spec, priv, run, flight, wrap, home, alloc, killer,
                   faults>>

\* Phase one, under the spec lock: still PENDING, so it is written SUBMITTING,
\* or FAILED if the target's limits or the spec's gate refuse it.
Claims ==
    /\ At("claim") \/ (At("idle") /\ Attempt = 0 /\ spec.state = "pending")
    /\ \/ /\ spec.state = "pending"
          /\ spec' = [spec EXCEPT !.state = "submitting", !.ss = "submitting",
                                  !.id = NoId]
          /\ Goto("stage")
       \/ /\ spec.state = "pending"
          /\ spec' = [spec EXCEPT !.state = "failed"]
          /\ GoIdle
       \/ spec.state # "pending" /\ GoIdle /\ UNCHANGED spec
    /\ UNCHANGED <<dialect, priv, run, flight, wrap, ws, home, alloc, killer,
                   faults>>

\* issue_token, then submit stages the workspace with a script that carries the
\* token.  An attempt whose token could not be kept cannot be fenced.
Stages ==
    /\ At("stage")
    /\ \/ priv' = [priv EXCEPT !.token[Attempt] = TRUE] /\ NoFault
       \/ Fault /\ UNCHANGED priv
    /\ ws' = [(IF Attempt > 0 THEN Rotated(ws) ELSE ws)
                EXCEPT !.script = Attempt]
    /\ Goto("submit")
    /\ UNCHANGED <<dialect, spec, run, flight, wrap, home, alloc, killer>>

\* Staging failed: a SchedulerError, nothing was submitted.
StagingFails ==
    /\ At("stage")
    /\ Fault
    /\ Goto("fail")
    /\ UNCHANGED <<dialect, spec, priv, run, flight, wrap, ws, home, alloc,
                   killer>>

CallsSubmit ==
    /\ At("submit")
    /\ wrap' = [wrap EXCEPT ![Attempt].pc = "fence"]
    /\ Goto("wait")
    /\ UNCHANGED <<dialect, spec, priv, run, flight, ws, home, alloc, killer,
                   faults>>

-----------------------------------------------------------------------------
(* submit_once: one shell on the login node.  It goes on when its ssh is lost. *)

\* What is left of the shell once it is done or dead: an end of its connection,
\* if the daemon still holds the other.
Hangs(a, pc) == IF At("wait") /\ Attempt = a THEN [wrap[a] EXCEPT !.pc = pc]
                ELSE NoWrapper

\* The exclusive attempt file; earlier evidence of any kind ends the call
\* without touching the scheduler.
WrapperFences(a) ==
    /\ wrap[a].pc = "fence"
    /\ IF ws.receipt # NoId \/ ws.fence
         THEN wrap' = [wrap EXCEPT ![a] = Hangs(a, "answer")] /\ UNCHANGED ws
         ELSE /\ ws' = [ws EXCEPT !.fence = TRUE]
              /\ wrap' = [wrap EXCEPT ![a] = IF ws.marker # NoId
                                               THEN Hangs(a, "answer")
                                               ELSE [@ EXCEPT !.pc = "qsub"]]
    /\ UNCHANGED <<dialect, spec, priv, d, run, flight, home, alloc, killer,
                   faults>>

\* qsub/sbatch.  Accepted jobs normally print their id; output that is cut off
\* or a death by signal proves nothing, whether or not the job was accepted.
Qsub(a) ==
    /\ wrap[a].pc = "qsub"
    /\ \/ \E i \in Ids :
            /\ alloc[i].st = "none" /\ \A j \in Ids : j < i => alloc[j].st # "none"
            /\ alloc' = [alloc EXCEPT ![i].st = "queued", ![i].att = a]
            /\ \/ NoFault /\ wrap' = [wrap EXCEPT ![a] = [pc |-> "receipt", out |-> i]]
               \/ Fault /\ wrap' = [wrap EXCEPT ![a].pc = "receipt"]
       \/ /\ UNCHANGED alloc
          /\ \/ NoFault /\ wrap' = [wrap EXCEPT ![a] = [pc |-> "receipt",
                                                        out |-> Rejected]]
             \/ Fault /\ wrap' = [wrap EXCEPT ![a].pc = "receipt"]
    /\ UNCHANGED <<dialect, spec, priv, d, run, flight, ws, home, killer>>

\* The receipt is created exclusively; a write that fails is ignored.
WritesReceipt(a) ==
    /\ wrap[a].pc = "receipt"
    /\ \/ /\ ws' = [ws EXCEPT !.receipt = IF @ = NoId THEN wrap[a].out ELSE @]
          /\ NoFault
       \/ Fault /\ UNCHANGED ws
    /\ wrap' = [wrap EXCEPT ![a] = Hangs(a, "answer")]
    /\ UNCHANGED <<dialect, spec, priv, d, run, flight, home, alloc, killer>>

WrapperDies(a) ==
    /\ wrap[a].pc \in {"fence", "qsub", "receipt"}
    /\ Fault
    /\ wrap' = [wrap EXCEPT ![a] = Hangs(a, "dead")]
    /\ UNCHANGED <<dialect, spec, priv, d, run, flight, ws, home, alloc, killer>>

-----------------------------------------------------------------------------
(* What the daemon does with the answer.                                       *)

SubmitAnswered ==
    /\ At("wait") /\ wrap[Attempt].pc = "answer"
    /\ LET out == wrap[Attempt].out
       IN  d' = CASE out = Rejected  -> [d EXCEPT !.pc = "fail"]
                  [] out = Ambiguous -> [d EXCEPT !.pc = "park"]
                  [] OTHER -> [d EXCEPT !.pc = "commit", !.id = out]
    /\ wrap' = [wrap EXCEPT ![Attempt] = NoWrapper]
    /\ UNCHANGED <<dialect, spec, priv, run, flight, ws, home, alloc, killer,
                   faults>>

\* Nobody listens to a shell that is done.
Unheard == [a \in Attempts |-> IF wrap[a].pc \in {"answer", "dead"} THEN NoWrapper
                               ELSE wrap[a]]

\* ssh died or timed out: SchedulerSubmitOutcomeUnknown.
LosesAnswer ==
    /\ At("wait")
    /\ IF wrap[Attempt].pc = "dead" THEN NoFault ELSE Fault
    /\ Goto("park")
    /\ wrap' = Unheard
    /\ UNCHANGED <<dialect, spec, priv, run, flight, ws, home, alloc, killer>>

\* Phase two: the handle is tracked, then written.  A kill that landed in
\* between keeps its label and the new allocation is cancelled.
Commits ==
    /\ At("commit")
    /\ run' = Tracked(d.id)
    /\ IF IsTerminal
         THEN Goto("cancel") /\ spec' = [spec EXCEPT !.id = d.id]
         ELSE GoIdle /\ spec' = [spec EXCEPT !.id = d.id, !.ss = "none",
                                             !.state = "running"]
    /\ UNCHANGED <<dialect, priv, flight, wrap, ws, home, alloc, killer, faults>>

\* _fail_scheduler_dispatch_transaction: a terminal row is preserved as it is.
FailsDispatch ==
    /\ At("fail")
    /\ spec' = IF IsTerminal THEN spec
               ELSE [spec EXCEPT !.state = "failed", !.ss = "rejected",
                                 !.id = NoId]
    /\ GoIdle
    /\ UNCHANGED <<dialect, priv, run, flight, wrap, ws, home, alloc, killer,
                   faults>>

\* _mark_scheduler_submit_outcome_unknown.
MarkedUnknown(conflict) ==
    IF IsTerminal
      THEN [spec EXCEPT !.ss = IF conflict THEN "conflict_after_terminal"
                               ELSE "unknown_after_terminal"]
      ELSE [spec EXCEPT !.state = "unknown",
                        !.ss = IF conflict THEN "evidence_conflict"
                               ELSE "outcome_unknown"]

\* Mutant: a lost answer counts as a failed attempt and is retried.
ParksForRetry ==
    /\ At("park")
    /\ spec' = IF IsTerminal \/ Attempt = RetryMax THEN spec
               ELSE [spec EXCEPT !.state = "pending", !.retry = @ + 1]
    /\ GoIdle
    /\ UNCHANGED <<dialect, priv, run, flight, wrap, ws, home, alloc, killer,
                   faults>>

\* The lost answer is recorded and reconciled at once.
Parks ==
    /\ At("park")
    /\ spec' = MarkedUnknown(FALSE)
    /\ d' = [d EXCEPT !.pc = "receipt", !.term = IsTerminal]
    /\ UNCHANGED <<dialect, priv, run, flight, wrap, ws, home, alloc, killer,
                   faults>>

-----------------------------------------------------------------------------
(* _reconcile_unconfirmed_scheduler_submit, at startup and on every retry pass *)
(* of a row whose submit is not settled.                                       *)

\* Mutant: a terminal row is left alone.
NeedsEvidenceLive == spec.ss \notin Conflicts
                     /\ spec.state \in {"submitting", "unknown"}

NeedsEvidence == /\ spec.ss \notin Conflicts
                 /\ \/ spec.state \in {"submitting", "unknown"}
                    \/ IsTerminal /\ spec.ss \in Unconfirmed

RecoveryStarts ==
    /\ At("idle") /\ run.id = NoId /\ NeedsEvidence
    /\ d' = IF IsTerminal /\ spec.ss = "cancel_pending" /\ spec.id # NoId
              THEN [d EXCEPT !.pc = "cancel", !.id = spec.id]
              ELSE [d EXCEPT !.pc = "receipt", !.term = IsTerminal]
    /\ UNCHANGED <<dialect, spec, priv, run, flight, wrap, ws, home, alloc,
                   killer, faults>>

\* submit_receipt; an unreachable host reads as no receipt.
ReadsReceipt ==
    /\ At("receipt")
    /\ \/ d' = [d EXCEPT !.pc = "marker", !.receipt = ws.receipt] /\ NoFault
       \/ d' = [d EXCEPT !.pc = "marker"] /\ Fault
    /\ UNCHANGED <<dialect, spec, priv, run, flight, wrap, ws, home, alloc,
                   killer>>

\* _terminalize_unadmitted_scheduler_submit: never retried.
Terminalized(mark, after) ==
    IF ~IsTerminal
      THEN [spec EXCEPT !.state = "failed", !.ss = mark]
      ELSE IF spec.ss \in Unconfirmed \ {"cancel_pending"}
             THEN [spec EXCEPT !.ss = after] ELSE spec

\* Mutant: only the receipt is consulted.
ReadsReceiptOnly ==
    /\ At("marker")
    /\ IF d.receipt \in Ids
         THEN /\ d' = [d EXCEPT !.pc = IF d.term THEN "cancel" ELSE "attach",
                                !.id = d.receipt]
              /\ UNCHANGED spec
         ELSE GoIdle /\ spec' = MarkedUnknown(FALSE)
    /\ UNCHANGED <<dialect, priv, run, flight, wrap, ws, home, alloc, killer,
                   faults>>

\* recorded_job_id, and what the evidence together says.
ReadsMarker ==
    /\ At("marker")
    /\ \E m \in {ws.marker, NoId} :
         /\ IF m = ws.marker THEN NoFault ELSE Fault
         /\ LET ids == {m, d.receipt, priv.import[Attempt]} \intersect Ids
                next == IF d.term THEN "cancel" ELSE "attach"
            IN  \/ /\ Cardinality(ids) = 1
                   /\ d' = [d EXCEPT !.pc = next, !.id = CHOOSE i \in ids : TRUE]
                   /\ UNCHANGED spec
                \/ /\ ids = {} /\ d.receipt # Rejected /\ priv.intent[Attempt]
                   /\ Goto("fence") /\ UNCHANGED spec
                \/ /\ Cardinality(ids) # 1
                   /\ ids = {} => (d.receipt = Rejected \/ ~priv.intent[Attempt])
                   /\ GoIdle
                   /\ spec' = IF ids = {} /\ d.receipt = Rejected
                                THEN Terminalized("rejected", "rejected_after")
                                ELSE MarkedUnknown(ids # {})
    /\ UNCHANGED <<dialect, priv, run, flight, wrap, ws, home, alloc, killer>>

\* Mutant: a claim that is already there counts as the fence's own.
PlacesFenceBlind ==
    /\ At("fence")
    /\ ws' = [ws EXCEPT !.claim[Attempt] = IF @ = NoId THEN Fenced ELSE @]
    /\ Goto("fenced")
    /\ UNCHANGED <<dialect, spec, priv, run, flight, wrap, home, alloc, killer,
                   faults>>

\* FENCE_SCRIPT: an exclusive link; the claim found there decides.
PlacesFence ==
    /\ At("fence")
    /\ \/ /\ NoFault
          /\ ws.claim[Attempt] \in {NoId, Fenced}
          /\ ws' = [ws EXCEPT !.claim[Attempt] = Fenced]
          /\ Goto("fenced") /\ UNCHANGED spec
       \/ /\ IF ws.claim[Attempt] \in Ids THEN NoFault ELSE Fault
          /\ GoIdle /\ spec' = MarkedUnknown(FALSE) /\ UNCHANGED ws
    /\ UNCHANGED <<dialect, priv, run, flight, wrap, home, alloc, killer>>

RecordsFence ==
    /\ At("fenced")
    /\ spec' = Terminalized("fenced", "fenced_after")
    /\ GoIdle
    /\ UNCHANGED <<dialect, priv, run, flight, wrap, ws, home, alloc, killer,
                   faults>>

\* _persist_recovered_scheduler_job_id: refused once the row is terminal.
PersistsId ==
    /\ At("attach")
    /\ IF IsTerminal THEN Goto("cancel") /\ UNCHANGED spec
       ELSE Goto("attached") /\ spec' = [spec EXCEPT !.id = d.id]
    /\ UNCHANGED <<dialect, priv, run, flight, wrap, ws, home, alloc, killer,
                   faults>>

\* The row becomes RUNNING under the lock and is tracked; a kill in between
\* sends the allocation to cancellation.
Attaches ==
    /\ At("attached")
    /\ IF IsTerminal THEN Goto("cancel") /\ UNCHANGED <<spec, run>>
       ELSE /\ spec' = [spec EXCEPT !.state = "running", !.ss = "none"]
            /\ run' = Tracked(d.id)
            /\ GoIdle
    /\ UNCHANGED <<dialect, priv, flight, wrap, ws, home, alloc, killer, faults>>

-----------------------------------------------------------------------------
(* _cancel_recovered_terminal_scheduler_submit: ownership is written before    *)
(* the qdel and kept until a poll sees the allocation gone.                    *)

CancelOwns ==
    /\ At("cancel")
    /\ IF IsTerminal
         THEN /\ spec' = [spec EXCEPT !.id = d.id, !.ss = "cancel_pending"]
              /\ run' = Tracked(d.id)
              /\ Goto("qdel")
         ELSE GoIdle /\ UNCHANGED <<spec, run>>
    /\ UNCHANGED <<dialect, priv, flight, wrap, ws, home, alloc, killer, faults>>

\* cancel: the scheduler accepts the request; the allocation ends later.  An
\* allocation that is gone already counts as cancelled.
Cancelled(i) == [alloc EXCEPT ![i].del = TRUE]

CancelQdels ==
    /\ At("qdel")
    /\ \/ /\ NoFault
          /\ alloc' = Cancelled(d.id)
          /\ run' = [run EXCEPT !.qdeled = TRUE]
          /\ Goto("polls")
       \/ Fault /\ GoIdle /\ UNCHANGED <<alloc, run>>
    /\ UNCHANGED <<dialect, spec, priv, flight, wrap, ws, home, killer>>

CancelPolls ==
    /\ At("polls")
    /\ IF Live(alloc[d.id]) THEN UNCHANGED <<spec, run>>
       ELSE /\ spec' = [spec EXCEPT !.ss = "cancelled"]
            /\ run' = Untracked
    /\ GoIdle
    /\ UNCHANGED <<dialect, priv, flight, wrap, ws, home, alloc, killer, faults>>

-----------------------------------------------------------------------------
(* Reattachment of a RUNNING row after a restart.                              *)

Reattaches ==
    /\ At("idle") /\ run.id = NoId /\ spec.state = "running"
    /\ run' = Tracked(spec.id)
    /\ spec' = [spec EXCEPT !.ss = IF @ = "reattach_failed" THEN "none" ELSE @]
    /\ UNCHANGED <<dialect, priv, d, flight, wrap, ws, home, alloc, killer, faults>>

\* The target's dispatcher cannot be built now: retried on a later pass.
DefersReattach ==
    /\ At("idle") /\ run.id = NoId /\ spec.state = "running"
    /\ Fault
    /\ spec' = [spec EXCEPT !.ss = "reattach_failed"]
    /\ UNCHANGED <<dialect, priv, d, run, flight, wrap, ws, home, alloc, killer>>

-----------------------------------------------------------------------------
(* The poll pass: a worker observes the scheduler, the main loop applies the   *)
(* finished observation to the row as it is by then.                           *)

PollWorker ==
    /\ d.up /\ run.id # NoId /\ flight.id = NoId
    /\ flight' = [id |-> run.id, done |-> ~Live(alloc[run.id])]
    /\ UNCHANGED <<dialect, spec, priv, d, run, wrap, ws, home, alloc, killer,
                   faults>>

\* A row that was killed is qdeled first, ownership written before the call.
\* An allocation still listed only refreshes the row's status.
AppliesPoll ==
    /\ At("idle") /\ flight.id # NoId
    /\ IF run.id # flight.id
         THEN flight' = NoFlight /\ UNCHANGED <<spec, d>>
       ELSE IF IsTerminal /\ ~run.qdeled
         THEN /\ spec' = [spec EXCEPT !.id = run.id, !.ss = "cancel_pending"]
              /\ d' = [d EXCEPT !.pc = "pass_qdel", !.term = TRUE]
              /\ UNCHANGED flight
       ELSE /\ flight' = NoFlight
            /\ spec' = IF IsTerminal THEN spec
                       ELSE [spec EXCEPT !.ss = IF flight.done THEN "finishing"
                                                ELSE "none"]
            /\ d' = IF flight.done
                      THEN [d EXCEPT !.pc = "probe", !.term = IsTerminal]
                      ELSE d
    /\ UNCHANGED <<dialect, priv, run, wrap, ws, home, alloc, killer, faults>>

PassQdels ==
    /\ At("pass_qdel")
    /\ flight' = NoFlight
    /\ \/ /\ NoFault
          /\ alloc' = Cancelled(run.id)
          /\ run' = [run EXCEPT !.qdeled = TRUE]
          /\ IF flight.done THEN Goto("probe") ELSE GoIdle
       \/ Fault /\ GoIdle /\ UNCHANGED <<alloc, run>>
    /\ UNCHANGED <<dialect, spec, priv, wrap, ws, home, killer>>

\* exit_marker_code.  No marker: a killed row is dropped, any other waits out
\* the visibility grace and is then fetched one last time.
ProbesMarker ==
    /\ At("probe")
    /\ \/ /\ ws.exit # NoRc /\ NoFault
          /\ d' = [d EXCEPT !.pc = "fetch", !.rc = ws.exit] /\ UNCHANGED run
       \/ /\ ws.exit = NoRc /\ d.term /\ NoFault
          /\ GoIdle /\ run' = Untracked
       \/ /\ ws.exit = NoRc /\ ~d.term /\ NoFault
          /\ Goto("fetch") /\ UNCHANGED run
       \/ Fault /\ GoIdle /\ UNCHANGED run
    /\ UNCHANGED <<dialect, spec, priv, flight, wrap, ws, home, alloc, killer>>

\* fetch_results lays the remote workspace over the local one: it adds and
\* replaces files and never removes one.
Merged == IF ws.exit # NoRc THEN ws.exit ELSE home

\* A failed fetch is retried on later passes until the limit, then given up.
Fetches ==
    /\ At("fetch")
    /\ \/ NoFault /\ home' = Merged /\ Goto("settle") /\ UNCHANGED run
       \/ /\ Fault
          /\ run' = [run EXCEPT !.misses = @ + 1]
          /\ IF run.misses + 1 < FetchLimit THEN GoIdle ELSE Goto("settle")
          /\ UNCHANGED home
    /\ UNCHANGED <<dialect, spec, priv, flight, wrap, ws, alloc, killer>>

\* _record_finish with _maybe_retry: a terminal row only receives the code.
RecordedFinish(s, rc) ==
    IF s.state \in Terminal THEN [s EXCEPT !.rc = rc]
    ELSE IF rc # 0 /\ s.retry < RetryMax
      THEN [s EXCEPT !.state = "pending", !.retry = @ + 1, !.id = NoId,
                     !.rc = NoRc]
    ELSE [s EXCEPT !.state = IF rc = 0 THEN "completed" ELSE "failed",
                   !.rc = rc]

\* _mark_scheduler_abnormal_end, _mark_aborted_by_queue: a terminal row keeps
\* its label.
Aborted(s) == IF s.state \in Terminal THEN s ELSE [s EXCEPT !.state = "aborted"]

\* _honor_scheduler_end_over_late_kill: accounting says the job ended by itself
\* before the kill could reach it.
Honored(s, rc) ==
    IF s.state = "killed"
      THEN [s EXCEPT !.state = IF rc = 0 THEN "completed" ELSE "failed"]
      ELSE s

\* Mutant: the code decides, accounting's verdict is not consulted.
SettledByCode(rc, marker, a) ==
    IF rc = NoRc THEN Aborted(spec) ELSE RecordedFinish(spec, rc)

\* How the row is classified.  Slurm's accounting names ends the scheduler
\* caused and supplies a code when every marker is missing; Torque has neither.
Settled(rc, marker, a) ==
    IF rc = NoRc THEN Aborted(spec)
    ELSE RecordedFinish(
           IF dialect # "slurm" THEN spec
           ELSE IF a.how # "own" THEN Aborted(spec)
           ELSE IF marker = "local" THEN spec ELSE Honored(spec, rc), rc)

Settles ==
    /\ At("settle")
    /\ LET a == alloc[run.id]
       IN  spec' = IF d.rc # NoRc THEN Settled(d.rc, "remote", a)
                   ELSE IF home # NoRc THEN Settled(home, "local", a)
                   ELSE Settled(IF dialect = "slurm" THEN a.rc ELSE NoRc,
                                "accounting", a)
    /\ run' = Untracked
    /\ GoIdle
    /\ UNCHANGED <<dialect, priv, flight, wrap, ws, home, alloc, killer, faults>>

-----------------------------------------------------------------------------
(* The cluster: build_job_script on a compute node, and the scheduler.         *)

Ends(i, how, rc) == alloc' = [alloc EXCEPT ![i].st = "ended", ![i].how = how,
                                           ![i].rc = rc]

\* Timing assumed of the login node unless LateWrapper: the shell that called
\* qsub writes its receipt before that job has ended.
ReceiptIsPrompt(i) == LateWrapper \/ wrap[alloc[i].att].pc # "receipt"

\* The script's first act: it goes on only under its own start claim, and exits
\* 0 without a marker otherwise, or when it cannot write the claim.  A script
\* without a token starts at once.
JobStarts(i) ==
    /\ alloc[i].st = "queued"
    /\ LET a == alloc[i].att
           starts == /\ alloc' = [alloc EXCEPT ![i].st = "claimed"]
                     /\ ws' = IF priv.token[a] THEN [ws EXCEPT !.claim[a] = i]
                              ELSE ws
           refuses == Ends(i, "own", 0) /\ UNCHANGED ws
           own == priv.token[a] => ws.script = a /\ ws.claim[a] \in {NoId, i}
       IN  \/ own /\ NoFault /\ starts
           \/ ~own /\ NoFault /\ ReceiptIsPrompt(i) /\ refuses
           \/ own /\ priv.token[a] /\ Fault /\ ReceiptIsPrompt(i) /\ refuses
    /\ UNCHANGED <<dialect, spec, priv, d, run, flight, wrap, home, killer>>

\* It records its scheduler id, if no id is recorded, and runs the command.
JobRuns(i) ==
    /\ alloc[i].st = "claimed"
    /\ alloc' = [alloc EXCEPT ![i].st = "running", ![i].ran = TRUE]
    /\ ws' = [ws EXCEPT !.marker = IF @ = NoId THEN i ELSE @]
    /\ UNCHANGED <<dialect, spec, priv, d, run, flight, wrap, home, killer,
                   faults>>

\* __vq_finish writes the exit marker last.
JobExits(i) ==
    /\ alloc[i].st = "running" /\ ReceiptIsPrompt(i)
    /\ \E rc \in Rcs : /\ Ends(i, "own", rc)
                       /\ ws' = [ws EXCEPT !.exit = rc]
    /\ UNCHANGED <<dialect, spec, priv, d, run, flight, wrap, home, killer,
                   faults>>

\* The node is lost, or the scheduler kills the job: no marker.
JobIsLost(i) ==
    /\ Live(alloc[i]) /\ ReceiptIsPrompt(i)
    /\ Fault
    /\ \E rc \in Rcs : Ends(i, "lost", rc)
    /\ UNCHANGED <<dialect, spec, priv, d, run, flight, wrap, ws, home, killer>>

\* The scheduler reruns an interrupted job under the same id.
JobIsRequeued(i) ==
    /\ alloc[i].st = "running"
    /\ Fault
    /\ alloc' = [alloc EXCEPT ![i].st = "queued"]
    /\ UNCHANGED <<dialect, spec, priv, d, run, flight, wrap, ws, home, killer>>

\* An accepted cancellation takes effect; a running script may still trap the
\* signal and write its marker.
JobIsDeleted(i) ==
    /\ alloc[i].del /\ Live(alloc[i]) /\ ReceiptIsPrompt(i)
    /\ Ends(i, "cancelled", 1)
    /\ \/ alloc[i].st = "running" /\ ws' = [ws EXCEPT !.exit = 1]
       \/ UNCHANGED ws
    /\ UNCHANGED <<dialect, spec, priv, d, run, flight, wrap, home, killer,
                   faults>>

-----------------------------------------------------------------------------
(* `vq kill`, the operator's records, and the daemon process itself.           *)

\* kill_job: the label under the spec lock; scheduler_state is left alone.
KillWrites ==
    /\ killer.pc = "idle" /\ ~IsTerminal
    /\ spec' = [spec EXCEPT !.state = "killed"]
    /\ killer' = [killer EXCEPT !.pc = "qdel", !.id = spec.id]
    /\ UNCHANGED <<dialect, priv, d, run, flight, wrap, ws, home, alloc, faults>>

\* _cancel_scheduler_job after the lock: without an id it leaves the job to the
\* daemon; a failing qdel is reported to the caller.
KillQdels ==
    /\ killer.pc = "qdel"
    /\ \/ /\ killer.id = NoId /\ NoFault
          /\ killer' = [killer EXCEPT !.pc = "done", !.id = NoId] /\ UNCHANGED alloc
       \/ /\ killer.id # NoId /\ NoFault
          /\ killer' = [killer EXCEPT !.pc = "done", !.id = NoId]
          /\ alloc' = Cancelled(killer.id)
       \/ /\ killer.id # NoId /\ Fault
          /\ killer' = [pc |-> "done", id |-> NoId, warned |-> TRUE]
          /\ UNCHANGED alloc
    /\ UNCHANGED <<dialect, spec, priv, d, run, flight, wrap, ws, home>>

\* The daemon's RPC admits either record only for an attempt whose outcome is
\* unknown, and one of the two for each attempt.
Recordable == /\ d.up
              /\ spec.state = "unknown" /\ spec.id = NoId
              /\ spec.ss \notin Conflicts
              /\ ~priv.intent[Attempt] /\ priv.import[Attempt] = NoId

FenceRequested ==
    /\ Recordable /\ priv.token[Attempt]
    /\ priv' = [priv EXCEPT !.intent[Attempt] = TRUE]
    /\ UNCHANGED <<dialect, spec, d, run, flight, wrap, ws, home, alloc, killer,
                   faults>>

\* The operator shows the scheduler's own record of the job (Torque only).
IdImported ==
    /\ Recordable /\ dialect = "torque"
    /\ \E i \in Ids : /\ alloc[i].st # "none" /\ alloc[i].att = Attempt
                      /\ priv' = [priv EXCEPT !.import[Attempt] = i]
    /\ UNCHANGED <<dialect, spec, d, run, flight, wrap, ws, home, alloc, killer,
                   faults>>

DaemonDies ==
    /\ d.up /\ Fault
    /\ d' = Down /\ run' = Untracked /\ flight' = NoFlight /\ wrap' = Unheard
    /\ UNCHANGED <<dialect, spec, priv, ws, home, alloc, killer>>

DaemonStarts ==
    /\ ~d.up
    /\ d' = Idle
    /\ UNCHANGED <<dialect, spec, priv, run, flight, wrap, ws, home, alloc,
                   killer, faults>>

DaemonStep ==
    \/ RotatesEvidence \/ Claims \/ Stages \/ CallsSubmit
    \/ SubmitAnswered \/ LosesAnswer \/ Commits \/ FailsDispatch \/ Parks
    \/ RecoveryStarts \/ ReadsReceipt \/ ReadsMarker \/ PlacesFence
    \/ RecordsFence \/ PersistsId \/ Attaches
    \/ CancelOwns \/ CancelQdels \/ CancelPolls \/ Reattaches
    \/ AppliesPoll \/ PassQdels \/ ProbesMarker \/ Fetches \/ Settles

WrapperStep(a) == WrapperFences(a) \/ Qsub(a) \/ WritesReceipt(a)
ClusterStep(i) == JobStarts(i) \/ JobRuns(i) \/ JobIsDeleted(i)

Next ==
    \/ DaemonStep \/ StagingFails \/ DefersReattach \/ PollWorker
    \/ \E a \in Attempts : WrapperStep(a) \/ WrapperDies(a)
    \/ \E i \in Ids : \/ ClusterStep(i) \/ JobExits(i)
                      \/ JobIsLost(i) \/ JobIsRequeued(i)
    \/ KillWrites \/ KillQdels \/ FenceRequested \/ IdImported
    \/ DaemonDies \/ DaemonStarts

Spec == Init /\ [][Next]_vars

\* The daemon is restarted and its loop runs on; the login node's shell and the
\* scheduler make progress; `vq kill` finishes.  No command need ever exit, and
\* neither the user nor the operator need do anything.
Fairness ==
    /\ WF_vars(DaemonStep) /\ WF_vars(PollWorker) /\ WF_vars(DaemonStarts)
    /\ \A a \in Attempts : WF_vars(WrapperStep(a))
    /\ \A i \in Ids : WF_vars(ClusterStep(i))
    /\ WF_vars(KillQdels)

FairSpec == Spec /\ Fairness

-----------------------------------------------------------------------------
(* Properties.                                                                 *)

Wrapper == [pc : {"none", "fence", "qsub", "receipt", "answer", "dead"},
            out : Ids \union {Rejected, Ambiguous}]
Allocation == [st : {"none", "queued", "claimed", "running", "ended"},
               att : Attempts, del : BOOLEAN, ran : BOOLEAN,
               how : {"none", "own", "lost", "cancelled"},
               rc : Rcs \union {NoRc}]

\* The variables have their types; in particular qsub is called at most once
\* for each attempt, so the scheduler never holds more allocations than ids.
TypeOK ==
    /\ dialect \in Dialects
    /\ spec \in [state : States, ss : Marks, id : Ids \union {NoId},
                 retry : Attempts, rc : Rcs \union {NoRc}]
    /\ priv.token \in [Attempts -> BOOLEAN]
    /\ priv.intent \in [Attempts -> BOOLEAN]
    /\ priv.import \in [Attempts -> Ids \union {NoId}]
    /\ d.up \in BOOLEAN /\ d.term \in BOOLEAN
    /\ d.id \in Ids \union {NoId} /\ d.rc \in Rcs \union {NoRc}
    /\ run.id \in Ids \union {NoId} /\ run.misses \in 0..FetchLimit
    /\ flight.id \in Ids \union {NoId}
    /\ wrap \in [Attempts -> Wrapper]
    /\ ws.claim \in [Attempts -> Ids \union {NoId, Fenced}]
    /\ home \in Rcs \union {NoRc}
    /\ alloc \in [Ids -> Allocation]
    /\ \A i, j \in Ids : alloc[i].st # "none" /\ alloc[j].st # "none" /\ i # j
                           => alloc[i].att # alloc[j].att
    /\ faults \in 0..MaxFaults

\* An allocation that may still run its command: not one whose start the
\* operator's fence has forbidden, and not one already being deleted.
MayRun(i) == /\ Live(alloc[i]) /\ ~alloc[i].del
             /\ alloc[i].st = "queued" => ws.claim[alloc[i].att] # Fenced

\* _reserved scheduler slots: tracked, or a row the census still counts.
Reserved == \/ run.id # NoId
            \/ spec.state \in {"submitting", "unknown", "running"}
            \/ IsTerminal /\ spec.ss \in Unconfirmed

\* What a row says of its attempt is true.  Rejected or fenced before start: no
\* command of the attempt ran, and none will.  COMPLETED: its own allocation
\* ended by itself, with 0; none that the scheduler ended or invalidated, a
\* killed one included, is reaped so.
LabelIsTrue ==
    /\ spec.ss \in {"rejected", "rejected_after", "fenced", "fenced_after"} =>
         \A i \in Ids : alloc[i].st # "none" /\ alloc[i].att = Attempt =>
             ~alloc[i].ran /\ alloc[i].st # "claimed" /\ ~MayRun(i)
    /\ spec.state = "completed" =>
         \E i \in Ids : /\ alloc[i].att = Attempt
                        /\ alloc[i].how = "own" /\ alloc[i].rc = 0

\* Completion with exit code 0 proves that the command of this attempt ran.
CompletedRan ==
    spec.state = "completed" =>
        \E i \in Ids : alloc[i].att = Attempt /\ alloc[i].ran

\* An attempt is followed by another only when its allocation is gone, and a
\* rejected, fenced, killed or completed row is never run again.
RetriedOnlyAfterEnd ==
    [][spec'.retry # spec.retry =>
         /\ spec.state = "running"
         /\ \A i \in Ids : ~Live(alloc[i])]_vars

\* A job that vq kill has labelled has no allocation left in the end, however
\* the kill fell between the steps of its submission and whatever its row says
\* later, unless the kill reported that its qdel failed.
KilledStops ==
    []<>(killer.pc # "idle" => (\A i \in Ids : ~MayRun(i)) \/ killer.warned)

\* Nothing that was submitted is forgotten: an allocation whose answer was lost
\* is found again, by its receipt or its start marker, and followed by the
\* daemon; and no row runs on for ever with an allocation that has ended,
\* whatever fails while it is reaped.
NothingForgotten ==
    /\ []<>((\A i \in Ids : MayRun(i) => run.id = i) \/ killer.warned)
    /\ []<>(spec.state = "running" => Live(alloc[spec.id]))

\* The exit code in the row is the exit status of the attempt's own command.
CodeIsOwn ==
    spec.rc # NoRc =>
        \E i \in Ids : /\ alloc[i].att = Attempt /\ alloc[i].ran
                       /\ alloc[i].how # "none" /\ alloc[i].rc = spec.rc
=============================================================================
