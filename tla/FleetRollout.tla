---------------------------- MODULE FleetRollout ----------------------------
(***************************************************************************)
(* `vq admin rollout-latest` (cli.py, fleet_rollout.py, fleet_operation.py): *)
(* the controller that brings a fleet to an accepted report, one lane      *)
(* (update action) after another, and the durable protocol by which one    *)
(* lane is executed at most once by a detached supervisor, recorder and    *)
(* child that outlive the controller.  The plan has the driver's own lane  *)
(* and the two lanes, helper and runtime, of one scheduler host, which the *)
(* rollout keeps drained from the first to the last.                       *)
(*                                                                         *)
(* The fleet lock is one open file description that every process of an    *)
(* operation inherits, so a controller starts only when all are gone.      *)
(* Any process may die at any step, a child may fail, an answer of the     *)
(* drain command may be lost, the host may be out of reach while planning, *)
(* and a newer report may be accepted at any time.                         *)
(***************************************************************************)
EXTENDS Integers, Sequences, FiniteSets

CONSTANTS MaxReports,   \* bound: accepted reports; report n installs version n
          MaxAttempts,  \* bound: attempts of one lane under one report
          MaxFaults     \* bound: deaths, failed children, lost answers, timeouts

ASSUME RolloutAssumption ==
    /\ MaxReports \in Nat \ {0} /\ MaxAttempts \in Nat \ {0} /\ MaxFaults \in Nat

VARIABLES report,   \* the latest accepted report
          op,       \* the receipts of each operation (report, lane, attempt)
          journal,  \* the rollout journal of each report
          lease,    \* reports whose scheduler drain lease the daemon holds
          live,     \* the version each lane's host has deployed with LAST OK
          ctl, sup, rec, child,  \* controller, supervisor, recorder, action
          ran,      \* history: launches of each operation's action, and
                    \* whether its plan updated both lanes of the host
          faults
vars == <<report, op, journal, lease, live, ctl, sup, rec, child, ran, faults>>

Reports == 1..MaxReports
Lanes == {"driver", "helper", "runtime"}
Group == {"helper", "runtime"}
HostOf(a) == IF a = "driver" THEN "driver" ELSE "cluster"
Ops == Reports \X Lanes \X (1..MaxAttempts)
NoOp == <<0, "driver", 0>>

Unprepared == [req |-> FALSE, out |-> FALSE, ready |-> FALSE, auth |-> "none",
               act |-> FALSE, result |-> "none"]
NewRef == [harvested |-> FALSE, consumed |-> FALSE, retry |-> FALSE]
NoHold == [st |-> "none", sure |-> TRUE]
Unsettled == {"active", "cleanup-failed"}
NewRun == [att |-> [a \in Lanes |-> <<>>], status |-> [a \in Lanes |-> "none"],
           reentry |-> FALSE, hold |-> NoHold, failed |-> {}, complete |-> FALSE]

NoProc == [pc |-> "none", o |-> NoOp]
NoPlan == [a \in Lanes |-> "skip"]
Off == [pc |-> "off", rep |-> 0, ver |-> 0, ack |-> 0, todo |-> {}, o |-> NoOp,
        ret |-> "reconcile", plan |-> NoPlan, lane |-> "driver", failed |-> {},
        refs |-> {}, owns |-> FALSE, seen |-> {}]

Init ==
    /\ report = 1
    /\ op = [o \in Ops |-> Unprepared]
    /\ journal = [r \in Reports |-> NewRun]
    /\ lease = {}
    /\ live = [a \in Lanes |-> 0]
    /\ ctl = Off /\ sup = NoProc /\ rec = NoProc /\ child = NoProc
    /\ ran = [o \in Ops |-> [n |-> 0, held |-> FALSE]]
    /\ faults = 0

Faulty == faults < MaxFaults /\ faults' = faults + 1
Go(pc) == ctl' = [ctl EXCEPT !.pc = pc]
Exits == ctl' = Off
(* An exception ends the command; one inside execute_plan passes through   *)
(* its finally clause first.                                               *)
Raised == IF ctl.plan["driver"] = "update" THEN Off ELSE [ctl EXCEPT !.pc = "finally"]
Stamp(o, field, value) == op' = [op EXCEPT ![o][field] = value]
-----------------------------------------------------------------------------
(* What observe_operation says of the receipts and the lifetime lease,     *)
(* which the supervisor takes and the recorder inherits.                   *)
Busy(o) == (sup.o = o /\ sup.pc # "up") \/ rec.o = o
StateOf(o) ==
    CASE op[o].result # "none" -> "completed"
      [] op[o].result = "none" /\ Busy(o) /\ op[o].auth = "run" -> "running-authorized"
      [] op[o].result = "none" /\ Busy(o) /\ op[o].auth # "run" -> "starting"
      [] op[o].result = "none" /\ ~Busy(o) /\ op[o].auth = "run" ->
             IF op[o].act THEN "outcome-unknown" ELSE "authorized-unactivated"
      [] op[o].result = "none" /\ ~Busy(o) /\ op[o].auth # "run" ->
             IF op[o].out \/ op[o].auth = "abort" THEN "abandoned" ELSE "prepared"

Ref(o) == journal[o[1]].att[o[2]][o[3]]
Journaled(o) == o[3] <= Len(journal[o[1]].att[o[2]])
Failed(o) == op[o].result = "failed"
Unknown == \E o \in Ops : op[o].act /\ StateOf(o) = "outcome-unknown"

Upserted(j, o) ==
    IF o[3] <= Len(j.att[o[2]]) THEN j ELSE [j EXCEPT !.att[o[2]] = Append(@, NewRef)]

(* _harvest_operation folds a terminal receipt into the journal once; a    *)
(* driver that was updated must be re-entered by the new interpreter.      *)
Harvested(j, o) ==
    IF j.att[o[2]][o[3]].harvested THEN j
    ELSE [j EXCEPT !.att[o[2]][o[3]].harvested = TRUE,
                   !.status[o[2]] = IF op[o].result = "aborted" THEN "not-run"
                                    ELSE op[o].result,
                   !.reentry = @ \/ (o[2] = "driver" /\ op[o].result = "success")]
-----------------------------------------------------------------------------
(* A mutating invocation takes the fleet lock, which fails at once while   *)
(* any process of an earlier one still holds its copy, reads the accepted  *)
(* report, and refuses to go on while an operation's outcome is unknown.   *)
LockFree == ctl.pc = "off" /\ sup = NoProc /\ rec = NoProc /\ child = NoProc

Pending(o) ==
    /\ op[o].req
    /\ ~(/\ StateOf(o) = "completed" /\ Journaled(o) /\ Ref(o).harvested
         /\ (Failed(o) => Ref(o).retry))

Invoked(ack) ==
    [Off EXCEPT !.pc = "reconcile", !.rep = report, !.ver = live["driver"],
                !.ack = ack, !.todo = {o \in Ops : Pending(o)},
                !.seen = {o \in Ops : Failed(o) /\ Journaled(o) /\ Ref(o).consumed}]

Starts ==
    /\ LockFree
    /\ ~Unknown
    /\ ctl' = Invoked(0)
    /\ UNCHANGED <<report, op, journal, lease, live, sup, rec, child, ran, faults>>

(* reconcile_durable_operations: adopt, abort or harvest every operation   *)
(* of every report before the fleet is looked at.                          *)
Adopts(o) ==
    /\ ctl.pc = "reconcile" /\ o \in ctl.todo
    /\ journal' = [journal EXCEPT ![o[1]] = Upserted(@, o)]
    /\ LET state == StateOf(o) IN
       ctl' = [ctl EXCEPT !.o = o, !.ret = "reconcile", !.todo = @ \ {o},
                  !.pc = CASE state = "authorized-unactivated" -> "launch"
                           [] state \in {"running-authorized", "starting"} -> "stream"
                           [] state = "abandoned" -> "abort"
                           [] state = "prepared" ->
                                  IF o[1] = ctl.rep THEN "reconcile" ELSE "abort"
                           [] state = "completed" -> "harvest"
                           [] state = "outcome-unknown" -> "fails"]
    /\ UNCHANGED <<report, op, lease, live, sup, rec, child, ran, faults>>

(* abort_operation records the decision, then, the lease being free, the   *)
(* aborted result.                                                         *)
Aborts ==
    /\ ctl.pc = "abort"
    /\ Stamp(ctl.o, "auth", "abort")
    /\ Go("aborted")
    /\ UNCHANGED <<report, journal, lease, live, sup, rec, child, ran, faults>>

WritesAborted ==
    /\ ctl.pc = "aborted"
    /\ Stamp(ctl.o, "result", "aborted")
    /\ ctl' = IF ctl.ret = "exec" THEN Raised ELSE [ctl EXCEPT !.pc = "harvest"]
    /\ UNCHANGED <<report, journal, lease, live, sup, rec, child, ran, faults>>

(* The fence of an executed failure: consumed after one plan has skipped   *)
(* its host, the retry authorized by the next invocation's reconciliation. *)
FencedAtOnce(j, o) ==
    IF Failed(o)
    THEN [j EXCEPT !.att[o[2]][o[3]].retry = TRUE, !.att[o[2]][o[3]].consumed = TRUE] ELSE j
Fenced(j, o) ==
    IF Failed(o) /\ j.att[o[2]][o[3]].consumed
    THEN [j EXCEPT !.att[o[2]][o[3]].retry = TRUE] ELSE j

Harvests ==
    /\ ctl.pc = "harvest"
    /\ LET o == ctl.o
           j == Harvested(journal[o[1]], o)
           blocked == Failed(o) /\ ~Fenced(j, o).att[o[2]][o[3]].retry
           noted == [ctl EXCEPT !.failed = @ \cup {HostOf(o[2])},
                                !.refs = @ \cup {<<o[1], HostOf(o[2])>>}] IN
       IF ctl.ret = "exec"
       THEN /\ journal' = [journal EXCEPT ![o[1]] = j]
            /\ ctl' = CASE op[o].result = "success" -> [ctl EXCEPT !.pc = "done"]
                        [] op[o].result = "aborted" -> Raised
                        [] Failed(o) -> IF o[2] = "driver" THEN Off
                                        ELSE [noted EXCEPT !.pc = "done"]
       ELSE /\ journal' = [journal EXCEPT ![o[1]] = Fenced(j, o)]
            /\ ctl' = [(IF blocked THEN noted ELSE ctl) EXCEPT !.pc = ctl.ret]
    /\ UNCHANGED <<report, op, lease, live, sup, rec, child, ran, faults>>

(* The end of the reconciliation: a scheduler hold an obsolete rollout     *)
(* left refuses everything; a driver awaiting re-entry is acknowledged by  *)
(* the interpreter that was re-entered for it, and re-entered otherwise.   *)
Obsolete == \E r \in Reports \ {ctl.rep} : journal[r].hold.st \in Unsettled
Reconciled ==
    /\ ctl.pc = "reconcile" /\ ctl.todo = {}
    /\ journal' = [r \in Reports |-> IF r = ctl.ack
                                     THEN [journal[r] EXCEPT !.reentry = FALSE]
                                     ELSE journal[r]]
    /\ LET due == {r \in Reports \ {ctl.ack} : journal[r].reentry} IN
       ctl' = IF Obsolete \/ Cardinality(due) > 1 THEN Off
              ELSE IF due # {} THEN Invoked(CHOOSE r \in due : TRUE)
              ELSE IF ctl.ack \notin {0, ctl.rep} THEN Off
              ELSE [ctl EXCEPT !.pc = "plan"]
    /\ UNCHANGED <<report, op, lease, live, sup, rec, child, ran, faults>>

(* build_plan from fresh snapshots; a host out of reach defers its lanes.  *)
PlannedOptimist(reach) ==
    [a \in Lanes |-> IF a \in Group /\ ~reach THEN "skip"
                     ELSE IF live[a] = ctl.rep THEN "skip" ELSE "update"]
Planned(reach) ==
    [a \in Lanes |-> IF a \in Group /\ ~reach THEN "defer"
                     ELSE IF live[a] = ctl.rep THEN "skip" ELSE "update"]
Plans(reach) ==
    /\ ctl.pc = "plan"
    /\ IF reach THEN UNCHANGED faults ELSE Faulty
    /\ LET plan == Planned(reach)
           stays(o) == /\ plan[o[2]] = "update"
                       /\ "driver" \notin ctl.failed /\ HostOf(o[2]) \notin ctl.failed IN
       ctl' = [ctl EXCEPT !.pc = "unselect", !.plan = plan,
                  !.todo = {o \in Ops : /\ op[o].req /\ o[1] = ctl.rep
                                        /\ StateOf(o) = "prepared" /\ ~stays(o)}]
    /\ UNCHANGED <<report, op, journal, lease, live, sup, rec, child, ran>>

(* abort_unselected_pre_authorization_operations, then the driver's lane.  *)
Unselects ==
    /\ ctl.pc = "unselect"
    /\ IF ctl.todo # {}
       THEN \E o \in ctl.todo :
                ctl' = [ctl EXCEPT !.pc = "abort", !.o = o, !.ret = "unselect",
                                   !.todo = @ \ {o}]
       ELSE Go("driver")
    /\ UNCHANGED <<report, op, journal, lease, live, sup, rec, child, ran, faults>>

(* consume_reconciled_failure_fences, after a plan skipped the hosts.      *)
ConsumedNever(refs) == journal
Consumed(refs) ==
    [r \in Reports |->
        [journal[r] EXCEPT !.att = [a \in Lanes |->
            [n \in DOMAIN journal[r].att[a] |->
                IF /\ <<r, HostOf(a)>> \in refs /\ Failed(<<r, a, n>>)
                   /\ ~journal[r].att[a][n].consumed
                THEN [journal[r].att[a][n] EXCEPT !.consumed = TRUE]
                ELSE journal[r].att[a][n]]]]]

RunsDriver ==
    /\ ctl.pc = "driver"
    /\ IF ctl.plan["driver"] # "update"
       THEN Go("begin") /\ UNCHANGED journal
       ELSE IF "driver" \in ctl.failed
       THEN /\ journal' = Consumed({f \in ctl.refs : f[2] = "driver"})
            /\ Exits
       ELSE IF ctl.ack # 0
       THEN Exits /\ UNCHANGED journal
       ELSE /\ ctl' = [ctl EXCEPT !.pc = "prepare", !.lane = "driver"]
            /\ UNCHANGED journal
    /\ UNCHANGED <<report, op, lease, live, sup, rec, child, ran, faults>>
-----------------------------------------------------------------------------
(* execute_plan: the previous verdict is withdrawn first.  A host with     *)
(* both lanes to update has its hold journaled, unconfirmed, before the    *)
(* drain is asked for; one an earlier process left unconfirmed is asked    *)
(* for again.                                                              *)
Grouped == \A a \in Group : ctl.plan[a] = "update"
Begins ==
    /\ ctl.pc = "begin"
    /\ LET hold == journal[ctl.rep].hold
           seed == Grouped /\ hold.st \notin Unsettled
           stale == hold.st \in Unsettled /\ ~hold.sure IN
       IF report # ctl.rep THEN Exits /\ UNCHANGED journal
       ELSE /\ journal' = [journal EXCEPT ![ctl.rep].complete = FALSE, ![ctl.rep].failed = {},
                  ![ctl.rep].hold = IF seed THEN [st |-> "active", sure |-> FALSE] ELSE @]
            /\ ctl' = [ctl EXCEPT !.lane = "driver", !.ret = "lane",
                                  !.pc = IF stale THEN "acquire" ELSE "lane"]
    /\ UNCHANGED <<report, op, lease, live, sup, rec, child, ran, faults>>

(* acquire_rollout_hold: look whether the lease is there already, journal  *)
(* the owner, ask the driver's daemon, journal the confirmation.  The hold *)
(* is in the journal, unconfirmed, even when the look fails.               *)
HoldIs(st, sure) ==
    journal' = [journal EXCEPT ![ctl.rep].hold = [st |-> st, sure |-> sure]]
Confirmed == [ctl EXCEPT !.pc = ctl.ret, !.owns = TRUE]
NotHeld == IF ctl.ret = "finalize" THEN Off ELSE [ctl EXCEPT !.pc = "finally"]

Acquires ==
    /\ ctl.pc = "acquire"
    /\ IF ctl.rep \in lease
       THEN HoldIs("active", TRUE) /\ ctl' = Confirmed
       ELSE HoldIs("active", FALSE) /\ Go("ask")
    /\ UNCHANGED <<report, op, lease, live, sup, rec, child, ran, faults>>

ProbeFails ==
    /\ ctl.pc = "acquire" /\ Faulty
    /\ IF journal[ctl.rep].hold.st \in Unsettled THEN UNCHANGED journal
       ELSE HoldIs("active", FALSE)
    /\ ctl' = NotHeld
    /\ UNCHANGED <<report, op, lease, live, sup, rec, child, ran>>

Asks ==
    /\ ctl.pc = "ask"
    /\ lease' = lease \cup {ctl.rep}
    /\ Go("confirm")
    /\ UNCHANGED <<report, op, journal, live, sup, rec, child, ran, faults>>

AskFails ==
    /\ ctl.pc = "ask" /\ Faulty
    /\ lease' \in {lease, lease \cup {ctl.rep}}
    /\ ctl' = NotHeld
    /\ UNCHANGED <<report, op, journal, live, sup, rec, child, ran>>

Confirms ==
    /\ ctl.pc = "confirm"
    /\ HoldIs("active", TRUE)
    /\ ctl' = Confirmed
    /\ UNCHANGED <<report, op, lease, live, sup, rec, child, ran, faults>>

(* The serial loop.  A failed host's lanes are not run; a lane that needs  *)
(* no update keeps a recorded success; the group's hold is confirmed       *)
(* before its first lane, with the report still the current one.           *)
Onward ==
    CASE ctl.lane = "driver" -> [ctl EXCEPT !.pc = "lane", !.lane = "helper"]
      [] ctl.lane = "helper" -> [ctl EXCEPT !.pc = "lane", !.lane = "runtime"]
      [] ctl.lane = "runtime" -> [ctl EXCEPT !.pc = "conclude"]

Visits ==
    /\ ctl.pc = "lane"
    /\ LET due == ctl.plan[ctl.lane] = "update"
           kept == IF due THEN {"failed"}
                   ELSE IF ctl.plan[ctl.lane] = "skip" THEN {"success"} ELSE {} IN
       IF due /\ "cluster" \notin ctl.failed
       THEN /\ ctl' = IF ~Grouped \/ ctl.owns THEN [ctl EXCEPT !.pc = "prepare"]
                      ELSE IF report # ctl.rep THEN Raised
                      ELSE [ctl EXCEPT !.pc = "acquire", !.ret = "lane"]
            /\ UNCHANGED journal
       ELSE /\ journal' = [journal EXCEPT ![ctl.rep].status[ctl.lane] =
                              IF @ \in kept THEN @ ELSE "not-run"]
            /\ ctl' = Onward
    /\ UNCHANGED <<report, op, lease, live, sup, rec, child, ran, faults>>

(* _durable_execute_one: reuse the prepared attempt, or open the next one  *)
(* when the latest is terminal, harvested and, if it failed, reconciled.   *)
Latest == <<ctl.rep, ctl.lane, Len(journal[ctl.rep].att[ctl.lane])>>
MayOpen(o) ==
    \/ o[3] = 0
    \/ StateOf(o) = "completed" /\ Ref(o).harvested /\ (Failed(o) => Ref(o).retry)
Prepares ==
    /\ ctl.pc = "prepare"
    /\ LET o == Latest
           reuse == o[3] > 0 /\ StateOf(o) = "prepared"
           next == <<o[1], o[2], o[3] + 1>> IN
       IF report # ctl.rep \/ ~(reuse \/ MayOpen(o))
       THEN ctl' = Raised /\ UNCHANGED <<op, ran>>
       ELSE LET p == IF reuse THEN o ELSE next IN
            /\ p[3] <= MaxAttempts
            /\ ctl' = [ctl EXCEPT !.pc = "journal", !.ret = "exec", !.o = p]
            /\ Stamp(p, "req", TRUE)
            /\ ran' = [ran EXCEPT ![p].held = ctl.lane \in Group /\ Grouped]
    /\ UNCHANGED <<report, journal, lease, live, sup, rec, child, faults>>

Journals ==
    /\ ctl.pc = "journal"
    /\ journal' = [journal EXCEPT ![ctl.rep] =
           [Upserted(@, ctl.o) EXCEPT !.status[ctl.lane] = "running",
                                      !.complete = FALSE, !.failed = {}]]
    /\ Go("launch")
    /\ UNCHANGED <<report, op, lease, live, sup, rec, child, ran, faults>>

(* A supervisor is launched for a prepared operation, the report being     *)
(* still current, and to resume an authorized one whatever the report.     *)
Launches ==
    /\ ctl.pc = "launch"
    /\ IF ctl.ret = "exec" /\ report # ctl.rep
       THEN Go("fails") /\ UNCHANGED sup
       ELSE /\ sup' = [pc |-> "up", o |-> ctl.o]
            /\ Go(IF ctl.ret = "exec" THEN "ready" ELSE "stream")
    /\ UNCHANGED <<report, op, journal, lease, live, rec, child, ran, faults>>

(* wait_for_ready and authorize_operation, which takes the decision only   *)
(* for a supervisor that is alive and only if none was taken.              *)
Authorizes ==
    /\ ctl.pc = "ready"
    /\ IF op[ctl.o].ready /\ Busy(ctl.o) /\ op[ctl.o].auth = "none" /\ report = ctl.rep
       THEN Stamp(ctl.o, "auth", "run") /\ Go("stream")
       ELSE /\ sup.o # ctl.o \/ op[ctl.o].ready
            /\ Go("fails")
            /\ UNCHANGED op
    /\ UNCHANGED <<report, journal, lease, live, sup, rec, child, ran, faults>>

(* _stream_operation_until_terminal follows the operation to its result,   *)
(* or raises: outcome unknown, or the supervisor gone before activation.   *)
Streams ==
    /\ ctl.pc = "stream" /\ sup.o # ctl.o
    /\ \/ StateOf(ctl.o) = "completed" /\ Go("harvest")
       \/ StateOf(ctl.o) \in {"outcome-unknown", "authorized-unactivated"} /\ Go("fails")
    /\ UNCHANGED <<report, op, journal, lease, live, sup, rec, child, ran, faults>>

(* The exception path: the controller's own supervisor is terminated, and  *)
(* an operation nobody has decided is aborted.                             *)
Fails ==
    /\ ctl.pc = "fails"
    /\ sup' = IF sup.o = ctl.o THEN NoProc ELSE sup
    /\ ctl' = IF ctl.ret = "reconcile" THEN Off
              ELSE IF op[ctl.o].auth = "none" THEN [ctl EXCEPT !.pc = "abort"]
              ELSE Raised
    /\ UNCHANGED <<report, op, journal, lease, live, rec, child, ran, faults>>

(* After a lane: the updated driver hands over to its new interpreter,     *)
(* which inherits the lock; a host lane is followed by the next.           *)
LaneDone ==
    /\ ctl.pc = "done"
    /\ ctl' = IF ctl.lane = "driver" THEN Invoked(ctl.rep) ELSE Onward
    /\ UNCHANGED <<report, op, journal, lease, live, sup, rec, child, ran, faults>>

Concludes ==
    /\ ctl.pc = "conclude"
    /\ journal' = [Consumed(ctl.refs) EXCEPT ![ctl.rep].complete = FALSE,
                                             ![ctl.rep].failed = ctl.failed]
    /\ Go("verify")
    /\ UNCHANGED <<report, op, lease, live, sup, rec, child, ran, faults>>

(* The finally clause of execute_plan after an exception: the hold is      *)
(* released unless the host failed or one of its operations is unsettled.  *)
HostNeverUnsettled == FALSE
HostUnsettled ==
    \E a \in Group : \E n \in DOMAIN journal[ctl.rep].att[a] :
        LET o == <<ctl.rep, a, n>> IN
            ~(StateOf(o) = "completed" /\ Ref(o).harvested /\ (Failed(o) => Ref(o).retry))
Cleans ==
    /\ ctl.pc = "finally"
    /\ ctl' = IF \/ journal[ctl.rep].hold.st \notin Unsettled
                 \/ "cluster" \in ctl.failed \/ HostUnsettled
              THEN Off
              ELSE [ctl EXCEPT !.pc = "release", !.ret = "off"]
    /\ UNCHANGED <<report, op, journal, lease, live, sup, rec, child, ran, faults>>

(* release_rollout_hold by exact owner, which is idempotent.               *)
Releases ==
    /\ ctl.pc = "release"
    /\ lease' = lease \ {ctl.rep}
    /\ Go("released")
    /\ UNCHANGED <<report, op, journal, live, sup, rec, child, ran, faults>>

Unholds ==
    /\ ctl.pc = "released"
    /\ HoldIs("released", TRUE)
    /\ ctl' = IF ctl.ret = "off" THEN Off ELSE [ctl EXCEPT !.pc = ctl.ret]
    /\ UNCHANGED <<report, op, lease, live, sup, rec, child, ran, faults>>

ReleaseFails ==
    /\ ctl.pc = "release" /\ Faulty
    /\ lease' \in {lease, lease \ {ctl.rep}}
    /\ HoldIs("cleanup-failed", journal[ctl.rep].hold.sure)
    /\ ctl' = IF ctl.ret = "final" THEN [ctl EXCEPT !.pc = "final"] ELSE Off
    /\ UNCHANGED <<report, op, live, sup, rec, child, ran>>

(* reconcile_scheduler_parity_holds: a fresh plan that shows both lanes    *)
(* converged releases the hold; anything else takes or confirms it.        *)
Verifies(reach) ==
    /\ ctl.pc = "verify"
    /\ IF reach THEN UNCHANGED faults ELSE Faulty
    /\ LET plan == Planned(reach)
           converged == \A a \in Group : plan[a] = "skip" IN
       ctl' = IF report # ctl.rep THEN Off
              ELSE [ctl EXCEPT !.plan = plan, !.ret = "finalize",
                       !.pc = IF ~converged THEN "acquire"
                              ELSE IF journal[ctl.rep].hold.st \in Unsettled THEN "release"
                              ELSE "finalize"]
    /\ UNCHANGED <<report, op, journal, lease, live, sup, rec, child, ran>>

(* finalize_run asks once whether the report is the current one, releases  *)
(* the hold of a host none of whose lanes was ever started, and promotes   *)
(* the journal to complete on the fresh verdict.  Without a release only   *)
(* local steps that do not read the report lie between the question and    *)
(* the save, so the two are one step; after a release it is not asked      *)
(* again.                                                                  *)
NeverStarted ==
    \A a \in Group : journal[ctl.rep].status[a] = "not-run" /\ journal[ctl.rep].att[a] = <<>>
Settled(j) ==
    j.hold.st \notin Unsettled /\ j.failed = {}
      /\ \A a \in Lanes : j.status[a] \notin {"failed", "running"}
Finalizes ==
    /\ ctl.pc \in {"finalize", "final"}
    /\ LET j == journal[ctl.rep]
           verdict == (\A a \in Lanes : ctl.plan[a] = "skip") /\ Settled(j) IN
       IF ctl.pc = "finalize" /\ report # ctl.rep THEN Exits /\ UNCHANGED journal
       ELSE IF ctl.pc = "finalize" /\ j.hold.st \in Unsettled /\ NeverStarted
       THEN ctl' = [ctl EXCEPT !.pc = "release", !.ret = "final"] /\ UNCHANGED journal
       ELSE Exits /\ journal' = [journal EXCEPT ![ctl.rep].complete = verdict]
    /\ UNCHANGED <<report, op, lease, live, sup, rec, child, ran, faults>>

(* Ctrl-C while an operation is awaited is an exception like any other.    *)
Interrupts ==
    /\ ctl.pc \in {"ready", "stream"} /\ Faulty
    /\ Go("fails")
    /\ UNCHANGED <<report, op, journal, lease, live, sup, rec, child, ran>>
-----------------------------------------------------------------------------
(* run_supervisor takes the lifetime lease and reads the receipts: it      *)
(* finishes an abort, resumes a run that was never activated, and starts   *)
(* only an operation no supervisor has touched.                            *)
TakesLease ==
    /\ sup.pc = "up"
    /\ LET r == op[sup.o] IN
       /\ op' = IF r.result # "none" \/ r.act THEN op
                ELSE IF r.auth = "abort" THEN [op EXCEPT ![sup.o].result = "aborted"]
                ELSE [op EXCEPT ![sup.o].out = TRUE]
       /\ sup' = IF r.result # "none" \/ r.act \/ r.auth = "abort"
                       \/ (r.auth = "none" /\ (r.out \/ r.ready))
                 THEN NoProc
                 ELSE [sup EXCEPT !.pc = IF r.auth = "run" THEN "go" ELSE "out"]
    /\ UNCHANGED <<report, journal, lease, live, ctl, rec, child, ran, faults>>

Readies ==
    /\ sup.pc = "out"
    /\ Stamp(sup.o, "ready", TRUE)
    /\ sup' = [sup EXCEPT !.pc = "wait"]
    /\ UNCHANGED <<report, journal, lease, live, ctl, rec, child, ran, faults>>

(* _wait_for_authorization: the controller's decision, or the timeout's    *)
(* abort when there is none yet.  With a live controller it is a fault.    *)
TimesOut ==
    /\ sup.pc = "wait" /\ op[sup.o].auth = "none"
    /\ IF ctl.o = sup.o THEN Faulty ELSE UNCHANGED faults
    /\ Stamp(sup.o, "auth", "abort")
    /\ UNCHANGED <<report, journal, lease, live, ctl, sup, rec, child, ran>>

Obeys ==
    /\ sup.pc = "wait" /\ op[sup.o].auth # "none"
    /\ IF op[sup.o].auth = "run"
       THEN sup' = [sup EXCEPT !.pc = "go"] /\ UNCHANGED op
       ELSE sup' = NoProc /\ Stamp(sup.o, "result", "aborted")
    /\ UNCHANGED <<report, journal, lease, live, ctl, rec, child, ran, faults>>

(* The recorder, in a session of its own, inherits the lease.  From here   *)
(* the supervisor only waits for it.                                       *)
HandsOver ==
    /\ sup.pc = "go"
    /\ rec' = [pc |-> "up", o |-> sup.o]
    /\ sup' = NoProc
    /\ UNCHANGED <<report, op, journal, lease, live, ctl, child, ran, faults>>

(* run_recorder: the launch intent is durable before the action starts.    *)
ActivatesLate ==
    /\ rec.pc = "up"
    /\ rec' = [rec EXCEPT !.pc = "act"]
    /\ UNCHANGED <<report, op, journal, lease, live, ctl, sup, child, ran, faults>>
Activates ==
    /\ rec.pc = "up"
    /\ LET r == op[rec.o] IN
       IF r.ready /\ r.auth = "run" /\ r.result = "none" /\ ~r.act
       THEN Stamp(rec.o, "act", TRUE) /\ rec' = [rec EXCEPT !.pc = "act"]
       ELSE rec' = NoProc /\ UNCHANGED op
    /\ UNCHANGED <<report, journal, lease, live, ctl, sup, child, ran, faults>>

Spawns ==
    /\ rec.pc = "act"
    /\ child' = [pc |-> "run", o |-> rec.o]
    /\ ran' = [ran EXCEPT ![rec.o].n = @ + 1]
    /\ rec' = [rec EXCEPT !.pc = "run"]
    /\ UNCHANGED <<report, op, journal, lease, live, ctl, sup, faults>>

(* The action: it installs the report's version, or exits 0 with nothing   *)
(* verified, or fails and may leave the lane without a verified version.   *)
ChildEnds ==
    /\ child.pc = "run"
    /\ LET a == child.o[2]
           ends(rc) == child' = IF rec.o = child.o THEN [child EXCEPT !.pc = rc] ELSE NoProc IN
       \/ live' = [live EXCEPT ![a] = child.o[1]] /\ ends("ok") /\ UNCHANGED faults
       \/ live' = [live EXCEPT ![a] = 0] /\ ends("ok") /\ Faulty
       \/ live' \in {live, [live EXCEPT ![a] = 0]} /\ ends("bad") /\ Faulty
    /\ UNCHANGED <<report, op, journal, lease, ctl, sup, rec, ran>>

Records ==
    /\ rec.pc = "run" /\ child.pc \in {"ok", "bad"}
    /\ Stamp(rec.o, "result", IF child.pc = "ok" THEN "success" ELSE "failed")
    /\ rec' = NoProc /\ child' = NoProc
    /\ UNCHANGED <<report, journal, lease, live, ctl, sup, ran, faults>>
-----------------------------------------------------------------------------
(* Deaths, and the acceptance of a newer report.                           *)
ControllerDies ==
    /\ ctl.pc # "off" /\ Faulty
    /\ Exits
    /\ UNCHANGED <<report, op, journal, lease, live, sup, rec, child, ran>>

SupervisorDies ==
    /\ sup # NoProc /\ Faulty
    /\ sup' = NoProc
    /\ UNCHANGED <<report, op, journal, lease, live, ctl, rec, child, ran>>

RecorderDies ==
    /\ rec # NoProc /\ Faulty
    /\ rec' = NoProc
    /\ child' = IF child.pc = "run" THEN child ELSE NoProc
    /\ UNCHANGED <<report, op, journal, lease, live, ctl, sup, ran>>

(* `vq admin reconcile-operation`: the owner settles a runtime update whose *)
(* outcome is unknown as a success, on the evidence of the retained remote *)
(* run and of a fresh verification of the version it installed.            *)
ReconcilesOperation(o) ==
    /\ o[2] = "runtime" /\ live["runtime"] = o[1] /\ child.o # o
    /\ ran[o].n = 1 /\ StateOf(o) = "outcome-unknown"
    /\ Stamp(o, "result", "success")
    /\ UNCHANGED <<report, journal, lease, live, ctl, sup, rec, child, ran, faults>>

NewReport ==
    /\ report < MaxReports
    /\ report' = report + 1
    /\ UNCHANGED <<op, journal, lease, live, ctl, sup, rec, child, ran, faults>>
-----------------------------------------------------------------------------
ReconcileStep ==
    (\E o \in Ops : Adopts(o)) \/ Aborts \/ WritesAborted \/ Harvests \/ Reconciled
PlanStep == Plans(TRUE) \/ Unselects \/ RunsDriver \/ Begins
HoldStep == Acquires \/ Asks \/ Confirms \/ Releases \/ Unholds
LaneStep ==
    Visits \/ Prepares \/ Journals \/ Launches \/ Authorizes \/ Streams \/ Fails \/ LaneDone
EndStep == Concludes \/ Cleans \/ Verifies(TRUE) \/ Finalizes
ControllerStep == ReconcileStep \/ PlanStep \/ HoldStep \/ LaneStep \/ EndStep
SupervisorStep == TakesLease \/ Readies \/ TimesOut \/ Obeys \/ HandsOver
RecorderStep == Activates \/ Spawns \/ Records
Fault ==
    \/ Plans(FALSE) \/ Verifies(FALSE) \/ ProbeFails \/ AskFails \/ ReleaseFails
    \/ Interrupts \/ ControllerDies \/ SupervisorDies \/ RecorderDies

Next ==
    \/ Starts \/ ControllerStep \/ SupervisorStep \/ RecorderStep \/ ChildEnds
    \/ NewReport \/ (\E o \in Ops : ReconcilesOperation(o)) \/ Fault

Spec == Init /\ [][Next]_vars

(* Every process runs; the operator repeats the command until it is done.  *)
Fairness ==
    /\ WF_vars(Starts) /\ WF_vars(ControllerStep) /\ WF_vars(SupervisorStep)
    /\ WF_vars(RecorderStep) /\ WF_vars(ChildEnds)
FairSpec == Spec /\ Fairness
-----------------------------------------------------------------------------
Receipts == [req : BOOLEAN, out : BOOLEAN, ready : BOOLEAN, act : BOOLEAN,
             auth : {"none", "run", "abort"},
             result : {"none", "success", "failed", "aborted"}]

(* Receipts are created once and in order, an attempt is journaled in the  *)
(* order it was opened, and the processes work on prepared operations.     *)
TypeOK ==
    /\ report \in Reports /\ lease \subseteq Reports /\ faults \in 0..MaxFaults
    /\ op \in [Ops -> Receipts] /\ live \in [Lanes -> 0..MaxReports]
    /\ \A o \in Ops :
         /\ op[o].out => op[o].req
         /\ op[o].ready => op[o].out
         /\ op[o].auth = "run" => op[o].ready
         /\ op[o].act => op[o].auth = "run"
         /\ op[o].result = "aborted" <=> op[o].auth = "abort" /\ op[o].result # "none"
         /\ op[o].req /\ o[3] > 1 => op[<<o[1], o[2], o[3] - 1>>].req
         /\ Journaled(o) => op[o].req
    /\ \A p \in {sup, rec, child} : p # NoProc => op[p.o].req

(* The action of an operation is launched at most once, whichever process  *)
(* dies where and however often the command is repeated, and its receipt   *)
(* tells the truth: an operation recorded as aborted, which may be         *)
(* attempted again, never ran, and one recorded as executed did.           *)
LaunchedOnce ==
    \A o \in Ops :
        /\ ran[o].n <= 1
        /\ op[o].result = "aborted" => ran[o].n = 0 /\ rec.o # o
        /\ op[o].result \in {"success", "failed"} => ran[o].n = 1

(* A host both of whose lanes are to be updated is drained while either    *)
(* runs, also when the controller that drained it is gone; and the daemon  *)
(* never holds a drain of a rollout whose journal does not own it, so none *)
(* outlives every record of it.                                            *)
GroupIsHeld ==
    /\ child.pc = "run" /\ ran[child.o].held => child.o[1] \in lease
    /\ \A r \in lease : journal[r].hold.st \in Unsettled

(* A further attempt is opened only when every operation that was ever     *)
(* authorized has its result, the earlier attempts are harvested, and each *)
(* failed one was reconciled by an earlier invocation than this one.       *)
OpenedAfterProof ==
    [][\A o \in Ops : op'[o].req /\ ~op[o].req =>
          /\ \A p \in Ops : op[p].auth # "none" => op[p].result # "none"
          /\ \A n \in 1..(o[3] - 1) :
               LET p == <<o[1], o[2], n>> IN
                   Ref(p).harvested /\ (Failed(p) => p \in ctl.seen)]_vars

(* A rollout is marked complete only while its report is the current one,  *)
(* every lane is live at it, its host is no longer drained, and nothing it *)
(* started is pending.                                                     *)
CompleteIsTrue ==
    [][\A r \in Reports : journal'[r].complete /\ ~journal[r].complete =>
          /\ report = r /\ r \notin lease
          /\ \A a \in Lanes : live[a] = r
          /\ \A o \in Ops : o[1] = r => ~Pending(o)]_vars

(* Repeating the command completes the current rollout, unless an outcome  *)
(* is unknown or an obsolete rollout's hold was left for the operator.     *)
Stranded == \E r \in Reports \ {report} : journal[r].hold.st \in Unsettled
Converges == []<>(journal[report].complete \/ Unknown \/ Stranded)
=============================================================================
