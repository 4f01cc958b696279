------------------------- MODULE FleetRolloutHoldProofs -------------------------
(***************************************************************************)
(* The drain of a scheduler host outlives the controller and ends in time: *)
(* on top of Base, the invariant DrainInv ties the lease the daemon holds  *)
(* to the hold the journal owns and to the operations that were authorized *)
(* under it, and one lemma per step shows that it is kept.                 *)
(***************************************************************************)
EXTENDS FleetRolloutProofs

(* An operation that was authorized to run and has no result yet.          *)
RunOpen(o) == op[o].auth = "run" /\ op[o].result = "none"
(* reconcile_durable_operations is at work, on its list or on one          *)
(* operation of it.                                                        *)
Reconciling == ctl.pc = "reconcile" \/ (ctl.pc \in OnOp /\ ctl.ret = "reconcile")
(* The finally clause of execute_plan releases the hold.                   *)
Releasing == ctl.pc \in {"release", "released"} /\ ctl.ret = "off"

(* What the records promise whoever reads them: an authorized operation is *)
(* journaled, so that the finally clause sees it; the hold it was          *)
(* authorized under is still leased; and a lease is owned by a hold of the *)
(* journal that is not settled.                                            *)
Stored ==
    /\ \A o \in Ops : op[o].req => o[3] <= Len(journal[o[1]].att[o[2]]) + 1
    /\ \A o \in Ops : op[o].auth = "run" => Journaled(o)
    /\ \A o \in Ops : ran[o].held => o[2] \in Group
    /\ \A o \in Ops : RunOpen(o) /\ ran[o].held => o[1] \in lease
    /\ \A r \in lease : journal[r].hold.st \in Unsettled

(* A controller past its reconciliation has left no authorized operation   *)
(* without a result, except the one it is working on. The release of the   *)
(* finally clause happens with the host's operations settled.              *)
Followed ==
    /\ ctl.pc \notin {"off", "finally"} /\ ~Releasing =>
          \A o \in Ops : RunOpen(o) => \/ o = ctl.o /\ ctl.pc \in OnOp
                                       \/ o \in ctl.todo /\ Reconciling
    /\ Releasing => \A o \in Ops : RunOpen(o) => o[1] # ctl.rep \/ o[2] \notin Group

(* The steps of _durable_execute_one before the decision to run is taken.  *)
Executing == {"journal", "launch", "ready"}
(* What the controller's step says of the journal and of the lease: an     *)
(* operation of a drained host is launched and authorized with the lease   *)
(* held, ownership of the hold once confirmed lasts until the release, and *)
(* the drain is asked for with the hold journaled.                         *)
InStep ==
    /\ ctl.pc \in {"launch", "ready"} => Journaled(ctl.o)
    /\ ctl.pc \in {"journal", "ready"} => ctl.ret = "exec"
    /\ ctl.pc \in Executing /\ ctl.ret = "exec" => ctl.o[1] = ctl.rep
    /\ ctl.pc \in Executing /\ ctl.ret = "exec" /\ ran[ctl.o].held => ctl.rep \in lease
    /\ ctl.owns => ctl.rep \in lease \/ ctl.pc \in {"off", "release", "released", "finalize", "final"}
    /\ ctl.pc = "prepare" /\ ctl.lane \in Group /\ Grouped => ctl.rep \in lease
    /\ ctl.pc = "confirm" => ctl.rep \in lease
    /\ ctl.pc \in {"ask", "confirm", "release"} => journal[ctl.rep].hold.st \in Unsettled
    /\ ctl.pc = "released" => ctl.rep \notin lease

(* The inductive invariant, relative to Base.                              *)
DrainInv == Stored /\ Followed /\ InStep
-----------------------------------------------------------------------------
(* No step removes a reference from a journal.                             *)
Grows == \A r \in Reports, a \in Lanes : Len(journal[r].att[a]) <= Len(journal'[r].att[a])

(* The attempts of a lane are a finite sequence.                           *)
LEMMA Lengths ==
    ASSUME Types, NEW r \in Reports, NEW a \in Lanes
    PROVE  journal[r].att[a] \in Seq(Refs) /\ Len(journal[r].att[a]) \in Nat
<1>1. journal[r] \in Runs
  BY Zenon DEF Types
<1>2. journal[r].att[a] \in Seq(Refs)
  BY <1>1, Zenon DEF Runs
<1> QED
  BY <1>2, SeqIs, Zenon

(* A journal that keeps its attempts grows.                                *)
LEMMA SameGrows ==
    ASSUME Base, \A r \in Reports, a \in Lanes : Len(journal'[r].att[a]) = Len(journal[r].att[a])
    PROVE  Grows
<1> SUFFICES ASSUME NEW r \in Reports, NEW a \in Lanes
             PROVE  Len(journal[r].att[a]) <= Len(journal'[r].att[a])
  BY Zenon DEF Grows
<1>1. Len(journal[r].att[a]) \in Nat
  BY Lengths, Zenon DEF Base
<1> QED
  BY <1>1

(* So does one with a reference appended, and then the attempt is          *)
(* journaled.                                                              *)
LEMMA AppendGrows ==
    ASSUME Base, NEW o \in Ops,
           \A r \in Reports : r # o[1] => journal'[r] = journal[r],
           \A a \in Lanes : journal'[o[1]].att[a] =
               IF a = o[2] /\ o[3] > Len(journal[o[1]].att[a])
               THEN Append(journal[o[1]].att[a], NewRef) ELSE journal[o[1]].att[a]
    PROVE  /\ Grows
           /\ o[3] <= Len(journal[o[1]].att[o[2]]) + 1 => o[3] <= Len(journal'[o[1]].att[o[2]])
<1>0. o[1] \in Reports /\ o[2] \in Lanes /\ o[3] \in Nat
  BY OpParts, RolloutAssumption DEF RolloutAssumption
<1>1. ASSUME NEW r \in Reports, NEW a \in Lanes
      PROVE  /\ Len(journal[r].att[a]) \in Nat
             /\ Len(journal'[r].att[a]) = Len(journal[r].att[a])
                  \/ Len(journal'[r].att[a]) = Len(journal[r].att[a]) + 1
  <2>1. journal[r].att[a] \in Seq(Refs) /\ Len(journal[r].att[a]) \in Nat
    BY Lengths, Zenon DEF Base
  <2>2. Len(Append(journal[r].att[a], NewRef)) = Len(journal[r].att[a]) + 1
    BY <2>1, SeqAppend DEF NewRef, Refs
  <2>3. CASE r = o[1]
    BY <2>1, <2>2, <2>3, Zenon
  <2>4. CASE r # o[1]
    BY <2>1, <2>4, Zenon
  <2> QED
    BY <2>3, <2>4, Zenon
<1>2. Grows
  <2> SUFFICES ASSUME NEW r \in Reports, NEW a \in Lanes
               PROVE  Len(journal[r].att[a]) <= Len(journal'[r].att[a])
    BY Zenon DEF Grows
  <2> QED
    BY <1>1
<1>3. ASSUME o[3] <= Len(journal[o[1]].att[o[2]]) + 1
      PROVE  o[3] <= Len(journal'[o[1]].att[o[2]])
  <2>1. journal[o[1]].att[o[2]] \in Seq(Refs) /\ Len(journal[o[1]].att[o[2]]) \in Nat
    BY <1>0, Lengths, Zenon DEF Base
  <2>2. Len(Append(journal[o[1]].att[o[2]], NewRef)) = Len(journal[o[1]].att[o[2]]) + 1
    BY <2>1, SeqAppend DEF NewRef, Refs
  <2>3. CASE o[3] > Len(journal[o[1]].att[o[2]])
    <3>1. Len(journal'[o[1]].att[o[2]]) = Len(journal[o[1]].att[o[2]]) + 1
      BY <1>0, <2>2, <2>3, Zenon
    <3> QED
      BY <3>1, <1>3, Zenon
  <2>4. CASE ~(o[3] > Len(journal[o[1]].att[o[2]]))
    <3>1. Len(journal'[o[1]].att[o[2]]) = Len(journal[o[1]].att[o[2]])
      BY <1>0, <2>4, Zenon
    <3> QED
      BY <3>1, <2>1, <2>4, <1>0
  <2> QED
    BY <2>3, <2>4, Zenon
<1> QED
  BY <1>2, <1>3, Zenon

(* What is journaled stays journaled.                                      *)
LEMMA StaysJournaled ==
    ASSUME Base, Base', Grows, NEW o \in Ops
    PROVE  /\ Journaled(o) => Journaled(o)'
           /\ o[3] <= Len(journal[o[1]].att[o[2]]) + 1 => o[3] <= Len(journal'[o[1]].att[o[2]]) + 1
<1>1. o[1] \in Reports /\ o[2] \in Lanes /\ o[3] \in Nat
  BY OpParts, RolloutAssumption DEF RolloutAssumption
<1>2. Len(journal[o[1]].att[o[2]]) \in Nat
  BY <1>1, Lengths, Zenon DEF Base
<1>3. Len(journal[o[1]].att[o[2]]) <= Len(journal'[o[1]].att[o[2]])
  BY <1>1, Zenon DEF Grows
<1>4. Len(journal'[o[1]].att[o[2]]) \in Int
  BY <1>1, <1>2, <1>3, Lengths DEF Base
<1> DEFINE old == Len(journal[o[1]].att[o[2]])
           new == Len(journal'[o[1]].att[o[2]])
<1>5. (o[3] <= old => o[3] <= new) /\ (o[3] <= old + 1 => o[3] <= new + 1)
  <2>1. old \in Nat /\ new \in Int /\ old <= new /\ o[3] \in Nat
    BY <1>1, <1>2, <1>3, <1>4, Zenon
  <2> HIDE DEF old, new
  <2> QED
    BY <2>1
<1> QED
  BY <1>5, Zenon DEF Journaled

(* A step that writes no receipt and takes no lease back keeps Stored.     *)
LEMMA StoredKept ==
    ASSUME Base, Base', Stored, op' = op, ran' = ran, Grows, lease \subseteq lease',
           \A r \in lease' : journal'[r].hold.st \in Unsettled
    PROVE  Stored'
<1>1. \A o \in Ops : /\ Journaled(o) => Journaled(o)'
                     /\ o[3] <= Len(journal[o[1]].att[o[2]]) + 1
                          => o[3] <= Len(journal'[o[1]].att[o[2]]) + 1
  BY StaysJournaled, Zenon
<1> QED
  BY <1>1, Zenon DEF Stored, RunOpen

(* Nothing is requested or authorized, and nothing loses its result.       *)
Settles ==
    \A o \in Ops : /\ op'[o].req => op[o].req
                   /\ op'[o].auth = "run" => op[o].auth = "run"
                   /\ op'[o].auth = "run" /\ op'[o].result = "none" => op[o].result = "none"
                   /\ ran'[o].held = ran[o].held

(* A step that only settles operations keeps Stored.                       *)
LEMMA StoredSettles ==
    ASSUME Stored, UNCHANGED <<journal, lease>>, Settles
    PROVE  Stored'
  BY Zenon DEF Stored, Settles, RunOpen, Journaled

(* So does the whole invariant when the controller stands still.           *)
LEMMA Aside ==
    ASSUME Base, DrainInv, UNCHANGED <<journal, lease, ctl>>, Settles
    PROVE  DrainInv'
<1>1. Stored'
  BY StoredSettles, Zenon DEF DrainInv
<1>2. Followed'
  BY Zenon DEF DrainInv, Followed, Settles, RunOpen, Releasing, Reconciling
<1>3. ctl.pc \in Executing => ctl.o \in Ops
  BY Zenon DEF Base, ControllerAgrees, Executing, OnOp
<1>4. InStep'
  BY <1>3, Zenon DEF DrainInv, InStep, Settles, Journaled, Grouped
<1> QED
  BY <1>1, <1>2, <1>4, Zenon DEF DrainInv

\* No operation is authorized and without result.
Free == \A o \in Ops : ~RunOpen(o)

(* Away from the work on an operation, nothing is authorized and without   *)
(* result.                                                                 *)
LEMMA IsFree ==
    ASSUME Followed, ctl.pc \notin OnOp \cup {"off", "finally", "reconcile"}, ~Releasing
    PROVE  Free
  BY Zenon DEF Followed, Free, Reconciling

(* Then the controller may go anywhere.                                    *)
LEMMA StaysFree ==
    ASSUME Free, op' = op
    PROVE  Followed'
  BY Zenon DEF Free, Followed, RunOpen

(* The steps InStep says nothing about but for the ownership of the hold.  *)
Calmly == {"off", "finally", "reconcile", "plan", "unselect", "driver", "begin", "acquire", "lane", "done",
           "conclude", "verify", "finalize", "final", "stream", "fails", "abort", "aborted", "harvest"}
(* Such a step keeps InStep.                                               *)
LEMMA CalmInStep ==
    ASSUME ctl'.pc \in Calmly, ctl'.owns => ctl'.rep \in lease' \/ ctl'.pc \in {"off", "finalize", "final"}
    PROVE  InStep'
  BY Zenon DEF InStep, Calmly, Executing

(* So does the end of the command.                                         *)
LEMMA OffInStep ==
    ASSUME ctl' = Off PROVE Followed' /\ InStep'
<1>1. ctl'.pc = "off" /\ ~ctl'.owns
  BY OffIs, Zenon
<1>2. InStep'
  BY <1>1, CalmInStep, Zenon DEF Calmly
<1>3. Followed'
  BY <1>1, Zenon DEF Followed, Releasing
<1> QED
  BY <1>2, <1>3, Zenon

\* c differs from ctl in its step alone.
But(c) == /\ c.rep = ctl.rep /\ c.todo = ctl.todo /\ c.o = ctl.o /\ c.ret = ctl.ret /\ c.plan = ctl.plan
          /\ c.lane = ctl.lane /\ c.owns = ctl.owns
(* Changing the step changes nothing else.                                 *)
LEMMA GoIs ==
    ASSUME ctl \in Controllers, NEW pc
    PROVE  [ctl EXCEPT !.pc = pc].pc = pc /\ But([ctl EXCEPT !.pc = pc])
  BY Zenon DEF Controllers, But

(* The finally clause is reached with the lease still held, if it was.     *)
LEMMA FinallyInStep ==
    ASSUME Base, InStep, lease \subseteq lease', ctl' = [ctl EXCEPT !.pc = "finally"],
           ctl.pc \notin {"off", "release", "released", "finalize", "final"}
    PROVE  Followed' /\ InStep'
<1>1. ctl'.pc = "finally" /\ ctl'.rep = ctl.rep /\ ctl'.owns = ctl.owns
  BY GoIs, Zenon DEF Base, Types, But
<1>2. InStep'
  <2>1. ctl'.owns => ctl'.rep \in lease'
    BY <1>1, Zenon DEF InStep
  <2> QED
    BY <1>1, <2>1, CalmInStep, Zenon DEF Calmly
<1>3. Followed'
  BY <1>1, Zenon DEF Followed, Releasing
<1> QED
  BY <1>2, <1>3, Zenon

-----------------------------------------------------------------------------
(* The processes of an operation, the operator and the reports.            *)
(* The supervisor, the recorder, the child, the operator and a new report. *)
LEMMA OthersDrain ==
    ASSUME Base, DrainInv,
           \/ SupervisorStep \/ RecorderStep \/ ChildEnds \/ NewReport
           \/ (\E o \in Ops : ReconcilesOperation(o)) \/ SupervisorDies \/ RecorderDies \/ UNCHANGED vars
    PROVE  DrainInv'
<1>1. Types /\ sup \in Procs({"up", "out", "wait", "go"}) /\ rec \in Procs({"up", "act", "run"})
  BY Zenon DEF Base, Types
<1>2. CASE op' = op /\ ran' = ran /\ UNCHANGED <<journal, lease, ctl>>
  <2>1. Settles
    BY <1>2, Zenon DEF Settles
  <2> QED
    BY <1>2, <2>1, Aside, Zenon
<1>3. ASSUME NEW o \in Ops, NEW f \in {"out", "ready", "act", "result"}, NEW v, f = "result" => v # "none",
             Stamp(o, f, v),
             ran' = ran, UNCHANGED <<journal, lease, ctl>>
      PROVE  DrainInv'
  <2>1. op \in [Ops -> Receipts]
    BY <1>1, Zenon DEF Types
  <2>2. Settles
    BY <2>1, <1>3, Zenon DEF Settles, Stamp, Receipts
  <2> QED
    BY <1>3, <2>2, Aside, Zenon
<1>4. ASSUME NEW o \in Ops, Stamp(o, "auth", "abort"), ran' = ran, UNCHANGED <<journal, lease, ctl>>
      PROVE  DrainInv'
  <2>1. op \in [Ops -> Receipts]
    BY <1>1, Zenon DEF Types
  <2>2. Settles
    BY <2>1, <1>4, ZenonT(30) DEF Settles, Stamp, Receipts
  <2> QED
    BY <1>4, <2>2, Aside, Zenon
<1>5. (sup.pc # "none" => sup.o \in Ops) /\ (rec.pc # "none" => rec.o \in Ops)
  BY <1>1 DEF Procs, NoProc
<1>6. CASE TakesLease
  <2>1. sup.o \in Ops
    BY <1>5, <1>6, Zenon DEF TakesLease
  <2>2. \/ op' = op \/ Stamp(sup.o, "result", "aborted") \/ Stamp(sup.o, "out", TRUE)
    BY <1>6, Zenon DEF TakesLease, Stamp
  <2>3. ran' = ran /\ UNCHANGED <<journal, lease, ctl>>
    BY <1>6, Zenon DEF TakesLease
  <2> QED
    BY <1>2, <1>3, <2>1, <2>2, <2>3, Zenon
<1>7. CASE Readies \/ TimesOut \/ Obeys
  <2>1. sup.o \in Ops
    BY <1>5, <1>7, Zenon DEF Readies, TimesOut, Obeys
  <2>2. \/ op' = op \/ Stamp(sup.o, "result", "aborted") \/ Stamp(sup.o, "ready", TRUE)
        \/ Stamp(sup.o, "auth", "abort")
    BY <1>7, Zenon DEF Readies, TimesOut, Obeys
  <2>3. ran' = ran /\ UNCHANGED <<journal, lease, ctl>>
    BY <1>7, Zenon DEF Readies, TimesOut, Obeys
  <2> QED
    BY <1>2, <1>3, <1>4, <2>1, <2>2, <2>3, Zenon
<1>8. CASE HandsOver \/ ChildEnds \/ NewReport \/ SupervisorDies \/ RecorderDies \/ UNCHANGED vars
  BY <1>2, <1>8, Zenon DEF HandsOver, ChildEnds, NewReport, SupervisorDies, RecorderDies, vars
<1>9. CASE Activates \/ Records
  <2>1. rec.o \in Ops
    BY <1>5, <1>9, Zenon DEF Activates, Records
  <2>2. \/ op' = op \/ Stamp(rec.o, "act", TRUE) \/ Stamp(rec.o, "result", "success")
        \/ Stamp(rec.o, "result", "failed")
    BY <1>9, Zenon DEF Activates, Records
  <2>3. ran' = ran /\ UNCHANGED <<journal, lease, ctl>>
    BY <1>9, Zenon DEF Activates, Records
  <2> QED
    BY <1>2, <1>3, <2>1, <2>2, <2>3, Zenon
<1>10. CASE Spawns
  <2>1. /\ ran' = [ran EXCEPT ![rec.o].n = ran[rec.o].n + 1] /\ op' = op /\ UNCHANGED <<journal, lease, ctl>>
        /\ ran \in [Ops -> [n : Nat, held : BOOLEAN]]
    BY <1>1, <1>10, Zenon DEF Spawns, Types
  <2>2. Settles
    BY <2>1, Zenon DEF Settles
  <2> QED
    BY <2>1, <2>2, Aside, Zenon
<1>11. CASE \E o \in Ops : ReconcilesOperation(o)
  BY <1>3, <1>11, Zenon DEF ReconcilesOperation
<1> QED
  BY <1>6, <1>7, <1>8, <1>9, <1>10, <1>11, Zenon DEF SupervisorStep, RecorderStep

(* The controller's reconciliation.                                        *)
(* A new invocation lists every authorized operation without result.       *)
LEMMA InvokedDrain ==
    ASSUME Base, op' = op, NEW ack \in 0..MaxReports, ctl' = Invoked(ack)
    PROVE  Followed' /\ InStep'
<1>1. Types
  BY Zenon DEF Base
<1>2. ctl'.pc = "reconcile" /\ ctl'.todo = {o \in Ops : Pending(o)} /\ ~ctl'.owns
  BY <1>1, InvokedIs, Zenon
<1>3. InStep'
  BY <1>2, CalmInStep, Zenon DEF Calmly
<1>4. \A o \in Ops : RunOpen(o) => Pending(o)
  <2>1. \A o \in Ops : op[o].auth # "none" => op[o].req
    BY Zenon DEF Base, ReceiptsAgree
  <2> QED
    BY <1>1, <2>1, StateIs, Zenon DEF RunOpen, Pending
<1>5. Followed'
  BY <1>2, <1>4, Zenon DEF Followed, Reconciling, Releasing, RunOpen
<1> QED
  BY <1>3, <1>5, Zenon

(* A new invocation.                                                       *)
LEMMA StartsDrain == ASSUME Base, Base', DrainInv, Starts PROVE DrainInv'
<1>1. UNCHANGED <<op, ran, journal, lease>> /\ ctl' = Invoked(0)
  BY Zenon DEF Starts
<1>2. Grows
  BY <1>1, SameGrows, Zenon
<1>3. Stored'
  BY <1>1, <1>2, StoredKept, Zenon DEF DrainInv, Stored
<1>4. 0 \in 0..MaxReports
  BY RolloutAssumption DEF RolloutAssumption
<1> QED
  BY <1>1, <1>3, <1>4, InvokedDrain, Zenon DEF DrainInv

(* An operation of the list is adopted: it is then the controller's.       *)
LEMMA AdoptsDrain == ASSUME Base, Base', DrainInv, NEW o \in Ops, Adopts(o) PROVE DrainInv'
<1>1. /\ Types /\ ctl \in Controllers /\ Stored /\ Followed /\ InStep
      /\ ctl.pc = "reconcile" /\ o \in ctl.todo /\ UNCHANGED <<op, lease, ran>> /\ op[o].req
  BY Zenon DEF Base, Types, DrainInv, Adopts, ControllerAgrees
<1>2. /\ \A r \in Reports : journal'[r].hold = journal[r].hold
      /\ \A r \in Reports : r # o[1] => journal'[r] = journal[r]
      /\ \A a \in Lanes : journal'[o[1]].att[a] =
               IF a = o[2] /\ o[3] > Len(journal[o[1]].att[a])
               THEN Append(journal[o[1]].att[a], NewRef) ELSE journal[o[1]].att[a]
  BY AdoptsJournal, Zenon DEF Other
<1>3. Grows /\ Journaled(o)'
  <2>1. o[3] <= Len(journal[o[1]].att[o[2]]) + 1
    BY <1>1, Zenon DEF Stored
  <2> QED
    BY <1>2, <2>1, AppendGrows, Zenon DEF Journaled
<1>4. Stored'
  <2>1. lease \subseteq Reports
    BY <1>1, Zenon DEF Types
  <2> QED
    BY <1>1, <1>2, <1>3, <2>1, StoredKept, Zenon DEF Stored
<1>5. /\ ctl'.o = o /\ ctl'.ret = "reconcile" /\ ctl'.todo = ctl.todo \ {o} /\ ctl'.rep = ctl.rep
      /\ ctl'.owns = ctl.owns
      /\ ctl'.pc = CASE StateOf(o) = "authorized-unactivated" -> "launch"
                     [] StateOf(o) \in {"running-authorized", "starting"} -> "stream"
                     [] StateOf(o) = "abandoned" -> "abort"
                     [] StateOf(o) = "prepared" -> IF o[1] = ctl.rep THEN "reconcile" ELSE "abort"
                     [] StateOf(o) = "completed" -> "harvest"
                     [] StateOf(o) = "outcome-unknown" -> "fails"
  BY <1>1, Zenon DEF Adopts, Controllers
<1>6. /\ ctl'.pc \in {"launch", "stream", "abort", "harvest", "fails", "reconcile"}
      /\ ctl'.pc = "reconcile" => StateOf(o) = "prepared"
  BY <1>1, <1>5, StateIs, Zenon
<1>7. ctl'.owns => ctl'.rep \in lease'
  BY <1>1, <1>5, Zenon DEF InStep
<1>8. InStep'
  <2>1. CASE ctl'.pc = "launch"
    BY <1>3, <1>5, <1>7, <2>1, Zenon DEF InStep, Executing
  <2>2. CASE ctl'.pc # "launch"
    BY <1>6, <1>7, <2>2, CalmInStep, Zenon DEF Calmly
  <2> QED
    BY <2>1, <2>2, Zenon
<1>9. Followed'
  <2>1. ~RunOpen(o) \/ ctl'.pc \in OnOp
    BY <1>1, <1>6, StateIs, Zenon DEF RunOpen, OnOp
  <2>2. \A p \in Ops : RunOpen(p) => p \in ctl.todo
    BY <1>1, Zenon DEF Followed, Releasing, OnOp
  <2>3. Reconciling' /\ ~Releasing'
    BY <1>5, <1>6, Zenon DEF Reconciling, Releasing, OnOp
  <2> QED
    BY <1>1, <1>5, <2>1, <2>2, <2>3, Zenon DEF Followed, RunOpen
<1> QED
  BY <1>4, <1>8, <1>9, Zenon DEF DrainInv

(* An operation nobody authorized is aborted.                              *)
LEMMA AbortsDrain == ASSUME Base, Base', DrainInv, Aborts \/ WritesAborted PROVE DrainInv'
<1>1. /\ ctl \in Controllers /\ op \in [Ops -> Receipts] /\ Stored /\ Followed /\ InStep
      /\ ctl.pc \in {"abort", "aborted"} /\ UNCHANGED <<journal, lease, ran>>
      /\ ctl.o \in Ops /\ op[ctl.o].auth # "run"
  BY Zenon DEF Base, Types, DrainInv, Aborts, WritesAborted, ControllerAgrees, OnOp
<1>2. Stamp(ctl.o, "auth", "abort") \/ Stamp(ctl.o, "result", "aborted")
  BY Zenon DEF Aborts, WritesAborted
<1>3. Settles /\ \A o \in Ops : RunOpen(o)' => RunOpen(o)
  BY <1>1, <1>2 DEF Settles, Stamp, Receipts, RunOpen
<1>4. Stored'
  BY <1>1, <1>3, StoredSettles, Zenon
<1>5. CASE ctl' = [ctl EXCEPT !.pc = "aborted"] \/ ctl' = [ctl EXCEPT !.pc = "harvest"]
  <2>1. ctl'.pc \in {"aborted", "harvest"} /\ But(ctl')
    BY <1>1, <1>5, GoIs, Zenon
  <2>2. ctl'.owns => ctl'.rep \in lease'
    BY <1>1, <2>1, Zenon DEF InStep, But
  <2>3. InStep'
    BY <2>1, <2>2, CalmInStep, Zenon DEF Calmly
  <2>4. ctl.pc \in OnOp /\ ctl'.pc \in OnOp /\ ~Releasing
    BY <1>1, <2>1, Zenon DEF OnOp, Releasing
  <2>5. Followed'
    BY <1>1, <1>3, <2>1, <2>4, Zenon DEF Followed, Reconciling, Releasing, But
  <2> QED
    BY <1>4, <2>3, <2>5, Zenon DEF DrainInv
<1>6. CASE ctl' = Raised
  <2>1. ctl' = Off \/ ctl' = [ctl EXCEPT !.pc = "finally"]
    BY <1>1, <1>6, RaisedIs, Zenon
  <2>2. Followed' /\ InStep'
    BY <1>1, <2>1, OffInStep, FinallyInStep, Zenon
  <2> QED
    BY <1>4, <2>2, Zenon DEF DrainInv
<1> QED
  BY <1>5, <1>6, Zenon DEF Aborts, WritesAborted, Go

(* A result is harvested: its operation is settled.                        *)
LEMMA HarvestsDrain == ASSUME Base, Base', DrainInv, Harvests PROVE DrainInv'
<1>1. /\ ctl \in Controllers /\ Stored /\ Followed /\ InStep /\ lease \subseteq Reports
      /\ ctl.pc = "harvest" /\ UNCHANGED <<op, lease, ran>>
      /\ ctl.o \in Ops /\ op[ctl.o].result # "none" /\ ctl.ret \in {"reconcile", "exec", "unselect"}
  BY Zenon DEF Base, Types, DrainInv, Harvests, ControllerAgrees, OnOp
<1>2. /\ \A r \in Reports : journal'[r].hold = journal[r].hold
      /\ \A r \in Reports, a \in Lanes : Len(journal'[r].att[a]) = Len(journal[r].att[a])
  <2>1. /\ \A r \in Reports : /\ \A f \in Other : journal'[r][f] = journal[r][f]
                              /\ r # ctl.o[1] => journal'[r] = journal[r]
        /\ \A a \in Lanes : Len(journal'[ctl.o[1]].att[a]) = Len(journal[ctl.o[1]].att[a])
    BY HarvestsJournal, Zenon DEF ButFor
  <2> QED
    BY <2>1, Zenon DEF Other
<1>3. Stored'
  BY <1>1, <1>2, SameGrows, StoredKept, Zenon DEF Stored
<1>4. \/ ctl' \in {Off, Raised}
      \/ /\ ctl'.pc = IF ctl.ret = "exec" THEN "done" ELSE ctl.ret
         /\ ctl'.todo = ctl.todo /\ ctl'.rep = ctl.rep /\ ctl'.owns = ctl.owns /\ ctl'.ret = ctl.ret
  <2> DEFINE noted == [ctl EXCEPT !.failed = @ \cup {HostOf(ctl.o[2])},
                                  !.refs = @ \cup {<<ctl.o[1], HostOf(ctl.o[2])>>}]
  <2>1. op[ctl.o].result \in {"success", "aborted", "failed"}
    BY <1>1, Zenon DEF Base, Types, Receipts
  <2>2. CASE ctl.ret = "exec"
    <3>1. ctl' \in {[ctl EXCEPT !.pc = "done"], Raised, Off, [noted EXCEPT !.pc = "done"]}
      BY <2>1, <2>2, Zenon DEF Harvests, Failed
    <3> QED
      BY <1>1, <2>2, <3>1, ZenonT(30) DEF Controllers
  <2>3. CASE ctl.ret # "exec"
    <3>1. ctl' \in {[ctl EXCEPT !.pc = ctl.ret], [noted EXCEPT !.pc = ctl.ret]}
      BY <2>3, Zenon DEF Harvests
    <3> QED
      BY <1>1, <2>3, <3>1, Zenon DEF Controllers
  <2> QED
    BY <2>2, <2>3, Zenon
<1>5. CASE ctl' \in {Off, Raised}
  <2>1. ctl' = Off \/ ctl' = [ctl EXCEPT !.pc = "finally"]
    BY <1>1, <1>5, RaisedIs, Zenon
  <2>2. Followed' /\ InStep'
    BY <1>1, <2>1, OffInStep, FinallyInStep, Zenon
  <2> QED
    BY <1>3, <2>2, Zenon DEF DrainInv
<1>6. CASE ctl' \notin {Off, Raised}
  <2>1. /\ ctl'.pc = IF ctl.ret = "exec" THEN "done" ELSE ctl.ret
        /\ ctl'.todo = ctl.todo /\ ctl'.rep = ctl.rep /\ ctl'.owns = ctl.owns
    BY <1>4, <1>6, Zenon
  <2>2. ctl'.pc \in Calmly /\ ctl'.pc # "off" /\ ~Releasing' /\ (ctl'.owns => ctl'.rep \in lease')
    BY <1>1, <2>1, Zenon DEF Calmly, InStep, Releasing
  <2>3. InStep'
    BY <2>2, CalmInStep, Zenon
  <2>4. \A o \in Ops : RunOpen(o) => o \in ctl.todo /\ ctl.ret = "reconcile"
    BY <1>1, Zenon DEF Followed, RunOpen, Reconciling, Releasing
  <2>5. Followed'
    BY <1>1, <2>1, <2>2, <2>4, Zenon DEF Followed, RunOpen, Reconciling
  <2> QED
    BY <1>3, <2>3, <2>5, Zenon DEF DrainInv
<1> QED
  BY <1>5, <1>6, Zenon

(* The end of the reconciliation, with its list empty.                     *)
LEMMA ReconciledDrain == ASSUME Base, Base', DrainInv, Reconciled PROVE DrainInv'
<1>1. /\ ctl \in Controllers /\ Stored /\ Followed /\ InStep /\ lease \subseteq Reports
      /\ ctl.pc = "reconcile" /\ ctl.todo = {} /\ UNCHANGED <<op, lease, ran>>
  BY Zenon DEF Base, Types, DrainInv, Reconciled
<1>2. \A r \in Reports : journal'[r].att = journal[r].att /\ journal'[r].hold = journal[r].hold
  BY ReconciledJournal, Zenon DEF Other
<1>3. Stored'
  BY <1>1, <1>2, SameGrows, StoredKept, Zenon DEF Stored
<1>4. Free
  BY <1>1, Zenon DEF Free, Followed, OnOp, Releasing
<1>5. CASE ctl' = Off
  BY <1>3, <1>5, OffInStep, Zenon DEF DrainInv
<1>6. CASE \E r \in Reports : ctl' = Invoked(r)
  <2>1. PICK r \in Reports : ctl' = Invoked(r)
    BY <1>6, Zenon
  <2>2. r \in 0..MaxReports
    BY RolloutAssumption DEF RolloutAssumption, Reports
  <2> QED
    BY <1>1, <1>3, <2>1, <2>2, InvokedDrain, Zenon DEF DrainInv
<1>7. CASE ctl' = [ctl EXCEPT !.pc = "plan"]
  <2>1. ctl'.pc = "plan" /\ But(ctl')
    BY <1>1, <1>7, GoIs, Zenon
  <2>2. ctl'.owns => ctl'.rep \in lease'
    BY <1>1, <2>1, Zenon DEF InStep, But
  <2> QED
    BY <1>1, <1>3, <1>4, <2>1, <2>2, StaysFree, CalmInStep, Zenon DEF DrainInv, Calmly
<1>8. ASSUME NEW due \in SUBSET Reports, due # {}
      PROVE  (CHOOSE r \in due : TRUE) \in Reports
  BY <1>8, Zenon
<1> QED
  BY <1>5, <1>6, <1>7, <1>8, Zenon DEF Reconciled

(* The plan.                                                               *)
LEMMA PlansDrain == ASSUME Base, Base', DrainInv, NEW reach \in BOOLEAN, Plans(reach) PROVE DrainInv'
<1>1. /\ ctl \in Controllers /\ Stored /\ Followed /\ InStep /\ ctl.pc = "plan"
      /\ UNCHANGED <<op, journal, lease, ran>>
  BY Zenon DEF Base, Types, DrainInv, Plans
<1>2. Stored'
  BY <1>1, SameGrows, StoredKept, Zenon DEF Stored
<1>3. Free
  BY <1>1, IsFree, Zenon DEF OnOp, Releasing
<1>4. ctl'.pc = "unselect" /\ ctl'.rep = ctl.rep /\ ctl'.owns = ctl.owns
  BY <1>1, Zenon DEF Plans, Controllers
<1>5. ctl'.owns => ctl'.rep \in lease'
  BY <1>1, <1>4, Zenon DEF InStep
<1> QED
  BY <1>1, <1>2, <1>3, <1>4, <1>5, StaysFree, CalmInStep, Zenon DEF DrainInv, Calmly

(* The next operation to abort.                                            *)
LEMMA UnselectsDrain == ASSUME Base, Base', DrainInv, Unselects PROVE DrainInv'
<1>1. /\ ctl \in Controllers /\ Stored /\ Followed /\ InStep /\ ctl.pc = "unselect"
      /\ UNCHANGED <<op, journal, lease, ran>>
  BY Zenon DEF Base, Types, DrainInv, Unselects
<1>2. Stored'
  BY <1>1, SameGrows, StoredKept, Zenon DEF Stored
<1>3. Free
  BY <1>1, IsFree, ZenonT(30) DEF OnOp, Releasing
<1>4. ctl'.pc \in {"abort", "driver"} /\ ctl'.rep = ctl.rep /\ ctl'.owns = ctl.owns
  BY <1>1, ZenonT(30) DEF Unselects, Go, Controllers
<1>5. ctl'.owns => ctl'.rep \in lease'
  BY <1>1, <1>4, Zenon DEF InStep
<1> QED
  BY <1>1, <1>2, <1>3, <1>4, <1>5, StaysFree, CalmInStep, Zenon DEF DrainInv, Calmly

(* The driver's lane.                                                      *)
LEMMA RunsDriverDrain == ASSUME Base, Base', DrainInv, RunsDriver PROVE DrainInv'
<1>1. /\ ctl \in Controllers /\ Stored /\ Followed /\ InStep /\ lease \subseteq Reports /\ ctl.pc = "driver"
      /\ UNCHANGED <<op, lease, ran>>
  BY Zenon DEF Base, Types, DrainInv, RunsDriver
<1>2. \A r \in Reports : /\ journal'[r].hold = journal[r].hold
                         /\ \A a \in Lanes : Len(journal'[r].att[a]) = Len(journal[r].att[a])
  BY RunsDriverJournal, Zenon DEF Other, Consumes
<1>3. Stored'
  BY <1>1, <1>2, SameGrows, StoredKept, Zenon DEF Stored
<1>4. Free
  BY <1>1, IsFree, Zenon DEF OnOp, Releasing
<1>5. CASE ctl' = Off
  BY <1>3, <1>5, OffInStep, Zenon DEF DrainInv
<1>6. CASE ctl' # Off
  <2>1. \/ ctl' = [ctl EXCEPT !.pc = "begin"] \/ ctl' = [ctl EXCEPT !.pc = "prepare", !.lane = "driver"]
    BY <1>6, Zenon DEF RunsDriver, Exits, Go
  <2>2. /\ ctl'.pc \in {"begin", "prepare"} /\ ctl'.rep = ctl.rep /\ ctl'.owns = ctl.owns
        /\ ctl'.pc = "prepare" => ctl'.lane \notin Group
    BY <1>1, <2>1, ZenonT(30) DEF Controllers, Group
  <2>3. ctl'.owns => ctl'.rep \in lease'
    BY <1>1, <2>2, Zenon DEF InStep
  <2>4. InStep'
    BY <2>2, <2>3, Zenon DEF InStep, Executing
  <2> QED
    BY <1>1, <1>3, <1>4, <2>4, StaysFree, Zenon DEF DrainInv
<1> QED
  BY <1>5, <1>6, Zenon

(* execute_plan journals the hold and never settles one.                   *)
LEMMA BeginsDrain == ASSUME Base, Base', DrainInv, Begins PROVE DrainInv'
<1>1. /\ ctl \in Controllers /\ Stored /\ Followed /\ InStep /\ lease \subseteq Reports /\ ctl.pc = "begin"
      /\ UNCHANGED <<op, lease, ran>>
  BY Zenon DEF Base, Types, DrainInv, Begins
<1>2. \A r \in Reports : /\ journal'[r].att = journal[r].att
                         /\ journal'[r].hold = journal[r].hold \/ journal'[r].hold.st = "active"
  BY BeginsJournal, Zenon
<1>3. Stored'
  <2>1. \A r \in lease' : journal'[r].hold.st \in Unsettled
    BY <1>1, <1>2, Zenon DEF Stored, Unsettled
  <2> QED
    BY <1>1, <1>2, <2>1, SameGrows, StoredKept, Zenon
<1>4. Free
  BY <1>1, IsFree, Zenon DEF OnOp, Releasing
<1>5. CASE ctl' = Off
  BY <1>3, <1>5, OffInStep, Zenon DEF DrainInv
<1>6. CASE ctl' # Off
  <2>1. ctl'.pc \in {"acquire", "lane"} /\ ctl'.rep = ctl.rep /\ ctl'.owns = ctl.owns
    BY <1>1, <1>6, ZenonT(30) DEF Begins, Exits, Controllers
  <2>2. ctl'.owns => ctl'.rep \in lease'
    BY <1>1, <2>1, Zenon DEF InStep
  <2> QED
    BY <1>1, <1>3, <1>4, <2>1, <2>2, StaysFree, CalmInStep, Zenon DEF DrainInv, Calmly
<1> QED
  BY <1>5, <1>6, Zenon

(* A confirmed hold leads back to the loop or to the verdict.              *)
LEMMA ConfirmedIs ==
    ASSUME Base, ctl.pc \in {"acquire", "confirm"}
    PROVE  /\ Confirmed.pc \in {"lane", "finalize"} /\ Confirmed.rep = ctl.rep
<1>1. ctl \in Controllers /\ ctl.ret \in {"lane", "finalize"}
  BY Zenon DEF Base, Types, ControllerAgrees
<1> QED
  BY <1>1, Zenon DEF Confirmed, Controllers

(* The lease was there, or the daemon's answer came: the hold is journaled *)
(* as confirmed.                                                           *)
LEMMA AcquiresDrain == ASSUME Base, Base', DrainInv, Acquires \/ Confirms PROVE DrainInv'
<1>1. /\ ctl \in Controllers /\ Stored /\ Followed /\ InStep /\ lease \subseteq Reports /\ ctl.rep \in Reports
      /\ ctl.pc \in {"acquire", "confirm"} /\ UNCHANGED <<op, lease, ran>>
  BY Zenon DEF Base, Types, DrainInv, Acquires, Confirms, ControllerAgrees
<1>2. HoldIs("active", TRUE) \/ HoldIs("active", FALSE)
  BY Zenon DEF Acquires, Confirms
<1>3. /\ \A r \in Reports : journal'[r].att = journal[r].att
      /\ \A r \in Reports : r # ctl.rep => journal'[r] = journal[r]
      /\ journal'[ctl.rep].hold.st \in Unsettled
  <2>1. PICK sure \in BOOLEAN : HoldIs("active", sure)
    BY <1>2, Zenon
  <2>2. journal'[ctl.rep].hold = [st |-> "active", sure |-> sure]
    BY <1>1, <2>1, HoldIsKept, Zenon
  <2>3. journal'[ctl.rep].hold.st = "active"
    BY <2>2
  <2> QED
    BY <1>1, <2>1, <2>3, HoldIsKept, Zenon DEF Unsettled
<1>4. Stored'
  <2>1. \A r \in lease' : journal'[r].hold.st \in Unsettled
    BY <1>1, <1>3, Zenon DEF Stored
  <2> QED
    BY <1>1, <1>3, <2>1, SameGrows, StoredKept, Zenon
<1>5. Followed'
  BY <1>1, IsFree, StaysFree, Zenon DEF OnOp, Releasing
<1>6. CASE ctl' = Confirmed /\ ctl.rep \in lease
  <2>1. ctl'.pc \in Calmly /\ ctl'.rep \in lease'
    BY <1>1, <1>6, ConfirmedIs, Zenon DEF Calmly
  <2> QED
    BY <1>4, <1>5, <2>1, CalmInStep, Zenon DEF DrainInv
<1>7. CASE ctl.pc = "acquire" /\ ctl' = [ctl EXCEPT !.pc = "ask"]
  <2>1. ctl'.pc = "ask" /\ But(ctl')
    BY <1>1, <1>7, GoIs, Zenon
  <2>2. ctl'.owns => ctl'.rep \in lease'
    <3>1. ctl.pc = "acquire"
      BY <1>7, Zenon
    <3> QED
      BY <1>1, <2>1, <3>1, Zenon DEF InStep, But
  <2>3. InStep'
    BY <1>3, <2>1, <2>2, Zenon DEF InStep, Executing, But
  <2> QED
    BY <1>4, <1>5, <2>3, Zenon DEF DrainInv
<1>8. ctl.pc = "confirm" => ctl.rep \in lease
  BY <1>1, Zenon DEF InStep
<1> QED
  BY <1>6, <1>7, <1>8, Zenon DEF Acquires, Confirms, Go

(* The daemon is asked for the lease with the hold journaled, and its      *)
(* answer may be lost.                                                     *)
LEMMA AsksDrain == ASSUME Base, Base', DrainInv, Asks \/ AskFails PROVE DrainInv'
<1>1. /\ ctl \in Controllers /\ Stored /\ Followed /\ InStep /\ lease \subseteq Reports /\ ctl.rep \in Reports
      /\ ctl.pc = "ask" /\ UNCHANGED <<op, journal, ran>> /\ journal[ctl.rep].hold.st \in Unsettled
      /\ lease' = lease \/ lease' = lease \cup {ctl.rep}
  BY Zenon DEF Base, Types, DrainInv, Asks, AskFails, ControllerAgrees, InStep
<1>2. Stored'
  <2>1. lease \subseteq lease' /\ \A r \in lease' : journal'[r].hold.st \in Unsettled
    BY <1>1, Zenon DEF Stored
  <2> QED
    BY <1>1, <2>1, SameGrows, StoredKept, Zenon
<1>3. Followed'
  BY <1>1, IsFree, StaysFree, Zenon DEF OnOp, Releasing
<1>4. CASE Asks
  <2>1. ctl'.pc = "confirm" /\ But(ctl')
    BY <1>1, <1>4, GoIs, Zenon DEF Asks, Go
  <2>2. ctl'.rep \in lease'
    BY <1>4, <2>1, Zenon DEF Asks, But
  <2>3. InStep'
    BY <1>1, <2>1, <2>2, Zenon DEF InStep, Executing, But
  <2> QED
    BY <1>2, <1>3, <2>3, Zenon DEF DrainInv
<1>5. CASE AskFails
  <2>1. ctl' = Off \/ ctl' = [ctl EXCEPT !.pc = "finally"]
    BY <1>1, <1>5, NotHeldIs, Zenon DEF AskFails
  <2>2. lease \subseteq lease'
    BY <1>1, Zenon
  <2>3. InStep'
    BY <1>1, <2>1, <2>2, OffInStep, FinallyInStep, ZenonT(30)
  <2> QED
    BY <1>2, <1>3, <2>3, Zenon DEF DrainInv
<1> QED
  BY <1>4, <1>5, Zenon

(* The look at the lease fails.                                            *)
LEMMA ProbeFailsDrain == ASSUME Base, Base', DrainInv, ProbeFails PROVE DrainInv'
<1>1. /\ ctl \in Controllers /\ Stored /\ Followed /\ InStep /\ lease \subseteq Reports /\ ctl.rep \in Reports
      /\ ctl.pc = "acquire" /\ UNCHANGED <<op, lease, ran>>
  BY Zenon DEF Base, Types, DrainInv, ProbeFails, ControllerAgrees
<1>2. /\ \A r \in Reports : journal'[r].att = journal[r].att
      /\ \A r \in Reports : journal'[r].hold = journal[r].hold \/ journal'[r].hold.st = "active"
  <2>1. CASE journal' = journal
    BY <2>1, Zenon
  <2>2. CASE HoldIs("active", FALSE)
    <3>1. journal'[ctl.rep].hold = [st |-> "active", sure |-> FALSE]
      BY <1>1, <2>2, HoldIsKept, Zenon
    <3>2. journal'[ctl.rep].hold.st = "active"
      BY <3>1
    <3> QED
      BY <1>1, <2>2, <3>2, HoldIsKept, Zenon
  <2> QED
    BY <2>1, <2>2, Zenon DEF ProbeFails
<1>3. Stored'
  <2>1. \A r \in lease' : journal'[r].hold.st \in Unsettled
    BY <1>1, <1>2, Zenon DEF Stored, Unsettled
  <2> QED
    BY <1>1, <1>2, <2>1, SameGrows, StoredKept, Zenon
<1>4. ctl' = Off \/ ctl' = [ctl EXCEPT !.pc = "finally"]
  BY <1>1, NotHeldIs, Zenon DEF ProbeFails
<1>5. Followed' /\ InStep'
  BY <1>1, <1>4, OffInStep, FinallyInStep, Zenon
<1> QED
  BY <1>3, <1>5, Zenon DEF DrainInv

(* When the hold is released nothing that needs it is open.                *)
LEMMA NothingNeedsIt ==
    ASSUME Base, Stored, Followed, ctl.pc = "release"
    PROVE  \A o \in Ops : RunOpen(o) /\ ran[o].held => o[1] # ctl.rep
<1>1. CASE Releasing
  BY <1>1, Zenon DEF Followed, Stored
<1>2. CASE ~Releasing
  BY <1>2, IsFree, Zenon DEF OnOp, Free
<1> QED
  BY <1>1, <1>2, Zenon

(* The lease is given back.                                                *)
LEMMA ReleasesDrain == ASSUME Base, Base', DrainInv, Releases PROVE DrainInv'
<1>1. /\ ctl \in Controllers /\ Stored /\ Followed /\ InStep /\ ctl.pc = "release"
      /\ UNCHANGED <<op, journal, ran>> /\ lease' = lease \ {ctl.rep} /\ ctl' = [ctl EXCEPT !.pc = "released"]
  BY Zenon DEF Base, Types, DrainInv, Releases, Go
<1>2. Stored'
  BY <1>1, NothingNeedsIt, Zenon DEF Stored, RunOpen, Journaled
<1>3. ctl'.pc = "released" /\ But(ctl')
  BY <1>1, GoIs, Zenon
<1>4. InStep'
  <2>1. ctl'.rep \notin lease'
    BY <1>1, <1>3 DEF But
  <2> QED
    BY <1>3, <2>1, Zenon DEF InStep, Executing
<1>5. Releasing' <=> Releasing
  BY <1>1, <1>3, Zenon DEF Releasing, But
<1>6. CASE Releasing
  BY <1>1, <1>2, <1>3, <1>4, <1>5, <1>6, Zenon DEF DrainInv, Followed, RunOpen, But
<1>7. CASE ~Releasing
  BY <1>1, <1>2, <1>4, <1>7, IsFree, StaysFree, Zenon DEF DrainInv, OnOp
<1> QED
  BY <1>6, <1>7, Zenon

(* The hold is journaled as released after the lease is gone.              *)
LEMMA UnholdsDrain == ASSUME Base, Base', DrainInv, Unholds PROVE DrainInv'
<1>1. /\ ctl \in Controllers /\ Stored /\ Followed /\ InStep /\ lease \subseteq Reports /\ ctl.rep \in Reports
      /\ ctl.pc = "released" /\ UNCHANGED <<op, lease, ran>> /\ HoldIs("released", TRUE) /\ ctl.rep \notin lease
  BY Zenon DEF Base, Types, DrainInv, Unholds, ControllerAgrees, InStep
<1>2. /\ \A r \in Reports : journal'[r].att = journal[r].att
      /\ \A r \in Reports : r # ctl.rep => journal'[r] = journal[r]
  BY <1>1, HoldIsKept, Zenon
<1>3. Stored'
  <2>1. \A r \in lease' : journal'[r].hold.st \in Unsettled
    BY <1>1, <1>2, Zenon DEF Stored
  <2> QED
    BY <1>1, <1>2, <2>1, SameGrows, StoredKept, Zenon
<1>4. CASE ctl' = Off
  BY <1>3, <1>4, OffInStep, Zenon DEF DrainInv
<1>5. ASSUME NEW pc \in {"finalize", "final"}, ctl.ret # "off", ctl' = [ctl EXCEPT !.pc = pc]
      PROVE  DrainInv'
  <2>1. ctl'.pc \in {"finalize", "final"}
    BY <1>1, <1>5, GoIs, Zenon
  <2> QED
    BY <1>1, <1>3, <1>5, <2>1, IsFree, StaysFree, CalmInStep, Zenon DEF DrainInv, OnOp, Releasing, Calmly
<1>6. ctl.ret \in {"off", "final", "finalize"}
  BY <1>1, Zenon DEF Base, ControllerAgrees
<1> QED
  BY <1>4, <1>5, <1>6, Zenon DEF Unholds

(* A release whose answer is lost leaves the hold unsettled.               *)
LEMMA ReleaseFailsDrain == ASSUME Base, Base', DrainInv, ReleaseFails PROVE DrainInv'
<1>1. /\ ctl \in Controllers /\ Stored /\ Followed /\ InStep /\ lease \subseteq Reports /\ ctl.rep \in Reports
      /\ ctl.pc = "release" /\ UNCHANGED <<op, ran>> /\ lease' \in {lease, lease \ {ctl.rep}}
      /\ HoldIs("cleanup-failed", journal[ctl.rep].hold.sure) /\ journal[ctl.rep].hold.sure \in BOOLEAN
  BY Zenon DEF Base, Types, DrainInv, ReleaseFails, ControllerAgrees, Runs, Holds
<1>2. /\ \A r \in Reports : journal'[r].att = journal[r].att
      /\ \A r \in Reports : r # ctl.rep => journal'[r] = journal[r]
      /\ journal'[ctl.rep].hold.st = "cleanup-failed"
  <2>1. journal'[ctl.rep].hold = [st |-> "cleanup-failed", sure |-> journal[ctl.rep].hold.sure]
    BY <1>1, HoldIsKept, Zenon
  <2>2. journal'[ctl.rep].hold.st = "cleanup-failed"
    BY <2>1
  <2> QED
    BY <1>1, <2>2, HoldIsKept, Zenon
<1>3. Stored'
  <2>1. /\ \A r \in lease' : r \in lease /\ journal'[r].hold.st \in Unsettled
        /\ \A o \in Ops : RunOpen(o) /\ ran[o].held => o[1] \in lease'
    BY <1>1, <1>2, NothingNeedsIt, Zenon DEF Stored, Unsettled
  <2>2. \A o \in Ops : journal'[o[1]].att = journal[o[1]].att
    BY <1>2, OpParts, Zenon
  <2> QED
    BY <1>1, <2>1, <2>2, Zenon DEF Stored, RunOpen, Journaled
<1>4. CASE ctl' = Off
  BY <1>3, <1>4, OffInStep, Zenon DEF DrainInv
<1>5. CASE ctl.ret = "final" /\ ctl' = [ctl EXCEPT !.pc = "final"]
  <2>1. ctl'.pc = "final"
    BY <1>1, <1>5, GoIs, Zenon
  <2> QED
    BY <1>1, <1>3, <1>5, <2>1, IsFree, StaysFree, CalmInStep, Zenon DEF DrainInv, OnOp, Releasing, Calmly
<1> QED
  BY <1>4, <1>5, Zenon DEF ReleaseFails

(* A lane of a drained host is run with its hold owned.                    *)
LEMMA VisitsDrain == ASSUME Base, Base', DrainInv, Visits PROVE DrainInv'
<1>1. /\ ctl \in Controllers /\ Stored /\ Followed /\ InStep /\ lease \subseteq Reports /\ ctl.pc = "lane"
      /\ UNCHANGED <<op, lease, ran>>
  BY Zenon DEF Base, Types, DrainInv, Visits
<1>2. \A r \in Reports : journal'[r].att = journal[r].att /\ journal'[r].hold = journal[r].hold
  BY VisitsJournal, Zenon DEF Other
<1>3. Stored'
  BY <1>1, <1>2, SameGrows, StoredKept, Zenon DEF Stored
<1>4. Followed'
  BY <1>1, IsFree, StaysFree, Zenon DEF OnOp, Releasing
<1>5. ctl.owns => ctl.rep \in lease
  BY <1>1, Zenon DEF InStep
<1>6. CASE (~Grouped \/ ctl.owns) /\ ctl' = [ctl EXCEPT !.pc = "prepare"]
  <2>1. ctl'.pc = "prepare" /\ But(ctl')
    BY <1>1, <1>6, GoIs, Zenon
  <2>2. ctl'.owns => ctl'.rep \in lease'
    BY <1>1, <1>5, <2>1, Zenon DEF But
  <2>3. Grouped' => ctl'.rep \in lease'
    <3>1. Grouped' => Grouped
      BY <2>1, Zenon DEF But, Grouped
    <3>2. ~Grouped \/ ctl.owns
      BY <1>6, Zenon
    <3> QED
      BY <1>1, <1>5, <2>1, <3>1, <3>2, Zenon DEF But
  <2>4. InStep'
    BY <2>1, <2>2, <2>3, Zenon DEF InStep, Executing
  <2> QED
    BY <1>3, <1>4, <2>4, Zenon DEF DrainInv
<1>7. CASE ctl' = Raised
  <2>1. ctl' = Off \/ ctl' = [ctl EXCEPT !.pc = "finally"]
    BY <1>1, <1>7, RaisedIs, Zenon
  <2>2. InStep'
    BY <1>1, <2>1, OffInStep, FinallyInStep, Zenon
  <2> QED
    BY <1>3, <1>4, <2>2, Zenon DEF DrainInv
<1>8. CASE ctl' = [ctl EXCEPT !.pc = "acquire", !.ret = "lane"] \/ ctl' = Onward
  <2>1. ctl'.pc \in {"acquire", "lane", "conclude"} /\ ctl'.rep = ctl.rep /\ ctl'.owns = ctl.owns
    <3>1. CASE ctl' = [ctl EXCEPT !.pc = "acquire", !.ret = "lane"]
      BY <1>1, <3>1, Zenon DEF Controllers
    <3>2. CASE ctl' = Onward
      BY <1>1, <3>2, OnwardIs, ZenonT(30) DEF Controllers
    <3> QED
      BY <1>8, <3>1, <3>2, Zenon
  <2>2. ctl'.pc \in Calmly /\ (ctl'.owns => ctl'.rep \in lease')
    BY <1>1, <1>5, <2>1, Zenon DEF Calmly
  <2> QED
    BY <1>3, <1>4, <2>2, CalmInStep, Zenon DEF DrainInv
<1> QED
  BY <1>6, <1>7, <1>8, Zenon DEF Visits

(* The attempt that is opened is the next one, under the plan's hold.      *)
LEMMA PreparesDrain == ASSUME Base, Base', DrainInv, Prepares PROVE DrainInv'
<1>1. /\ Types /\ ctl \in Controllers /\ Stored /\ Followed /\ InStep /\ ctl.pc = "prepare" /\ ctl.rep \in Reports
      /\ ctl.lane \in Lanes /\ UNCHANGED <<journal, lease>> /\ op \in [Ops -> Receipts]
      /\ ran \in [Ops -> [n : Nat, held : BOOLEAN]] /\ (ctl.owns => ctl.rep \in lease)
  BY Zenon DEF Base, Types, DrainInv, Prepares, ControllerAgrees, Controllers, InStep
<1>2. CASE ctl' = Raised /\ UNCHANGED <<op, ran>>
  <2>1. ctl' = Off \/ ctl' = [ctl EXCEPT !.pc = "finally"]
    BY <1>1, <1>2, RaisedIs, Zenon
  <2>2. Followed' /\ InStep'
    BY <1>1, <2>1, OffInStep, FinallyInStep, Zenon
  <2>3. Stored'
    BY <1>1, <1>2, SameGrows, StoredKept, ZenonT(30) DEF Stored
  <2> QED
    BY <2>2, <2>3, Zenon DEF DrainInv
<1>3. CASE ~(ctl' = Raised /\ UNCHANGED <<op, ran>>)
  <2> DEFINE len == Len(journal[ctl.rep].att[ctl.lane])
  <2>1. len \in Nat
    BY <1>1, Lengths, Zenon
  <2>2. \E n : /\ n = len \/ n = len + 1
               /\ n > 0 /\ n <= MaxAttempts
               /\ ctl' = [ctl EXCEPT !.pc = "journal", !.ret = "exec", !.o = <<ctl.rep, ctl.lane, n>>]
               /\ Stamp(<<ctl.rep, ctl.lane, n>>, "req", TRUE)
               /\ ran' = [ran EXCEPT ![<<ctl.rep, ctl.lane, n>>].held = ctl.lane \in Group /\ Grouped]
    <3>1. CASE Latest[3] > 0 /\ StateOf(Latest) = "prepared"
      BY <1>3, <2>1, <3>1, Zenon DEF Prepares, Latest
    <3>2. CASE ~(Latest[3] > 0 /\ StateOf(Latest) = "prepared")
      <4> DEFINE next == <<Latest[1], Latest[2], Latest[3] + 1>>
      <4>1. /\ next[3] <= MaxAttempts
            /\ ctl' = [ctl EXCEPT !.pc = "journal", !.ret = "exec", !.o = next]
            /\ Stamp(next, "req", TRUE)
            /\ ran' = [ran EXCEPT ![next].held = ctl.lane \in Group /\ Grouped]
        BY <1>3, <3>2, Zenon DEF Prepares
      <4>2. next = <<ctl.rep, ctl.lane, len + 1>> /\ next[3] = len + 1 /\ len + 1 > 0
        <5>1. Latest[1] = ctl.rep /\ Latest[2] = ctl.lane /\ Latest[3] = len
          BY Zenon DEF Latest
        <5> HIDE DEF len
        <5>2. len + 1 > 0
          BY <2>1
        <5> QED
          BY <5>1, <5>2, Zenon
      <4> HIDE DEF next
      <4> QED
        BY <4>1, <4>2, Zenon
    <3> QED
      BY <3>1, <3>2, Zenon
  <2> HIDE DEF len
  <2>3. PICK n : /\ n = len \/ n = len + 1
                 /\ n > 0 /\ n <= MaxAttempts
                 /\ ctl' = [ctl EXCEPT !.pc = "journal", !.ret = "exec", !.o = <<ctl.rep, ctl.lane, n>>]
                 /\ Stamp(<<ctl.rep, ctl.lane, n>>, "req", TRUE)
                 /\ ran' = [ran EXCEPT ![<<ctl.rep, ctl.lane, n>>].held = ctl.lane \in Group /\ Grouped]
    BY <2>2, Zenon
  <2>4. n \in 1..MaxAttempts /\ n <= len + 1
    BY <2>1, <2>3, RolloutAssumption DEF RolloutAssumption
  <2> DEFINE p == <<ctl.rep, ctl.lane, n>>
  <2>5. p \in Ops /\ p[1] = ctl.rep /\ p[2] = ctl.lane /\ p[3] = n
    BY <1>1, <2>4, OpParts, Zenon
  <2>6. p[3] <= Len(journal[p[1]].att[p[2]]) + 1
    BY <2>4, <2>5, Zenon DEF len
  <2>7. /\ ctl' = [ctl EXCEPT !.pc = "journal", !.ret = "exec", !.o = p]
        /\ Stamp(p, "req", TRUE)
        /\ ran' = [ran EXCEPT ![p].held = ctl.lane \in Group /\ Grouped]
    BY <2>3, Zenon
  <2> HIDE DEF p
  <2>8. \A o \in Ops : /\ op'[o].auth = op[o].auth /\ op'[o].result = op[o].result
                       /\ o # p => op'[o] = op[o] /\ ran'[o] = ran[o]
    BY <1>1, <2>5, <2>7, Zenon DEF Stamp, Receipts
  <2>9. ran'[p].held => ctl.lane \in Group /\ Grouped
    <3>1. CASE ctl.lane \in Group /\ Grouped
      BY <3>1, Zenon
    <3>2. CASE ~(ctl.lane \in Group /\ Grouped)
      BY <1>1, <2>5, <2>7, <3>2, Zenon
    <3> QED
      BY <3>1, <3>2, Zenon
  <2>10. Free
    BY <1>1, IsFree, Zenon DEF OnOp, Releasing
  <2>11. \A o \in Ops : ~RunOpen(o)'
    BY <2>8, <2>10, Zenon DEF Free, RunOpen
  <2>12. Stored'
    BY <1>1, <2>5, <2>6, <2>8, <2>9, <2>11, Zenon DEF Stored, Journaled
  <2>13. Followed'
    BY <2>11, Zenon DEF Followed
  <2>14. /\ ctl'.pc = "journal" /\ ctl'.ret = "exec" /\ ctl'.o = p /\ ctl'.rep = ctl.rep
         /\ ctl'.owns = ctl.owns
    BY <1>1, <2>7, Zenon DEF Controllers
  <2>15. ran'[p].held => ctl.rep \in lease
    BY <1>1, <2>9, Zenon DEF InStep
  <2>16. InStep'
    BY <1>1, <2>5, <2>14, <2>15, ZenonT(30) DEF InStep, Executing
  <2> QED
    BY <2>12, <2>13, <2>16, Zenon DEF DrainInv
<1> QED
  BY <1>2, <1>3, Zenon

(* The attempt is journaled before it is launched.                         *)
LEMMA JournalsDrain == ASSUME Base, Base', DrainInv, Journals PROVE DrainInv'
<1>1. /\ ctl \in Controllers /\ Stored /\ Followed /\ InStep /\ lease \subseteq Reports /\ ctl.pc = "journal"
      /\ UNCHANGED <<op, lease, ran>> /\ ctl.ret = "exec" /\ ctl.o[1] = ctl.rep /\ ctl.o \in Ops /\ op[ctl.o].req
      /\ (ctl.owns => ctl.rep \in lease) /\ (ran[ctl.o].held => ctl.rep \in lease)
  BY Zenon DEF Base, Types, DrainInv, Journals, ControllerAgrees, InStep, OnOp, Executing
<1>2. /\ \A r \in Reports : journal'[r].hold = journal[r].hold
      /\ \A r \in Reports : r # ctl.o[1] => journal'[r] = journal[r]
      /\ \A a \in Lanes : journal'[ctl.o[1]].att[a] =
               IF a = ctl.o[2] /\ ctl.o[3] > Len(journal[ctl.o[1]].att[a])
               THEN Append(journal[ctl.o[1]].att[a], NewRef) ELSE journal[ctl.o[1]].att[a]
  BY <1>1, JournalsJournal, ZenonT(30)
<1>3. Grows /\ Journaled(ctl.o)'
  <2>1. ctl.o[3] <= Len(journal[ctl.o[1]].att[ctl.o[2]]) + 1
    BY <1>1, Zenon DEF Stored
  <2>2. ctl'.o = ctl.o
    BY <1>1, GoIs, Zenon DEF Journals, Go, But
  <2> QED
    BY <1>1, <1>2, <2>1, <2>2, AppendGrows, Zenon DEF Journaled
<1>4. Stored'
  BY <1>1, <1>2, <1>3, StoredKept, Zenon DEF Stored
<1>5. ctl'.pc = "launch" /\ But(ctl')
  BY <1>1, GoIs, Zenon DEF Journals, Go
<1>6. InStep'
  BY <1>1, <1>3, <1>5, Zenon DEF InStep, Executing, But
<1>7. \A o \in Ops : RunOpen(o) => o = ctl.o
  BY <1>1, Zenon DEF Followed, Releasing, Reconciling
<1>8. Followed'
  BY <1>1, <1>5, <1>7, Zenon DEF Followed, RunOpen, But, OnOp, Releasing
<1> QED
  BY <1>4, <1>6, <1>8, Zenon DEF DrainInv

(* The supervisor is launched, its operation is awaited or the wait is     *)
(* interrupted.                                                            *)
LEMMA LaunchesDrain == ASSUME Base, Base', DrainInv, Launches \/ Streams \/ Interrupts PROVE DrainInv'
<1>1. /\ ctl \in Controllers /\ Stored /\ Followed /\ InStep /\ ctl.pc \in {"launch", "ready", "stream"}
      /\ UNCHANGED <<op, lease, ran, journal>> /\ (ctl.owns => ctl.rep \in lease)
  BY Zenon DEF Base, Types, DrainInv, Launches, Streams, Interrupts, InStep
<1>2. Stored'
  BY <1>1, SameGrows, StoredKept, Zenon DEF Stored
<1>3. /\ ctl'.pc \in {"ready", "stream", "harvest", "fails"} /\ But(ctl')
      /\ ctl'.pc = "ready" => ctl.pc = "launch" /\ ctl.ret = "exec"
  <2>1. PICK pc \in {"ready", "stream", "harvest", "fails"} :
           /\ ctl' = [ctl EXCEPT !.pc = pc]
           /\ pc = "ready" => ctl.pc = "launch" /\ ctl.ret = "exec"
    BY Zenon DEF Launches, Streams, Interrupts, Go
  <2> QED
    BY <1>1, <2>1, GoIs, Zenon
<1>4. InStep'
  <2>1. CASE ctl'.pc = "ready"
    BY <1>1, <1>3, <2>1, Zenon DEF InStep, Executing, But, Journaled
  <2>2. CASE ctl'.pc # "ready"
    BY <1>1, <1>3, <2>2, CalmInStep, Zenon DEF Calmly, But
  <2> QED
    BY <2>1, <2>2, Zenon
<1>5. ctl.pc \in OnOp /\ ctl'.pc \in OnOp /\ ~Releasing
  BY <1>1, <1>3, Zenon DEF OnOp, Releasing
<1>6. Followed'
  BY <1>1, <1>3, <1>5, ZenonT(30) DEF Followed, Reconciling, Releasing, But, RunOpen
<1> QED
  BY <1>2, <1>4, <1>6, Zenon DEF DrainInv

(* The decision to run is taken for a journaled operation with the lease   *)
(* held.                                                                   *)
LEMMA AuthorizesDrain == ASSUME Base, Base', DrainInv, Authorizes PROVE DrainInv'
<1>1. /\ ctl \in Controllers /\ Stored /\ Followed /\ InStep /\ ctl.pc = "ready" /\ op \in [Ops -> Receipts]
      /\ UNCHANGED <<lease, ran, journal>> /\ (ctl.owns => ctl.rep \in lease) /\ ctl.o \in Ops
      /\ ctl.ret = "exec" /\ ctl.o[1] = ctl.rep /\ Journaled(ctl.o) /\ (ran[ctl.o].held => ctl.rep \in lease)
  BY Zenon DEF Base, Types, DrainInv, Authorizes, InStep, ControllerAgrees, OnOp, Executing
<1>2. op' = op \/ Stamp(ctl.o, "auth", "run")
  BY Zenon DEF Authorizes
<1>3. \A o \in Ops : /\ op'[o].req = op[o].req
                     /\ o # ctl.o => op'[o] = op[o]
  BY <1>1, <1>2 DEF Stamp, Receipts
<1>4. \A o \in Ops : RunOpen(o) => o = ctl.o
  BY <1>1, Zenon DEF Followed, Releasing, Reconciling, OnOp
<1>5. Stored'
  BY <1>1, <1>3, Zenon DEF Stored, RunOpen, Journaled
<1>6. ctl'.pc \in {"stream", "fails"} /\ But(ctl')
  <2>1. ctl' = [ctl EXCEPT !.pc = "stream"] \/ ctl' = [ctl EXCEPT !.pc = "fails"]
    BY Zenon DEF Authorizes, Go
  <2> QED
    BY <1>1, <2>1, GoIs, ZenonT(30)
<1>7. InStep'
  BY <1>1, <1>6, CalmInStep, Zenon DEF Calmly, But
<1>8. Followed'
  BY <1>3, <1>4, <1>6, Zenon DEF Followed, RunOpen, But, OnOp, Releasing
<1> QED
  BY <1>5, <1>7, <1>8, Zenon DEF DrainInv

(* The exception path, and the end of a lane.                              *)
LEMMA FailsDrain == ASSUME Base, Base', DrainInv, Fails \/ LaneDone PROVE DrainInv'
<1>1. /\ ctl \in Controllers /\ Stored /\ Followed /\ InStep /\ ctl.pc \in {"fails", "done"}
      /\ UNCHANGED <<op, lease, ran, journal>> /\ (ctl.owns => ctl.rep \in lease)
  BY Zenon DEF Base, Types, DrainInv, Fails, LaneDone, InStep
<1>2. Stored'
  BY <1>1, SameGrows, StoredKept, Zenon DEF Stored
<1>3. CASE ctl' \in {Off, Raised}
  <2>1. ctl' = Off \/ ctl' = [ctl EXCEPT !.pc = "finally"]
    BY <1>1, <1>3, RaisedIs, Zenon
  <2>2. Followed' /\ InStep'
    BY <1>1, <2>1, OffInStep, FinallyInStep, ZenonT(30)
  <2> QED
    BY <1>2, <2>2, Zenon DEF DrainInv
<1>4. CASE ctl.pc = "fails" /\ ctl' = [ctl EXCEPT !.pc = "abort"]
  <2>1. ctl'.pc = "abort" /\ But(ctl')
    BY <1>1, <1>4, GoIs, Zenon
  <2>2. InStep'
    BY <1>1, <2>1, CalmInStep, Zenon DEF Calmly, But
  <2>3. ctl.pc \in OnOp /\ ctl'.pc \in OnOp /\ ~Releasing
    BY <1>4, <2>1, Zenon DEF OnOp, Releasing
  <2>4. Followed'
    BY <1>1, <1>4, <2>1, <2>3, Zenon DEF Followed, Reconciling, Releasing, But, RunOpen
  <2> QED
    BY <1>2, <2>2, <2>4, Zenon DEF DrainInv
<1>5. CASE ctl.pc = "done" /\ ctl' = Invoked(ctl.rep)
  <2>1. ctl.rep \in 0..MaxReports
    BY <1>1, Zenon DEF Controllers
  <2> QED
    BY <1>1, <1>2, <1>5, <2>1, InvokedDrain, Zenon DEF DrainInv
<1>6. CASE ctl.pc = "done" /\ ctl' = Onward
  <2>1. ctl'.pc \in {"lane", "conclude"} /\ ctl'.rep = ctl.rep /\ ctl'.owns = ctl.owns
    BY <1>1, <1>6, OnwardIs, ZenonT(30) DEF Controllers
  <2>2. ctl'.pc \in Calmly /\ (ctl'.owns => ctl'.rep \in lease')
    BY <1>1, <2>1, Zenon DEF Calmly
  <2>3. Followed'
    BY <1>1, <1>6, IsFree, StaysFree, Zenon DEF OnOp, Releasing
  <2> QED
    BY <1>2, <2>2, <2>3, CalmInStep, Zenon DEF DrainInv
<1> QED
  BY <1>3, <1>4, <1>5, <1>6, Zenon DEF Fails, LaneDone

(* The end of the loop, the verdict and the death of the controller.       *)
LEMMA EndsDrain ==
    ASSUME Base, Base', DrainInv, Concludes \/ Verifies(TRUE) \/ Verifies(FALSE) \/ Finalizes \/ ControllerDies
    PROVE  DrainInv'
<1>1. /\ ctl \in Controllers /\ Stored /\ Followed /\ InStep /\ lease \subseteq Reports
      /\ UNCHANGED <<op, lease, ran>>
  BY Zenon DEF Base, Types, DrainInv, Concludes, Verifies, Finalizes, ControllerDies
<1>2. \A r \in Reports : /\ journal'[r].hold = journal[r].hold
                         /\ \A a \in Lanes : Len(journal'[r].att[a]) = Len(journal[r].att[a])
  <2>1. CASE Concludes
    BY <2>1, ConcludesJournal, Zenon DEF Consumes
  <2>2. CASE Finalizes
    BY <2>2, FinalizesJournal, Zenon
  <2>3. CASE Verifies(TRUE) \/ Verifies(FALSE) \/ ControllerDies
    BY <2>3, Zenon DEF Verifies, ControllerDies
  <2> QED
    BY <2>1, <2>2, <2>3, Zenon
<1>3. Stored'
  BY <1>1, <1>2, SameGrows, StoredKept, Zenon DEF Stored
<1>4. CASE ctl' = Off
  BY <1>3, <1>4, OffInStep, Zenon DEF DrainInv
<1>5. CASE Concludes
  <2>1. ctl.pc = "conclude" /\ ctl'.pc = "verify" /\ But(ctl')
    BY <1>1, <1>5, GoIs, Zenon DEF Concludes, Go
  <2>2. ctl'.pc \in Calmly /\ (ctl'.owns => ctl'.rep \in lease')
    BY <1>1, <2>1, Zenon DEF Calmly, InStep, But
  <2>3. Followed'
    BY <1>1, <2>1, IsFree, StaysFree, Zenon DEF OnOp, Releasing
  <2> QED
    BY <1>3, <2>2, <2>3, CalmInStep, Zenon DEF DrainInv
<1>6. CASE ctl' # Off /\ (Verifies(TRUE) \/ Verifies(FALSE))
  <2>1. /\ ctl.pc = "verify" /\ ctl'.pc \in {"acquire", "release", "finalize"}
        /\ ctl'.rep = ctl.rep /\ ctl'.owns = ctl.owns
        /\ ctl'.pc = "release" => journal[ctl.rep].hold.st \in Unsettled
        /\ journal' = journal
    <3>1. PICK reach \in BOOLEAN : Verifies(reach)
      BY <1>6, Zenon
    <3> DEFINE plan == Planned(reach)
               pc == IF ~(\A a \in Group : plan[a] = "skip") THEN "acquire"
                     ELSE IF journal[ctl.rep].hold.st \in Unsettled THEN "release" ELSE "finalize"
    <3>3. ctl' = [ctl EXCEPT !.plan = plan, !.ret = "finalize", !.pc = pc]
      BY <1>6, <3>1, Zenon DEF Verifies
    <3>4. pc \in {"acquire", "release", "finalize"} /\ (pc = "release" => journal[ctl.rep].hold.st \in Unsettled)
      BY Zenon
    <3> HIDE DEF plan, pc
    <3>2. ctl'.pc = pc /\ ctl'.rep = ctl.rep /\ ctl'.owns = ctl.owns
      BY <1>1, <3>3, Zenon DEF Controllers
    <3> QED
      BY <3>1, <3>2, <3>4, Zenon DEF Verifies
  <2>2. ctl'.owns => ctl'.rep \in lease'
    BY <1>1, <2>1, Zenon DEF InStep
  <2>3. InStep'
    BY <2>1, <2>2, Zenon DEF InStep, Executing
  <2>4. Followed'
    BY <1>1, <2>1, IsFree, StaysFree, ZenonT(30) DEF OnOp, Releasing
  <2> QED
    BY <1>3, <2>3, <2>4, Zenon DEF DrainInv
<1>7. CASE ctl' # Off /\ Finalizes
  <2>1. /\ ctl.pc \in {"finalize", "final"} /\ ctl' = [ctl EXCEPT !.pc = "release", !.ret = "final"]
        /\ journal[ctl.rep].hold.st \in Unsettled /\ journal' = journal
    BY <1>7, Zenon DEF Finalizes, Exits
  <2>2. ctl'.pc = "release" /\ ctl'.rep = ctl.rep
    BY <1>1, <2>1, Zenon DEF Controllers
  <2>3. InStep'
    BY <2>1, <2>2, Zenon DEF InStep, Executing
  <2>4. Followed'
    BY <1>1, <2>1, IsFree, StaysFree, ZenonT(30) DEF OnOp, Releasing
  <2> QED
    BY <1>3, <2>3, <2>4, Zenon DEF DrainInv
<1> QED
  BY <1>4, <1>5, <1>6, <1>7, Zenon DEF ControllerDies, Exits

\* The hold of an interrupted plan is released only when the host's operations are settled.
LEMMA CleansDrain == ASSUME Base, Base', DrainInv, Cleans PROVE DrainInv'
<1>1. /\ Types /\ ctl \in Controllers /\ Stored /\ Followed /\ InStep /\ ctl.pc = "finally" /\ ctl.rep \in Reports
      /\ UNCHANGED <<op, lease, ran, journal>>
  BY Zenon DEF Base, Types, DrainInv, Cleans, ControllerAgrees
<1>2. Stored'
  BY <1>1, SameGrows, StoredKept, ZenonT(30) DEF Stored
<1>3. CASE ctl' = Off
  BY <1>2, <1>3, OffInStep, Zenon DEF DrainInv
<1>4. CASE ctl' # Off
  <2>1. /\ ctl' = [ctl EXCEPT !.pc = "release", !.ret = "off"]
        /\ journal[ctl.rep].hold.st \in Unsettled /\ ~HostUnsettled
    BY <1>4, Zenon DEF Cleans
  <2>2. ctl'.pc = "release" /\ ctl'.ret = "off" /\ ctl'.rep = ctl.rep
    BY <1>1, <2>1, Zenon DEF Controllers
  <2>3. InStep'
    BY <1>1, <2>1, <2>2, Zenon DEF InStep, Executing
  <2>4. ASSUME NEW o \in Ops, RunOpen(o), o[1] = ctl.rep, o[2] \in Group
        PROVE  FALSE
    <3> DEFINE att == journal[ctl.rep].att[o[2]]
    <3>1. o[1] \in Reports /\ o[2] \in Lanes /\ o[3] \in 1..MaxAttempts /\ o = <<o[1], o[2], o[3]>>
      BY OpParts, Zenon
    <3>2. att \in Seq(Refs) /\ Len(att) \in Nat
      BY <1>1, <3>1, Lengths, Zenon
    <3>3. o[3] <= Len(att)
      BY <1>1, <2>4, Zenon DEF Stored, Journaled, RunOpen
    <3>4. DOMAIN att = 1..Len(att)
      BY <3>2, SeqIs, Zenon
    <3>5. o[3] \in DOMAIN att
      <4> HIDE DEF att
      <4> QED
        BY <3>1, <3>2, <3>3, <3>4, RolloutAssumption DEF RolloutAssumption
    <3>6. StateOf(o) # "completed"
      BY <1>1, <2>4, StateIs, Zenon DEF RunOpen
    <3>7. o = <<ctl.rep, o[2], o[3]>>
      BY <2>4, <3>1, Zenon
    <3>8. StateOf(<<ctl.rep, o[2], o[3]>>) = "completed"
      BY <2>1, <2>4, <3>5, Zenon DEF HostUnsettled
    <3> QED
      BY <3>6, <3>7, <3>8, Zenon
  <2>5. Followed'
    BY <1>1, <2>2, <2>4, Zenon DEF Followed, Releasing, RunOpen
  <2> QED
    BY <1>2, <2>3, <2>5, Zenon DEF DrainInv
<1> QED
  BY <1>3, <1>4, Zenon

(* DrainInv holds initially.                                               *)
LEMMA DrainInit == Init => DrainInv
<1> SUFFICES ASSUME Init PROVE DrainInv
  BY Zenon
<1>1. \A o \in Ops : op[o] = Unprepared /\ ran[o].held = FALSE
  BY Zenon DEF Init
<1>2. \A o \in Ops : ~op[o].req /\ op[o].auth = "none"
  BY <1>1 DEF Unprepared
<1>3. ctl.pc = "off" /\ ~ctl.owns /\ lease = {}
  BY OffIs, Zenon DEF Init
<1>4. Stored
  BY <1>1, <1>2, <1>3, Zenon DEF Stored, RunOpen
<1>5. Followed
  BY <1>3, Zenon DEF Followed, Releasing
<1>6. InStep
  BY <1>3, Zenon DEF InStep, Executing
<1> QED
  BY <1>4, <1>5, <1>6, Zenon DEF DrainInv

(* Every step keeps DrainInv.                                              *)
LEMMA DrainStep == Base /\ Base' /\ DrainInv /\ [Next]_vars => DrainInv'
<1> SUFFICES ASSUME Base, Base', DrainInv, [Next]_vars PROVE DrainInv'
  BY Zenon
<1>1. CASE ReconcileStep
  BY <1>1, AdoptsDrain, AbortsDrain, HarvestsDrain, ReconciledDrain, Zenon DEF ReconcileStep
<1>2. CASE PlanStep
  BY <1>2, PlansDrain, UnselectsDrain, RunsDriverDrain, BeginsDrain, Zenon DEF PlanStep
<1>3. CASE HoldStep
  BY <1>3, AcquiresDrain, AsksDrain, ReleasesDrain, UnholdsDrain, Zenon DEF HoldStep
<1>4. CASE LaneStep
  BY <1>4, VisitsDrain, PreparesDrain, JournalsDrain, LaunchesDrain, AuthorizesDrain, FailsDrain, ZenonT(30)
     DEF LaneStep
<1>5. CASE EndStep
  BY <1>5, EndsDrain, CleansDrain, Zenon DEF EndStep
<1>6. CASE Fault
  BY <1>6, PlansDrain, EndsDrain, ProbeFailsDrain, AsksDrain, ReleaseFailsDrain, LaunchesDrain,
     OthersDrain, ZenonT(30) DEF Fault
<1>7. CASE Starts
  BY <1>7, StartsDrain, Zenon
<1>8. CASE \/ SupervisorStep \/ RecorderStep \/ ChildEnds \/ NewReport
           \/ (\E o \in Ops : ReconcilesOperation(o)) \/ UNCHANGED vars
  BY <1>8, OthersDrain, Zenon
<1> QED
  BY <1>1, <1>2, <1>3, <1>4, <1>5, <1>6, <1>7, <1>8, ZenonT(30) DEF Next, ControllerStep

(* A host both of whose lanes a rollout updates is drained while either    *)
(* update runs, also when the controller that asked acquire_rollout_hold   *)
(* for the drain is gone, and the daemon holds no lease that no journal    *)
(* owns.                                                                   *)
THEOREM HostStaysDrained == Spec => []GroupIsHeld
<1>1. Base /\ DrainInv => GroupIsHeld
  <2> SUFFICES ASSUME Base, DrainInv PROVE GroupIsHeld
    BY Zenon
  <2>1. ASSUME child.pc = "run", ran[child.o].held PROVE child.o[1] \in lease
    <3>1. child.o \in Ops
      BY <2>1, ProcIs, ZenonT(30) DEF Base, Types
    <3>2. op[child.o].act /\ op[child.o].result = "none"
      BY <2>1, Zenon DEF Base, ProcessesAgree
    <3>3. op[child.o].auth = "run"
      BY <3>1, <3>2, Zenon DEF Base, ReceiptsAgree
    <3> QED
      BY <2>1, <3>1, <3>2, <3>3, Zenon DEF DrainInv, Stored, RunOpen
  <2> QED
    BY <2>1, Zenon DEF GroupIsHeld, DrainInv, Stored
<1> QED
  BY <1>1, BaseHolds, BaseStep, DrainInit, DrainStep, PTL DEF Spec
=============================================================================
