------------------------- MODULE FleetRolloutProofs -------------------------
(***************************************************************************)
(* An action of a rollout is launched at most once: the inductive          *)
(* invariant Base, one lemma per step of the controller                    *)
(* (fleet_rollout.py), the supervisor, the recorder and the child          *)
(* (fleet_operation.py), and the theorem. The first half describes what    *)
(* the operators and the steps do to the journal and to the receipts;      *)
(* FleetRolloutHoldProofs uses these lemmas too.                           *)
(***************************************************************************)
EXTENDS FleetRollout, TLAPS

Hosts == {"driver", "cluster"}
Refs == [harvested : BOOLEAN, consumed : BOOLEAN, retry : BOOLEAN]
Holds == [st : {"none", "active", "cleanup-failed", "released"}, sure : BOOLEAN]
Runs == [att : [Lanes -> Seq(Refs)],
         status : [Lanes -> {"none", "not-run", "running", "success", "failed"}],
         reentry : BOOLEAN, hold : Holds, failed : SUBSET Hosts, complete : BOOLEAN]
OnOp == {"launch", "ready", "stream", "fails", "abort", "aborted", "harvest", "journal"}
Steps == OnOp \cup {"off", "reconcile", "plan", "unselect", "driver", "begin", "acquire", "ask",
                    "confirm", "lane", "prepare", "done", "conclude", "verify", "finally",
                    "release", "released", "finalize", "final"}
Controllers ==
    [pc : Steps, rep : 0..MaxReports, ver : 0..MaxReports, ack : 0..MaxReports, todo : SUBSET Ops,
     o : Ops \cup {NoOp}, plan : [Lanes -> {"skip", "update", "defer"}], lane : Lanes,
     ret : {"reconcile", "unselect", "exec", "lane", "finalize", "final", "off"},
     failed : SUBSET Hosts, refs : SUBSET (Reports \X Hosts), owns : BOOLEAN, seen : SUBSET Ops]
Procs(pcs) == {NoProc} \cup [pc : pcs, o : Ops]

(* The types of the receipts, the journals and the processes.              *)
Types ==
    /\ report \in Reports /\ lease \subseteq Reports /\ faults \in Nat
    /\ op \in [Ops -> Receipts] /\ live \in [Lanes -> 0..MaxReports]
    /\ journal \in [Reports -> Runs]
    /\ ctl \in Controllers
    /\ sup \in Procs({"up", "out", "wait", "go"})
    /\ rec \in Procs({"up", "act", "run"}) /\ child \in Procs({"run", "ok", "bad"})
    /\ ran \in [Ops -> [n : Nat, held : BOOLEAN]]

(* The receipts of one operation are written in order: request,            *)
(* supervisor, ready, authorization, activation, result. The action runs   *)
(* only after its activation is recorded, and at most once; a result other *)
(* than aborted is written only after it ran.                              *)
ReceiptsAgree ==
    \A o \in Ops :
        /\ op[o].out => op[o].req
        /\ op[o].ready => op[o].out
        /\ op[o].auth # "none" => op[o].req
        /\ op[o].auth = "run" => op[o].ready
        /\ op[o].act => op[o].auth = "run"
        /\ ran[o].n > 0 => op[o].act
        /\ ran[o].n <= 1
        /\ op[o].result \in {"success", "failed"} => ran[o].n = 1
        /\ op[o].result = "aborted" => op[o].auth = "abort"

\* The action of o was started, or is about to be.
Acting(o) == (rec.pc \in {"act", "run"} /\ rec.o = o) \/ (child.pc = "run" /\ child.o = o)

(* What each process may take for granted of the receipts of its           *)
(* operation: the recorder works on an authorized operation, and once it   *)
(* has written the activation no one else writes the result.               *)
ProcessesAgree ==
    /\ sup # NoProc => op[sup.o].req
    /\ sup.pc \in {"out", "wait", "go"} => op[sup.o].out
    /\ sup.pc = "go" => op[sup.o].auth = "run"
    /\ rec # NoProc => op[rec.o].auth = "run"
    /\ rec.pc \in {"act", "run"} => op[rec.o].act /\ op[rec.o].result = "none"
    /\ rec.pc = "act" => ran[rec.o].n = 0
    /\ rec.pc = "run" => ran[rec.o].n = 1
    /\ child.pc = "run" => op[child.o].act /\ op[child.o].result = "none"

(* The abort of the prepared operations that the plan does not select.     *)
Unselecting == ctl.pc = "unselect" \/ (ctl.pc \in OnOp /\ ctl.ret = "unselect")
(* What the controller may take for granted: the report and the operation  *)
(* it works on exist, it aborts only what was not authorized to run, and   *)
(* it harvests only results.                                               *)
ControllerAgrees ==
    /\ ctl.pc # "off" => ctl.rep \in Reports
    /\ ctl.pc \in OnOp => \/ ctl.ret \in {"reconcile", "exec"}
                          \/ ctl.ret = "unselect" /\ ctl.pc \in {"abort", "aborted", "harvest"}
    /\ ctl.pc \in {"acquire", "ask", "confirm"} => ctl.ret \in {"lane", "finalize"}
    /\ ctl.pc \in {"release", "released"} => ctl.ret \in {"off", "final", "finalize"}
    /\ \A o \in ctl.todo : op[o].req
    /\ ctl.pc \in OnOp => ctl.o \in Ops /\ op[ctl.o].req
    /\ Unselecting => \A o \in ctl.todo : op[o].auth # "run"
    /\ ctl.pc = "abort" => op[ctl.o].auth # "run"
    /\ ctl.pc = "aborted" => op[ctl.o].auth = "abort"
    /\ ctl.pc = "harvest" => op[ctl.o].result # "none"

(* The inductive invariant.                                                *)
Base == Types /\ ReceiptsAgree /\ ProcessesAgree /\ ControllerAgrees
-----------------------------------------------------------------------------
(* Facts about finite sequences: length and domain;                        *)
LEMMA SeqIs ==
    ASSUME NEW S, NEW q \in Seq(S)
    PROVE  Len(q) \in Nat /\ q \in [1..Len(q) -> S] /\ DOMAIN q = 1..Len(q)
  BY SMT

(* elements;                                                               *)
LEMMA SeqElement ==
    ASSUME NEW S, NEW q \in Seq(S), NEW n \in 1..Len(q)
    PROVE  q[n] \in S
  BY SMT

(* one element replaced;                                                   *)
LEMMA SeqExcept ==
    ASSUME NEW S, NEW q \in Seq(S), NEW n \in 1..Len(q), NEW v \in S
    PROVE  /\ [q EXCEPT ![n] = v] \in Seq(S) /\ Len([q EXCEPT ![n] = v]) = Len(q)
           /\ \A m \in 1..Len(q) : [q EXCEPT ![n] = v][m] = IF m = n THEN v ELSE q[m]
<1>1. q \in [1..Len(q) -> S] /\ Len(q) \in Nat
  BY SMT
<1>2. [q EXCEPT ![n] = v] \in [1..Len(q) -> S]
  BY <1>1, SMT
<1> QED
  BY <1>1, <1>2, SMT

(* one element appended.                                                   *)
LEMMA SeqAppend ==
    ASSUME NEW S, NEW q \in Seq(S), NEW v \in S
    PROVE  /\ Append(q, v) \in Seq(S) /\ Len(Append(q, v)) = Len(q) + 1
           /\ Append(q, v)[Len(q) + 1] = v
           /\ \A n \in 1..Len(q) : Append(q, v)[n] = q[n]
  BY SMT

\* The numbers of attempts: the one after n others, and of an attempt made.
LEMMA NextAttempt ==
    \A n \in Nat : n + 1 \in Nat /\ n + 1 >= 1 /\ (n > 0 => n >= 1)
OBVIOUS

(* The parts of an operation identifier; NoOp is none.                     *)
LEMMA OpParts ==
    /\ NoOp \notin Ops
    /\ \A o \in Ops : /\ o[1] \in Reports /\ o[2] \in Lanes /\ o[3] \in 1..MaxAttempts
                      /\ o = <<o[1], o[2], o[3]>>
                      /\ HostOf(o[2]) \in Hosts
    /\ \A r \in Reports, a \in Lanes, n \in 1..MaxAttempts : <<r, a, n>> \in Ops
  BY RolloutAssumption DEF RolloutAssumption, Ops, NoOp, Reports, HostOf, Hosts

(* What each answer of observe_operation says of the receipts and the      *)
(* lease.                                                                  *)
LEMMA StateIs ==
    ASSUME Types, NEW o \in Ops
    PROVE  /\ StateOf(o) = "completed" <=> op[o].result # "none"
           /\ StateOf(o) = "outcome-unknown" <=>
                  op[o].result = "none" /\ ~Busy(o) /\ op[o].auth = "run" /\ op[o].act
           /\ StateOf(o) = "authorized-unactivated" <=>
                  op[o].result = "none" /\ ~Busy(o) /\ op[o].auth = "run" /\ ~op[o].act
           /\ StateOf(o) = "prepared" <=>
                  op[o].result = "none" /\ ~Busy(o) /\ op[o].auth = "none" /\ ~op[o].out
           /\ StateOf(o) = "abandoned" =>
                  op[o].result = "none" /\ ~Busy(o) /\ op[o].auth # "run"
           /\ StateOf(o) \in {"running-authorized", "starting"} => op[o].result = "none" /\ Busy(o)
           /\ StateOf(o) \in {"completed", "outcome-unknown", "authorized-unactivated", "prepared",
                              "abandoned", "running-authorized", "starting"}
<1>1. op[o] \in Receipts
  BY Zenon DEF Types
<1> QED
  BY <1>1, Zenon DEF StateOf, Receipts

(* _upsert_operation_ref appends one reference to the lane's attempts or   *)
(* changes nothing.                                                        *)
LEMMA UpsertedIs ==
    ASSUME NEW j \in Runs, NEW o \in Ops
    PROVE  /\ Upserted(j, o) \in Runs
           /\ \A f \in {"status", "reentry", "hold", "failed", "complete"} : Upserted(j, o)[f] = j[f]
           /\ \A a \in Lanes :
                 Upserted(j, o).att[a] = IF a = o[2] /\ o[3] > Len(j.att[a])
                                         THEN Append(j.att[a], NewRef) ELSE j.att[a]
<1>1. o[2] \in Lanes /\ o[3] \in Nat /\ NewRef \in Refs
  BY OpParts, RolloutAssumption DEF RolloutAssumption, NewRef, Refs
<1>2. j.att \in [Lanes -> Seq(Refs)]
  BY Zenon DEF Runs
<1>3. Append(j.att[o[2]], NewRef) \in Seq(Refs)
  BY <1>1, <1>2
<1>4. Len(j.att[o[2]]) \in Nat
  BY <1>1, <1>2
<1>5. CASE o[3] <= Len(j.att[o[2]])
  <2>1. Upserted(j, o) = j
    BY <1>5, Zenon DEF Upserted
  <2> QED
    BY <2>1, <1>1, <1>4, <1>5
<1>6. CASE ~(o[3] <= Len(j.att[o[2]]))
  <2> DEFINE s == [j.att EXCEPT ![o[2]] = Append(j.att[o[2]], NewRef)]
  <2>1. Upserted(j, o) = [j EXCEPT !.att = s]
    BY <1>6, Zenon DEF Upserted
  <2>2. s \in [Lanes -> Seq(Refs)] /\ \A a \in Lanes : s[a] = IF a = o[2] THEN Append(j.att[a], NewRef) ELSE j.att[a]
    BY <1>1, <1>2, <1>3, Zenon
  <2> HIDE DEF s
  <2>3. Upserted(j, o) \in Runs /\ Upserted(j, o).att = s
    BY <2>1, <2>2, Zenon DEF Runs
  <2>4. \A f \in {"status", "reentry", "hold", "failed", "complete"} : Upserted(j, o)[f] = j[f]
    BY <2>1, Zenon DEF Runs
  <2>5. o[3] > Len(j.att[o[2]])
    BY <1>6, <1>1, <1>4
  <2> QED
    BY <2>2, <2>3, <2>4, <2>5, Zenon
<1> QED
  BY <1>5, <1>6, Zenon

(* The attempts with the reference of o replaced.                          *)
Poked(att, o, ref) == [att EXCEPT ![o[2]] = [att[o[2]] EXCEPT ![o[3]] = ref]]

\* new is old with the reference of o replaced by ref, if it is there.
ButFor(new, old, o, ref) ==
    /\ new \in [Lanes -> Seq(Refs)]
    /\ \A a \in Lanes : Len(new[a]) = Len(old[a])
    /\ \A a \in Lanes : \A n \in 1..Len(old[a]) :
          new[a][n] = IF a = o[2] /\ n = o[3] THEN ref ELSE old[a][n]

(* Replacing one reference keeps every other and the number of attempts.   *)
LEMMA Poking ==
    ASSUME NEW att \in [Lanes -> Seq(Refs)], NEW o \in Ops, NEW ref,
           o[3] \in 1..Len(att[o[2]]) => ref \in Refs
    PROVE  ButFor(Poked(att, o, ref), att, o, ref)
<1> DEFINE q == att[o[2]]
           p == [q EXCEPT ![o[3]] = ref]
<1>1. o[2] \in Lanes /\ o[3] \in Nat /\ q \in Seq(Refs)
  BY OpParts, RolloutAssumption DEF RolloutAssumption
<1>2. p \in Seq(Refs) /\ Len(p) = Len(q) /\ \A n \in 1..Len(q) : p[n] = IF n = o[3] THEN ref ELSE q[n]
  <2>1. CASE o[3] \in 1..Len(q)
    BY <2>1, <1>1, SeqExcept
  <2>2. CASE o[3] \notin 1..Len(q)
    <3>1. q \in [1..Len(q) -> Refs]
      BY <1>1, SeqIs, Zenon
    <3>2. p = q
      BY <2>2, <3>1, Zenon
    <3> QED
      BY <3>2, <2>2, <1>1, Zenon
  <2> QED
    BY <2>1, <2>2, Zenon
<1>3. Poked(att, o, ref) = [att EXCEPT ![o[2]] = p]
  BY Zenon DEF Poked
<1> HIDE DEF p
<1>4. \A a \in Lanes : Poked(att, o, ref)[a] = IF a = o[2] THEN p ELSE att[a]
  BY <1>3, Zenon
<1>5. Poked(att, o, ref) \in [Lanes -> Seq(Refs)]
  BY <1>1, <1>2, <1>3, Zenon
<1> QED
  BY <1>1, <1>2, <1>4, <1>5, Zenon DEF ButFor

(* What the harvest and the fences of a journal leave alone.               *)
Other == {"hold", "failed", "complete"}

(* _harvest_operation changes the reference of its operation only.         *)
LEMMA HarvestedIs ==
    ASSUME Types, NEW j \in Runs, NEW o \in Ops, op[o].result # "none"
    PROVE  /\ Harvested(j, o) \in Runs
           /\ \A f \in Other : Harvested(j, o)[f] = j[f]
           /\ ButFor(Harvested(j, o).att, j.att, o, [j.att[o[2]][o[3]] EXCEPT !.harvested = TRUE])
<1> DEFINE ref == j.att[o[2]][o[3]]
           new == [ref EXCEPT !.harvested = TRUE]
           s == IF op[o].result = "aborted" THEN "not-run" ELSE op[o].result
           b == j.reentry \/ (o[2] = "driver" /\ op[o].result = "success")
           att == Poked(j.att, o, new)
           status == [j.status EXCEPT ![o[2]] = s]
<1>1. o[2] \in Lanes /\ o[3] \in Nat
  BY OpParts, RolloutAssumption DEF RolloutAssumption
<1>2. j.att \in [Lanes -> Seq(Refs)] /\ j.status \in [Lanes -> {"none", "not-run", "running", "success", "failed"}]
  BY Zenon DEF Runs
<1>3. o[3] \in 1..Len(j.att[o[2]]) => ref \in Refs /\ new \in Refs
  <2>1. SUFFICES ASSUME o[3] \in 1..Len(j.att[o[2]])
                 PROVE  ref \in Refs /\ new \in Refs
    BY Zenon
  <2>2. ref \in Refs
    BY <2>1, <1>1, <1>2, SeqElement, Zenon
  <2> QED
    BY <2>2, Zenon DEF Refs
<1>4. s \in {"not-run", "success", "failed"} /\ b \in BOOLEAN
  BY Zenon DEF Types, Receipts, Runs
<1>5. status \in [Lanes -> {"none", "not-run", "running", "success", "failed"}]
  BY <1>1, <1>2, <1>4, Zenon
<1>6. ButFor(att, j.att, o, new)
  <2>1. o[3] \in 1..Len(j.att[o[2]]) => new \in Refs
    BY <1>3, Zenon
  <2> HIDE DEF new
  <2> QED
    BY <2>1, <1>2, Poking, Zenon
<1>7. CASE ref.harvested
  <2>1. Harvested(j, o) = j
    BY <1>7, Zenon DEF Harvested
  <2>2. o[3] \in 1..Len(j.att[o[2]]) => ref = new
    BY <1>3, <1>7, Zenon DEF Refs
  <2> HIDE DEF new, ref
  <2>3. ButFor(j.att, j.att, o, new)
    BY <2>2, <1>2, Zenon DEF ButFor, ref
  <2> QED
    BY <2>1, <2>3, Zenon DEF new, ref
<1>8. CASE ~ref.harvested
  <2>1. Harvested(j, o) = [j EXCEPT !.att = att, !.status = status, !.reentry = b]
    BY <1>8, Zenon DEF Harvested, Poked
  <2> HIDE DEF att, status, b, new
  <2>2. Harvested(j, o) \in Runs /\ Harvested(j, o).att = att
    BY <2>1, <1>4, <1>5, <1>6, Zenon DEF Runs, ButFor
  <2>3. \A f \in Other : Harvested(j, o)[f] = j[f]
    BY <2>1, Zenon DEF Runs, Other
  <2> QED
    BY <2>2, <2>3, <1>6, Zenon DEF new
<1> QED
  BY <1>7, <1>8, Zenon

(* What the reconciliation of a failure does to its reference.             *)
FencedRef(o, ref) == IF Failed(o) /\ ref.consumed THEN [ref EXCEPT !.retry = TRUE] ELSE ref

(* The fence changes the reference of its operation only.                  *)
LEMMA FencedIs ==
    ASSUME Types, NEW j \in Runs, NEW o \in Ops
    PROVE  /\ Fenced(j, o) \in Runs
           /\ \A f \in Other : Fenced(j, o)[f] = j[f]
           /\ ButFor(Fenced(j, o).att, j.att, o, FencedRef(o, j.att[o[2]][o[3]]))
<1> DEFINE ref == j.att[o[2]][o[3]]
           new == FencedRef(o, ref)
           att == Poked(j.att, o, new)
<1>1. o[2] \in Lanes /\ o[3] \in Nat
  BY OpParts, RolloutAssumption DEF RolloutAssumption
<1>2. j.att \in [Lanes -> Seq(Refs)]
  BY Zenon DEF Runs
<1>3. o[3] \in 1..Len(j.att[o[2]]) => ref \in Refs /\ new \in Refs
  <2>1. SUFFICES ASSUME o[3] \in 1..Len(j.att[o[2]])
                 PROVE  ref \in Refs /\ new \in Refs
    BY Zenon
  <2>2. ref \in Refs
    BY <2>1, <1>1, <1>2, SeqElement, Zenon
  <2> QED
    BY <2>2, Zenon DEF Refs, FencedRef
<1>6. ButFor(att, j.att, o, new)
  <2>1. o[3] \in 1..Len(j.att[o[2]]) => new \in Refs
    BY <1>3, Zenon
  <2> HIDE DEF new
  <2> QED
    BY <2>1, <1>2, Poking, Zenon
<1>7. CASE ~(Failed(o) /\ ref.consumed)
  <2>1. Fenced(j, o) = j
    BY <1>7, Zenon DEF Fenced
  <2>2. ref = new
    BY <1>7, Zenon DEF FencedRef
  <2> HIDE DEF new, ref
  <2>3. ButFor(j.att, j.att, o, new)
    BY <2>2, <1>2, Zenon DEF ButFor, ref
  <2> QED
    BY <2>1, <2>3, Zenon DEF new, ref
<1>8. CASE Failed(o) /\ ref.consumed
  <2>1. new = [ref EXCEPT !.retry = TRUE]
    BY <1>8, Zenon DEF FencedRef
  <2>2. Fenced(j, o) = [j EXCEPT !.att = att]
    <3> HIDE DEF new
    <3> QED
      BY <1>8, <2>1, Zenon DEF Fenced, Poked
  <2> HIDE DEF att, new
  <2>3. Fenced(j, o) \in Runs /\ Fenced(j, o).att = att
    BY <2>2, <1>6, Zenon DEF Runs, ButFor
  <2>4. \A f \in Other : Fenced(j, o)[f] = j[f]
    BY <2>2, Zenon DEF Runs, Other
  <2> QED
    BY <2>3, <2>4, <1>6, Zenon DEF new
<1> QED
  BY <1>7, <1>8, Zenon

\* new is old with references consumed that are of failed operations.
Consumes(r, new, old) ==
    /\ new \in [Lanes -> Seq(Refs)]
    /\ \A a \in Lanes : Len(new[a]) = Len(old[a])
    /\ \A a \in Lanes : \A n \in 1..Len(old[a]) :
          /\ new[a][n].harvested = old[a][n].harvested
          /\ new[a][n].retry = old[a][n].retry
          /\ new[a][n].consumed => old[a][n].consumed \/ Failed(<<r, a, n>>)
          /\ old[a][n].consumed => new[a][n].consumed

(* consume_reconciled_failure_fences marks references of failed operations *)
(* and nothing else.                                                       *)
LEMMA ConsumedIs ==
    ASSUME Types, NEW refs
    PROVE  /\ Consumed(refs) \in [Reports -> Runs]
           /\ \A r \in Reports : /\ \A f \in Other : Consumed(refs)[r][f] = journal[r][f]
                                 /\ Consumes(r, Consumed(refs)[r].att, journal[r].att)
<1> DEFINE new(r, a, n) == IF /\ <<r, HostOf(a)>> \in refs /\ Failed(<<r, a, n>>)
                              /\ ~journal[r].att[a][n].consumed
                           THEN [journal[r].att[a][n] EXCEPT !.consumed = TRUE]
                           ELSE journal[r].att[a][n]
           seq(r, a) == [n \in DOMAIN journal[r].att[a] |-> new(r, a, n)]
           att(r) == [a \in Lanes |-> seq(r, a)]
<1>1. SUFFICES ASSUME NEW r \in Reports
               PROVE  /\ [journal[r] EXCEPT !.att = att(r)] \in Runs
                      /\ \A f \in Other : [journal[r] EXCEPT !.att = att(r)][f] = journal[r][f]
                      /\ Consumes(r, [journal[r] EXCEPT !.att = att(r)].att, journal[r].att)
  BY Zenon DEF Consumed
<1>2. journal[r] \in Runs /\ journal[r].att \in [Lanes -> Seq(Refs)]
  BY Zenon DEF Types, Runs
<1>3. ASSUME NEW a \in Lanes
      PROVE  /\ seq(r, a) \in Seq(Refs) /\ Len(seq(r, a)) = Len(journal[r].att[a])
             /\ \A n \in 1..Len(journal[r].att[a]) : seq(r, a)[n] = new(r, a, n)
  <2>1. journal[r].att[a] \in Seq(Refs)
    BY <1>2, Zenon
  <2>2. DOMAIN journal[r].att[a] = 1..Len(journal[r].att[a]) /\ Len(journal[r].att[a]) \in Nat
    BY <2>1
  <2>3. ASSUME NEW n \in 1..Len(journal[r].att[a])
        PROVE  new(r, a, n) \in Refs
    <3>1. journal[r].att[a][n] \in Refs
      BY <2>1, SeqElement, Zenon
    <3> QED
      BY <3>1, Zenon DEF Refs
  <2> HIDE DEF new
  <2> QED
    BY <2>2, <2>3
<1> HIDE DEF seq
<1>4. att(r) \in [Lanes -> Seq(Refs)]
  BY <1>3, Zenon
<1>5. Consumes(r, att(r), journal[r].att)
  <2>1. ASSUME NEW a \in Lanes, NEW n \in 1..Len(journal[r].att[a])
        PROVE  /\ new(r, a, n).harvested = journal[r].att[a][n].harvested
               /\ new(r, a, n).retry = journal[r].att[a][n].retry
               /\ new(r, a, n).consumed => journal[r].att[a][n].consumed \/ Failed(<<r, a, n>>)
               /\ journal[r].att[a][n].consumed => new(r, a, n).consumed
    <3>1. journal[r].att[a][n] \in Refs
      BY <1>2, SeqElement, Zenon
    <3> QED
      BY <3>1, Zenon DEF Refs
  <2> HIDE DEF new
  <2> QED
    BY <2>1, <1>3, <1>4 DEF Consumes
<1> HIDE DEF att
<1>6. [journal[r] EXCEPT !.att = att(r)] \in Runs /\ [journal[r] EXCEPT !.att = att(r)].att = att(r)
  BY <1>2, <1>4, Zenon DEF Runs
<1>7. \A f \in Other : [journal[r] EXCEPT !.att = att(r)][f] = journal[r][f]
  BY <1>2, Zenon DEF Runs, Other
<1> QED
  BY <1>5, <1>6, <1>7, Zenon

-----------------------------------------------------------------------------
(* A controller that is not running has nothing to do.                     *)
LEMMA OffIs == Off \in Controllers /\ Off.pc = "off" /\ Off.todo = {} /\ ~Off.owns
<1>1. NoPlan \in [Lanes -> {"skip", "update", "defer"}]
  BY Zenon DEF NoPlan
<1>2. 0 \in 0..MaxReports
  BY RolloutAssumption DEF RolloutAssumption
<1> QED
  BY <1>1, <1>2, Zenon DEF Off, Controllers, Steps, OnOp, Lanes

(* A new invocation begins with the operations that are pending.           *)
LEMMA InvokedIs ==
    ASSUME Types, NEW ack \in 0..MaxReports
    PROVE  /\ Invoked(ack) \in Controllers
           /\ Invoked(ack).pc = "reconcile" /\ Invoked(ack).rep = report
           /\ Invoked(ack).todo = {o \in Ops : Pending(o)}
           /\ Invoked(ack).seen = {o \in Ops : Failed(o) /\ Journaled(o) /\ Ref(o).consumed}
           /\ ~Invoked(ack).owns /\ Invoked(ack).failed = {}
<1> DEFINE todo == {o \in Ops : Pending(o)}
           seen == {o \in Ops : Failed(o) /\ Journaled(o) /\ Ref(o).consumed}
<1>1. NoPlan \in [Lanes -> {"skip", "update", "defer"}]
  BY Zenon DEF NoPlan
<1>2. 0 \in 0..MaxReports /\ report \in 0..MaxReports /\ live["driver"] \in 0..MaxReports
  BY RolloutAssumption DEF RolloutAssumption, Types, Reports, Lanes
<1>3. todo \in SUBSET Ops /\ seen \in SUBSET Ops
  BY Zenon
<1>4. Invoked(ack) = [Off EXCEPT !.pc = "reconcile", !.rep = report, !.ver = live["driver"],
                                 !.ack = ack, !.todo = todo, !.seen = seen]
  BY Zenon DEF Invoked
<1> HIDE DEF todo, seen
<1>5. Invoked(ack) = [pc |-> "reconcile", rep |-> report, ver |-> live["driver"], ack |-> ack,
                      todo |-> todo, o |-> NoOp, ret |-> "reconcile", plan |-> NoPlan,
                      lane |-> "driver", failed |-> {}, refs |-> {}, owns |-> FALSE, seen |-> seen]
  BY <1>4, ZenonT(30) DEF Off
<1> QED
  BY <1>1, <1>2, <1>3, <1>5 DEF Controllers, Steps, OnOp, Lanes, todo, seen

(* An exception ends the command or leads to the finally clause.           *)
LEMMA RaisedIs ==
    ASSUME ctl \in Controllers
    PROVE  /\ Raised \in Controllers
           /\ Raised = Off \/ (ctl.plan["driver"] # "update" /\ Raised = [ctl EXCEPT !.pc = "finally"])
  BY OffIs DEF Raised, Controllers, Steps

(* So does a drain that was not confirmed.                                 *)
LEMMA NotHeldIs ==
    ASSUME ctl \in Controllers
    PROVE  NotHeld \in Controllers /\ NotHeld \in {Off, [ctl EXCEPT !.pc = "finally"]}
  BY OffIs DEF NotHeld, Controllers, Steps

(* The loop goes from one lane to the next.                                *)
LEMMA OnwardIs ==
    ASSUME ctl \in Controllers
    PROVE  /\ Onward \in Controllers
           /\ \/ Onward = [ctl EXCEPT !.pc = "lane", !.lane = "helper"] /\ ctl.lane = "driver"
              \/ Onward = [ctl EXCEPT !.pc = "lane", !.lane = "runtime"] /\ ctl.lane = "helper"
              \/ Onward = [ctl EXCEPT !.pc = "conclude"] /\ ctl.lane = "runtime"
<1>1. ctl.lane \in Lanes
  BY Zenon DEF Controllers
<1>2. CASE ctl.lane = "driver"
  BY <1>2, Zenon DEF Onward, Controllers, Steps, Lanes
<1>3. CASE ctl.lane = "helper"
  BY <1>3, ZenonT(30) DEF Onward, Controllers, Steps, Lanes
<1>4. CASE ctl.lane = "runtime"
  BY <1>4 DEF Onward, Controllers, Steps, Lanes
<1> QED
  BY <1>1, <1>2, <1>3, <1>4 DEF Lanes

(* A step of the controller that writes no receipt keeps Base when it      *)
(* keeps its own part.                                                     *)
LEMMA ControllerOnly ==
    ASSUME Base, UNCHANGED <<op, live, sup, rec, child, ran>>, report' \in Reports,
           lease' \subseteq Reports, faults' \in Nat, journal' \in [Reports -> Runs],
           ctl' \in Controllers, ControllerAgrees'
    PROVE  Base'
<1>1. Types'
  BY Zenon DEF Base, Types
<1>2. ReceiptsAgree' /\ ProcessesAgree'
  BY Zenon DEF Base, ReceiptsAgree, ProcessesAgree
<1> QED
  BY <1>1, <1>2, Zenon DEF Base

(* A fault is counted.                                                     *)
LEMMA FaultyIs == ASSUME Base, Faulty PROVE faults' \in Nat
  BY DEF Base, Types, Faulty

\* At a step that works on no operation.
LEMMA Calm ==
    ASSUME Base, op' = op, ctl' \in Controllers, ctl'.pc # "off" => ctl'.rep \in Reports,
           \A o \in ctl'.todo : op[o].req,
           ctl'.pc \in {"off", "reconcile", "plan", "driver", "begin", "lane", "prepare", "done",
                        "conclude", "verify", "finally", "finalize", "final"}
    PROVE  ControllerAgrees'
  BY Zenon DEF ControllerAgrees, Unselecting, OnOp

(* A new invocation.                                                       *)
LEMMA InvokedAgrees ==
    ASSUME Base, op' = op, NEW ack \in 0..MaxReports, ctl' = Invoked(ack)
    PROVE  ctl' \in Controllers /\ ControllerAgrees'
<1>1. Types
  BY Zenon DEF Base
<1>2. ctl' \in Controllers /\ ctl'.pc = "reconcile" /\ ctl'.rep = report /\ ctl'.todo = {o \in Ops : Pending(o)}
  BY <1>1, InvokedIs, Zenon
<1>3. \A o \in ctl'.todo : op[o].req
  BY <1>2, Zenon DEF Pending
<1>4. report \in Reports
  BY <1>1, Zenon DEF Types
<1> QED
  BY <1>2, <1>3, <1>4, Calm, Zenon

(* The end of the command.                                                 *)
LEMMA OffAgrees ==
    ASSUME Base, ctl' = Off
    PROVE  ctl' \in Controllers /\ ControllerAgrees'
  BY OffIs, Zenon DEF ControllerAgrees, Unselecting, OnOp

(* An exception.                                                           *)
LEMMA RaisedAgrees ==
    ASSUME Base, op' = op, ctl.pc # "off", ctl' = Raised
    PROVE  ctl' \in Controllers /\ ControllerAgrees'
<1>1. ctl \in Controllers /\ ctl.rep \in Reports /\ \A o \in ctl.todo : op[o].req
  BY Zenon DEF Base, Types, ControllerAgrees
<1>2. CASE ctl' = Off
  BY <1>2, OffAgrees, Zenon
<1>3. CASE ctl' = [ctl EXCEPT !.pc = "finally"]
  <2>1. ctl' \in Controllers /\ ctl'.pc = "finally" /\ ctl'.rep = ctl.rep /\ ctl'.todo = ctl.todo
    BY <1>1, <1>3 DEF Controllers, Steps
  <2> QED
    BY <2>1, <1>1, Calm, Zenon
<1> QED
  BY <1>1, <1>2, <1>3, RaisedIs, Zenon

(* A drain that was not confirmed.                                         *)
LEMMA NotHeldAgrees ==
    ASSUME Base, op' = op, ctl.pc # "off", ctl' = NotHeld
    PROVE  ctl' \in Controllers /\ ControllerAgrees'
<1>1. ctl \in Controllers /\ ctl.rep \in Reports /\ \A o \in ctl.todo : op[o].req
  BY Zenon DEF Base, Types, ControllerAgrees
<1>2. CASE ctl' = Off
  BY <1>2, OffAgrees, Zenon
<1>3. CASE ctl' = [ctl EXCEPT !.pc = "finally"]
  <2>1. ctl' \in Controllers /\ ctl'.pc = "finally" /\ ctl'.rep = ctl.rep /\ ctl'.todo = ctl.todo
    BY <1>1, <1>3, ZenonT(30) DEF Controllers, Steps
  <2> QED
    BY <2>1, <1>1, Calm, Zenon
<1> QED
  BY <1>1, <1>2, <1>3, NotHeldIs, Zenon

(* The next lane.                                                          *)
LEMMA OnwardAgrees ==
    ASSUME Base, op' = op, ctl.pc # "off", ctl' = Onward
    PROVE  ctl' \in Controllers /\ ControllerAgrees'
<1>1. ctl \in Controllers /\ ctl.rep \in Reports /\ \A o \in ctl.todo : op[o].req
  BY Zenon DEF Base, Types, ControllerAgrees
<1>2. ctl' \in Controllers /\ ctl'.pc \in {"lane", "conclude"} /\ ctl'.rep = ctl.rep /\ ctl'.todo = ctl.todo
  BY <1>1, OnwardIs, ZenonT(30) DEF Controllers
<1> QED
  BY <1>1, <1>2, Calm, Zenon

\* The hold is journaled and nothing else.
LEMMA HoldIsKept ==
    ASSUME Base, ctl.rep \in Reports, NEW st \in {"active", "cleanup-failed", "released"},
           NEW sure \in BOOLEAN, HoldIs(st, sure)
    PROVE  /\ journal' \in [Reports -> Runs]
           /\ \A r \in Reports : /\ journal'[r].att = journal[r].att
                                 /\ journal'[r].failed = journal[r].failed
                                 /\ journal'[r].complete = journal[r].complete
                                 /\ r # ctl.rep => journal'[r] = journal[r]
           /\ journal'[ctl.rep].hold = [st |-> st, sure |-> sure]
<1> DEFINE hold == [st |-> st, sure |-> sure]
           run == [journal[ctl.rep] EXCEPT !.hold = hold]
<1>1. journal \in [Reports -> Runs] /\ journal[ctl.rep] \in Runs
  BY Zenon DEF Base, Types
<1>2. hold \in Holds
  BY Zenon DEF Holds
<1>3. journal' = [journal EXCEPT ![ctl.rep] = run]
  BY Zenon DEF HoldIs
<1> HIDE DEF hold
<1>4. run \in Runs /\ run.hold = hold /\ run.att = journal[ctl.rep].att
      /\ run.failed = journal[ctl.rep].failed /\ run.complete = journal[ctl.rep].complete
  BY <1>1, <1>2, Zenon DEF Runs
<1> HIDE DEF run
<1> QED
  BY <1>1, <1>3, <1>4, Zenon DEF hold

(* A new invocation.                                                       *)
LEMMA StartsBase == Base /\ Starts => Base'
<1> SUFFICES ASSUME Base, Starts PROVE Base'
  BY Zenon
<1>1. ctl' \in Controllers /\ ControllerAgrees'
  BY InvokedAgrees, RolloutAssumption DEF Starts, RolloutAssumption
<1> QED
  BY <1>1, ControllerOnly, Zenon DEF Starts, Base, Types

(* Reconciliation adopts an operation: it is launched, streamed, aborted   *)
(* or harvested.                                                           *)
LEMMA AdoptsBase == ASSUME NEW o \in Ops PROVE Base /\ Adopts(o) => Base'
<1> SUFFICES ASSUME Base, Adopts(o) PROVE Base'
  BY Zenon
<1>1. Types /\ ctl \in Controllers /\ ctl.rep \in Reports /\ op[o].req
  BY Zenon DEF Base, Types, ControllerAgrees, Adopts
<1>2. journal' \in [Reports -> Runs]
  <2>1. o[1] \in Reports /\ journal[o[1]] \in Runs
    BY <1>1, OpParts, Zenon DEF Types
  <2>2. Upserted(journal[o[1]], o) \in Runs
    BY <2>1, UpsertedIs, Zenon
  <2> QED
    BY <2>1, <2>2, <1>1, Zenon DEF Types, Adopts
<1> DEFINE pc == CASE StateOf(o) = "authorized-unactivated" -> "launch"
                   [] StateOf(o) \in {"running-authorized", "starting"} -> "stream"
                   [] StateOf(o) = "abandoned" -> "abort"
                   [] StateOf(o) = "prepared" -> IF o[1] = ctl.rep THEN "reconcile" ELSE "abort"
                   [] StateOf(o) = "completed" -> "harvest"
                   [] StateOf(o) = "outcome-unknown" -> "fails"
<1>3. /\ pc \in {"launch", "stream", "abort", "reconcile", "harvest", "fails"}
      /\ pc = "abort" => op[o].auth # "run"
      /\ pc = "harvest" => op[o].result # "none"
  BY <1>1, StateIs, Zenon
<1>4. ctl' = [ctl EXCEPT !.o = o, !.ret = "reconcile", !.todo = @ \ {o}, !.pc = pc]
  BY Zenon DEF Adopts
<1> HIDE DEF pc
<1>5. /\ ctl' \in Controllers /\ ctl'.pc = pc /\ ctl'.o = o /\ ctl'.ret = "reconcile"
      /\ ctl'.rep = ctl.rep /\ ctl'.todo = ctl.todo \ {o}
  BY <1>1, <1>3, <1>4, ZenonT(30) DEF Controllers, Steps, OnOp
<1>6. ControllerAgrees'
  BY <1>1, <1>3, <1>5, Zenon DEF ControllerAgrees, Unselecting, OnOp, Adopts, Base
<1> QED
  BY <1>2, <1>5, <1>6, ControllerOnly, Zenon DEF Adopts, Base, Types

-----------------------------------------------------------------------------
(* What each step writes to the journal.                                   *)
(* Adopting an operation appends its reference when it is missing.         *)
LEMMA AdoptsJournal ==
    ASSUME Base, NEW o \in Ops, Adopts(o)
    PROVE  /\ journal' \in [Reports -> Runs]
           /\ \A r \in Reports : /\ \A f \in Other : journal'[r][f] = journal[r][f]
                                 /\ r # o[1] => journal'[r] = journal[r]
           /\ \A a \in Lanes : journal'[o[1]].att[a] =
                  IF a = o[2] /\ o[3] > Len(journal[o[1]].att[a])
                  THEN Append(journal[o[1]].att[a], NewRef) ELSE journal[o[1]].att[a]
<1> DEFINE run == Upserted(journal[o[1]], o)
<1>1. journal \in [Reports -> Runs] /\ o[1] \in Reports /\ journal[o[1]] \in Runs
  BY OpParts, Zenon DEF Base, Types
<1>2. /\ run \in Runs
      /\ \A f \in Other : run[f] = journal[o[1]][f]
      /\ \A a \in Lanes : run.att[a] = IF a = o[2] /\ o[3] > Len(journal[o[1]].att[a])
                                       THEN Append(journal[o[1]].att[a], NewRef)
                                       ELSE journal[o[1]].att[a]
  BY <1>1, UpsertedIs DEF Other
<1>3. journal' = [journal EXCEPT ![o[1]] = run]
  BY Zenon DEF Adopts
<1> HIDE DEF run
<1>4. journal' \in [Reports -> Runs] /\ journal'[o[1]] = run /\ \A r \in Reports : r # o[1] => journal'[r] = journal[r]
  BY <1>1, <1>2, <1>3, Zenon
<1> QED
  BY <1>1, <1>2, <1>4, Zenon

(* What a harvest does to the reference of its operation, by the caller.   *)
HarvestedRef(o, ref) ==
    IF ctl.ret = "exec" THEN [ref EXCEPT !.harvested = TRUE]
    ELSE FencedRef(o, [ref EXCEPT !.harvested = TRUE])

(* A harvest changes the reference of its operation only.                  *)
LEMMA HarvestsJournal ==
    ASSUME Base, Harvests
    PROVE  /\ journal' \in [Reports -> Runs]
           /\ \A r \in Reports : /\ \A f \in Other : journal'[r][f] = journal[r][f]
                                 /\ r # ctl.o[1] => journal'[r] = journal[r]
           /\ LET old == journal[ctl.o[1]].att IN
              ButFor(journal'[ctl.o[1]].att, old, ctl.o, HarvestedRef(ctl.o, old[ctl.o[2]][ctl.o[3]]))
<1> DEFINE o == ctl.o
           old == journal[o[1]].att
           ref == old[o[2]][o[3]]
           one == Harvested(journal[o[1]], o)
           two == Fenced(one, o)
<1>1. /\ Types /\ o \in Ops /\ op[o].result # "none"
      /\ journal \in [Reports -> Runs] /\ o[1] \in Reports /\ journal[o[1]] \in Runs
  BY OpParts, Zenon DEF Base, Types, Harvests, ControllerAgrees, OnOp
<1>2. /\ one \in Runs /\ \A f \in Other : one[f] = journal[o[1]][f]
      /\ ButFor(one.att, old, o, [ref EXCEPT !.harvested = TRUE])
  BY <1>1, HarvestedIs, Zenon
<1>3. /\ two \in Runs /\ \A f \in Other : two[f] = one[f]
      /\ ButFor(two.att, one.att, o, FencedRef(o, one.att[o[2]][o[3]]))
  <2> HIDE DEF one
  <2> QED
    BY <1>1, <1>2, FencedIs, Zenon
<1>4. ButFor(two.att, old, o, FencedRef(o, [ref EXCEPT !.harvested = TRUE]))
  <2>1. o[2] \in Lanes /\ o[3] \in Nat /\ o[3] >= 1
    BY <1>1, OpParts, RolloutAssumption DEF RolloutAssumption
  <2>2. old \in [Lanes -> Seq(Refs)]
    BY <1>1, Zenon DEF Runs
  <2>3. o[3] \in 1..Len(old[o[2]]) => one.att[o[2]][o[3]] = [ref EXCEPT !.harvested = TRUE]
    BY <2>1, <1>2, Zenon DEF ButFor
  <2> HIDE DEF one, two, old, o, ref
  <2>4. two.att \in [Lanes -> Seq(Refs)] /\ \A a \in Lanes : Len(two.att[a]) = Len(old[a])
    BY <1>2, <1>3, Zenon DEF ButFor
  <2>5. ASSUME NEW a \in Lanes, NEW n \in 1..Len(old[a])
        PROVE  two.att[a][n] = IF a = o[2] /\ n = o[3] THEN FencedRef(o, [ref EXCEPT !.harvested = TRUE])
                               ELSE old[a][n]
    <3>1. n \in 1..Len(one.att[a])
      BY <1>2, Zenon DEF ButFor
    <3>2. one.att[a][n] = IF a = o[2] /\ n = o[3] THEN [ref EXCEPT !.harvested = TRUE] ELSE old[a][n]
      BY <1>2, Zenon DEF ButFor
    <3>3. two.att[a][n] = IF a = o[2] /\ n = o[3] THEN FencedRef(o, one.att[o[2]][o[3]]) ELSE one.att[a][n]
      BY <3>1, <1>3, Zenon DEF ButFor
    <3> QED
      BY <3>2, <3>3, Zenon
  <2> QED
    BY <2>4, <2>5, Zenon DEF ButFor
<1>5. journal' = [journal EXCEPT ![o[1]] = IF ctl.ret = "exec" THEN one ELSE two]
  BY Zenon DEF Harvests
<1> HIDE DEF one, two
<1>6. /\ journal' \in [Reports -> Runs] /\ journal'[o[1]] = IF ctl.ret = "exec" THEN one ELSE two
      /\ \A r \in Reports : r # o[1] => journal'[r] = journal[r]
  BY <1>1, <1>2, <1>3, <1>5, Zenon
<1>7. ButFor(journal'[o[1]].att, old, o, HarvestedRef(o, ref))
  BY <1>2, <1>4, <1>6, Zenon DEF HarvestedRef
<1>8. \A f \in Other : journal'[o[1]][f] = journal[o[1]][f]
  BY <1>2, <1>3, <1>6, Zenon
<1> QED
  BY <1>6, <1>7, <1>8, Zenon

(* The end of the reconciliation acknowledges a re-entry.                  *)
LEMMA ReconciledJournal ==
    ASSUME Base, Reconciled
    PROVE  /\ journal' \in [Reports -> Runs]
           /\ \A r \in Reports : /\ \A f \in Other : journal'[r][f] = journal[r][f]
                                 /\ journal'[r].att = journal[r].att
<1>1. SUFFICES ASSUME NEW r \in Reports
               PROVE  /\ [journal[r] EXCEPT !.reentry = FALSE] \in Runs
                      /\ \A f \in Other : [journal[r] EXCEPT !.reentry = FALSE][f] = journal[r][f]
                      /\ [journal[r] EXCEPT !.reentry = FALSE].att = journal[r].att
  <2>1. \A r \in Reports : journal[r] \in Runs
    BY Zenon DEF Base, Types
  <2> QED
    BY <2>1, <1>1, Zenon DEF Reconciled
<1>2. journal[r] \in Runs
  BY Zenon DEF Base, Types
<1> QED
  BY <1>2, Zenon DEF Runs, Other

(* execute_plan withdraws the verdict and may journal an unconfirmed hold. *)
LEMMA BeginsJournal ==
    ASSUME Base, Begins
    PROVE  /\ journal' \in [Reports -> Runs]
           /\ \A r \in Reports : /\ journal'[r].att = journal[r].att
                                 /\ r # ctl.rep => journal'[r] = journal[r]
                                 /\ journal'[r].complete => journal[r].complete
           /\ journal'[ctl.rep].hold = journal[ctl.rep].hold \/ journal'[ctl.rep].hold.st = "active"
<1> DEFINE seed == Grouped /\ journal[ctl.rep].hold.st \notin Unsettled
           hold == IF seed THEN [st |-> "active", sure |-> FALSE] ELSE journal[ctl.rep].hold
           run == [journal[ctl.rep] EXCEPT !.complete = FALSE, !.failed = {}, !.hold = hold]
<1>1. ctl.rep \in Reports /\ journal \in [Reports -> Runs] /\ journal[ctl.rep] \in Runs
  BY Zenon DEF Base, Types, ControllerAgrees, Begins
<1>2. hold \in Holds /\ (hold = journal[ctl.rep].hold \/ hold.st = "active")
  BY <1>1, Zenon DEF Holds, Runs
<1>3. journal' = journal \/ journal' = [journal EXCEPT ![ctl.rep] = run]
  BY <1>1, Zenon DEF Begins
<1> HIDE DEF hold
<1>4. run \in Runs /\ run.hold = hold /\ run.att = journal[ctl.rep].att /\ run.complete = FALSE
  BY <1>1, <1>2, Zenon DEF Runs
<1> HIDE DEF run
<1> QED
  BY <1>1, <1>2, <1>3, <1>4, Zenon

(* A lane that is not run has its status noted.                            *)
LEMMA VisitsJournal ==
    ASSUME Base, Visits
    PROVE  /\ journal' \in [Reports -> Runs]
           /\ \A r \in Reports : /\ \A f \in Other : journal'[r][f] = journal[r][f]
                                 /\ journal'[r].att = journal[r].att
<1> DEFINE due == ctl.plan[ctl.lane] = "update"
           kept == IF due THEN {"failed"} ELSE IF ctl.plan[ctl.lane] = "skip" THEN {"success"} ELSE {}
           s == IF journal[ctl.rep].status[ctl.lane] \in kept THEN journal[ctl.rep].status[ctl.lane]
                ELSE "not-run"
           status == [journal[ctl.rep].status EXCEPT ![ctl.lane] = s]
           run == [journal[ctl.rep] EXCEPT !.status = status]
<1>1. /\ ctl.rep \in Reports /\ journal \in [Reports -> Runs] /\ journal[ctl.rep] \in Runs
      /\ ctl.lane \in Lanes
  BY Zenon DEF Base, Types, ControllerAgrees, Visits, Controllers
<1>2. journal[ctl.rep].status \in [Lanes -> {"none", "not-run", "running", "success", "failed"}]
  BY <1>1, Zenon DEF Runs
<1>3. s \in {"none", "not-run", "running", "success", "failed"}
  BY <1>1, <1>2, Zenon
<1>4. journal' = journal \/ journal' = [journal EXCEPT ![ctl.rep] = run]
  BY <1>1, Zenon DEF Visits
<1> HIDE DEF s
<1>5. status \in [Lanes -> {"none", "not-run", "running", "success", "failed"}]
  BY <1>1, <1>2, <1>3, Zenon
<1> HIDE DEF status
<1>6. run \in Runs /\ run.att = journal[ctl.rep].att /\ \A f \in Other : run[f] = journal[ctl.rep][f]
  BY <1>1, <1>5, Zenon DEF Runs, Other
<1> HIDE DEF run
<1> QED
  BY <1>1, <1>4, <1>6, Zenon

(* finalize_run marks complete only a settled run, all of whose lanes the  *)
(* fresh plan skips.                                                       *)
LEMMA FinalizesJournal ==
    ASSUME Base, Finalizes
    PROVE  /\ journal' \in [Reports -> Runs]
           /\ \A r \in Reports : /\ journal'[r].att = journal[r].att
                                 /\ journal'[r].hold = journal[r].hold
                                 /\ journal'[r].failed = journal[r].failed
                                 /\ journal'[r].complete /\ ~journal[r].complete =>
                                       /\ r = ctl.rep /\ Settled(journal[r])
                                       /\ \A a \in Lanes : ctl.plan[a] = "skip"
<1> DEFINE verdict == (\A a \in Lanes : ctl.plan[a] = "skip") /\ Settled(journal[ctl.rep])
           run == [journal[ctl.rep] EXCEPT !.complete = verdict]
<1>1. ctl.rep \in Reports /\ journal \in [Reports -> Runs] /\ journal[ctl.rep] \in Runs
  BY Zenon DEF Base, Types, ControllerAgrees, Finalizes
<1>2. verdict \in BOOLEAN
  BY Zenon DEF Settled
<1>3. journal' = journal \/ journal' = [journal EXCEPT ![ctl.rep] = run]
  BY Zenon DEF Finalizes
<1> HIDE DEF verdict
<1>4. /\ run \in Runs /\ run.att = journal[ctl.rep].att /\ run.hold = journal[ctl.rep].hold
      /\ run.failed = journal[ctl.rep].failed /\ run.complete = verdict
  BY <1>1, <1>2, Zenon DEF Runs
<1> HIDE DEF run
<1>5. \A r \in Reports : r # ctl.rep => journal'[r] = journal[r]
  BY <1>1, <1>3, Zenon
<1>6. journal'[ctl.rep] = journal[ctl.rep] \/ journal'[ctl.rep] = run
  BY <1>1, <1>3, Zenon
<1>7. journal' \in [Reports -> Runs]
  BY <1>1, <1>3, <1>4, Zenon
<1> QED
  BY <1>4, <1>5, <1>6, <1>7, Zenon DEF verdict

(* The attempt about to be launched is journaled, and the verdict          *)
(* withdrawn.                                                              *)
LEMMA JournalsJournal ==
    ASSUME Base, Journals
    PROVE  /\ journal' \in [Reports -> Runs]
           /\ \A r \in Reports : /\ journal'[r].hold = journal[r].hold
                                 /\ r # ctl.rep => journal'[r] = journal[r]
                                 /\ journal'[r].complete => journal[r].complete
           /\ \A a \in Lanes : journal'[ctl.rep].att[a] =
                  IF a = ctl.o[2] /\ ctl.o[3] > Len(journal[ctl.rep].att[a])
                  THEN Append(journal[ctl.rep].att[a], NewRef) ELSE journal[ctl.rep].att[a]
<1> DEFINE up == Upserted(journal[ctl.rep], ctl.o)
           status == [up.status EXCEPT ![ctl.lane] = "running"]
           run == [up EXCEPT !.status = status, !.complete = FALSE, !.failed = {}]
<1>1. /\ ctl.rep \in Reports /\ journal \in [Reports -> Runs] /\ journal[ctl.rep] \in Runs
      /\ ctl.o \in Ops /\ ctl.lane \in Lanes
  BY Zenon DEF Base, Types, ControllerAgrees, Journals, OnOp, Controllers
<1>2. /\ up \in Runs /\ up.hold = journal[ctl.rep].hold
      /\ \A a \in Lanes : up.att[a] = IF a = ctl.o[2] /\ ctl.o[3] > Len(journal[ctl.rep].att[a])
                                      THEN Append(journal[ctl.rep].att[a], NewRef)
                                      ELSE journal[ctl.rep].att[a]
  BY <1>1, UpsertedIs, Zenon
<1>3. journal' = [journal EXCEPT ![ctl.rep] = run]
  BY Zenon DEF Journals
<1> HIDE DEF up
<1>4. status \in [Lanes -> {"none", "not-run", "running", "success", "failed"}]
  BY <1>1, <1>2, Zenon DEF Runs
<1> HIDE DEF status
<1>5. run \in Runs /\ run.hold = up.hold /\ run.att = up.att /\ run.complete = FALSE
  BY <1>2, <1>4, Zenon DEF Runs
<1> HIDE DEF run
<1>6. journal' \in [Reports -> Runs] /\ journal'[ctl.rep] = run /\ \A r \in Reports : r # ctl.rep => journal'[r] = journal[r]
  BY <1>1, <1>3, <1>5, Zenon
<1> QED
  BY <1>1, <1>2, <1>5, <1>6, Zenon

(* The end of the loop consumes the fences and notes the failed hosts.     *)
LEMMA ConcludesJournal ==
    ASSUME Base, Concludes
    PROVE  /\ journal' \in [Reports -> Runs]
           /\ \A r \in Reports : /\ journal'[r].hold = journal[r].hold
                                 /\ journal'[r].complete => journal[r].complete
                                 /\ Consumes(r, journal'[r].att, journal[r].att)
           /\ journal'[ctl.rep].failed = ctl.failed
<1> DEFINE all == Consumed(ctl.refs)
           run == [all[ctl.rep] EXCEPT !.complete = FALSE, !.failed = ctl.failed]
<1>1. Types /\ ctl.rep \in Reports /\ ctl.failed \in SUBSET Hosts
  BY Zenon DEF Base, Types, ControllerAgrees, Concludes, Controllers
<1>2. /\ all \in [Reports -> Runs]
      /\ \A r \in Reports : /\ all[r].hold = journal[r].hold /\ all[r].complete = journal[r].complete
                            /\ Consumes(r, all[r].att, journal[r].att)
  BY <1>1, ConsumedIs, Zenon DEF Other
<1>3. journal' = [all EXCEPT ![ctl.rep] = run]
  BY Zenon DEF Concludes
<1> HIDE DEF all
<1>4. run \in Runs /\ run.hold = all[ctl.rep].hold /\ run.att = all[ctl.rep].att /\ run.complete = FALSE
      /\ run.failed = ctl.failed
  BY <1>1, <1>2, ZenonT(30) DEF Runs
<1> HIDE DEF run
<1>5. journal' \in [Reports -> Runs] /\ journal'[ctl.rep] = run /\ \A r \in Reports : r # ctl.rep => journal'[r] = all[r]
  BY <1>1, <1>2, <1>3, <1>4, Zenon
<1> QED
  BY <1>1, <1>2, <1>4, <1>5, Zenon

(* The driver's lane consumes the fences of a failed driver, and ends.     *)
LEMMA RunsDriverJournal ==
    ASSUME Base, RunsDriver
    PROVE  /\ journal' \in [Reports -> Runs]
           /\ \A r \in Reports : \A f \in Other : journal'[r][f] = journal[r][f]
           /\ journal' = journal \/ ctl' = Off
           /\ \A r \in Reports : journal'[r].att = journal[r].att
                                    \/ Consumes(r, journal'[r].att, journal[r].att)
<1>1. Types
  BY Zenon DEF Base
<1>2. CASE journal' = journal
  BY <1>1, <1>2, Zenon DEF Types
<1>3. CASE \E refs : journal' = Consumed(refs) /\ ctl' = Off
  BY <1>1, <1>3, ConsumedIs
<1> QED
  BY <1>2, <1>3, Zenon DEF RunsDriver, Exits

-----------------------------------------------------------------------------
(* A result is folded into the journal.                                    *)
LEMMA HarvestsBase == Base /\ Harvests => Base'
<1> SUFFICES ASSUME Base, Harvests PROVE Base'
  BY Zenon
<1>1. /\ Types /\ ctl \in Controllers /\ ctl.rep \in Reports /\ ctl.pc = "harvest" /\ ctl.o \in Ops
      /\ ctl.ret \in {"reconcile", "unselect", "exec"} /\ \A o \in ctl.todo : op[o].req
      /\ op[ctl.o].result \in {"success", "failed", "aborted"} /\ op' = op
  BY Zenon DEF Base, Types, ControllerAgrees, Harvests, OnOp, Receipts
<1>2. journal' \in [Reports -> Runs]
  BY HarvestsJournal, Zenon
<1> DEFINE noted == [ctl EXCEPT !.failed = @ \cup {HostOf(ctl.o[2])},
                                !.refs = @ \cup {<<ctl.o[1], HostOf(ctl.o[2])>>}]
<1>3. noted \in Controllers /\ noted.rep = ctl.rep /\ noted.todo = ctl.todo /\ noted.ret = ctl.ret
  <2>1. HostOf(ctl.o[2]) \in Hosts /\ <<ctl.o[1], HostOf(ctl.o[2])>> \in Reports \X Hosts
    BY <1>1, OpParts, Zenon
  <2> QED
    BY <1>1, <2>1, Zenon DEF Controllers
<1>4. \/ ctl' = Off \/ ctl' = Raised
      \/ ctl.ret = "exec" /\ ctl' \in {[ctl EXCEPT !.pc = "done"], [noted EXCEPT !.pc = "done"]}
      \/ ctl.ret # "exec" /\ ctl' \in {[ctl EXCEPT !.pc = ctl.ret], [noted EXCEPT !.pc = ctl.ret]}
  BY <1>1, Zenon DEF Harvests, Failed
<1>5. CASE ctl' = Off
  BY <1>5, <1>2, OffAgrees, ControllerOnly, Zenon DEF Harvests, Base, Types
<1>6. CASE ctl' = Raised
  BY <1>1, <1>6, <1>2, RaisedAgrees, ControllerOnly, Zenon DEF Harvests, Base, Types
<1> HIDE DEF noted
<1>7. CASE ctl.ret = "exec" /\ ctl' \in {[ctl EXCEPT !.pc = "done"], [noted EXCEPT !.pc = "done"]}
  <2>1. ctl' \in Controllers /\ ctl'.pc = "done" /\ ctl'.rep = ctl.rep /\ ctl'.todo = ctl.todo
    BY <1>1, <1>3, <1>7 DEF Controllers, Steps
  <2>2. ControllerAgrees'
    BY <1>1, <2>1, Calm, Zenon
  <2> QED
    BY <2>1, <2>2, <1>2, ControllerOnly, Zenon DEF Harvests, Base, Types
<1>8. CASE ctl.ret # "exec" /\ ctl' \in {[ctl EXCEPT !.pc = ctl.ret], [noted EXCEPT !.pc = ctl.ret]}
  <2>1. ctl' \in Controllers /\ ctl'.pc = ctl.ret /\ ctl'.rep = ctl.rep /\ ctl'.todo = ctl.todo
    BY <1>1, <1>3, <1>8 DEF Controllers, Steps
  <2>2. ControllerAgrees'
    BY <1>1, <1>8, <2>1, Zenon DEF Base, ControllerAgrees, Unselecting, OnOp
  <2> QED
    BY <2>1, <2>2, <1>2, ControllerOnly, Zenon DEF Harvests, Base, Types
<1> QED
  BY <1>4, <1>5, <1>6, <1>7, <1>8, Zenon

(* The end of the reconciliation.                                          *)
LEMMA ReconciledBase == Base /\ Reconciled => Base'
<1> SUFFICES ASSUME Base, Reconciled PROVE Base'
  BY Zenon
<1>1. ctl \in Controllers /\ ctl.rep \in Reports /\ ctl.todo = {}
  BY Zenon DEF Base, Types, ControllerAgrees, Reconciled
<1>2. journal' \in [Reports -> Runs]
  BY ReconciledJournal, Zenon
<1> DEFINE due == {r \in Reports \ {ctl.ack} : journal[r].reentry}
<1>3. \/ ctl' = Off \/ ctl' = [ctl EXCEPT !.pc = "plan"]
      \/ due # {} /\ ctl' = Invoked(CHOOSE r \in due : TRUE)
  BY Zenon DEF Reconciled
<1>4. CASE ctl' = Off
  BY <1>4, <1>2, OffAgrees, ControllerOnly, Zenon DEF Reconciled, Base, Types
<1>5. CASE ctl' = [ctl EXCEPT !.pc = "plan"]
  <2>1. ctl' \in Controllers /\ ctl'.pc = "plan" /\ ctl'.rep = ctl.rep /\ ctl'.todo = ctl.todo
    BY <1>1, <1>5, ZenonT(30) DEF Controllers, Steps
  <2>2. ControllerAgrees'
    BY <1>1, <2>1, Calm, Zenon DEF Reconciled
  <2> QED
    BY <2>1, <2>2, <1>2, ControllerOnly, Zenon DEF Reconciled, Base, Types
<1>6. CASE due # {} /\ ctl' = Invoked(CHOOSE r \in due : TRUE)
  <2>1. (CHOOSE r \in due : TRUE) \in due
    BY <1>6, Zenon
  <2>2. (CHOOSE r \in due : TRUE) \in 0..MaxReports
    BY <2>1, RolloutAssumption DEF Reports, RolloutAssumption
  <2>3. ctl' \in Controllers /\ ControllerAgrees'
    BY <1>6, <2>2, InvokedAgrees, Zenon DEF Reconciled
  <2> QED
    BY <2>3, <1>2, ControllerOnly, Zenon DEF Reconciled, Base, Types
<1> QED
  BY <1>3, <1>4, <1>5, <1>6, Zenon

(* A lane is skipped exactly when a host in reach has the report's         *)
(* version.                                                                *)
LEMMA PlannedIs ==
    ASSUME NEW reach \in BOOLEAN
    PROVE  /\ Planned(reach) \in [Lanes -> {"skip", "update", "defer"}]
           /\ \A a \in Lanes : Planned(reach)[a] = "skip" <=> live[a] = ctl.rep /\ (a \in Group => reach)
  BY Zenon DEF Planned, Group, Lanes

(* The plan, and the prepared operations it does not select.               *)
LEMMA PlansBase == ASSUME NEW reach \in BOOLEAN PROVE Base /\ Plans(reach) => Base'
<1> SUFFICES ASSUME Base, Plans(reach) PROVE Base'
  BY Zenon
<1>1. Types /\ ctl \in Controllers /\ ctl.rep \in Reports
  BY Zenon DEF Base, Types, ControllerAgrees, Plans
<1> DEFINE stays(o) == /\ Planned(reach)[o[2]] = "update"
                       /\ "driver" \notin ctl.failed /\ HostOf(o[2]) \notin ctl.failed
           todo == {o \in Ops : /\ op[o].req /\ o[1] = ctl.rep
                                /\ StateOf(o) = "prepared" /\ ~stays(o)}
<1>2. /\ todo \in SUBSET Ops /\ \A o \in todo : op[o].req /\ StateOf(o) = "prepared"
      /\ ctl' = [ctl EXCEPT !.pc = "unselect", !.plan = Planned(reach), !.todo = todo]
  BY Zenon DEF Plans
<1> HIDE DEF todo
<1>3. ctl' \in Controllers /\ ctl'.pc = "unselect" /\ ctl'.rep = ctl.rep /\ ctl'.todo = todo
  BY <1>1, <1>2, PlannedIs, ZenonT(30) DEF Controllers, Steps
<1>4. \A o \in todo : op[o].req /\ op[o].auth # "run"
  BY <1>1, <1>2, StateIs, Zenon
<1>5. ControllerAgrees'
  BY <1>1, <1>3, <1>4, Zenon DEF ControllerAgrees, Unselecting, OnOp, Plans
<1>6. faults' \in Nat
  BY FaultyIs, Zenon DEF Plans, Base, Types
<1> QED
  BY <1>3, <1>5, <1>6, ControllerOnly, Zenon DEF Plans, Base, Types

(* The next operation to abort: nobody has authorized it.                  *)
LEMMA UnselectsBase == Base /\ Unselects => Base'
<1> SUFFICES ASSUME Base, Unselects PROVE Base'
  BY Zenon
<1>1. /\ Types /\ ctl \in Controllers /\ ctl.rep \in Reports /\ op' = op
      /\ \A o \in ctl.todo : op[o].req /\ op[o].auth # "run"
  BY Zenon DEF Base, Types, ControllerAgrees, Unselects, Unselecting
<1>2. CASE ctl' = [ctl EXCEPT !.pc = "driver"]
  <2>1. ctl' \in Controllers /\ ctl'.pc = "driver" /\ ctl'.rep = ctl.rep /\ ctl'.todo = ctl.todo
    BY <1>1, <1>2, ZenonT(30) DEF Controllers, Steps
  <2>2. ControllerAgrees'
    BY <1>1, <2>1, Calm, Zenon
  <2> QED
    BY <2>1, <2>2, ControllerOnly, Zenon DEF Unselects, Base, Types
<1>3. CASE \E o \in ctl.todo : ctl' = [ctl EXCEPT !.pc = "abort", !.o = o, !.ret = "unselect",
                                                  !.todo = @ \ {o}]
  <2>1. PICK o \in ctl.todo : ctl' = [ctl EXCEPT !.pc = "abort", !.o = o, !.ret = "unselect",
                                                 !.todo = @ \ {o}]
    BY <1>3, Zenon
  <2>2. o \in Ops
    BY <1>1, Zenon DEF Controllers
  <2>3. /\ ctl' \in Controllers /\ ctl'.pc = "abort" /\ ctl'.rep = ctl.rep /\ ctl'.todo = ctl.todo \ {o}
        /\ ctl'.o = o /\ ctl'.ret = "unselect"
    BY <1>1, <2>1, <2>2, ZenonT(30) DEF Controllers, Steps, OnOp
  <2>4. ControllerAgrees'
    BY <1>1, <2>2, <2>3, Zenon DEF ControllerAgrees, Unselecting, OnOp
  <2> QED
    BY <2>3, <2>4, ControllerOnly, Zenon DEF Unselects, Base, Types
<1> QED
  BY <1>2, <1>3, Zenon DEF Unselects, Go

(* The driver's lane comes first.                                          *)
LEMMA RunsDriverBase == Base /\ RunsDriver => Base'
<1> SUFFICES ASSUME Base, RunsDriver PROVE Base'
  BY Zenon
<1>1. ctl \in Controllers /\ ctl.rep \in Reports /\ op' = op /\ \A o \in ctl.todo : op[o].req
  BY Zenon DEF Base, Types, ControllerAgrees, RunsDriver
<1>2. journal' \in [Reports -> Runs]
  BY RunsDriverJournal, Zenon
<1>3. CASE ctl' = Off
  BY <1>3, <1>2, OffAgrees, ControllerOnly, Zenon DEF RunsDriver, Base, Types
<1>4. CASE ctl' \in {[ctl EXCEPT !.pc = "begin"], [ctl EXCEPT !.pc = "prepare", !.lane = "driver"]}
  <2>1. ctl' \in Controllers /\ ctl'.pc \in {"begin", "prepare"} /\ ctl'.rep = ctl.rep /\ ctl'.todo = ctl.todo
    <3>1. CASE ctl' = [ctl EXCEPT !.pc = "begin"]
      BY <1>1, <3>1, ZenonT(30) DEF Controllers, Steps
    <3>2. CASE ctl' = [ctl EXCEPT !.pc = "prepare", !.lane = "driver"]
      BY <1>1, <3>2, ZenonT(30) DEF Controllers, Steps, Lanes
    <3> QED
      BY <1>4, <3>1, <3>2, Zenon
  <2>2. ControllerAgrees'
    BY <1>1, <2>1, Calm, Zenon
  <2> QED
    BY <2>1, <2>2, <1>2, ControllerOnly, Zenon DEF RunsDriver, Base, Types
<1> QED
  BY <1>3, <1>4, Zenon DEF RunsDriver, Exits, Go

(* The beginning of execute_plan.                                          *)
LEMMA BeginsBase == Base /\ Begins => Base'
<1> SUFFICES ASSUME Base, Begins PROVE Base'
  BY Zenon
<1>1. ctl \in Controllers /\ ctl.rep \in Reports /\ op' = op /\ \A o \in ctl.todo : op[o].req
  BY Zenon DEF Base, Types, ControllerAgrees, Begins
<1>2. journal' \in [Reports -> Runs]
  BY BeginsJournal, Zenon
<1>3. CASE ctl' = Off
  BY <1>3, <1>2, OffAgrees, ControllerOnly, Zenon DEF Begins, Base, Types
<1>4. CASE \E pc \in {"acquire", "lane"} : ctl' = [ctl EXCEPT !.lane = "driver", !.ret = "lane", !.pc = pc]
  <2>1. /\ ctl' \in Controllers /\ ctl'.pc \in {"acquire", "lane"} /\ ctl'.rep = ctl.rep
        /\ ctl'.todo = ctl.todo /\ ctl'.ret = "lane"
    <3>1. PICK pc \in {"acquire", "lane"} : ctl' = [ctl EXCEPT !.lane = "driver", !.ret = "lane", !.pc = pc]
      BY <1>4, Zenon
    <3>2. pc \in Steps /\ "driver" \in Lanes
      BY Zenon DEF Steps, Lanes
    <3> QED
      BY <1>1, <3>1, <3>2, Zenon DEF Controllers
  <2>2. ControllerAgrees'
    BY <1>1, <2>1, Zenon DEF ControllerAgrees, Unselecting, OnOp
  <2> QED
    BY <2>1, <2>2, <1>2, ControllerOnly, Zenon DEF Begins, Base, Types
<1> QED
  BY <1>3, <1>4, Zenon DEF Begins, Exits


(* The steps of acquire_rollout_hold and release_rollout_hold.             *)
LEMMA HoldStepsBase == Base /\ (Acquires \/ Asks \/ Confirms \/ Releases \/ Unholds) => Base'
<1> SUFFICES ASSUME Base, Acquires \/ Asks \/ Confirms \/ Releases \/ Unholds PROVE Base'
  BY Zenon
<1>1. /\ ctl \in Controllers /\ ctl.rep \in Reports /\ op' = op /\ \A o \in ctl.todo : op[o].req
      /\ ctl.pc \in {"acquire", "ask", "confirm"} => ctl.ret \in {"lane", "finalize"}
      /\ ctl.pc \in {"release", "released"} => ctl.ret \in {"off", "final", "finalize"}
  BY Zenon DEF Base, Types, ControllerAgrees, Acquires, Asks, Confirms, Releases, Unholds
<1>2. journal' \in [Reports -> Runs]
  <2>1. CASE Acquires
    <3>1. HoldIs("active", TRUE) \/ HoldIs("active", FALSE)
      BY <2>1, Zenon DEF Acquires
    <3> QED
      BY <1>1, <3>1, HoldIsKept, Zenon
  <2>2. CASE Confirms
    BY <1>1, <2>2, HoldIsKept, Zenon DEF Confirms
  <2>3. CASE Unholds
    BY <1>1, <2>3, HoldIsKept, Zenon DEF Unholds
  <2>4. CASE Asks \/ Releases
    BY <2>4, Zenon DEF Asks, Releases, Base, Types
  <2> QED
    BY <2>1, <2>2, <2>3, <2>4, Zenon
<1>3. lease' \subseteq Reports
  BY <1>1, Zenon DEF Acquires, Asks, Confirms, Releases, Unholds, Base, Types
<1>4. CASE ctl' = Confirmed /\ (Acquires \/ Confirms)
  <2>1. ctl' \in Controllers /\ ctl'.pc \in {"lane", "finalize"} /\ ctl'.rep = ctl.rep /\ ctl'.todo = ctl.todo
    BY <1>1, <1>4, ZenonT(30) DEF Controllers, Steps, Confirmed, Acquires, Confirms
  <2>2. ControllerAgrees'
    BY <1>1, <2>1, Calm, Zenon
  <2> QED
    BY <2>1, <2>2, <1>2, <1>3, <1>4, ControllerOnly, Zenon DEF Acquires, Confirms, Base, Types
<1>5. CASE ctl' = [ctl EXCEPT !.pc = "ask"] /\ Acquires
  <2>1. ctl' \in Controllers /\ ctl'.pc = "ask" /\ ctl'.rep = ctl.rep /\ ctl'.todo = ctl.todo /\ ctl'.ret = ctl.ret
    BY <1>1, <1>5, ZenonT(30) DEF Controllers, Steps
  <2>2. ControllerAgrees'
    BY <1>1, <1>5, <2>1, Zenon DEF ControllerAgrees, Unselecting, OnOp, Acquires
  <2> QED
    BY <2>1, <2>2, <1>2, <1>3, <1>5, ControllerOnly, Zenon DEF Acquires, Base, Types
<1>6. CASE ctl' = [ctl EXCEPT !.pc = "confirm"] /\ Asks
  <2>1. ctl' \in Controllers /\ ctl'.pc = "confirm" /\ ctl'.rep = ctl.rep /\ ctl'.todo = ctl.todo /\ ctl'.ret = ctl.ret
    BY <1>1, <1>6, ZenonT(30) DEF Controllers, Steps
  <2>2. ControllerAgrees'
    BY <1>1, <1>6, <2>1, Zenon DEF ControllerAgrees, Unselecting, OnOp, Asks
  <2> QED
    BY <2>1, <2>2, <1>2, <1>3, <1>6, ControllerOnly, Zenon DEF Asks, Base, Types
<1>7. CASE ctl' = [ctl EXCEPT !.pc = "released"] /\ Releases
  <2>1. ctl' \in Controllers /\ ctl'.pc = "released" /\ ctl'.rep = ctl.rep /\ ctl'.todo = ctl.todo /\ ctl'.ret = ctl.ret
    BY <1>1, <1>7, ZenonT(30) DEF Controllers, Steps
  <2>2. ControllerAgrees'
    BY <1>1, <1>7, <2>1, Zenon DEF ControllerAgrees, Unselecting, OnOp, Releases
  <2> QED
    BY <2>1, <2>2, <1>2, <1>3, <1>7, ControllerOnly, Zenon DEF Releases, Base, Types
<1>8. CASE ctl' # Off /\ Unholds
  <2>a. PICK pc \in {"finalize", "final"} : ctl' = [ctl EXCEPT !.pc = pc]
    BY <1>1, <1>8, Zenon DEF Unholds
  <2>1. ctl' \in Controllers /\ ctl'.pc \in {"finalize", "final"} /\ ctl'.rep = ctl.rep /\ ctl'.todo = ctl.todo
    BY <1>1, <2>a, ZenonT(30) DEF Controllers, Steps
  <2>2. ControllerAgrees'
    BY <1>1, <2>1, Calm, Zenon
  <2> QED
    BY <2>1, <2>2, <1>2, <1>3, <1>8, ControllerOnly, Zenon DEF Unholds, Base, Types
<1>9. CASE ctl' = Off /\ Unholds
  BY <1>9, <1>2, <1>3, OffAgrees, ControllerOnly, Zenon DEF Unholds, Base, Types
<1> QED
  BY <1>4, <1>5, <1>6, <1>7, <1>8, <1>9, Zenon DEF Acquires, Asks, Confirms, Releases, Unholds, Go

(* Their failures.                                                         *)
LEMMA HoldFaultsBase == Base /\ (ProbeFails \/ AskFails \/ ReleaseFails) => Base'
<1> SUFFICES ASSUME Base, ProbeFails \/ AskFails \/ ReleaseFails PROVE Base'
  BY Zenon
<1>1. /\ ctl \in Controllers /\ ctl.rep \in Reports /\ op' = op /\ \A o \in ctl.todo : op[o].req
      /\ ctl.pc # "off" /\ journal[ctl.rep].hold.sure \in BOOLEAN
  BY Zenon DEF Base, Types, ControllerAgrees, ProbeFails, AskFails, ReleaseFails, Runs, Holds
<1>2. journal' \in [Reports -> Runs]
  <2>1. CASE UNCHANGED journal
    BY <2>1, Zenon DEF Base, Types
  <2>2. CASE HoldIs("active", FALSE)
    BY <1>1, <2>2, HoldIsKept, Zenon
  <2>3. CASE HoldIs("cleanup-failed", journal[ctl.rep].hold.sure)
    BY <1>1, <2>3, HoldIsKept, Zenon
  <2> QED
    BY <2>1, <2>2, <2>3, Zenon DEF ProbeFails, AskFails, ReleaseFails
<1>3. lease' \subseteq Reports /\ faults' \in Nat
  BY <1>1, FaultyIs, Zenon DEF ProbeFails, AskFails, ReleaseFails, Base, Types
<1>4. CASE ctl' = NotHeld /\ (ProbeFails \/ AskFails)
  BY <1>1, <1>2, <1>3, <1>4, NotHeldAgrees, ControllerOnly, Zenon DEF ProbeFails, AskFails, Base, Types
<1>5. CASE ctl' = Off /\ ReleaseFails
  BY <1>5, <1>2, <1>3, OffAgrees, ControllerOnly, Zenon DEF ReleaseFails, Base, Types
<1>6. CASE ctl' = [ctl EXCEPT !.pc = "final"] /\ ReleaseFails
  <2>1. ctl' \in Controllers /\ ctl'.pc = "final" /\ ctl'.rep = ctl.rep /\ ctl'.todo = ctl.todo
    BY <1>1, <1>6, ZenonT(30) DEF Controllers, Steps
  <2>2. ControllerAgrees'
    BY <1>1, <2>1, Calm, Zenon
  <2> QED
    BY <2>1, <2>2, <1>2, <1>3, <1>6, ControllerOnly, Zenon DEF ReleaseFails, Base, Types
<1> QED
  BY <1>4, <1>5, <1>6, Zenon DEF ProbeFails, AskFails, ReleaseFails

(* The loop visits a lane.                                                 *)
LEMMA VisitsBase == Base /\ Visits => Base'
<1> SUFFICES ASSUME Base, Visits PROVE Base'
  BY Zenon
<1>1. ctl \in Controllers /\ ctl.rep \in Reports /\ op' = op /\ (\A o \in ctl.todo : op[o].req) /\ ctl.pc # "off"
  BY Zenon DEF Base, Types, ControllerAgrees, Visits
<1>2. journal' \in [Reports -> Runs]
  BY VisitsJournal, Zenon
<1>3. CASE ctl' = Raised
  BY <1>1, <1>2, <1>3, RaisedAgrees, ControllerOnly, Zenon DEF Visits, Base, Types
<1>4. CASE ctl' = Onward
  BY <1>1, <1>2, <1>4, OnwardAgrees, ControllerOnly, Zenon DEF Visits, Base, Types
<1>5. CASE ctl' = [ctl EXCEPT !.pc = "prepare"]
  <2>1. ctl' \in Controllers /\ ctl'.pc = "prepare" /\ ctl'.rep = ctl.rep /\ ctl'.todo = ctl.todo
    BY <1>1, <1>5, ZenonT(30) DEF Controllers, Steps
  <2>2. ControllerAgrees'
    BY <1>1, <2>1, Calm, Zenon
  <2> QED
    BY <2>1, <2>2, <1>2, ControllerOnly, Zenon DEF Visits, Base, Types
<1>6. CASE ctl' = [ctl EXCEPT !.pc = "acquire", !.ret = "lane"]
  <2>1. ctl' \in Controllers /\ ctl'.pc = "acquire" /\ ctl'.rep = ctl.rep /\ ctl'.todo = ctl.todo /\ ctl'.ret = "lane"
    BY <1>1, <1>6, ZenonT(30) DEF Controllers, Steps
  <2>2. ControllerAgrees'
    BY <1>1, <2>1, Zenon DEF ControllerAgrees, Unselecting, OnOp
  <2> QED
    BY <2>1, <2>2, <1>2, ControllerOnly, Zenon DEF Visits, Base, Types
<1> QED
  BY <1>3, <1>4, <1>5, <1>6, Zenon DEF Visits

(* The attempt is journaled.                                               *)
LEMMA JournalsBase == Base /\ Journals => Base'
<1> SUFFICES ASSUME Base, Journals PROVE Base'
  BY Zenon
<1>1. ctl \in Controllers /\ ctl.pc = "journal" /\ op' = op
  BY Zenon DEF Base, Types, Journals
<1>2. /\ ctl' \in Controllers /\ ctl'.pc = "launch" /\ ctl'.rep = ctl.rep /\ ctl'.todo = ctl.todo
      /\ ctl'.o = ctl.o /\ ctl'.ret = ctl.ret
  BY <1>1 DEF Journals, Go, Controllers, Steps, OnOp
<1>3. ControllerAgrees'
  BY <1>1, <1>2, Zenon DEF Base, ControllerAgrees, Unselecting, OnOp
<1> QED
  BY <1>2, <1>3, JournalsJournal, ControllerOnly, Zenon DEF Journals, Base, Types

(* The controller awaits a result, or is interrupted.                      *)
LEMMA StreamsBase == Base /\ (Streams \/ Interrupts) => Base'
<1> SUFFICES ASSUME Base, Streams \/ Interrupts PROVE Base'
  BY Zenon
<1>1. Types /\ ctl \in Controllers /\ ctl.pc \in {"ready", "stream"} /\ op' = op /\ ctl.o \in Ops
  BY Zenon DEF Base, Types, Streams, Interrupts, ControllerAgrees, OnOp
<1>2. PICK pc \in {"harvest", "fails"} : /\ ctl' = [ctl EXCEPT !.pc = pc]
                                         /\ pc = "harvest" => op[ctl.o].result # "none"
  BY <1>1, StateIs, Zenon DEF Streams, Interrupts, Go
<1>3. /\ ctl' \in Controllers /\ ctl'.pc = pc /\ ctl'.rep = ctl.rep /\ ctl'.todo = ctl.todo
      /\ ctl'.o = ctl.o /\ ctl'.ret = ctl.ret
  BY <1>1, <1>2 DEF Controllers, Steps, OnOp
<1>4. ControllerAgrees'
  BY <1>1, <1>2, <1>3, Zenon DEF Base, ControllerAgrees, Unselecting, OnOp
<1>5. faults' \in Nat
  BY FaultyIs, Zenon DEF Streams, Interrupts, Base, Types
<1> QED
  BY <1>3, <1>4, <1>5, ControllerOnly, Zenon DEF Streams, Interrupts, Base, Types

(* The steps that end a lane, the loop or the command.                     *)
LEMMA EndsBase == Base /\ (LaneDone \/ Concludes \/ Cleans \/ Finalizes \/ ControllerDies) => Base'
<1> SUFFICES ASSUME Base, LaneDone \/ Concludes \/ Cleans \/ Finalizes \/ ControllerDies PROVE Base'
  BY Zenon
<1>1. ctl \in Controllers /\ ctl.rep \in Reports /\ op' = op /\ (\A o \in ctl.todo : op[o].req) /\ ctl.pc # "off"
  BY Zenon DEF Base, Types, ControllerAgrees, LaneDone, Concludes, Cleans, Finalizes, ControllerDies
<1>2. CASE ctl' = Off /\ (Cleans \/ Finalizes \/ ControllerDies)
  <2>1. journal' \in [Reports -> Runs]
    BY <1>2, FinalizesJournal, Zenon DEF Cleans, ControllerDies, Base, Types
  <2>2. faults' \in Nat
    BY <1>2, FaultyIs, Zenon DEF Cleans, Finalizes, ControllerDies, Base, Types
  <2> QED
    BY <1>2, <2>1, <2>2, OffAgrees, ControllerOnly, Zenon DEF Cleans, Finalizes, ControllerDies, Base, Types
<1>3. CASE LaneDone
  <2>1. CASE ctl' = Onward
    BY <1>1, <1>3, <2>1, OnwardAgrees, ControllerOnly, Zenon DEF LaneDone, Base, Types
  <2>2. CASE ctl' = Invoked(ctl.rep)
    <3>1. ctl.rep \in 0..MaxReports
      BY <1>1, Zenon DEF Controllers
    <3> QED
      BY <1>1, <1>3, <2>2, <3>1, InvokedAgrees, ControllerOnly, Zenon DEF LaneDone, Base, Types
  <2> QED
    BY <1>3, <2>1, <2>2, Zenon DEF LaneDone
<1>4. CASE Concludes
  <2>1. ctl' \in Controllers /\ ctl'.pc = "verify" /\ ctl'.rep = ctl.rep /\ ctl'.todo = ctl.todo
    BY <1>1, <1>4, ZenonT(30) DEF Concludes, Go, Controllers, Steps
  <2>2. ControllerAgrees'
    BY <1>1, <2>1, Calm, Zenon
  <2> QED
    BY <2>1, <2>2, <1>4, ConcludesJournal, ControllerOnly, Zenon DEF Concludes, Base, Types
<1>5. CASE /\ ctl' \in {[ctl EXCEPT !.pc = "release", !.ret = "off"], [ctl EXCEPT !.pc = "release", !.ret = "final"]}
           /\ Cleans \/ Finalizes
  <2>1. /\ ctl' \in Controllers /\ ctl'.pc = "release" /\ ctl'.rep = ctl.rep /\ ctl'.todo = ctl.todo
        /\ ctl'.ret \in {"off", "final"}
    <3>1. PICK ret \in {"off", "final"} : ctl' = [ctl EXCEPT !.pc = "release", !.ret = ret]
      BY <1>5, Zenon
    <3> QED
      BY <1>1, <3>1, ZenonT(30) DEF Controllers, Steps
  <2>2. ControllerAgrees'
    BY <1>1, <2>1, Zenon DEF ControllerAgrees, Unselecting, OnOp
  <2>3. journal' \in [Reports -> Runs]
    BY <1>5, FinalizesJournal, Zenon DEF Cleans, Base, Types
  <2> QED
    BY <2>1, <2>2, <2>3, <1>5, ControllerOnly, Zenon DEF Cleans, Finalizes, Base, Types
<1> QED
  BY <1>2, <1>3, <1>4, <1>5, Zenon DEF Cleans, Finalizes, ControllerDies, Exits

(* The fresh plan after the loop.                                          *)
LEMMA VerifiesBase == ASSUME NEW reach \in BOOLEAN PROVE Base /\ Verifies(reach) => Base'
<1> SUFFICES ASSUME Base, Verifies(reach) PROVE Base'
  BY Zenon
<1>1. ctl \in Controllers /\ ctl.rep \in Reports /\ op' = op /\ \A o \in ctl.todo : op[o].req
  BY Zenon DEF Base, Types, ControllerAgrees, Verifies
<1>2. faults' \in Nat
  BY FaultyIs, Zenon DEF Verifies, Base, Types
<1>3. CASE ctl' = Off
  BY <1>2, <1>3, OffAgrees, ControllerOnly, Zenon DEF Verifies, Base, Types
<1>4. CASE ctl' # Off
  <2>1. PICK pc \in {"acquire", "release", "finalize"} :
            ctl' = [ctl EXCEPT !.plan = Planned(reach), !.ret = "finalize", !.pc = pc]
    BY <1>4, Zenon DEF Verifies
  <2>2. /\ ctl' \in Controllers /\ ctl'.pc = pc /\ ctl'.rep = ctl.rep /\ ctl'.todo = ctl.todo
        /\ ctl'.ret = "finalize"
    BY <1>1, <2>1, PlannedIs, ZenonT(30) DEF Controllers, Steps
  <2>3. ControllerAgrees'
    BY <1>1, <2>2, Zenon DEF ControllerAgrees, Unselecting, OnOp
  <2> QED
    BY <2>2, <2>3, <1>2, ControllerOnly, Zenon DEF Verifies, Base, Types
<1> QED
  BY <1>3, <1>4, Zenon

(* A newer report is accepted.                                             *)
LEMMA NewReportBase == Base /\ NewReport => Base'
<1> SUFFICES ASSUME Base, NewReport PROVE Base'
  BY Zenon
<1>1. report' \in Reports
  BY RolloutAssumption DEF RolloutAssumption, NewReport, Base, Types, Reports
<1>2. ctl' \in Controllers /\ ControllerAgrees'
  BY Zenon DEF NewReport, Base, Types, ControllerAgrees, Unselecting
<1> QED
  BY <1>1, <1>2, ControllerOnly, Zenon DEF NewReport, Base, Types


(* The receipts of o become r, and no other receipt changes.               *)
Written(o, r) ==
    /\ op' \in [Ops -> Receipts]
    /\ op'[o] = r
    /\ \A p \in Ops : p # o => op'[p] = op[p]

(* Writing one receipt changes one field of one operation.                 *)
LEMMA Stamps ==
    ASSUME Types, NEW o \in Ops
    PROVE  /\ Stamp(o, "req", TRUE) => Written(o, [op[o] EXCEPT !.req = TRUE])
           /\ op' = [op EXCEPT ![o].out = TRUE] => Written(o, [op[o] EXCEPT !.out = TRUE])
           /\ Stamp(o, "ready", TRUE) => Written(o, [op[o] EXCEPT !.ready = TRUE])
           /\ Stamp(o, "act", TRUE) => Written(o, [op[o] EXCEPT !.act = TRUE])
           /\ \A v \in {"run", "abort"} : Stamp(o, "auth", v) => Written(o, [op[o] EXCEPT !.auth = v])
           /\ \A v \in {"success", "failed", "aborted"} :
                 Stamp(o, "result", v) => Written(o, [op[o] EXCEPT !.result = v])
           /\ op' = [op EXCEPT ![o].result = "aborted"] => Written(o, [op[o] EXCEPT !.result = "aborted"])
<1>1. op \in [Ops -> Receipts] /\ op[o] \in Receipts
  BY Zenon DEF Types
<1>2. ASSUME NEW r \in Receipts, op' = [op EXCEPT ![o] = r]
      PROVE  Written(o, r)
  BY <1>1, <1>2, Zenon DEF Written
<1>3. /\ [op[o] EXCEPT !.req = TRUE] \in Receipts /\ [op[o] EXCEPT !.out = TRUE] \in Receipts
      /\ [op[o] EXCEPT !.ready = TRUE] \in Receipts /\ [op[o] EXCEPT !.act = TRUE] \in Receipts
  BY <1>1, Zenon DEF Receipts
<1>4. /\ \A v \in {"run", "abort"} : [op[o] EXCEPT !.auth = v] \in Receipts
      /\ \A v \in {"success", "failed", "aborted"} : [op[o] EXCEPT !.result = v] \in Receipts
  BY <1>1, Zenon DEF Receipts
<1> QED
  BY <1>2, <1>3, <1>4, Zenon DEF Stamp

\* The facts of Base about one receipt.
Agrees(r, n) ==
    /\ r.out => r.req
    /\ r.ready => r.out
    /\ r.auth # "none" => r.req
    /\ r.auth = "run" => r.ready
    /\ r.act => r.auth = "run"
    /\ n > 0 => r.act
    /\ n <= 1
    /\ r.result \in {"success", "failed"} => n = 1
    /\ r.result = "aborted" => r.auth = "abort"

(* ReceiptsAgree, one operation at a time.                                 *)
LEMMA AgreesAll == ReceiptsAgree <=> \A o \in Ops : Agrees(op[o], ran[o].n)
  BY Zenon DEF ReceiptsAgree, Agrees

(* A write that agrees with the operation's launches keeps ReceiptsAgree.  *)
LEMMA WrittenAgrees ==
    ASSUME Base, NEW o \in Ops, NEW r, Written(o, r), Agrees(r, ran[o].n), ran' = ran
    PROVE  ReceiptsAgree'
  BY ZenonT(30) DEF Base, ReceiptsAgree, Written, Agrees

(* A process that runs works on an operation.                              *)
LEMMA ProcIs ==
    ASSUME Types
    PROVE  /\ sup # NoProc => sup.o \in Ops /\ sup.pc \in {"up", "out", "wait", "go"}
           /\ rec # NoProc => rec.o \in Ops /\ rec.pc \in {"up", "act", "run"}
           /\ child # NoProc => child.o \in Ops /\ child.pc \in {"run", "ok", "bad"}
           /\ NoProc.pc = "none" /\ NoProc.o = NoOp
  BY Zenon DEF Types, Procs, NoProc

(* A write that takes nothing back, and writes no result under a running   *)
(* action, keeps ProcessesAgree.                                           *)
LEMMA WrittenProcesses ==
    ASSUME Base, NEW o \in Ops, NEW r \in Receipts, Written(o, r), UNCHANGED <<ran, rec, child>>,
           r.req, op[o].out => r.out, op[o].auth = "run" => r.auth = "run", op[o].act => r.act,
           Acting(o) => r.result = "none",
           \/ sup' = sup
           \/ /\ sup' # NoProc => op'[sup'.o].req
              /\ sup'.pc \in {"out", "wait", "go"} => op'[sup'.o].out
              /\ sup'.pc = "go" => op'[sup'.o].auth = "run"
    PROVE  ProcessesAgree'
<1>1. Types /\ ProcessesAgree
  BY Zenon DEF Base
<1>2. \A p \in Ops : /\ op[p].req => op'[p].req
                     /\ op[p].out => op'[p].out
                     /\ op[p].auth = "run" => op'[p].auth = "run"
                     /\ op[p].act => op'[p].act
  BY Zenon DEF Written
<1>3. /\ sup' # NoProc => op'[sup'.o].req
      /\ sup'.pc \in {"out", "wait", "go"} => op'[sup'.o].out
      /\ sup'.pc = "go" => op'[sup'.o].auth = "run"
  BY <1>1, <1>2, ProcIs, Zenon DEF ProcessesAgree
<1>4. /\ rec # NoProc => op'[rec.o].auth = "run"
      /\ rec.pc \in {"act", "run"} => op'[rec.o].act /\ op'[rec.o].result = "none"
  <2>1. rec.pc \in {"act", "run"} => op'[rec.o].result = "none"
    BY <1>1, ProcIs, Zenon DEF ProcessesAgree, Written, Acting
  <2> QED
    BY <1>1, <1>2, <2>1, ProcIs, Zenon DEF ProcessesAgree
<1>5. child.pc = "run" => op'[child.o].act /\ op'[child.o].result = "none"
  <2>1. child.pc = "run" => op'[child.o].result = "none"
    BY <1>1, ProcIs, Zenon DEF ProcessesAgree, Written, Acting
  <2> QED
    BY <1>1, <1>2, <2>1, ProcIs, Zenon DEF ProcessesAgree
<1> QED
  BY <1>1, <1>3, <1>4, <1>5, Zenon DEF ProcessesAgree

(* abort_operation: the controller's abort decision, then the aborted      *)
(* result. The operation was not authorized, so no recorder can be at its  *)
(* action.                                                                 *)
LEMMA AbortsBase == Base /\ (Aborts \/ WritesAborted) => Base'
<1> SUFFICES ASSUME Base, Aborts \/ WritesAborted PROVE Base'
  BY Zenon
<1>1. /\ Types /\ ctl \in Controllers /\ ctl.rep \in Reports /\ (\A o \in ctl.todo : op[o].req)
      /\ ctl.pc \in {"abort", "aborted"} /\ ctl.o \in Ops /\ op[ctl.o].req
      /\ ctl.ret \in {"reconcile", "unselect", "exec"} /\ op[ctl.o] \in Receipts /\ ran[ctl.o].n \in Nat
      /\ op[ctl.o].auth # "run"
  BY Zenon DEF Base, Types, Aborts, WritesAborted, ControllerAgrees, OnOp
<1>2. Agrees(op[ctl.o], ran[ctl.o].n)
  BY <1>1, AgreesAll, Zenon DEF Base
<1>3. PICK r \in {[op[ctl.o] EXCEPT !.auth = "abort"], [op[ctl.o] EXCEPT !.result = "aborted"]} :
         /\ Written(ctl.o, r)
         /\ Aborts => r = [op[ctl.o] EXCEPT !.auth = "abort"]
         /\ WritesAborted => r = [op[ctl.o] EXCEPT !.result = "aborted"]
  BY <1>1, Stamps, Zenon DEF Aborts, WritesAborted
<1>4. r.req /\ r.auth = "abort" /\ r.act = op[ctl.o].act /\ (WritesAborted => r.result # "none")
  BY <1>1, <1>3, Zenon DEF Receipts, Aborts, WritesAborted, Base, ControllerAgrees
<1>5. Agrees(r, ran[ctl.o].n)
  <2>1. ~op[ctl.o].act /\ ran[ctl.o].n = 0 /\ op[ctl.o].result \in {"none", "aborted"}
    BY <1>1, <1>2 DEF Agrees, Receipts
  <2> QED
    BY <1>1, <1>2, <1>3, <1>4, <2>1, Zenon DEF Agrees, Receipts
<1>6. ReceiptsAgree'
  BY <1>1, <1>3, <1>5, WrittenAgrees, Zenon DEF Aborts, WritesAborted
<1>7. ProcessesAgree'
  <2>1. ~Acting(ctl.o)
    BY <1>1, <1>2, ProcIs, OpParts, Zenon DEF Acting, Base, ProcessesAgree, Agrees
  <2>2. r \in Receipts /\ (op[ctl.o].out => r.out)
    BY <1>1, <1>3, Zenon DEF Receipts
  <2> QED
    BY <1>1, <1>3, <1>4, <2>1, <2>2, WrittenProcesses, Zenon DEF Aborts, WritesAborted
<1>8. \A o \in ctl.todo : op'[o].req /\ (op[o].auth # "run" => op'[o].auth # "run")
  BY <1>1, <1>3, <1>4, ZenonT(30) DEF Written, Controllers
<1>9. ctl' \in Controllers /\ ControllerAgrees'
  <2>1. CASE Aborts
    <3>1. /\ ctl' \in Controllers /\ ctl'.pc = "aborted" /\ ctl'.rep = ctl.rep /\ ctl'.todo = ctl.todo
          /\ ctl'.o = ctl.o /\ ctl'.ret = ctl.ret
      BY <1>1, <2>1, ZenonT(30) DEF Aborts, Go, Controllers, Steps, OnOp
    <3>2. op'[ctl.o].req /\ op'[ctl.o].auth = "abort"
      BY <1>3, <1>4, Zenon DEF Written
    <3> QED
      BY <1>1, <1>8, <3>1, <3>2, Zenon DEF Base, ControllerAgrees, Unselecting, OnOp
  <2>2. CASE WritesAborted /\ ctl' = [ctl EXCEPT !.pc = "harvest"]
    <3>1. /\ ctl' \in Controllers /\ ctl'.pc = "harvest" /\ ctl'.rep = ctl.rep /\ ctl'.todo = ctl.todo
          /\ ctl'.o = ctl.o /\ ctl'.ret = ctl.ret
      BY <1>1, <2>2 DEF Controllers, Steps, OnOp
    <3>2. op'[ctl.o].req /\ op'[ctl.o].result # "none"
      BY <1>3, <1>4, <2>2, Zenon DEF Written
    <3> QED
      BY <1>1, <1>8, <3>1, <3>2, Zenon DEF Base, ControllerAgrees, Unselecting, OnOp
  <2>3. CASE ctl' = Off
    BY <2>3, OffAgrees, Zenon
  <2>4. CASE ctl' = [ctl EXCEPT !.pc = "finally"]
    <3>1. ctl' \in Controllers /\ ctl'.pc = "finally" /\ ctl'.rep = ctl.rep /\ ctl'.todo = ctl.todo
      BY <1>1, <2>4, Zenon DEF Controllers, Steps
    <3> QED
      BY <1>1, <1>8, <3>1, Zenon DEF ControllerAgrees, Unselecting, OnOp
  <2> QED
    BY <1>1, <2>1, <2>2, <2>3, <2>4, RaisedIs, Zenon DEF WritesAborted
<1>10. Types'
  BY <1>3, <1>9, Zenon DEF Base, Types, Written, Aborts, WritesAborted
<1> QED
  BY <1>6, <1>7, <1>9, <1>10, Zenon DEF Base

(* A write that authorizes nothing and takes nothing back keeps            *)
(* ControllerAgrees.                                                       *)
LEMMA WrittenController ==
    ASSUME Base, NEW o \in Ops, NEW r \in Receipts, Written(o, r), ctl' = ctl, r.req,
           r.auth = "run" => op[o].auth = "run", op[o].auth = "abort" => r.auth = "abort",
           op[o].result # "none" => r.result # "none"
    PROVE  ControllerAgrees'
<1>1. \A p \in Ops : /\ op[p].req => op'[p].req
                     /\ op'[p].auth = "run" => op[p].auth = "run"
                     /\ op[p].auth = "abort" => op'[p].auth = "abort"
                     /\ op[p].result # "none" => op'[p].result # "none"
  BY Zenon DEF Written
<1>2. ctl.todo \subseteq Ops /\ ControllerAgrees
  BY Zenon DEF Base, Types, Controllers
<1> QED
  BY <1>1, <1>2, Zenon DEF ControllerAgrees, Unselecting, OnOp

(* The latest prepared attempt is reused, or the next one is opened.       *)
LEMMA PreparesBase == Base /\ Prepares => Base'
<1> SUFFICES ASSUME Base, Prepares PROVE Base'
  BY Zenon
<1>1. /\ Types /\ ctl \in Controllers /\ ctl.rep \in Reports /\ ctl.lane \in Lanes
      /\ (\A o \in ctl.todo : op[o].req) /\ ctl.pc = "prepare"
  BY Zenon DEF Base, Types, Prepares, ControllerAgrees, Controllers
<1>2. CASE ctl' = Raised /\ UNCHANGED <<op, ran>>
  BY <1>1, <1>2, RaisedAgrees, ControllerOnly, Zenon DEF Prepares, Base, Types
<1>3. CASE ~(ctl' = Raised /\ UNCHANGED <<op, ran>>)
  <2> DEFINE o == Latest
             reuse == o[3] > 0 /\ StateOf(o) = "prepared"
             p == IF reuse THEN o ELSE <<o[1], o[2], o[3] + 1>>
             held == ctl.lane \in Group /\ Grouped
  <2>1. /\ p[3] <= MaxAttempts
        /\ ctl' = [ctl EXCEPT !.pc = "journal", !.ret = "exec", !.o = p]
        /\ Stamp(p, "req", TRUE)
        /\ ran' = [ran EXCEPT ![p].held = held]
    BY <1>3, Zenon DEF Prepares
  <2>2. p \in Ops
    <3>1. journal[ctl.rep].att[ctl.lane] \in Seq(Refs)
      BY <1>1, ZenonT(30) DEF Types, Runs
    <3>2. Len(journal[ctl.rep].att[ctl.lane]) \in Nat
      BY <3>1, SMTT(30)
    <3>3. p[1] = ctl.rep /\ p[2] = ctl.lane /\ p[3] \in Nat /\ p[3] >= 1 /\ p = <<p[1], p[2], p[3]>>
      <4> DEFINE l == Len(journal[ctl.rep].att[ctl.lane])
      <4>1. o = <<ctl.rep, ctl.lane, l>>
        BY Zenon DEF Latest
      <4>2. CASE reuse
        <5>1. p = <<ctl.rep, ctl.lane, l>> /\ l > 0
          BY <4>1, <4>2, Zenon
        <5>2. l \in Nat /\ l >= 1
          BY <3>2, <5>1, NextAttempt, Zenon
        <5> HIDE DEF p, l
        <5> QED
          BY <5>1, <5>2, Zenon
      <4>3. CASE ~reuse
        <5>1. p = <<ctl.rep, ctl.lane, l + 1>>
          BY <4>1, <4>3, Zenon
        <5>2. l + 1 \in Nat /\ l + 1 >= 1
          BY <3>2, NextAttempt, Zenon
        <5> HIDE DEF p, l
        <5> QED
          BY <5>1, <5>2, Zenon
      <4> QED
        BY <4>2, <4>3, Zenon
    <3>4. p[3] \in 1..MaxAttempts
      BY <2>1, <3>3, RolloutAssumption DEF RolloutAssumption
    <3> QED
      BY <1>1, <3>3, <3>4, OpParts
  <2>3. held \in BOOLEAN
    BY Zenon DEF Grouped
  <2> HIDE DEF p, held
  <2>4. ran' \in [Ops -> [n : Nat, held : BOOLEAN]] /\ \A q \in Ops : ran'[q].n = ran[q].n
    BY <1>1, <2>1, <2>2, <2>3, Zenon DEF Types
  <2>5. /\ ctl' \in Controllers /\ ctl'.pc = "journal" /\ ctl'.rep = ctl.rep /\ ctl'.todo = ctl.todo
        /\ ctl'.o = p /\ ctl'.ret = "exec"
    BY <1>1, <2>1, <2>2, ZenonT(30) DEF Controllers, Steps, OnOp
  <2>6. /\ op' \in [Ops -> Receipts] /\ op'[p].req
        /\ \A q \in Ops : /\ op[q].req => op'[q].req
                          /\ \A f \in {"out", "ready", "auth", "act", "result"} : op'[q][f] = op[q][f]
    <3>1. Written(p, [op[p] EXCEPT !.req = TRUE]) /\ op[p] \in Receipts
      BY <1>1, <2>1, <2>2, Stamps, Zenon DEF Types
    <3> QED
      BY <3>1, <2>2 DEF Written, Receipts
  <2>7. ReceiptsAgree'
    BY <2>4, <2>6 DEF Base, ReceiptsAgree
  <2>8. ProcessesAgree'
    BY <1>1, <2>4, <2>6, ProcIs DEF Base, ProcessesAgree, Prepares
  <2>9. ControllerAgrees'
    BY <1>1, <2>2, <2>5, <2>6, Zenon DEF ControllerAgrees, Unselecting, OnOp, Controllers
  <2>10. Types'
    BY <2>4, <2>5, <2>6, Zenon DEF Base, Types, Prepares
  <2> QED
    BY <2>7, <2>8, <2>9, <2>10, Zenon DEF Base
<1> QED
  BY <1>2, <1>3, Zenon

(* The supervisor is launched, or terminated by the exception path.        *)
LEMMA LaunchesBase == Base /\ (Launches \/ Fails) => Base'
<1> SUFFICES ASSUME Base, Launches \/ Fails PROVE Base'
  BY Zenon
<1>1. /\ Types /\ ctl \in Controllers /\ ctl.rep \in Reports /\ (\A o \in ctl.todo : op[o].req)
      /\ ctl.pc \in {"launch", "fails"} /\ ctl.o \in Ops /\ op[ctl.o].req
      /\ ctl.ret \in {"reconcile", "unselect", "exec"} /\ op' = op
  BY Zenon DEF Base, Types, Launches, Fails, ControllerAgrees, OnOp
<1>2. \/ ctl' \in {Off, Raised}
      \/ \E pc \in {"fails", "ready", "stream", "abort"} : /\ ctl' = [ctl EXCEPT !.pc = pc]
                                                           /\ pc = "abort" => op[ctl.o].auth # "run"
  BY <1>1, Zenon DEF Launches, Fails, Go
<1>3. ctl' \in Controllers /\ ControllerAgrees'
  <2>1. CASE ctl' = Off
    BY <2>1, OffAgrees, Zenon
  <2>2. CASE ctl' = Raised
    BY <1>1, <2>2, RaisedAgrees, Zenon
  <2>3. CASE \E pc \in {"fails", "ready", "stream", "abort"} : /\ ctl' = [ctl EXCEPT !.pc = pc]
                                                               /\ pc = "abort" => op[ctl.o].auth # "run"
    <3>1. PICK pc \in {"fails", "ready", "stream", "abort"} : /\ ctl' = [ctl EXCEPT !.pc = pc]
                                                              /\ pc = "abort" => op[ctl.o].auth # "run"
      BY <2>3, Zenon
    <3>2. /\ ctl' \in Controllers /\ ctl'.pc = pc /\ ctl'.rep = ctl.rep /\ ctl'.todo = ctl.todo
          /\ ctl'.o = ctl.o /\ ctl'.ret = ctl.ret
      BY <1>1, <3>1 DEF Controllers, Steps, OnOp
    <3> QED
      BY <1>1, <3>1, <3>2, Zenon DEF Base, ControllerAgrees, Unselecting, OnOp
  <2> QED
    BY <1>2, <2>1, <2>2, <2>3, Zenon
<1>4. sup' \in {sup, NoProc, [pc |-> "up", o |-> ctl.o]}
  BY Zenon DEF Launches, Fails
<1>5. sup' \in Procs({"up", "out", "wait", "go"})
  BY <1>1, <1>4 DEF Procs, Types
<1>6. Types'
  BY <1>1, <1>3, <1>5, Zenon DEF Types, Launches, Fails
<1>7. ReceiptsAgree'
  BY Zenon DEF Base, ReceiptsAgree, Launches, Fails
<1>8. ProcessesAgree'
  <2>1. UNCHANGED <<op, ran, rec, child>>
    BY Zenon DEF Launches, Fails
  <2>2. /\ sup' # NoProc => op[sup'.o].req
        /\ sup'.pc \in {"out", "wait", "go"} => op[sup'.o].out
        /\ sup'.pc = "go" => op[sup'.o].auth = "run"
    BY <1>1, <1>4, ProcIs DEF Base, ProcessesAgree
  <2> QED
    BY <2>1, <2>2, Zenon DEF Base, ProcessesAgree
<1> QED
  BY <1>3, <1>6, <1>7, <1>8, Zenon DEF Base

(* authorize_operation takes the decision only when there is none.         *)
LEMMA AuthorizesBase == Base /\ Authorizes => Base'
<1> SUFFICES ASSUME Base, Authorizes PROVE Base'
  BY Zenon
<1>1. /\ Types /\ ctl \in Controllers /\ ctl.rep \in Reports /\ (\A o \in ctl.todo : op[o].req)
      /\ ctl.pc = "ready" /\ ctl.o \in Ops /\ op[ctl.o].req /\ op[ctl.o] \in Receipts
      /\ ctl.ret \in {"reconcile", "exec"} /\ ran[ctl.o].n \in Nat
  BY Zenon DEF Base, Types, Authorizes, ControllerAgrees, OnOp, Unselecting
<1>2. PICK pc \in {"stream", "fails"} : ctl' = [ctl EXCEPT !.pc = pc]
  BY Zenon DEF Authorizes, Go
<1>3. /\ ctl' \in Controllers /\ ctl'.pc = pc /\ ctl'.rep = ctl.rep /\ ctl'.todo = ctl.todo
      /\ ctl'.o = ctl.o /\ ctl'.ret = ctl.ret
  BY <1>1, <1>2 DEF Controllers, Steps, OnOp
<1>4. CASE op' = op
  <2>1. ControllerAgrees'
    BY <1>1, <1>3, <1>4, Zenon DEF Base, ControllerAgrees, Unselecting, OnOp
  <2> QED
    BY <1>3, <1>4, <2>1, ControllerOnly, Zenon DEF Authorizes, Base, Types
<1>5. CASE Stamp(ctl.o, "auth", "run") /\ op[ctl.o].ready /\ op[ctl.o].auth = "none"
  <2> DEFINE r == [op[ctl.o] EXCEPT !.auth = "run"]
  <2>1. Written(ctl.o, r) /\ r \in Receipts
    <3>1. Written(ctl.o, r)
      BY <1>1, <1>5, Stamps, Zenon
    <3>2. r \in Receipts
      BY <1>1, Zenon DEF Receipts
    <3> QED
      BY <3>1, <3>2, Zenon
  <2>2. Agrees(op[ctl.o], ran[ctl.o].n)
    BY <1>1, AgreesAll, Zenon DEF Base
  <2>3. Agrees(r, ran[ctl.o].n) /\ r.req
    BY <1>1, <1>5, <2>2, Zenon DEF Agrees, Receipts
  <2>4. ReceiptsAgree'
    BY <1>1, <2>1, <2>3, WrittenAgrees, Zenon DEF Authorizes
  <2>5. ProcessesAgree'
    <3>1. /\ op[ctl.o].out => r.out
          /\ op[ctl.o].act => r.act
          /\ r.auth = "run"
      BY <1>1, Zenon DEF Receipts
    <3>2. ~Acting(ctl.o)
      BY <1>1, <1>5, <2>2, ProcIs, OpParts, Zenon DEF Acting, Base, ProcessesAgree, Agrees
    <3> HIDE DEF r
    <3> QED
      BY <1>1, <2>1, <2>3, <3>1, <3>2, WrittenProcesses, Zenon DEF Authorizes
  <2>6. ControllerAgrees'
    <3>1. \A o \in Ops : op[o].req => op'[o].req
      BY <2>1, <2>3, Zenon DEF Written
    <3> QED
      BY <1>1, <1>3, <3>1, Zenon DEF ControllerAgrees, Unselecting, OnOp, Controllers
  <2>7. Types'
    BY <1>1, <1>3, <2>1, Zenon DEF Types, Authorizes, Written
  <2> QED
    BY <2>4, <2>5, <2>6, <2>7, Zenon DEF Base
<1> QED
  BY <1>4, <1>5, Zenon DEF Authorizes

(* A step of the processes that writes no receipt.                         *)
LEMMA SupervisorOnly ==
    ASSUME Base, UNCHANGED <<report, op, journal, lease, live, ctl, ran>>, faults' \in Nat,
           sup' \in Procs({"up", "out", "wait", "go"}), rec' \in Procs({"up", "act", "run"}),
           child' \in Procs({"run", "ok", "bad"}), ProcessesAgree'
    PROVE  Base'
<1>1. Types'
  BY Zenon DEF Base, Types
<1>2. ReceiptsAgree' /\ ControllerAgrees'
  BY ZenonT(30) DEF Base, ReceiptsAgree, ControllerAgrees, Unselecting
<1> QED
  BY <1>1, <1>2, Zenon DEF Base

(* A step of the supervisor that writes one receipt of its operation.      *)
LEMMA SupervisorWrites ==
    ASSUME Base, UNCHANGED <<report, journal, lease, live, ctl, rec, child, ran>>, faults' \in Nat,
           NEW o \in Ops, NEW r \in Receipts, Written(o, r), Agrees(r, ran[o].n), r.req,
           op[o].out => r.out, op[o].act => r.act, r.auth = op[o].auth \/ (r.auth = "abort" /\ op[o].auth = "none"),
           op[o].result # "none" => r.result # "none",
           Acting(o) => r.result = "none",
           \/ sup' = NoProc
           \/ /\ sup' \in [pc : {"up", "out", "wait", "go"}, o : Ops] /\ sup'.o = o
              /\ sup'.pc \in {"out", "wait", "go"} => r.out
              /\ sup'.pc = "go" => r.auth = "run"
    PROVE  Base'
<1>1. sup' \in Procs({"up", "out", "wait", "go"})
  BY Zenon DEF Procs
<1>2. Types'
  BY <1>1, Zenon DEF Base, Types, Written
<1>3. ReceiptsAgree' /\ ControllerAgrees'
  BY WrittenAgrees, WrittenController, Zenon
<1>4. /\ sup' # NoProc => op'[sup'.o].req
      /\ sup'.pc \in {"out", "wait", "go"} => op'[sup'.o].out
      /\ sup'.pc = "go" => op'[sup'.o].auth = "run"
  BY DEF Written, NoProc
<1>5. ProcessesAgree'
  BY <1>4, WrittenProcesses, Zenon
<1> QED
  BY <1>2, <1>3, <1>5, Zenon DEF Base

(* run_supervisor reads the receipts and starts, resumes or finishes the   *)
(* operation.                                                              *)
LEMMA TakesLeaseBase == Base /\ TakesLease => Base'
<1> SUFFICES ASSUME Base, TakesLease PROVE Base'
  BY Zenon
<1> DEFINE r == op[sup.o]
<1>1. /\ Types /\ ProcessesAgree /\ sup.pc = "up" /\ sup # NoProc /\ sup.o \in Ops /\ r \in Receipts
      /\ r.req /\ ran[sup.o].n \in Nat
  <2>1. Types /\ ProcessesAgree /\ sup # NoProc /\ sup.pc = "up"
    BY DEF Base, TakesLease, Types, NoProc
  <2> QED
    BY <2>1, ProcIs, Zenon DEF Types, ProcessesAgree
<1>2. Agrees(r, ran[sup.o].n)
  BY <1>1, AgreesAll, Zenon DEF Base
<1>3. \/ op' = op /\ sup' = NoProc
      \/ r.result = "none" /\ ~r.act /\ r.auth = "abort" /\ op' = [op EXCEPT ![sup.o].result = "aborted"]
      \/ r.result = "none" /\ ~r.act /\ r.auth # "abort" /\ op' = [op EXCEPT ![sup.o].out = TRUE]
  BY Zenon DEF TakesLease
<1>4. \/ sup' = NoProc
      \/ /\ r.result = "none" /\ ~r.act /\ op' = [op EXCEPT ![sup.o].out = TRUE]
         /\ sup' = [sup EXCEPT !.pc = "go"] /\ r.auth = "run"
      \/ /\ r.result = "none" /\ ~r.act /\ op' = [op EXCEPT ![sup.o].out = TRUE]
         /\ sup' = [sup EXCEPT !.pc = "out"]
  BY Zenon DEF TakesLease
<1>5. CASE op' = op /\ sup' = NoProc
  <2>1. ProcessesAgree'
    BY <1>1, <1>5, ProcIs, Zenon DEF ProcessesAgree, TakesLease
  <2> QED
    BY <1>5, <2>1, SupervisorOnly, Zenon DEF TakesLease, Base, Types, Procs
<1>6. CASE r.result = "none" /\ ~r.act /\ r.auth = "abort" /\ op' = [op EXCEPT ![sup.o].result = "aborted"]
  <2> DEFINE new == [r EXCEPT !.result = "aborted"]
  <2>1. Written(sup.o, new)
    BY <1>1, <1>6, Stamps, Zenon
  <2>2. new \in Receipts /\ new.req /\ new.out = r.out /\ new.auth = "abort" /\ new.act = r.act /\ Agrees(new, ran[sup.o].n)
    BY <1>1, <1>2, <1>6, Zenon DEF Receipts, Agrees
  <2>3. sup' = NoProc
    BY <1>6, Zenon DEF TakesLease
  <2>4. ~Acting(sup.o)
    BY <1>1, <1>6, ProcIs, OpParts, Zenon DEF Acting, ProcessesAgree
  <2> HIDE DEF new
  <2> QED
    BY <1>1, <1>6, <2>1, <2>2, <2>3, <2>4, SupervisorWrites, ZenonT(30) DEF TakesLease, Base, Types
<1>7. CASE r.result = "none" /\ ~r.act /\ r.auth # "abort" /\ op' = [op EXCEPT ![sup.o].out = TRUE]
  <2> DEFINE new == [r EXCEPT !.out = TRUE]
  <2>1. Written(sup.o, new)
    BY <1>1, <1>7, Stamps, Zenon
  <2>2. /\ new \in Receipts /\ new.req /\ new.out /\ new.auth = r.auth /\ new.act = r.act
        /\ new.result = "none" /\ Agrees(new, ran[sup.o].n)
    BY <1>1, <1>2, <1>7, Zenon DEF Receipts, Agrees
  <2>3. \/ sup' = NoProc
        \/ /\ sup' \in [pc : {"up", "out", "wait", "go"}, o : Ops] /\ sup'.o = sup.o
           /\ sup'.pc = "go" => r.auth = "run"
    BY <1>1, <1>4, Zenon DEF Types, Procs
  <2> HIDE DEF new
  <2> QED
    BY <1>1, <1>7, <2>1, <2>2, <2>3, SupervisorWrites, ZenonT(30) DEF TakesLease, Base, Types
<1> QED
  BY <1>3, <1>4, <1>5, <1>6, <1>7, Zenon

(* The supervisor is ready, times out, or obeys the decision.              *)
LEMMA ReadiesBase == Base /\ (Readies \/ TimesOut \/ Obeys) => Base'
<1> SUFFICES ASSUME Base, Readies \/ TimesOut \/ Obeys PROVE Base'
  BY Zenon
<1> DEFINE r == op[sup.o]
<1>1. /\ Types /\ ProcessesAgree /\ sup.pc \in {"out", "wait"} /\ sup # NoProc /\ sup.o \in Ops
      /\ sup \in [pc : {"up", "out", "wait", "go"}, o : Ops] /\ r \in Receipts
      /\ r.req /\ r.out /\ ran[sup.o].n \in Nat
  <2>1. Types /\ ProcessesAgree /\ sup # NoProc /\ sup.pc \in {"out", "wait"}
    <3>1. sup.pc \in {"out", "wait"}
      BY Zenon DEF Readies, TimesOut, Obeys
    <3> QED
      BY <3>1 DEF Base, NoProc
  <2> QED
    BY <2>1, ProcIs, Zenon DEF Types, ProcessesAgree, Procs
<1>2. Agrees(r, ran[sup.o].n)
  BY <1>1, AgreesAll, Zenon DEF Base
<1>3. CASE Readies
  <2> DEFINE new == [r EXCEPT !.ready = TRUE]
  <2>1. Written(sup.o, new)
    BY <1>1, <1>3, Stamps, Zenon DEF Readies
  <2>2. /\ new \in Receipts /\ new.req /\ new.out /\ new.auth = r.auth /\ new.act = r.act
        /\ new.result = r.result /\ Agrees(new, ran[sup.o].n)
    BY <1>1, <1>2, Zenon DEF Receipts, Agrees
  <2>3. sup' \in [pc : {"up", "out", "wait", "go"}, o : Ops] /\ sup'.o = sup.o /\ sup'.pc = "wait"
    BY <1>1, <1>3, Zenon DEF Readies
  <2>4. Acting(sup.o) => r.result = "none"
    BY <1>1, ProcIs, OpParts, Zenon DEF Acting, ProcessesAgree
  <2> HIDE DEF new
  <2> QED
    BY <1>1, <1>3, <2>1, <2>2, <2>3, <2>4, SupervisorWrites, ZenonT(30) DEF Readies, Base, Types
<1>4. CASE TimesOut
  <2> DEFINE new == [r EXCEPT !.auth = "abort"]
  <2>1. Written(sup.o, new)
    BY <1>1, <1>4, Stamps, Zenon DEF TimesOut
  <2>2. r.auth = "none" /\ faults' \in Nat
    BY <1>4, FaultyIs, Zenon DEF TimesOut, Base, Types
  <2>3. /\ new \in Receipts /\ new.req /\ new.out /\ new.auth = "abort" /\ new.act = r.act
        /\ new.result = r.result /\ Agrees(new, ran[sup.o].n)
    BY <1>1, <1>2, <2>2, Zenon DEF Receipts, Agrees
  <2>4. ~r.act /\ ~Acting(sup.o)
    BY <1>1, <1>2, <2>2, ProcIs, OpParts, Zenon DEF Acting, ProcessesAgree, Agrees
  <2>5. sup' = sup /\ sup.pc = "wait"
    BY <1>4, Zenon DEF TimesOut
  <2> HIDE DEF new
  <2> QED
    BY <1>1, <1>4, <2>1, <2>2, <2>3, <2>4, <2>5, SupervisorWrites, ZenonT(30) DEF TimesOut
<1>5. CASE Obeys /\ r.auth = "run"
  <2>1. sup' \in [pc : {"up", "out", "wait", "go"}, o : Ops] /\ sup'.o = sup.o /\ sup'.pc = "go"
    BY <1>1, <1>5, Zenon DEF Obeys
  <2>2. ProcessesAgree'
    BY <1>1, <1>5, <2>1, Zenon DEF ProcessesAgree, Obeys
  <2> QED
    BY <1>5, <2>1, <2>2, SupervisorOnly, Zenon DEF Obeys, Base, Types, Procs
<1>6. CASE Obeys /\ r.auth # "run"
  <2> DEFINE new == [r EXCEPT !.result = "aborted"]
  <2>1. Written(sup.o, new)
    BY <1>1, <1>6, Stamps, Zenon DEF Obeys
  <2>2. r.auth = "abort"
    BY <1>1, <1>6, Zenon DEF Obeys, Receipts
  <2>3. /\ new \in Receipts /\ new.req /\ new.out /\ new.auth = "abort" /\ new.act = r.act
        /\ new.result # "none" /\ Agrees(new, ran[sup.o].n)
    BY <1>1, <1>2, <2>2, Zenon DEF Receipts, Agrees
  <2>4. ~Acting(sup.o)
    BY <1>1, <1>2, <2>2, ProcIs, OpParts, Zenon DEF Acting, ProcessesAgree, Agrees
  <2>5. sup' = NoProc
    BY <1>6, Zenon DEF Obeys
  <2> HIDE DEF new
  <2> QED
    BY <1>1, <1>6, <2>1, <2>2, <2>3, <2>4, <2>5, SupervisorWrites, ZenonT(30) DEF Obeys, Base, Types
<1> QED
  BY <1>3, <1>4, <1>5, <1>6, Zenon


(* The recorder takes over, or a process dies.                             *)
LEMMA DeathsBase == Base /\ (HandsOver \/ SupervisorDies \/ RecorderDies) => Base'
<1> SUFFICES ASSUME Base, HandsOver \/ SupervisorDies \/ RecorderDies PROVE Base'
  BY Zenon
<1>1. Types /\ ProcessesAgree
  BY Zenon DEF Base
<1>2. CASE HandsOver
  <2>1. sup.pc = "go" /\ sup # NoProc /\ sup.o \in Ops
    BY <1>1, <1>2, ProcIs, Zenon DEF HandsOver, NoProc
  <2>2. rec' \in [pc : {"up", "act", "run"}, o : Ops] /\ rec'.pc = "up" /\ rec'.o = sup.o /\ sup' = NoProc
    BY <1>2, <2>1, Zenon DEF HandsOver
  <2>3. op[sup.o].auth = "run"
    BY <1>1, <2>1, Zenon DEF ProcessesAgree
  <2>4. ProcessesAgree'
    BY <1>1, <1>2, <2>2, <2>3, ProcIs, Zenon DEF ProcessesAgree, HandsOver
  <2> QED
    BY <1>1, <1>2, <2>2, <2>4, SupervisorOnly, Zenon DEF HandsOver, Types, Procs
<1>3. CASE SupervisorDies
  <2>1. ProcessesAgree'
    BY <1>1, <1>3, ProcIs, Zenon DEF ProcessesAgree, SupervisorDies
  <2> QED
    BY <1>1, <1>3, <2>1, SupervisorOnly, FaultyIs, Zenon DEF SupervisorDies, Types, Procs
<1>4. CASE RecorderDies
  <2>1. child' \in {child, NoProc} /\ rec' = NoProc /\ UNCHANGED <<op, ran, sup>>
    BY <1>4, Zenon DEF RecorderDies
  <2>2. ProcessesAgree'
    BY <1>1, <2>1, ProcIs, Zenon DEF ProcessesAgree
  <2> QED
    BY <1>1, <1>4, <2>1, <2>2, SupervisorOnly, FaultyIs, Zenon DEF RecorderDies, Types, Procs
<1> QED
  BY <1>2, <1>3, <1>4, Zenon

(* What the recorder may take for granted.                                 *)
LEMMA RecorderIs ==
    ASSUME Base, rec.pc \in {"up", "act", "run"}
    PROVE  /\ Types /\ ProcessesAgree /\ rec # NoProc /\ rec.o \in Ops
           /\ rec \in [pc : {"up", "act", "run"}, o : Ops] /\ op[rec.o] \in Receipts
           /\ ran[rec.o] \in [n : Nat, held : BOOLEAN] /\ op[rec.o].auth = "run" /\ op[rec.o].req
           /\ Agrees(op[rec.o], ran[rec.o].n)
<1>1. Types /\ ProcessesAgree /\ rec # NoProc
  BY DEF Base, NoProc
<1>2. rec.o \in Ops /\ rec \in [pc : {"up", "act", "run"}, o : Ops] /\ op[rec.o] \in Receipts
      /\ ran[rec.o] \in [n : Nat, held : BOOLEAN] /\ op[rec.o].auth = "run"
  BY <1>1, ProcIs, Zenon DEF Types, ProcessesAgree, Procs
<1>3. Agrees(op[rec.o], ran[rec.o].n)
  BY <1>2, AgreesAll, Zenon DEF Base
<1> QED
  BY <1>1, <1>2, <1>3, Zenon DEF Agrees

(* run_recorder records the activation, once, before the action starts.    *)
LEMMA ActivatesBase == Base /\ Activates => Base'
<1> SUFFICES ASSUME Base, Activates PROVE Base'
  BY Zenon
<1> DEFINE r == op[rec.o]
<1>1. rec.pc = "up"
  BY Zenon DEF Activates
<1>2. CASE rec' = NoProc /\ op' = op
  <2>1. ProcessesAgree'
    BY <1>1, <1>2, RecorderIs, ProcIs, Zenon DEF ProcessesAgree, Activates
  <2> QED
    BY <1>2, <2>1, SupervisorOnly, Zenon DEF Activates, Base, Types, Procs
<1>3. CASE r.result = "none" /\ ~r.act /\ r.ready /\ Stamp(rec.o, "act", TRUE) /\ rec' = [rec EXCEPT !.pc = "act"]
  <2> DEFINE new == [r EXCEPT !.act = TRUE]
  <2>1. Written(rec.o, new)
    BY <1>1, <1>3, RecorderIs, Stamps, Zenon
  <2>2. /\ new \in Receipts /\ new.req /\ new.out = r.out /\ new.auth = "run" /\ new.act /\ new.result = "none"
        /\ Agrees(new, ran[rec.o].n) /\ ran[rec.o].n = 0
    <3>1. /\ r \in Receipts /\ r.req /\ r.auth = "run" /\ ran[rec.o].n \in Nat
          /\ Agrees(r, ran[rec.o].n)
      BY <1>1, RecorderIs, Zenon
    <3>2. ran[rec.o].n = 0
      BY <3>1, <1>3 DEF Agrees
    <3> QED
      BY <3>1, <3>2, <1>3, Zenon DEF Receipts, Agrees
  <2>3. rec' \in [pc : {"up", "act", "run"}, o : Ops] /\ rec'.pc = "act" /\ rec'.o = rec.o
    BY <1>1, <1>3, RecorderIs, Zenon
  <2> HIDE DEF new
  <2>4. ReceiptsAgree' /\ ControllerAgrees'
    BY <1>1, <1>3, <2>1, <2>2, RecorderIs, WrittenAgrees, WrittenController, Zenon DEF Activates
  <2>5. \A p \in Ops : /\ op[p].req => op'[p].req
                       /\ op[p].out => op'[p].out
                       /\ op[p].auth = "run" => op'[p].auth = "run"
                       /\ op[p].act => op'[p].act
                       /\ op[p].result = "none" => op'[p].result = "none"
    BY <1>1, <2>1, <2>2, RecorderIs, Zenon DEF Written
  <2>6. op'[rec.o].act /\ op'[rec.o].result = "none" /\ op'[rec.o].auth = "run"
    BY <2>1, <2>2, Zenon DEF Written
  <2>7. ProcessesAgree'
    BY <1>1, <2>2, <2>3, <2>5, <2>6, RecorderIs, ProcIs DEF ProcessesAgree, Activates
  <2>8. Types'
    BY <2>1, <2>3, Zenon DEF Base, Types, Procs, Written, Activates
  <2> QED
    BY <2>4, <2>7, <2>8, Zenon DEF Base
<1> QED
  BY <1>2, <1>3, Zenon DEF Activates

(* The action is launched: the recorder that wrote the activation is the   *)
(* only one at this point.                                                 *)
LEMMA SpawnsBase == Base /\ Spawns => Base'
<1> SUFFICES ASSUME Base, Spawns PROVE Base'
  BY Zenon
<1>1. rec.pc = "act" /\ rec' = [rec EXCEPT !.pc = "run"] /\ child' = [pc |-> "run", o |-> rec.o]
      /\ op' = op /\ ran' = [ran EXCEPT ![rec.o].n = @ + 1]
  BY Zenon DEF Spawns
<1>2. op[rec.o].act /\ op[rec.o].result = "none" /\ ran[rec.o].n = 0
  BY <1>1, Zenon DEF Base, ProcessesAgree
<1>3. /\ ran' \in [Ops -> [n : Nat, held : BOOLEAN]] /\ ran'[rec.o].n = 1
      /\ \A p \in Ops : p # rec.o => ran'[p] = ran[p]
  <2> DEFINE new == [ran[rec.o] EXCEPT !.n = 1]
  <2>1. ran' = [ran EXCEPT ![rec.o] = new]
    BY <1>1, <1>2
  <2>2. new \in [n : Nat, held : BOOLEAN] /\ new.n = 1
    BY <1>1, RecorderIs, Zenon
  <2> HIDE DEF new
  <2>3. ran \in [Ops -> [n : Nat, held : BOOLEAN]] /\ rec.o \in Ops
    BY <1>1, RecorderIs, Zenon DEF Types
  <2> QED
    BY <2>1, <2>2, <2>3, Zenon
<1>4. ReceiptsAgree'
  <2>1. Agrees(op[rec.o], ran'[rec.o].n)
    BY <1>1, <1>2, <1>3, RecorderIs DEF Agrees
  <2>2. \A p \in Ops : Agrees(op[p], ran'[p].n)
    BY <1>3, <2>1, AgreesAll, Zenon DEF Base
  <2> QED
    BY <1>1, <2>2, Zenon DEF ReceiptsAgree, Agrees
<1>5. rec' \in [pc : {"up", "act", "run"}, o : Ops] /\ rec'.pc = "run" /\ rec'.o = rec.o
  BY <1>1, RecorderIs, Zenon
<1>6. child' \in [pc : {"run", "ok", "bad"}, o : Ops] /\ child'.o = rec.o
  BY <1>1, RecorderIs, Zenon
<1>7. ProcessesAgree'
  BY <1>1, <1>2, <1>3, <1>5, <1>6, RecorderIs, ZenonT(30) DEF ProcessesAgree, Spawns
<1>8. Types' /\ ControllerAgrees'
  BY <1>3, <1>5, <1>6 DEF Base, Types, Procs, Spawns, ControllerAgrees, Unselecting
<1> QED
  BY <1>4, <1>7, <1>8, Zenon DEF Base

(* The recorder writes the result of the action it launched.               *)
LEMMA RecordsBase == Base /\ Records => Base'
<1> SUFFICES ASSUME Base, Records PROVE Base'
  BY Zenon
<1>1. rec.pc = "run" /\ rec' = NoProc /\ child' = NoProc /\ child.pc \in {"ok", "bad"}
  BY Zenon DEF Records
<1>2. ran[rec.o].n = 1
  BY <1>1, Zenon DEF Base, ProcessesAgree
<1>3. PICK v \in {"success", "failed"} : Stamp(rec.o, "result", v)
  BY Zenon DEF Records
<1> DEFINE new == [op[rec.o] EXCEPT !.result = v]
<1>4. Written(rec.o, new)
  BY <1>1, <1>3, RecorderIs, Stamps, Zenon
<1>5. /\ new \in Receipts /\ new.req /\ new.out = op[rec.o].out /\ new.auth = "run" /\ new.act = op[rec.o].act
      /\ new.result # "none" /\ Agrees(new, ran[rec.o].n)
  BY <1>1, <1>2, RecorderIs, Zenon DEF Receipts, Agrees
<1> HIDE DEF new
<1>6. ReceiptsAgree' /\ ControllerAgrees'
  BY <1>1, <1>4, <1>5, RecorderIs, WrittenAgrees, WrittenController, Zenon DEF Records
<1>7. \A p \in Ops : /\ op[p].req => op'[p].req
                     /\ op[p].out => op'[p].out
                     /\ op[p].auth = "run" => op'[p].auth = "run"
  BY <1>1, <1>4, <1>5, RecorderIs, Zenon DEF Written
<1>8. ProcessesAgree'
  BY <1>1, <1>7, RecorderIs, ProcIs, Zenon DEF ProcessesAgree, Records
<1>9. Types'
  BY <1>1, <1>4, Zenon DEF Base, Types, Procs, Written, Records
<1> QED
  BY <1>6, <1>8, <1>9, Zenon DEF Base

(* The action ends.                                                        *)
LEMMA ChildEndsBase == Base /\ ChildEnds => Base'
<1> SUFFICES ASSUME Base, ChildEnds PROVE Base'
  BY Zenon
<1>1. child.pc = "run" /\ child # NoProc /\ child.o \in Ops /\ child \in [pc : {"run", "ok", "bad"}, o : Ops]
  <2>1. child.pc = "run" /\ child # NoProc
    BY DEF ChildEnds, NoProc
  <2> QED
    BY <2>1, ProcIs, Zenon DEF Base, Types, Procs
<1>2. child' \in {NoProc, [child EXCEPT !.pc = "ok"], [child EXCEPT !.pc = "bad"]}
  BY Zenon DEF ChildEnds
<1>3. child' \in Procs({"run", "ok", "bad"}) /\ child'.pc # "run"
  BY <1>1, <1>2 DEF Procs, NoProc
<1>4. live' \in [Lanes -> 0..MaxReports]
  <2>1. child.o[2] \in Lanes /\ child.o[1] \in 0..MaxReports /\ 0 \in 0..MaxReports
    BY <1>1, OpParts, RolloutAssumption DEF Reports, RolloutAssumption
  <2>2. live' \in {live, [live EXCEPT ![child.o[2]] = child.o[1]], [live EXCEPT ![child.o[2]] = 0]}
    BY Zenon DEF ChildEnds
  <2> QED
    BY <2>1, <2>2, Zenon DEF Base, Types
<1>5. faults' \in Nat
  BY FaultyIs, Zenon DEF ChildEnds, Base, Types
<1>6. ProcessesAgree'
  BY <1>3, Zenon DEF Base, ProcessesAgree, ChildEnds
<1>7. Types'
  BY <1>3, <1>4, <1>5, Zenon DEF Base, Types, ChildEnds
<1>8. ReceiptsAgree' /\ ControllerAgrees'
  BY Zenon DEF Base, ReceiptsAgree, ControllerAgrees, Unselecting, ChildEnds
<1> QED
  BY <1>6, <1>7, <1>8, Zenon DEF Base

(* The operator settles an unknown outcome of an action that ran.          *)
LEMMA ReconcilesOperationBase == ASSUME NEW o \in Ops PROVE Base /\ ReconcilesOperation(o) => Base'
<1> SUFFICES ASSUME Base, ReconcilesOperation(o) PROVE Base'
  BY Zenon
<1> DEFINE new == [op[o] EXCEPT !.result = "success"]
<1>1. Types /\ op[o] \in Receipts /\ Agrees(op[o], ran[o].n) /\ ran[o].n = 1
  BY AgreesAll, Zenon DEF Base, Types, ReconcilesOperation
<1>2. ~Busy(o) /\ op[o].auth = "run" /\ op[o].act /\ child.o # o
  BY <1>1, StateIs, Zenon DEF ReconcilesOperation
<1>3. Written(o, new)
  BY <1>1, Stamps, Zenon DEF ReconcilesOperation
<1>4. /\ new \in Receipts /\ new.req /\ new.out = op[o].out /\ new.auth = op[o].auth /\ new.act = op[o].act
      /\ new.result # "none" /\ Agrees(new, ran[o].n)
  BY <1>1, <1>2, Zenon DEF Receipts, Agrees
<1>5. ~Acting(o)
  BY <1>2, Zenon DEF Acting, Busy
<1> HIDE DEF new
<1>6. ReceiptsAgree' /\ ControllerAgrees' /\ ProcessesAgree'
  BY <1>3, <1>4, <1>5, WrittenAgrees, WrittenController, WrittenProcesses, Zenon DEF ReconcilesOperation
<1>7. Types'
  BY <1>3, Zenon DEF Base, Types, Written, ReconcilesOperation
<1> QED
  BY <1>6, <1>7, Zenon DEF Base

(* Base holds initially.                                                   *)
LEMMA BaseInit == Init => Base
<1> SUFFICES ASSUME Init PROVE Base
  BY Zenon
<1>1. 1 \in Reports /\ 0 \in 0..MaxReports
  BY RolloutAssumption DEF RolloutAssumption, Reports
<1>2. Unprepared \in Receipts
  BY Zenon DEF Unprepared, Receipts
<1>3. NewRun \in Runs
  <2>1. [a \in Lanes |-> <<>>] \in [Lanes -> Seq(Refs)]
    OBVIOUS
  <2>2. NoHold \in Holds
    BY Zenon DEF NoHold, Holds
  <2> QED
    BY <2>1, <2>2, Zenon DEF NewRun, Runs
<1>4. Types
  BY <1>1, <1>2, <1>3, OffIs, Zenon DEF Init, Types, Procs
<1>5. ReceiptsAgree
  BY DEF Init, ReceiptsAgree, Unprepared
<1>6. ProcessesAgree
  BY Zenon DEF Init, ProcessesAgree, NoProc
<1>7. ControllerAgrees
  BY OffIs, Zenon DEF Init, ControllerAgrees, Unselecting, OnOp
<1> QED
  BY <1>4, <1>5, <1>6, <1>7, Zenon DEF Base

(* Every step keeps Base.                                                  *)
LEMMA BaseStep == Base /\ [Next]_vars => Base'
<1> SUFFICES ASSUME Base, [Next]_vars PROVE Base'
  BY Zenon
<1>1. CASE ReconcileStep
  BY <1>1, AdoptsBase, AbortsBase, HarvestsBase, ReconciledBase, Zenon DEF ReconcileStep
<1>2. CASE PlanStep
  BY <1>2, PlansBase, UnselectsBase, RunsDriverBase, BeginsBase, Zenon DEF PlanStep
<1>3. CASE HoldStep
  BY <1>3, HoldStepsBase, Zenon DEF HoldStep
<1>4. CASE LaneStep
  BY <1>4, VisitsBase, PreparesBase, JournalsBase, LaunchesBase, AuthorizesBase, StreamsBase, EndsBase, ZenonT(30)
     DEF LaneStep
<1>5. CASE EndStep
  BY <1>5, EndsBase, VerifiesBase, Zenon DEF EndStep
<1>6. CASE SupervisorStep
  BY <1>6, TakesLeaseBase, ReadiesBase, DeathsBase, Zenon DEF SupervisorStep
<1>7. CASE RecorderStep
  BY <1>7, ActivatesBase, SpawnsBase, RecordsBase, Zenon DEF RecorderStep
<1>8. CASE Fault
  BY <1>8, PlansBase, VerifiesBase, HoldFaultsBase, StreamsBase, EndsBase, DeathsBase, Zenon DEF Fault
<1>9. CASE Starts \/ ChildEnds \/ NewReport \/ \E o \in Ops : ReconcilesOperation(o)
  BY <1>9, StartsBase, ChildEndsBase, NewReportBase, ReconcilesOperationBase, Zenon
<1>10. CASE UNCHANGED vars
  <2> USE <1>10 DEF vars
  <2>1. Types'
    BY Zenon DEF Base, Types
  <2>2. ReceiptsAgree'
    BY Zenon DEF Base, ReceiptsAgree
  <2>3. ProcessesAgree'
    BY Zenon DEF Base, ProcessesAgree
  <2>4. ControllerAgrees'
    BY Zenon DEF Base, ControllerAgrees, Unselecting
  <2> QED
    BY <2>1, <2>2, <2>3, <2>4, Zenon DEF Base
<1> QED
  BY <1>1, <1>2, <1>3, <1>4, <1>5, <1>6, <1>7, <1>8, <1>9, <1>10, ZenonT(30) DEF Next, ControllerStep

(* Base holds always.                                                      *)
LEMMA BaseHolds == Spec => []Base
  BY BaseInit, BaseStep, PTL DEF Spec

(* However processes die and the command is repeated, run_recorder         *)
(* launches the action of an operation at most once; one recorded as       *)
(* aborted never ran, and one recorded as executed did.                    *)
THEOREM ActionsRunOnce == Spec => []LaunchedOnce
<1>1. Base => LaunchedOnce
  <2> SUFFICES ASSUME Base, NEW o \in Ops
               PROVE  /\ ran[o].n <= 1
                      /\ op[o].result = "aborted" => ran[o].n = 0 /\ rec.o # o
                      /\ op[o].result \in {"success", "failed"} => ran[o].n = 1
    BY Zenon DEF LaunchedOnce
  <2>1. Agrees(op[o], ran[o].n) /\ ran[o].n \in Nat /\ Types /\ ProcessesAgree
    BY AgreesAll, Zenon DEF Base, Types
  <2>2. rec.o = o => op[o].auth = "run"
    BY <2>1, ProcIs, OpParts, Zenon DEF ProcessesAgree
  <2> QED
    BY <2>1, <2>2 DEF Agrees
<1> QED
  BY <1>1, BaseHolds, PTL
=============================================================================
