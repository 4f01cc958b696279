---------------------------- MODULE BrokerProofs ----------------------------
(***************************************************************************)
(* Proofs about Broker, for any jobs, targets, slots and faults: the       *)
(* record of a job says where the job may be, what vq kill called stopped  *)
(* stays stopped, and no target is given more work than it has room for.   *)
(*                                                                         *)
(* None is inductive by itself.  A step of the pass acts on a job it chose *)
(* earlier, and a kill decides on a record it read earlier; Inv says what  *)
(* still holds of these when they are used.  And placement adds up charges *)
(* and figures of different ages; Room says why no job is missing in the   *)
(* sum.                                                                    *)
(***************************************************************************)
EXTENDS Broker, TLAPS

Figures == [used : Nat, ready : BOOLEAN, counts : SUBSET Jobs]
Records == [state : NotSent \cup {"transferring", "placed"}, target : Roots \cup {NoRoot},
            attempts : Nat, charged : BOOLEAN, cancel : BOOLEAN]
LockHolders ==
    [at : {"idle", "recover", "work", "begin", "check", "send", "await",
           "fence", "fenced", "cancel", "resume"},
     job : Jobs \cup {0}, known : SUBSET Jobs, recover : SUBSET Jobs, settle : SUBSET Jobs,
     replay : SUBSET Jobs, queue : SUBSET Jobs, snap : [Roots -> Figures],
     answer : {"none", "accepted", "fenced"}, seen : BOOLEAN]
Kills == [at : {"idle", "cancel", "decide"}, seen : Records]

\* Broker's types, without the bounds that the argument does not need.
Types ==
    /\ rec \in [Jobs -> Records]
    /\ tgt \in [Roots -> [Jobs -> {"open", "fenced"} \cup Accepted]]
    /\ wire \subseteq Roots \X Jobs
    /\ pub \in [Roots -> Figures]
    /\ pass \in LockHolders
    /\ kill \in [Killed -> Kills]
    /\ stopped \subseteq Jobs

\* A job that was given a target has one, and no cancelled job is held.
RecordsMakeSense ==
    \A b \in Jobs :
        /\ rec[b].state \in {"reserved", "transferring", "placed"} => rec[b].target \in Roots
        /\ rec[b].cancel => rec[b].state \notin {"absent", "held"}

\* What the holder of the pass lock chose is still as it was chosen.
PassHolds ==
    /\ \A b \in pass.replay : rec[b].state = "transferring"
    /\ pass.at \in {"fence", "fenced", "cancel", "resume"} => pass.replay = {}
    /\ pass.at = "begin" => pass.job \in Jobs /\ rec[pass.job].state = "reserved"
    /\ pass.at \in {"check", "send", "await", "fence", "fenced"} =>
         pass.job \in Jobs /\ rec[pass.job].state = "transferring"
    /\ pass.at \in {"cancel", "resume"} =>
         pass.job \in Jobs /\ rec[pass.job].state = "returned"
    /\ pass.at = "fenced" /\ pass.answer = "fenced" =>
         tgt[rec[pass.job].target][pass.job] = "fenced"

\* What a kill read may be old, but a placed job stays placed, and a cancelled
\* job that was not sent will not be.
KillHolds ==
    \A b \in Killed : kill[b].at # "idle" =>
        LET seen == kill[b].seen
        IN  /\ seen.state # "absent"
            /\ kill[b].at = "decide" => seen.cancel
            /\ rec[b].state # "absent"
            /\ seen.cancel => rec[b].cancel
            /\ seen.state = "placed" => rec[b].state = "placed" /\ rec[b].target = seen.target
            /\ seen.cancel /\ seen.state \in NotSent =>
                 rec[b].cancel /\ rec[b].state \in {"reserved", "returned", "cancelled"}

StoppedIsSettled ==
    \A b \in stopped :
        /\ rec[b].cancel
        /\ \/ rec[b].state \in {"reserved", "returned", "cancelled"}
           \/ rec[b].state = "placed" /\ tgt[rec[b].target][b] = "ended"

Inv ==
    /\ Types
    /\ RecordsMakeSense
    /\ RecordTellsWhere
    /\ PassHolds
    /\ KillHolds
    /\ StoppedIsSettled

-----------------------------------------------------------------------------
(* What a step has to show, by what it changes. *)

\* A step that only moves the pass.
LEMMA OnlyThePass ==
  ASSUME Inv, pass' \in LockHolders, pub' \in [Roots -> Figures], PassHolds',
         rec' = rec, tgt' = tgt, wire' = wire, kill' = kill, stopped' = stopped
  PROVE  Inv'
BY ZenonT(30) DEF Inv, Types, RecordsMakeSense, RecordTellsWhere, KillHolds, StoppedIsSettled

\* A transition of one record.  A sent job keeps its target, a placed one stays
\* placed, and a cancelled one that was not sent is not sent now.
Fits(old, new) ==
    /\ new \in Records
    /\ new.state \in {"reserved", "transferring", "placed"} => new.target \in Roots
    /\ new.cancel => new.state \notin {"absent", "held"}
    /\ old.state = "placed" => new.state = "placed" /\ new.target = old.target
    /\ old.state # "absent" => new.state # "absent"
    /\ old.cancel => new.cancel
    /\ old.cancel /\ old.state \in {"reserved", "returned", "cancelled"} =>
         new.state \in {"reserved", "returned", "cancelled"}

\* Nothing of the job is at a target or on its way.
Nowhere(b) ==
    \A r \in Roots : /\ tgt[r][b] \notin Accepted
                     /\ ~(tgt[r][b] = "open" /\ <<r, b>> \in wire)

LEMMA OneRecord ==
  ASSUME Inv, NEW b \in Jobs, NEW new, Fits(rec[b], new),
         \/ Nowhere(b)
         \/ new.state \in {"transferring", "placed"} /\ new.target = rec[b].target,
         rec' = [rec EXCEPT ![b] = new],
         tgt' = tgt, wire' = wire, kill' = kill, stopped' = stopped, pub' = pub,
         pass' \in LockHolders, PassHolds'
  PROVE  Inv'
<1> USE DEF Inv, Types
<1>1. rec' \in [Jobs -> Records] /\ rec'[b] = new /\ \A c \in Jobs \ {b} : rec'[c] = rec[c]
  BY Zenon DEF Fits
<1>2. Types'
  BY <1>1, Zenon
<1>3. RecordsMakeSense'
  BY <1>1, Zenon DEF RecordsMakeSense, Fits
<1>4. RecordTellsWhere'
  BY <1>1 DEF RecordTellsWhere, Nowhere
<1>5. KillHolds'
  BY <1>1, BrokerAssumption, SMTT(30) DEF KillHolds, Fits
<1>6. StoppedIsSettled'
  BY <1>1 DEF StoppedIsSettled, Fits
<1> QED
  BY <1>2, <1>3, <1>4, <1>5, <1>6, SMTT(30)

\* A job that is neither in transfer nor placed is nowhere.
LEMMA UnsentIsNowhere ==
  ASSUME Inv, NEW b \in Jobs, rec[b].state \notin {"transferring", "placed"}
  PROVE  Nowhere(b)
BY Zenon DEF Inv, RecordTellsWhere, Nowhere

-----------------------------------------------------------------------------
(* The pass. *)

\* Moves that are common to several steps.
LEMMA LockMoves ==
  ASSUME Inv
  PROVE  /\ IdlePass \in LockHolders
         /\ NextJob(pass) \in LockHolders
         /\ NextJob(pass).replay \subseteq pass.replay \ {pass.job}
         /\ NextJob(pass).at = "work"
<1> USE DEF LockHolders
<1>1. pass \in LockHolders
  BY Zenon DEF Inv, Types
<1>2. [r \in Roots |-> NoFigures] \in [Roots -> Figures]
  BY Zenon DEF NoFigures, Figures
<1>3. IdlePass \in LockHolders
  BY <1>2, Zenon DEF IdlePass
<1> QED
  BY <1>1, <1>3, Zenon DEF NextJob

\* The pass is over, or goes on to its next job.
LEMMA Leaves ==
  ASSUME Inv, pass' \in {IdlePass, NextJob(pass)}, UNCHANGED <<rec, tgt, wire, pub, kill, stopped>>
  PROVE  Inv'
<1>1. pass' \in LockHolders /\ pub' \in [Roots -> Figures]
  BY LockMoves, Zenon DEF Inv, Types
<1>2. PassHolds'
  <2>1. pass'.at \in {"idle", "work"} /\ pass'.replay \subseteq pass.replay
    BY LockMoves DEF IdlePass
  <2> QED
    BY <2>1, Zenon DEF Inv, PassHolds
<1> QED
  BY <1>1, <1>2, OnlyThePass, Zenon

\* The scan and the reads of a pass, and the choice of the job to work on.
LEMMA PassChooses ==
  ASSUME Inv,
         \/ PassStarts \/ PassReads \/ PassChecks
         \/ \E b \in Jobs : PassReplays(b) \/ PassSkips(b) \/ ReconcileStarts(b)
  PROVE  Inv'
<1>0. /\ Types /\ PassHolds /\ pass \in LockHolders /\ pub \in [Roots -> Figures]
      /\ rec \in [Jobs -> Records]
  BY Zenon DEF Inv, Types
<1>1. CASE PassStarts
  <2> DEFINE snap == [r \in Roots |-> [pub[r] EXCEPT !.ready = @ /\ Live(r) = Active(r)]]
  <2>1. snap \in [Roots -> Figures]
    <3> SUFFICES ASSUME NEW r \in Roots, NEW up \in BOOLEAN
                 PROVE  [pub[r] EXCEPT !.ready = up] \in Figures
      BY Zenon
    <3> QED
      BY <1>0, Zenon DEF Figures
  <2>2. pass' = [IdlePass EXCEPT
                   !.at = "recover",
                   !.known = {b \in Jobs : rec[b].state # "absent"},
                   !.recover = {b \in Jobs : rec[b].state \in {"reserved", "returned"}},
                   !.snap = snap]
    BY <1>1, Zenon DEF PassStarts
  <2> HIDE DEF snap
  <2>3. pass' \in LockHolders /\ pass'.at = "recover" /\ pass'.replay = {}
    BY <2>1, <2>2, LockMoves, ZenonT(30) DEF LockHolders, IdlePass
  <2>4. PassHolds'
    BY <2>3, Zenon DEF PassHolds
  <2> QED
    BY <1>0, <1>1, <2>3, <2>4, OnlyThePass, SMTT(30) DEF PassStarts
<1>2. CASE PassReads
  <2>1. pass' \in LockHolders
    BY <1>0, <1>2, Zenon DEF PassReads, LockHolders
  <2>2. PassHolds'
    BY <1>0, <1>2, ZenonT(30) DEF PassReads, PassHolds, LockHolders
  <2> QED
    BY <1>0, <1>2, <2>1, <2>2, OnlyThePass, SMTT(30) DEF PassReads
<1>3. CASE PassChecks
  <2>1. CASE rec[pass.job].cancel
    BY <1>3, <2>1, Leaves, Zenon DEF PassChecks
  <2>2. CASE ~rec[pass.job].cancel
    <3>1. pass' \in LockHolders
      BY <1>0, <1>3, <2>2, Zenon DEF PassChecks, LockHolders
    <3>2. PassHolds'
      BY <1>0, <1>3, <2>2, Zenon DEF PassChecks, PassHolds, LockHolders
    <3> QED
      BY <1>0, <1>3, <3>1, <3>2, OnlyThePass, Zenon DEF PassChecks
  <2> QED
    BY <2>1, <2>2, Zenon
<1>4. ASSUME NEW b \in Jobs, PassReplays(b)
      PROVE  Inv'
  <2>1. pass' \in LockHolders
    BY <1>0, <1>4, Zenon DEF PassReplays, LockHolders
  <2>2. PassHolds'
    BY <1>0, <1>4, ZenonT(30) DEF PassReplays, PassHolds, LockHolders
  <2> QED
    BY <1>0, <1>4, <2>1, <2>2, OnlyThePass, Zenon DEF PassReplays
<1>5. ASSUME NEW b \in Jobs, PassSkips(b)
      PROVE  Inv'
  <2>1. ASSUME NEW S \in SUBSET Jobs
        PROVE  /\ [pass EXCEPT !.settle = S] \in LockHolders
               /\ [pass EXCEPT !.replay = S] \in LockHolders
    BY <1>0, SMTT(30) DEF LockHolders
  <2>2. pass.settle \ {b} \in SUBSET Jobs /\ pass.replay \ {b} \in SUBSET Jobs
    BY <1>0, Zenon DEF LockHolders
  <2>3. pass' \in LockHolders
    BY <1>5, <2>1, <2>2, Zenon DEF PassSkips
  <2>4. pass'.replay \subseteq pass.replay /\ pass'.at = "work"
    BY <1>0, <1>5, ZenonT(30) DEF PassSkips, LockHolders
  <2>5. PassHolds'
    BY <1>0, <1>5, <2>4, Zenon DEF PassSkips, PassHolds
  <2> QED
    BY <1>0, <1>5, <2>3, <2>5, OnlyThePass, Zenon DEF PassSkips
<1>6. ASSUME NEW b \in Jobs, ReconcileStarts(b)
      PROVE  Inv'
  <2>1. rec[b].cancel \in BOOLEAN
    BY <1>0, Zenon DEF Records
  <2>2. pass' \in LockHolders
    BY <1>6, <2>1, LockMoves, Zenon DEF ReconcileStarts, LockHolders
  <2>3. pass'.at = "fence" /\ pass'.job = b /\ pass'.replay = {}
    BY <1>6, Zenon DEF ReconcileStarts, IdlePass
  <2>4. PassHolds'
    BY <1>6, <2>3, Zenon DEF ReconcileStarts, PassHolds
  <2> QED
    BY <1>0, <1>6, <2>2, <2>4, OnlyThePass, Zenon DEF ReconcileStarts
<1> QED
  BY <1>1, <1>2, <1>3, <1>4, <1>5, <1>6, Zenon

\* The steps that leave a job, or the lock.
LEMMA PassLeaves ==
  ASSUME Inv,
         PassEnds \/ PassIsRefused \/ PassLosesAnswer \/ PassDies \/ ReconcileConflicts
  PROVE  Inv'
BY Leaves, Zenon DEF PassEnds, PassIsRefused, PassLosesAnswer, PassDies, ReconcileConflicts

\* The transitions of the store, on records in the states in which the pass and
\* the reconcile apply them.
LEMMA TransitionsFit ==
  ASSUME Inv, NEW b \in Jobs
  PROVE  /\ rec[b].state \in {"reserved", "transferring"} => Fits(rec[b], Returned(rec[b]))
         /\ rec[b].state = "returned" => Fits(rec[b], Held(rec[b]))
         /\ rec[b].state = "returned" => Fits(rec[b], [rec[b] EXCEPT !.cancel = TRUE])
         /\ \A r \in Roots : rec[b].state = "held" => Fits(rec[b], Reserved(rec[b], r))
         /\ rec[b].state = "reserved" /\ ~rec[b].cancel =>
              Fits(rec[b], [rec[b] EXCEPT !.state = "transferring"])
         /\ rec[b].state = "transferring" => Fits(rec[b], [rec[b] EXCEPT !.state = "placed"])
         /\ Fits(rec[b], [rec[b] EXCEPT !.charged = FALSE])
         /\ rec[b].state # "absent" => Fits(rec[b], Cancelled(rec[b]))
         /\ rec[b].state = "absent" => Fits(rec[b], [Absent EXCEPT !.state = "held"])
<1>1. /\ rec[b] \in Records
      /\ rec[b].state \in {"reserved", "transferring", "placed"} => rec[b].target \in Roots
      /\ rec[b].cancel => rec[b].state \notin {"absent", "held"}
  BY Zenon DEF Inv, Types, RecordsMakeSense
<1> USE DEF Fits, Records, NotSent
<1>2. rec[b].state \in {"reserved", "transferring"} => Fits(rec[b], Returned(rec[b]))
  BY <1>1, Zenon DEF Returned
<1>3. rec[b].state = "returned" => Fits(rec[b], Held(rec[b]))
  BY <1>1, Zenon DEF Held
<1>4. rec[b].state = "returned" => Fits(rec[b], [rec[b] EXCEPT !.cancel = TRUE])
  BY <1>1, Zenon
<1>5. \A r \in Roots : rec[b].state = "held" => Fits(rec[b], Reserved(rec[b], r))
  <2> SUFFICES ASSUME NEW r \in Roots, rec[b].state = "held"
               PROVE  Fits(rec[b], Reserved(rec[b], r))
    BY Zenon
  <2>1. rec[b].attempts + 1 \in Nat
    BY <1>1
  <2>2. ASSUME NEW n \in Nat
        PROVE  Fits(rec[b], [rec[b] EXCEPT !.state = "reserved", !.target = r,
                                           !.charged = TRUE, !.attempts = n])
    BY <1>1, Zenon
  <2> HIDE DEF Fits
  <2> QED
    BY <2>1, <2>2, Zenon DEF Reserved
<1>6. rec[b].state = "reserved" /\ ~rec[b].cancel =>
        Fits(rec[b], [rec[b] EXCEPT !.state = "transferring"])
  BY <1>1, Zenon
<1>7. rec[b].state = "transferring" => Fits(rec[b], [rec[b] EXCEPT !.state = "placed"])
  BY <1>1, Zenon
<1>8. Fits(rec[b], [rec[b] EXCEPT !.charged = FALSE])
  BY <1>1, Zenon
<1>9. rec[b].state # "absent" => Fits(rec[b], Cancelled(rec[b]))
  BY <1>1, Zenon DEF Cancelled
<1>10. rec[b].state = "absent" => Fits(rec[b], [Absent EXCEPT !.state = "held"])
  BY <1>1, Zenon DEF Absent
<1> QED
  BY <1>2, <1>3, <1>4, <1>5, <1>6, <1>7, <1>8, <1>9, <1>10, ZenonT(30) DEF Nowhere

-----------------------------------------------------------------------------
(* Reconcile and kill. *)

\* A reconcile fences the key before it takes the job back, so the job is
\* nowhere when its record says it was returned.
LEMMA ReconcileSteps ==
  ASSUME Inv, ReconcileFences \/ ReconcileRecords \/ ReconcileCancels \/ ReconcileResumes
  PROVE  Inv'
<1> DEFINE b == pass.job
<1>0. Types /\ PassHolds /\ RecordsMakeSense /\ RecordTellsWhere /\ KillHolds /\ StoppedIsSettled
  BY Zenon DEF Inv
<1>1. pass \in LockHolders /\ rec \in [Jobs -> Records]
  BY <1>0, ZenonT(30) DEF Types
<1>2. CASE ReconcileFences
  <2> DEFINE r == rec[b].target
             new == IF tgt[r][b] = "open" THEN "fenced" ELSE tgt[r][b]
             word == IF tgt[r][b] \in Accepted THEN "accepted" ELSE "fenced"
  <2>1. b \in Jobs /\ rec[b].state = "transferring" /\ r \in Roots /\ pass.replay = {}
    BY <1>0, <1>2, SMTT(30) DEF ReconcileFences, PassHolds, RecordsMakeSense
  <2>2. /\ new \in {"open", "fenced"} \cup Accepted
        /\ new \in Accepted => tgt[r][b] = new
        /\ new # "open"
        /\ word = "fenced" => new = "fenced"
    BY <1>0, <2>1, ZenonT(30) DEF Types, Accepted
  <2>3. /\ tgt' = [tgt EXCEPT ![r][b] = new]
        /\ pass' = [pass EXCEPT !.at = "fenced", !.answer = word]
        /\ UNCHANGED <<rec, wire, pub, kill, stopped>>
    BY <1>2, Zenon DEF ReconcileFences
  <2>4. word \in {"accepted", "fenced"}
    BY Zenon
  <2> HIDE DEF new, word
  <2>5. /\ pass' \in LockHolders /\ pass'.at = "fenced" /\ pass'.job = b
        /\ pass'.replay = pass.replay /\ pass'.answer = word
    BY <1>1, <2>3, <2>4, Zenon DEF LockHolders
  <2> HIDE DEF b
  <2>6. /\ tgt' \in [Roots -> [Jobs -> {"open", "fenced"} \cup Accepted]]
        /\ \A q \in Roots, c \in Jobs :
             tgt'[q][c] = IF q = r /\ c = b THEN new ELSE tgt[q][c]
    BY <1>0, <2>1, <2>2, <2>3, Zenon DEF Types
  <2>7. Types'
    BY <1>0, <2>3, <2>5, <2>6, ZenonT(30) DEF Types
  <2>8. RecordTellsWhere'
    BY <1>0, <2>2, <2>3, <2>6, SMTT(30) DEF RecordTellsWhere
  <2>9. PassHolds'
    BY <1>0, <2>1, <2>2, <2>3, <2>5, <2>6, SMTT(30), ZenonT(60) DEF PassHolds
  <2>10. StoppedIsSettled'
    BY <1>0, <2>1, <2>3, <2>6, SMTT(30) DEF StoppedIsSettled, RecordsMakeSense, Types
  <2> QED
    BY <1>0, <2>3, <2>7, <2>8, <2>9, <2>10, SMTT(30) DEF Inv, RecordsMakeSense, KillHolds
<1>3. CASE ReconcileRecords
  <2>1. b \in Jobs /\ rec[b].state = "transferring" /\ pass.at = "fenced"
    BY <1>0, <1>3, Zenon DEF ReconcileRecords, PassHolds
  <2>2. CASE pass.answer = "accepted"
    <3>1. rec' = [rec EXCEPT ![b] = [rec[b] EXCEPT !.state = "placed"]] /\ pass' = IdlePass
      BY <1>3, <2>2, Zenon DEF ReconcileRecords, Put
    <3>2. pass' \in LockHolders /\ PassHolds'
      BY <3>1, LockMoves, Zenon DEF PassHolds, IdlePass
    <3> HIDE DEF b
    <3>3. /\ Fits(rec[b], [rec[b] EXCEPT !.state = "placed"])
          /\ [rec[b] EXCEPT !.state = "placed"].state = "placed"
          /\ [rec[b] EXCEPT !.state = "placed"].target = rec[b].target
      BY <1>1, <2>1, TransitionsFit, Zenon DEF Records
    <3> QED
      BY <1>3, <2>1, <3>1, <3>2, <3>3, OneRecord, Zenon DEF ReconcileRecords
  <2>3. CASE pass.answer = "fenced"
    <3>1. PICK to \in {"resume", "cancel"} :
            rec' = [rec EXCEPT ![b] = Returned(rec[b])] /\ pass' = [pass EXCEPT !.at = to]
      BY <1>3, <2>3, Zenon DEF ReconcileRecords, Put
    <3>2. tgt[rec[b].target][b] = "fenced"
      BY <1>0, <2>1, <2>3, Zenon DEF PassHolds
    <3>3. pass' \in LockHolders /\ pass'.at = to /\ pass'.job = b /\ pass'.replay = pass.replay
      BY <1>1, <3>1, Zenon DEF LockHolders
    <3>4. b \notin pass.replay
      BY <1>0, <2>1, Zenon DEF PassHolds
    <3> HIDE DEF b
    <3>5. Nowhere(b)
      BY <1>0, <2>1, <3>2, Zenon DEF Nowhere, RecordTellsWhere, Accepted
    <3>6. rec'[b].state = "returned" /\ \A c \in Jobs \ {b} : rec'[c] = rec[c]
      BY <1>1, <2>1, <3>1, Zenon DEF Records, Returned
    <3>7. PassHolds'
      BY <1>0, <1>1, <2>1, <3>3, <3>4, <3>6, SMTT(30) DEF PassHolds, LockHolders
    <3>8. Fits(rec[b], Returned(rec[b]))
      BY <2>1, TransitionsFit, Zenon
    <3> QED
      BY <1>3, <2>1, <3>1, <3>3, <3>5, <3>7, <3>8, OneRecord, Zenon DEF ReconcileRecords
  <2> QED
    BY <1>3, <2>2, <2>3, Zenon DEF ReconcileRecords
<1>4. CASE ReconcileCancels
  <2>1. b \in Jobs /\ rec[b].state = "returned" /\ pass.replay = {}
    BY <1>0, <1>4, Zenon DEF ReconcileCancels, PassHolds
  <2>2. rec' = [rec EXCEPT ![b] = [rec[b] EXCEPT !.cancel = TRUE]]
    BY <1>4, Zenon DEF ReconcileCancels, Put
  <2>3. pass' \in LockHolders /\ pass'.at = "resume" /\ pass'.job = b /\ pass'.replay = pass.replay
    BY <1>1, <1>4, Zenon DEF ReconcileCancels, LockHolders
  <2> HIDE DEF b
  <2>4. rec'[b].state = "returned" /\ \A c \in Jobs \ {b} : rec'[c] = rec[c]
    BY <1>1, <2>1, <2>2, Zenon DEF Records
  <2>5. PassHolds'
    BY <2>1, <2>3, <2>4, Zenon DEF PassHolds
  <2>6. Fits(rec[b], [rec[b] EXCEPT !.cancel = TRUE]) /\ Nowhere(b)
    BY <2>1, TransitionsFit, UnsentIsNowhere, Zenon
  <2> QED
    BY <1>4, <2>1, <2>2, <2>3, <2>5, <2>6, OneRecord, Zenon DEF ReconcileCancels
<1>5. CASE ReconcileResumes
  <2>1. b \in Jobs /\ rec[b].state = "returned"
    BY <1>0, <1>5, Zenon DEF ReconcileResumes, PassHolds
  <2>2. rec' = [rec EXCEPT ![b] = Held(rec[b])] /\ pass' = IdlePass
    BY <1>5, Zenon DEF ReconcileResumes, Put
  <2>3. pass' \in LockHolders /\ PassHolds'
    BY <2>2, LockMoves, SMTT(30) DEF PassHolds, IdlePass
  <2>4. Fits(rec[b], Held(rec[b])) /\ Nowhere(b)
    BY <2>1, TransitionsFit, UnsentIsNowhere, Zenon
  <2> HIDE DEF b
  <2> QED
    BY <1>5, <2>1, <2>2, <2>3, <2>4, OneRecord, Zenon DEF ReconcileResumes
<1> QED
  BY <1>2, <1>3, <1>4, <1>5, Zenon

\* A kill cancels on the revision it read, and calls stopped only what was not
\* sent, or what it ended on its target.
LEMMA KillSteps ==
  ASSUME Inv, NEW b \in Killed, KillReads(b) \/ KillCancels(b) \/ KillDecides(b)
  PROVE  Inv'
<1>0. /\ Types /\ PassHolds /\ RecordsMakeSense /\ RecordTellsWhere /\ KillHolds
      /\ StoppedIsSettled /\ b \in Jobs /\ rec[b] \in Records /\ kill \in [Killed -> Kills]
      /\ kill[b] \in Kills
  BY BrokerAssumption, Zenon DEF Inv, Types
<1>1. ASSUME NEW k \in Kills, kill' = [kill EXCEPT ![b] = k],
             k.at # "idle" =>
               /\ k.seen.state # "absent"
               /\ k.at = "decide" => k.seen.cancel
               /\ rec[b].state # "absent"
               /\ k.seen.cancel => rec[b].cancel
               /\ k.seen.state = "placed" =>
                    rec[b].state = "placed" /\ rec[b].target = k.seen.target
               /\ k.seen.cancel /\ k.seen.state \in NotSent =>
                    rec[b].cancel /\ rec[b].state \in {"reserved", "returned", "cancelled"},
             UNCHANGED rec
      PROVE  KillHolds' /\ kill' \in [Killed -> Kills]
  BY <1>0, <1>1, SMTT(30) DEF KillHolds
<1>2. NoKill \in Kills /\ NoKill.at = "idle"
  BY Zenon DEF NoKill, Kills, Absent, Records, NotSent
<1>3. \A at \in {"cancel", "decide"} : \A seen \in Records :
        LET k == [at |-> at, seen |-> seen]
        IN  k \in Kills /\ k.at = at /\ k.seen = seen
  BY Zenon DEF Kills
<1>4. rec[b].cancel /\ rec[b].state \in NotSent =>
        rec[b].state \in {"reserved", "returned", "cancelled"}
  BY <1>0, Zenon DEF RecordsMakeSense, NotSent
<1>5. ASSUME KillHolds', kill' \in [Killed -> Kills],
             UNCHANGED <<rec, tgt, wire, pub, pass, stopped>>
      PROVE  Inv'
  BY <1>0, <1>5, ZenonT(30) DEF Inv, Types, PassHolds, RecordsMakeSense, RecordTellsWhere, StoppedIsSettled
<1>6. CASE KillReads(b)
  <2> DEFINE k == [at |-> "cancel", seen |-> rec[b]]
  <2>1. k \in Kills /\ k.at = "cancel" /\ k.seen = rec[b]
    BY <1>0, <1>3, Zenon
  <2>2. kill' = [kill EXCEPT ![b] = k] /\ rec[b].state # "absent"
        /\ UNCHANGED <<rec, tgt, wire, pub, pass, stopped>>
    BY <1>6, Zenon DEF KillReads
  <2> HIDE DEF k
  <2> QED
    BY <1>1, <1>4, <1>5, <2>1, <2>2, Zenon
<1>7. CASE KillCancels(b)
  <2> DEFINE seen == kill[b].seen
  <2>0. kill[b].at = "cancel" /\ seen \in Records /\ UNCHANGED <<tgt, wire, pub, pass, stopped>>
    BY <1>0, <1>7, SMTT(30) DEF KillCancels, Kills
  <2>1. CASE seen.cancel /\ kill' = [kill EXCEPT ![b].at = "decide"] /\ UNCHANGED rec
    <3> DEFINE k == [kill[b] EXCEPT !.at = "decide"]
    <3>1. k \in Kills /\ k.at = "decide" /\ k.seen = seen
      BY <1>0, Zenon DEF Kills
    <3>2. kill' = [kill EXCEPT ![b] = k]
      BY <2>1, Zenon
    <3> HIDE DEF k
    <3>3. KillHolds' /\ kill' \in [Killed -> Kills]
      BY <1>0, <1>1, <2>0, <2>1, <3>1, <3>2, SMTT(30), ZenonT(90) DEF KillHolds
    <3> QED
      BY <1>5, <2>0, <2>1, <3>3, SMTT(30)
  <2>2. CASE /\ ~seen.cancel /\ UNCHANGED rec
             /\ \/ kill' = [kill EXCEPT ![b].seen = rec[b]]
                \/ kill' = [kill EXCEPT ![b] = NoKill]
    <3> DEFINE k == [kill[b] EXCEPT !.seen = rec[b]]
    <3>1. k \in Kills /\ k.at = "cancel" /\ k.seen = rec[b]
      BY <1>0, <2>0, Zenon DEF Kills
    <3>2. rec[b].state # "absent"
      BY <1>0, <1>7, <2>0, <2>2, SMTT(30) DEF KillHolds, KillCancels
    <3>3. kill' = [kill EXCEPT ![b] = k] \/ kill' = [kill EXCEPT ![b] = NoKill]
      BY <2>2, Zenon
    <3> HIDE DEF k
    <3>4. KillHolds' /\ kill' \in [Killed -> Kills]
      BY <1>1, <1>2, <1>4, <2>2, <3>1, <3>2, <3>3, SMTT(30)
    <3> QED
      BY <1>5, <2>0, <2>2, <3>4, Zenon
  <2>3. CASE /\ ~seen.cancel /\ rec[b] = seen /\ Put(b, Cancelled(rec[b]))
             /\ kill' = [kill EXCEPT ![b] = [at |-> "decide", seen |-> Cancelled(rec[b])]]
    <3>0. rec[b].state # "absent"
      BY <1>0, <2>0, <2>3, Zenon DEF KillHolds
    <3> DEFINE new == Cancelled(rec[b])
    <3>1. /\ Fits(rec[b], new) /\ new.cancel /\ new.target = rec[b].target
          /\ new.state = IF rec[b].state = "held" THEN "cancelled" ELSE rec[b].state
      BY <1>0, <3>0, TransitionsFit, Zenon DEF Cancelled, Records
    <3>2. rec' = [rec EXCEPT ![b] = new]
          /\ kill' = [kill EXCEPT ![b] = [at |-> "decide", seen |-> new]]
      BY <2>3, Zenon DEF Put
    <3> HIDE DEF new
    <3>3. /\ rec' \in [Jobs -> Records] /\ rec'[b] = new
          /\ \A c \in Jobs \ {b} : rec'[c] = rec[c]
      BY <1>0, <3>1, <3>2, Zenon DEF Fits, Types
    <3>4. /\ kill' \in [Killed -> Kills] /\ kill'[b].seen = new
          /\ \A c \in Killed \ {b} : kill'[c] = kill[c]
      BY <1>0, <1>3, <3>1, <3>2, ZenonT(30) DEF Fits
    <3>5. Types'
      BY <1>0, <2>0, <3>3, <3>4, Zenon DEF Types
    <3>6. RecordsMakeSense'
      BY <1>0, <3>1, <3>3, SMTT(30) DEF RecordsMakeSense, Fits
    <3>7. RecordTellsWhere'
      BY <1>0, <2>0, <3>1, <3>3, SMTT(30) DEF RecordTellsWhere
    <3>8. PassHolds'
      <4>1. \A c \in Jobs :
              /\ rec'[c].target = rec[c].target
              /\ rec[c].state # "held" => rec'[c].state = rec[c].state
        BY <1>0, <3>1, <3>3, Zenon
      <4>2. pass.replay \in SUBSET Jobs /\ pass' = pass /\ tgt' = tgt
        BY <1>0, <2>0, Zenon DEF Types, LockHolders
      <4> QED
        BY <1>0, <4>1, <4>2, SMTT(30) DEF PassHolds
    <3>9. KillHolds'
      BY <1>0, <3>0, <3>1, <3>3, <3>4, BrokerAssumption, SMTT(30) DEF KillHolds, NotSent
    <3>10. StoppedIsSettled'
      BY <1>0, <2>0, <3>1, <3>3, SMTT(30) DEF StoppedIsSettled, Types
    <3> QED
      BY <3>5, <3>6, <3>7, <3>8, <3>9, <3>10, Zenon DEF Inv
  <2> QED
    BY <1>7, <2>1, <2>2, <2>3, Zenon DEF KillCancels
<1>8. CASE KillDecides(b)
  <2> DEFINE seen == kill[b].seen
  <2>0. /\ kill' = [kill EXCEPT ![b] = NoKill] /\ UNCHANGED <<rec, wire, pub, pass>>
        /\ kill[b].at = "decide" /\ seen.cancel /\ rec[b].cancel
    BY <1>0, <1>8, ZenonT(30) DEF KillDecides, KillHolds
  <2>1. KillHolds' /\ kill' \in [Killed -> Kills]
    BY <1>1, <1>2, <2>0, Zenon
  <2>2. CASE UNCHANGED <<tgt, stopped>>
    BY <1>5, <2>0, <2>1, <2>2, Zenon
  <2>3. CASE seen.state \in NotSent /\ stopped' = stopped \cup {b} /\ UNCHANGED tgt
    <3>1. rec[b].state \in {"reserved", "returned", "cancelled"}
      BY <1>0, <2>0, <2>3, Zenon DEF KillHolds
    <3> QED
      <4>1. Types'
        BY <1>0, <2>0, <2>1, <2>3, Zenon DEF Types
      <4>2. RecordsMakeSense' /\ RecordTellsWhere'
        BY <1>0, <2>0, <2>3, Zenon DEF RecordsMakeSense, RecordTellsWhere
      <4>3. PassHolds'
        BY <1>0, <2>0, <2>3, SMTT(30) DEF PassHolds
      <4>4. StoppedIsSettled'
        BY <1>0, <2>0, <2>3, <3>1, SMTT(30) DEF StoppedIsSettled
      <4> QED
        BY <2>1, <4>1, <4>2, <4>3, <4>4, Zenon DEF Inv
  <2>4. CASE /\ seen.state = "placed" /\ stopped' = stopped \cup {b}
             /\ tgt' = [tgt EXCEPT ![seen.target][b] = "ended"]
    <3>1. rec[b].state = "placed" /\ rec[b].target = seen.target /\ seen.target \in Roots
      BY <1>0, <2>0, <2>4, Zenon DEF KillHolds, RecordsMakeSense
    <3>2. /\ tgt' \in [Roots -> [Jobs -> {"open", "fenced"} \cup Accepted]]
          /\ \A q \in Roots, c \in Jobs :
               tgt'[q][c] = IF q = seen.target /\ c = b THEN "ended" ELSE tgt[q][c]
      BY <1>0, <2>4, <3>1, ZenonT(30) DEF Types, Accepted
    <3>3. Types'
      BY <1>0, <2>0, <2>1, <2>4, <3>2, ZenonT(30) DEF Types
    <3>4. RecordTellsWhere'
      BY <1>0, <2>0, <3>1, <3>2, SMTT(30) DEF RecordTellsWhere
    <3>5. PassHolds'
      BY <1>0, <2>0, <3>1, <3>2, SMTT(30), ZenonT(60) DEF PassHolds, RecordsMakeSense
    <3>6. StoppedIsSettled'
      <4>1. rec[b].cancel /\ rec' = rec
        BY <1>0, <2>0, <2>4, Zenon DEF KillHolds
      <4>2. rec'[b].cancel /\ rec'[b].state = "placed" /\ tgt'[rec'[b].target][b] = "ended"
        BY <1>0, <2>0, <3>1, <3>2, <4>1, ZenonT(30)
      <4>3. ASSUME NEW c \in stopped, c # b
            PROVE  /\ rec'[c].cancel
                   /\ \/ rec'[c].state \in {"reserved", "returned", "cancelled"}
                      \/ rec'[c].state = "placed" /\ tgt'[rec'[c].target][c] = "ended"
        <5>1. c \in Jobs /\ rec'[c] = rec[c]
          BY <1>0, <4>1, Zenon DEF Types
        <5>2. rec[c].state = "placed" => rec[c].target \in Roots
          BY <1>0, <5>1, Zenon DEF RecordsMakeSense
        <5> QED
          BY <1>0, <3>2, <4>3, <5>1, <5>2 DEF StoppedIsSettled
      <4> QED
        BY <2>4, <4>2, <4>3, Zenon DEF StoppedIsSettled
    <3> QED
      BY <1>0, <2>0, <2>1, <3>3, <3>4, <3>5, <3>6, SMTT(30) DEF Inv, RecordsMakeSense
  <2> QED
    BY <1>8, <2>2, <2>3, <2>4, SMTT(30) DEF KillDecides
<1> QED
  BY <1>6, <1>7, <1>8, Zenon

-----------------------------------------------------------------------------
(* The steps that count jobs or look for the oldest. *)

INSTANCE FiniteSetTheorems
INSTANCE NaturalsInduction

LEMMA CardinalityIsNat ==
  ASSUME NEW S \in SUBSET Jobs
  PROVE  Cardinality(S) \in Nat
<1>1. IsFiniteSet(S)
  BY BrokerAssumption, FS_Subset, Zenon
<1> QED
  BY <1>1, FS_CardinalityType, Zenon

\* A queue that is not empty has an oldest job.
LEMMA LeastOfQueue ==
  ASSUME NEW S \in SUBSET Nat, S # {}
  PROVE  \E b \in S : \A c \in S : b <= c
<1> DEFINE R == OpToRel(<, Nat)
<1>1. IsWellFoundedOn(R, Nat)
  BY NatLessThanWellFounded, Zenon
<1>2. \A x \in Nat, y \in Nat : x < y => <<x, y>> \in R
  BY Zenon DEF OpToRel
<1> HIDE DEF R
<1>3. PICK x \in S : \A y \in S : ~(<<y, x>> \in R)
  BY <1>1, WFMin, Zenon
<1>4. \A y \in S : y \in Nat /\ x \in Nat /\ ~(y < x)
  BY <1>2, <1>3, Zenon
<1>5. \A y \in S : x <= y
  BY <1>4
<1> QED
  BY <1>5, Zenon

\* The steps of the pass that change a record.
LEMMA PassTransitions ==
  ASSUME Inv,
         \/ PassPlaces \/ PassBegins \/ PassRecords
         \/ \E b \in Jobs : PassRecovers(b) \/ PassSettles(b) \/ Accept(b)
  PROVE  Inv'
<1>0. /\ PassHolds /\ pass \in LockHolders /\ rec \in [Jobs -> Records]
      /\ pub \in [Roots -> Figures]
  BY Zenon DEF Inv, Types
<1>1. CASE PassPlaces
  <2>1. Head \in Jobs /\ pass.replay = {}
    <3>1. pass.queue \in SUBSET Jobs /\ pass.queue # {} /\ pass.replay = {}
      BY <1>0, <1>1, Zenon DEF PassPlaces, LockHolders
    <3>2. \E b \in pass.queue : \A c \in pass.queue : b <= c
      BY <3>1, BrokerAssumption, LeastOfQueue, Zenon
    <3> QED
      BY <3>1, <3>2, Zenon DEF Head
  <2>2. ASSUME pass' = [pass EXCEPT !.queue = @ \ {Head}], UNCHANGED rec
        PROVE  Inv'
    <3>1. pass' \in LockHolders /\ pass'.at = pass.at /\ pass'.replay = pass.replay
      BY <1>0, <2>2, Zenon DEF LockHolders
    <3>2. PassHolds'
      BY <1>0, <1>1, <2>2, <3>1, SMTT(30) DEF PassHolds, PassPlaces
    <3> QED
      BY <1>0, <1>1, <2>2, <3>1, <3>2, OnlyThePass, SMTT(30) DEF PassPlaces
  <2>3. ASSUME NEW r \in Roots, rec[Head].state = "held", Put(Head, Reserved(rec[Head], r)),
               pass' = [pass EXCEPT !.at = "begin", !.job = Head]
        PROVE  Inv'
    <3>1. Fits(rec[Head], Reserved(rec[Head], r)) /\ Nowhere(Head)
      BY <2>1, <2>3, TransitionsFit, UnsentIsNowhere, Zenon
    <3>2. pass' \in LockHolders /\ pass'.at = "begin" /\ pass'.job = Head /\ pass'.replay = {}
      BY <1>0, <2>1, <2>3, Zenon DEF LockHolders
    <3>3. rec'[Head].state = "reserved"
      BY <1>0, <2>1, <2>3, Zenon DEF Put, Reserved, Records
    <3>4. PassHolds'
      BY <2>1, <3>2, <3>3, Zenon DEF PassHolds
    <3> QED
      BY <1>1, <2>1, <2>3, <3>1, <3>2, <3>4, OneRecord, Zenon DEF PassPlaces, Put
  <2> QED
    BY <1>1, <2>2, <2>3, Leaves, SMTT(30) DEF PassPlaces
<1>2. CASE PassBegins
  <2>1. CASE rec[pass.job].cancel
    BY <1>2, <2>1, Leaves, Zenon DEF PassBegins
  <2>2. CASE ~rec[pass.job].cancel
    <3> DEFINE b == pass.job
    <3>1. b \in Jobs /\ rec[b].state = "reserved"
      BY <1>0, <1>2, Zenon DEF PassBegins, PassHolds
    <3> HIDE DEF b
    <3>2. rec' = [rec EXCEPT ![b] = [rec[b] EXCEPT !.state = "transferring"]]
      BY <1>2, <2>2, Zenon DEF PassBegins, Put, b
    <3>3. pass' \in LockHolders /\ pass'.at = "check" /\ pass'.job = b /\ pass'.replay = pass.replay
      BY <1>0, <1>2, <2>2, ZenonT(30) DEF PassBegins, LockHolders, b
    <3>4. /\ rec'[b].state = "transferring"
          /\ \A c \in Jobs \ {b} : rec'[c] = rec[c]
      BY <1>0, <3>1, <3>2, Zenon DEF Records
    <3>5. PassHolds'
      BY <1>0, <3>1, <3>3, <3>4 DEF PassHolds, LockHolders
    <3>6. Fits(rec[b], [rec[b] EXCEPT !.state = "transferring"]) /\ Nowhere(b)
      BY <2>2, <3>1, TransitionsFit, UnsentIsNowhere, Zenon DEF b
    <3> QED
      BY <1>2, <3>1, <3>2, <3>3, <3>5, <3>6, OneRecord, Zenon DEF PassBegins
  <2> QED
    BY <2>1, <2>2, Zenon
<1>3. CASE PassRecords
  <2> DEFINE b == pass.job
  <2>1. b \in Jobs /\ rec[b].state = "transferring"
    BY <1>0, <1>3, Zenon DEF PassRecords, PassHolds
  <2>2. /\ pass' \in LockHolders /\ pass'.at = "work"
        /\ pass'.replay \subseteq pass.replay \ {b}
    BY <1>3, LockMoves, Zenon DEF PassRecords
  <2> HIDE DEF b
  <2>3. rec' = [rec EXCEPT ![b] = [rec[b] EXCEPT !.state = "placed"]]
    BY <1>3, Zenon DEF PassRecords, Put, b
  <2>4. \A c \in Jobs \ {b} : rec'[c] = rec[c]
    BY <1>0, <2>1, <2>3, Zenon
  <2>5. PassHolds'
    BY <1>0, <2>2, <2>4, ZenonT(30) DEF PassHolds, LockHolders
  <2>6. Fits(rec[b], [rec[b] EXCEPT !.state = "placed"])
    BY <2>1, TransitionsFit, Zenon
  <2>7. /\ [rec[b] EXCEPT !.state = "placed"].state = "placed"
        /\ [rec[b] EXCEPT !.state = "placed"].target = rec[b].target
    BY <1>0, <2>1, Zenon DEF Records
  <2> QED
    BY <1>3, <2>1, <2>2, <2>3, <2>5, <2>6, <2>7, OneRecord, ZenonT(30) DEF PassRecords
<1>4. ASSUME NEW b \in Jobs, PassRecovers(b)
      PROVE  Inv'
  <2>1. CASE rec[b].state = "reserved"
    <3>1. rec' = [rec EXCEPT ![b] = Returned(rec[b])] /\ pass' = pass /\ pass.at = "recover"
      BY <1>4, <2>1, Zenon DEF PassRecovers, Put
    <3>2. PassHolds'
      BY <1>0, <2>1, <3>1, Zenon DEF PassHolds, LockHolders
    <3>3. Fits(rec[b], Returned(rec[b])) /\ Nowhere(b)
      BY <2>1, TransitionsFit, UnsentIsNowhere, Zenon
    <3> QED
      BY <1>0, <1>4, <3>1, <3>2, <3>3, OneRecord, Zenon DEF PassRecovers
  <2>2. CASE rec[b].state = "returned"
    <3>1. /\ rec' = [rec EXCEPT ![b] = Held(rec[b])]
          /\ pass' = [pass EXCEPT !.recover = @ \ {b}] /\ pass.at = "recover"
      BY <1>4, <2>2, Zenon DEF PassRecovers, Put
    <3>2. pass' \in LockHolders /\ pass'.at = pass.at /\ pass'.replay = pass.replay
      BY <1>0, <3>1, Zenon DEF LockHolders
    <3>3. PassHolds'
      BY <1>0, <2>2, <3>1, <3>2, SMTT(30) DEF PassHolds, LockHolders
    <3>4. Fits(rec[b], Held(rec[b])) /\ Nowhere(b)
      BY <2>2, TransitionsFit, UnsentIsNowhere, Zenon
    <3> QED
      BY <1>4, <3>1, <3>2, <3>3, <3>4, OneRecord, Zenon DEF PassRecovers
  <2> QED
    BY <1>4, <2>1, <2>2, Zenon DEF PassRecovers
<1>5. ASSUME NEW b \in Jobs, PassSettles(b)
      PROVE  Inv'
  <2> DEFINE new == [rec[b] EXCEPT !.charged = FALSE]
  <2>1. rec' = [rec EXCEPT ![b] = new] /\ pass' = [pass EXCEPT !.settle = @ \ {b}]
    BY <1>5, Zenon DEF PassSettles, Put
  <2>2. pass' \in LockHolders /\ pass'.at = "work" /\ pass'.replay = pass.replay
    BY <1>0, <1>5, <2>1, ZenonT(30) DEF PassSettles, LockHolders
  <2>3. new.state = rec[b].state /\ new.target = rec[b].target
    BY <1>0, Zenon DEF Records
  <2>4. Fits(rec[b], new)
    BY TransitionsFit, Zenon
  <2> HIDE DEF new
  <2>5. PassHolds'
    BY <1>0, <2>1, <2>2, <2>3 DEF PassHolds, LockHolders
  <2>6. rec[b].state \notin {"transferring", "placed"} => Nowhere(b)
    BY UnsentIsNowhere, Zenon
  <2> QED
    BY <1>5, <2>1, <2>2, <2>3, <2>4, <2>5, <2>6, OneRecord, ZenonT(30) DEF PassSettles
<1>6. ASSUME NEW b \in Jobs, Accept(b)
      PROVE  Inv'
  <2> DEFINE new == [Absent EXCEPT !.state = "held"]
  <2>1. rec' = [rec EXCEPT ![b] = new] /\ pass' = pass /\ rec[b].state = "absent"
    BY <1>6, Zenon DEF Accept, Put
  <2>2. Fits(rec[b], new) /\ Nowhere(b)
    BY <2>1, TransitionsFit, UnsentIsNowhere, Zenon
  <2> HIDE DEF new
  <2>3. PassHolds'
    BY <1>0, <1>6, <2>1, SMTT(30) DEF PassHolds, LockHolders, Accept
  <2> QED
    BY <1>0, <1>6, <2>1, <2>2, <2>3, OneRecord, Zenon DEF Accept
<1> QED
  BY <1>1, <1>2, <1>3, <1>4, <1>5, <1>6, Zenon

\* A copy of the request leaves, is handled, or the job moves at its target:
\* nothing appears where the record does not say.
LEMMA TargetSteps ==
  ASSUME Inv,
         \/ PassSends
         \/ \E b \in Jobs, r \in Roots :
              TargetHandles(r, b) \/ TargetStarts(r, b) \/ TargetEnds(r, b)
         \/ \E r \in Roots : TargetPublishes(r)
  PROVE  Inv'
<1>0. Types /\ PassHolds /\ RecordsMakeSense /\ RecordTellsWhere /\ KillHolds /\ StoppedIsSettled
  BY Zenon DEF Inv
<1>1. CASE PassSends
  <2> DEFINE b == pass.job
  <2>1. b \in Jobs /\ rec[b].state = "transferring" /\ rec[b].target \in Roots
    BY <1>0, <1>1, Zenon DEF PassSends, PassHolds, RecordsMakeSense
  <2>2. pass' \in LockHolders /\ pass'.at = "await" /\ pass'.job = b /\ pass'.replay = pass.replay
    BY <1>0, <1>1, Zenon DEF PassSends, Types, LockHolders
  <2> HIDE DEF b
  <2>3. wire' = wire \cup {<<rec[b].target, b>>} /\ UNCHANGED <<rec, tgt, pub, kill, stopped>>
    BY <1>1, Zenon DEF PassSends, b
  <2>4. Types'
    BY <1>0, <2>1, <2>2, <2>3 DEF Types
  <2>5. PassHolds'
    BY <1>0, <2>1, <2>2, <2>3, SMTT(30) DEF PassHolds
  <2>6. RecordTellsWhere'
    BY <1>0, <2>1, <2>3, ZenonT(30) DEF RecordTellsWhere
  <2> QED
    BY <1>0, <2>3, <2>4, <2>5, <2>6, ZenonT(30) DEF Inv, RecordsMakeSense, KillHolds, StoppedIsSettled
<1>2. ASSUME NEW b \in Jobs, NEW r \in Roots, TargetHandles(r, b)
      PROVE  Inv'
  <2> DEFINE new == IF tgt[r][b] = "open" THEN "pending" ELSE tgt[r][b]
  <2>1. new \in {"open", "fenced"} \cup Accepted
    BY <1>0, ZenonT(30) DEF Types, Accepted
  <2>2. /\ tgt' = [tgt EXCEPT ![r][b] = new] /\ wire' = wire \ {<<r, b>>}
        /\ UNCHANGED <<rec, pub, kill, stopped>>
    BY <1>2, Zenon DEF TargetHandles
  <2>3. pass' \in LockHolders /\ pass'.at = pass.at /\ pass'.job = pass.job
        /\ pass'.replay = pass.replay /\ (pass.at # "await" => pass' = pass)
    BY <1>0, <1>2, ZenonT(30) DEF TargetHandles, Types, LockHolders
  <2>4. tgt' \in [Roots -> [Jobs -> {"open", "fenced"} \cup Accepted]]
    BY <1>0, <2>1, <2>2, Zenon DEF Types
  <2>5. \A q \in Roots, c \in Jobs :
          tgt'[q][c] = IF q = r /\ c = b THEN new ELSE tgt[q][c]
    BY <1>0, <2>2, Zenon DEF Types
  <2>6. Types'
    BY <1>0, <2>2, <2>3, <2>4, ZenonT(30) DEF Types
  <2>7. RecordTellsWhere'
    BY <1>0, <1>2, <2>2, <2>5, SMTT(30) DEF RecordTellsWhere, TargetHandles, Accepted
  <2>8. PassHolds'
    BY <1>0, <2>2, <2>3, <2>5, SMTT(30) DEF PassHolds, RecordsMakeSense
  <2>9. StoppedIsSettled'
    BY <1>0, <2>2, <2>5, SMTT(30) DEF StoppedIsSettled, RecordsMakeSense, Types
  <2> QED
    BY <1>0, <2>2, <2>6, <2>7, <2>8, <2>9, SMTT(30) DEF Inv, RecordsMakeSense, KillHolds
<1>3. ASSUME NEW b \in Jobs, NEW r \in Roots, TargetStarts(r, b) \/ TargetEnds(r, b)
      PROVE  Inv'
  <2>1. PICK new \in {"active", "ended"} :
          /\ tgt' = [tgt EXCEPT ![r][b] = new] /\ tgt[r][b] \in {"pending", "active"}
          /\ UNCHANGED <<rec, wire, pub, pass, kill, stopped>>
    BY <1>3, Zenon DEF TargetStarts, TargetEnds
  <2>2. /\ tgt' \in [Roots -> [Jobs -> {"open", "fenced"} \cup Accepted]]
        /\ \A q \in Roots, c \in Jobs :
             tgt'[q][c] = IF q = r /\ c = b THEN new ELSE tgt[q][c]
    BY <1>0, <2>1, Zenon DEF Types, Accepted
  <2>3. Types'
    BY <1>0, <2>1, <2>2, Zenon DEF Types
  <2>4. RecordTellsWhere'
    BY <1>0, <2>1, <2>2 DEF RecordTellsWhere, Accepted
  <2>5. PassHolds'
    BY <1>0, <2>1, <2>2, ZenonT(30) DEF PassHolds, RecordsMakeSense
  <2>6. StoppedIsSettled'
    BY <1>0, <2>1, <2>2 DEF StoppedIsSettled, RecordsMakeSense, Types
  <2> QED
    BY <1>0, <2>1, <2>3, <2>4, <2>5, <2>6, SMTT(30) DEF Inv, RecordsMakeSense, KillHolds
<1>4. ASSUME NEW r \in Roots, TargetPublishes(r)
      PROVE  Inv'
  <2>1. Cardinality(Active(r)) \in Nat
    BY CardinalityIsNat, Zenon DEF Active
  <2>2. pub' \in [Roots -> Figures]
    <3> DEFINE figures == [used |-> Cardinality(Active(r)), ready |-> Live(r) = Active(r),
                           counts |-> {b \in Jobs : /\ rec[b].state = "placed"
                                                    /\ rec[b].target = r}]
    <3>1. figures \in Figures
      BY <2>1, Zenon DEF Figures
    <3>2. pub' = [pub EXCEPT ![r] = figures]
      BY <1>4, Zenon DEF TargetPublishes
    <3> QED
      BY <1>0, <3>1, <3>2, Zenon DEF Types
  <2> QED
    BY <1>0, <1>4, <2>2, OnlyThePass, ZenonT(30) DEF TargetPublishes, Types, PassHolds
<1> QED
  BY <1>1, <1>2, <1>3, <1>4, Zenon

-----------------------------------------------------------------------------
(* The theorems. *)

\* Inv holds of a broker that has no job yet.
LEMMA InvStarts == Init => Inv
<1> SUFFICES ASSUME Init PROVE Inv
  BY Zenon
<1>1. [r \in Roots |-> NoFigures] \in [Roots -> Figures]
  BY Zenon DEF NoFigures, Figures
<1>2. IdlePass \in LockHolders /\ IdlePass.at = "idle" /\ IdlePass.replay = {}
  BY <1>1, Zenon DEF IdlePass, LockHolders
<1>3. Absent \in Records /\ NoKill \in Kills /\ NoKill.at = "idle"
  BY Zenon DEF Absent, Records, NoKill, Kills, NotSent
<1>4. Types
  BY <1>1, <1>2, <1>3, Zenon DEF Init, Types
<1>5. \A b \in Jobs : rec[b].state = "absent" /\ ~rec[b].cancel
  BY Zenon DEF Init, Absent
<1>6. RecordTellsWhere
  BY Zenon DEF Init, RecordTellsWhere, Accepted
<1>7. KillHolds
  BY <1>3, Zenon DEF Init, KillHolds
<1>8. RecordsMakeSense
  BY <1>5, Zenon DEF RecordsMakeSense
<1>9. PassHolds
  BY <1>2, Zenon DEF PassHolds, Init
<1>10. StoppedIsSettled
  BY Zenon DEF StoppedIsSettled, Init
<1> QED
  BY <1>4, <1>6, <1>7, <1>8, <1>9, <1>10, Zenon DEF Inv

\* Every step of the pass, the reconcile, the targets and the kills keeps Inv.
LEMMA InvStays == Inv /\ [Next]_vars => Inv'
<1> SUFFICES ASSUME Inv, [Next]_vars PROVE Inv'
  BY Zenon
<1>1. CASE Next
  BY <1>1, PassChooses, PassLeaves, PassTransitions, TargetSteps, ReconcileSteps, KillSteps, SMTT(30)
     DEF Next, PassStep, ReconcileStep
<1>2. CASE UNCHANGED vars
  BY <1>2, SMTT(30), ZenonT(60) DEF vars, Inv, Types, RecordsMakeSense, RecordTellsWhere, PassHolds, KillHolds,
              StoppedIsSettled
<1> QED
  BY <1>1, <1>2, Zenon

\* Whatever crashes, lost answers, late copies, replays, reconciles and kills
\* there are, a target has a job, or can still get it, only while the broker's
\* record is in transfer to that target or placed there.
THEOREM RecordsAreTrue == Spec => []RecordTellsWhere
<1>1. Inv => RecordTellsWhere
  BY Zenon DEF Inv
<1> QED
  BY InvStarts, InvStays, <1>1, PTL DEF Spec

\* A job that vq kill called stopped runs nowhere, and nothing on the wire can
\* make it run.
THEOREM KilledIsStopped == Spec => []StoppedStaysStopped
<1>1. Inv => StoppedStaysStopped
  <2> SUFFICES ASSUME Inv, NEW b \in stopped, NEW r \in Roots
               PROVE  /\ tgt[r][b] \notin {"pending", "active"}
                      /\ ~(tgt[r][b] = "open" /\ <<r, b>> \in wire)
    BY Zenon DEF StoppedStaysStopped
  <2>1. b \in Jobs
    BY Zenon DEF Inv, Types
  <2> QED
    BY <2>1, Zenon DEF Inv, StoppedIsSettled, RecordTellsWhere, Accepted
<1> QED
  BY InvStarts, InvStays, <1>1, PTL DEF Spec

-----------------------------------------------------------------------------
(* Room.  What a target runs or will run, and what the broker has charged to *)
(* it, fit its slots together.                                               *)

Charged(r) == {b \in Jobs : rec[b].charged /\ rec[b].target = r}
Promised(r) == Live(r) \cup Charged(r)

\* The pass works on figures it read when it started.
Weighed == pass.at \in {"recover", "work", "begin", "check", "send", "await"}

\* A job in transfer is charged, and a placed one was accepted.
Booked(b) ==
    /\ rec[b].state \in {"reserved", "transferring"} => rec[b].charged
    /\ rec[b].state = "placed" => tgt[rec[b].target][b] \in Accepted

\* Figures of target r, however old: they count placed jobs only, and if no job
\* was pending they use a slot for every counted job that has not ended.
Backed(f, r) ==
    /\ \A b \in f.counts : rec[b].state = "placed" /\ rec[b].target = r
    /\ f.ready => Cardinality(Live(r) \cap f.counts) <= f.used

\* They count every job whose charge was settled.
Covers(f, r) ==
    \A b \in Jobs : rec[b].state = "placed" /\ rec[b].target = r /\ ~rec[b].charged => b \in f.counts

\* What the pass was told, and which charges it may settle.
Told ==
    /\ pass.answer = "accepted" =>
         pass.at \in {"await", "fenced"} /\ tgt[rec[pass.job].target][pass.job] \in Accepted
    /\ pass.settle # {} => pass.at = "work"
    /\ \A b \in pass.settle : rec[b].state = "placed" /\ b \in pass.snap[rec[b].target].counts

\* The inductive invariant behind NoOverCommit, beside Inv.
Room ==
    /\ \A b \in Jobs : Booked(b)
    /\ \A r \in Roots : Backed(pub[r], r) /\ Covers(pub[r], r)
    /\ Weighed => \A r \in Roots : /\ Backed(pass.snap[r], r) /\ Covers(pass.snap[r], r)
                                   /\ pass.snap[r].counts \subseteq pub[r].counts
    /\ Told
    /\ \A r \in Roots : Cardinality(Promised(r)) <= Slots

-----------------------------------------------------------------------------
(* What a step has to show to keep Room. *)

\* Sets of jobs are finite, and a smaller one has no more members.
LEMMA FewerJobs ==
  ASSUME NEW T \in SUBSET Jobs, NEW S \in SUBSET T
  PROVE  Cardinality(S) \in Nat /\ Cardinality(T) \in Nat /\ Cardinality(S) <= Cardinality(T)
<1>1. IsFiniteSet(T) /\ Cardinality(S) \in Nat /\ Cardinality(T) \in Nat
  BY BrokerAssumption, FS_Subset, CardinalityIsNat, Zenon DEF BrokerAssumption
<1> QED
  BY <1>1, FS_Subset, Zenon

\* No job comes back to life: what has ended stays so.
NoneRevived == \A r \in Roots, b \in Jobs :
    tgt[r][b] \in Accepted /\ tgt'[r][b] \in {"pending", "active"} => tgt[r][b] \in {"pending", "active"}

\* A placed job stays placed where it is.
PlacedStay == \A b \in Jobs : rec[b].state = "placed" =>
    rec'[b].state = "placed" /\ rec'[b].target = rec[b].target

\* Old figures stay backed while that is so.
LEMMA BackedStays ==
  ASSUME Inv, Room, NoneRevived, PlacedStay, NEW r \in Roots, NEW f \in Figures, Backed(f, r)
  PROVE  Backed(f, r)'
<1>1. \A b \in f.counts : b \in Jobs /\ rec[b].state = "placed" /\ rec[b].target = r
  BY Zenon DEF Backed, Figures
<1>2. Live(r)' \cap f.counts \subseteq Live(r) \cap f.counts
  BY <1>1, Zenon DEF Live, NoneRevived, Room, Booked
<1>3. Cardinality(Live(r)' \cap f.counts) <= Cardinality(Live(r) \cap f.counts)
      /\ Cardinality(Live(r)' \cap f.counts) \in Nat /\ Cardinality(Live(r) \cap f.counts) \in Nat
  <2>1. Live(r) \cap f.counts \in SUBSET Jobs
    BY Zenon DEF Live
  <2> QED
    BY <1>2, <2>1, FewerJobs, Zenon
<1>4. f.ready => Cardinality(Live(r)' \cap f.counts) <= f.used
  BY <1>3 DEF Backed, Figures
<1>5. \A b \in f.counts : rec'[b].state = "placed" /\ rec'[b].target = r
  BY <1>1 DEF PlacedStay
<1> QED
  BY <1>4, <1>5, Zenon DEF Backed

\* A charge is dropped only where the figures count the job.
ChargesStay == \A b \in Jobs : rec'[b].state = "placed" /\ ~rec'[b].charged =>
    /\ rec[b].state = "placed" /\ rec[b].target = rec'[b].target
    /\ ~rec[b].charged \/ b \in pass.settle

\* No more is promised.
NothingPromised == \A r \in Roots : Promised(r)' \subseteq Promised(r)

\* The figures stay, or the pass is over.
FiguresStay == pub' = pub /\ (Weighed' => Weighed /\ pass'.snap = pass.snap)

\* A step that settles only what may be, and promises no more than fits.
LEMMA RoomKept ==
  ASSUME Inv, Room, NoneRevived, PlacedStay, ChargesStay, FiguresStay,
         \A b \in Jobs : Booked(b)', Told', \A r \in Roots : Cardinality(Promised(r)') <= Slots
  PROVE  Room'
<1>a. /\ pub \in [Roots -> Figures] /\ pass \in LockHolders /\ rec \in [Jobs -> Records]
  BY Zenon DEF Inv, Types
<1>b. /\ pass.snap \in [Roots -> Figures] /\ pass.settle \subseteq Jobs
  BY <1>a, Zenon DEF LockHolders
<1>1. ASSUME NEW r \in Roots PROVE (Backed(pub[r], r) /\ Covers(pub[r], r))'
  <2>1. \E f \in Figures : f = pub[r] /\ Backed(f, r)
    BY <1>a, Zenon DEF Room
  <2>2. PICK f \in Figures : f = pub[r] /\ Backed(f, r)
    BY <2>1, Zenon
  <2>3. Backed(f, r)' /\ pub'[r] = f
    BY <2>2, BackedStays, Zenon DEF FiguresStay
  <2>4. ASSUME NEW b \in Jobs, rec'[b].state = "placed", rec'[b].target = r, ~rec'[b].charged
        PROVE  b \in pub[r].counts
    <3>1. rec[b].state = "placed" /\ rec[b].target = r /\ (~rec[b].charged \/ b \in pass.settle)
      BY <2>4, Zenon DEF ChargesStay
    <3>2. CASE ~rec[b].charged
      BY <3>1, <3>2, Zenon DEF Room, Covers
    <3>3. CASE b \in pass.settle
      BY <3>1, <3>3, Zenon DEF Room, Told, Weighed
    <3> QED
      BY <3>1, <3>2, <3>3, Zenon
  <2>5. Covers(pub[r], r)'
    BY <2>4, Zenon DEF Covers, FiguresStay
  <2> QED
    BY <2>3, <2>5, Zenon DEF Backed
<1>2. ASSUME NEW r \in Roots, Weighed'
      PROVE  (/\ Backed(pass.snap[r], r) /\ Covers(pass.snap[r], r)
              /\ pass.snap[r].counts \subseteq pub[r].counts)'
  <2>1. Weighed /\ pass'.snap = pass.snap /\ pub' = pub
    BY <1>2, Zenon DEF FiguresStay
  <2>2. PICK f \in Figures : f = pass.snap[r] /\ Backed(f, r)
    BY <1>b, <2>1, Zenon DEF Room
  <2>3. Backed(f, r)' /\ pass'.snap[r] = f
    BY <2>1, <2>2, BackedStays, Zenon
  <2>4. ASSUME NEW b \in Jobs, rec'[b].state = "placed", rec'[b].target = r, ~rec'[b].charged
        PROVE  b \in pass.snap[r].counts
    <3>1. rec[b].state = "placed" /\ rec[b].target = r /\ (~rec[b].charged \/ b \in pass.settle)
      BY <2>4, Zenon DEF ChargesStay
    <3> QED
      BY <2>1, <3>1, Zenon DEF Room, Covers, Told
  <2>5. Covers(pass.snap[r], r)'
    BY <2>1, <2>4, Zenon DEF Covers
  <2>6. pass'.snap[r].counts \subseteq pub'[r].counts
    BY <2>1, Zenon DEF Room
  <2> QED
    BY <2>3, <2>5, <2>6, Zenon DEF Backed
<1> QED
  BY <1>1, <1>2, Zenon DEF Room

\* A step that promises nothing.
LEMMA RoomStays ==
  ASSUME Inv, Room, NoneRevived, PlacedStay, ChargesStay, NothingPromised, FiguresStay,
         \A b \in Jobs : Booked(b)', Told'
  PROVE  Room'
<1>1. ASSUME NEW r \in Roots PROVE Cardinality(Promised(r)') <= Slots
  <2>1. Promised(r) \in SUBSET Jobs /\ Promised(r)' \subseteq Promised(r)
    BY Zenon DEF Promised, Live, Charged, NothingPromised
  <2>2. /\ Cardinality(Promised(r)') \in Nat /\ Cardinality(Promised(r)) \in Nat
        /\ Cardinality(Promised(r)') <= Cardinality(Promised(r))
    BY <2>1, FewerJobs, Zenon
  <2>3. Cardinality(Promised(r)) <= Slots /\ Slots \in Nat
    BY BrokerAssumption, Zenon DEF Room, BrokerAssumption
  <2> QED
    BY <2>2, <2>3
<1> QED
  BY <1>1, RoomKept, Zenon

\* A step that changes neither the records nor what is at the targets.
LEMMA RoomIdle ==
  ASSUME Inv, Room, rec' = rec, tgt' = tgt, FiguresStay, Told'
  PROVE  Room'
<1>1. NoneRevived /\ PlacedStay /\ ChargesStay
  BY Zenon DEF NoneRevived, PlacedStay, ChargesStay
<1>2. NothingPromised
  BY Zenon DEF NothingPromised, Promised, Live, Charged
<1>3. \A b \in Jobs : Booked(b)'
  BY Zenon DEF Room, Booked
<1> QED
  BY <1>1, <1>2, <1>3, RoomStays, Zenon

\* A transition of one record that charges no target for it.
LEMMA RoomRecord ==
  ASSUME Inv, Room, NEW b \in Jobs, NEW new, Fits(rec[b], new),
         rec' = [rec EXCEPT ![b] = new], tgt' = tgt, FiguresStay, Told',
         new.charged => rec[b].charged /\ new.target = rec[b].target,
         new.state \in {"reserved", "transferring"} => new.charged,
         new.state = "placed" => /\ rec[b].state = "placed" \/ new.charged
                                 /\ tgt[new.target][b] \in Accepted
                                 /\ ~new.charged => ~rec[b].charged \/ b \in pass.settle
  PROVE  Room'
<1>1. rec \in [Jobs -> Records] /\ rec'[b] = new /\ \A c \in Jobs \ {b} : rec'[c] = rec[c]
  BY Zenon DEF Inv, Types
<1>2. NoneRevived
  BY Zenon DEF NoneRevived
<1>3. PlacedStay
  BY <1>1, Zenon DEF PlacedStay, Fits
<1>4. ChargesStay
  BY <1>1, Zenon DEF ChargesStay, Fits
<1>5. NothingPromised
  <2> SUFFICES ASSUME NEW r \in Roots, NEW c \in Jobs, rec'[c].charged, rec'[c].target = r
               PROVE  rec[c].charged /\ rec[c].target = r
    BY Zenon DEF NothingPromised, Promised, Live, Charged
  <2> QED
    BY <1>1, Zenon
<1>6. \A c \in Jobs : Booked(c)'
  <2> SUFFICES ASSUME NEW c \in Jobs PROVE Booked(c)'
    BY Zenon
  <2>1. CASE c = b
    BY <1>1, <2>1, Zenon DEF Booked
  <2>2. CASE c # b
    BY <1>1, <2>2, Zenon DEF Room, Booked
  <2> QED
    BY <2>1, <2>2, Zenon
<1> QED
  BY <1>2, <1>3, <1>4, <1>5, <1>6, RoomStays, ZenonT(30)

\* What a target accepted stays accepted.
AcceptedStay == \A r \in Roots, b \in Jobs : tgt[r][b] \in Accepted => tgt'[r][b] \in Accepted

\* A move of the holder of the lock that settles nothing new, was told nothing
\* new and reads no new figures.
PassMoves ==
    /\ pass'.settle \subseteq pass.settle
    /\ pass'.settle # {} => pass'.at = "work"
    /\ pass'.answer = "accepted" =>
         /\ pass.answer = "accepted"
         /\ pass.at \in {"await", "fenced"} => pass'.at = pass.at /\ pass'.job = pass.job
    /\ Weighed' => Weighed /\ pass'.snap = pass.snap

\* The records of jobs in transfer keep their target.
TargetsStay == \A b \in Jobs : rec[b].state = "transferring" => rec'[b].target = rec[b].target

\* Then what the pass was told stays true.
LEMMA ToldStays ==
  ASSUME Inv, Room, PlacedStay, AcceptedStay, TargetsStay, PassMoves
  PROVE  Told'
<1>a. pass \in LockHolders /\ pass.settle \subseteq Jobs /\ Told
  BY Zenon DEF Inv, Types, LockHolders, Room
<1>1. ASSUME pass'.answer = "accepted"
      PROVE  pass'.at \in {"await", "fenced"} /\ tgt'[rec'[pass'.job].target][pass'.job] \in Accepted
  <2>1. /\ pass.at \in {"await", "fenced"} /\ pass'.at = pass.at /\ pass'.job = pass.job
        /\ tgt[rec[pass.job].target][pass.job] \in Accepted
    BY <1>1, <1>a, Zenon DEF PassMoves, Told
  <2>2. pass.job \in Jobs /\ rec[pass.job].state = "transferring" /\ rec[pass.job].target \in Roots
    BY <2>1, Zenon DEF Inv, PassHolds, RecordsMakeSense
  <2>3. rec'[pass.job].target = rec[pass.job].target
    BY <2>2, Zenon DEF TargetsStay
  <2> QED
    BY <2>1, <2>2, <2>3, Zenon DEF AcceptedStay
<1>2. ASSUME NEW b \in pass'.settle
      PROVE  rec'[b].state = "placed" /\ b \in pass'.snap[rec'[b].target].counts
  <2>1. b \in pass.settle /\ b \in Jobs /\ pass'.snap = pass.snap
    BY <1>a, Zenon DEF PassMoves, Weighed
  <2>2. rec[b].state = "placed" /\ b \in pass.snap[rec[b].target].counts
    BY <1>a, <2>1, Zenon DEF Told
  <2> QED
    BY <2>1, <2>2, Zenon DEF PlacedStay
<1> QED
  BY <1>1, <1>2, Zenon DEF Told, PassMoves

\* A step that only moves the pass.
LEMMA RoomPass ==
  ASSUME Inv, Room, rec' = rec, tgt' = tgt, pub' = pub, PassMoves
  PROVE  Room'
<1>1. PlacedStay /\ AcceptedStay /\ TargetsStay
  BY Zenon DEF PlacedStay, AcceptedStay, TargetsStay
<1>2. FiguresStay
  BY Zenon DEF FiguresStay, PassMoves
<1> QED
  BY <1>1, <1>2, ToldStays, RoomIdle, Zenon

\* The moves of the pass.
LEMMA MovesOfPass ==
  ASSUME Inv, Room
  PROVE  /\ pass' = pass => PassMoves
         /\ pass' = IdlePass => PassMoves
         /\ pass.at \in {"begin", "check", "await"} /\ pass' = NextJob(pass) => PassMoves
<1>a. pass \in LockHolders /\ (pass.settle # {} => pass.at = "work")
  BY Zenon DEF Inv, Types, Room, Told
<1>1. ASSUME pass' = pass PROVE PassMoves
  BY <1>1, <1>a, Zenon DEF PassMoves, Weighed
<1>2. ASSUME pass' = IdlePass PROVE PassMoves
  <2>1. pass'.settle = {} /\ pass'.answer = "none" /\ pass'.at = "idle"
    BY <1>2, Zenon DEF IdlePass
  <2> QED
    BY <2>1, Zenon DEF PassMoves, Weighed
<1>3. ASSUME pass.at \in {"begin", "check", "await"}, pass' = NextJob(pass) PROVE PassMoves
  <2>1. /\ pass'.settle = pass.settle /\ pass'.answer = "none" /\ pass'.at = "work"
        /\ pass'.snap = pass.snap
    BY <1>3, <1>a, Zenon DEF NextJob, LockHolders
  <2> QED
    BY <1>3, <2>1, Zenon DEF PassMoves, Weighed
<1> QED
  BY <1>1, <1>2, <1>3, Zenon

\* The steps of the pass and of a reconcile that change no record.
LEMMA RoomChooses ==
  ASSUME Inv, Room,
         \/ PassChecks \/ PassSends \/ PassEnds \/ PassIsRefused \/ PassLosesAnswer \/ PassDies
         \/ ReconcileConflicts
         \/ \E b \in Jobs : PassReplays(b) \/ PassSkips(b) \/ ReconcileStarts(b)
  PROVE  Room'
<1>a. /\ pass \in LockHolders /\ (pass.settle # {} => pass.at = "work")
      /\ (pass.answer = "accepted" => pass.at \in {"await", "fenced"})
  BY Zenon DEF Inv, Types, Room, Told
<1>b. UNCHANGED <<rec, tgt, pub>>
  BY Zenon DEF PassChecks, PassSends, PassEnds, PassIsRefused, PassLosesAnswer, PassDies,
         ReconcileConflicts, PassReplays, PassSkips, ReconcileStarts
<1>1. ASSUME NEW at \in {"check", "send", "await"}, pass.at \in {"work", "check", "send"},
             pass.settle = {}, pass' = [pass EXCEPT !.at = at] \/ \E b \in Jobs : pass' = [pass EXCEPT !.at = at, !.job = b]
      PROVE  PassMoves
  <2>1. pass'.settle = {} /\ pass'.answer = pass.answer /\ pass'.at = at /\ pass'.snap = pass.snap
    BY <1>1, <1>a, ZenonT(30) DEF LockHolders
  <2> QED
    BY <1>1, <1>a, <2>1, Zenon DEF PassMoves, Weighed
<1>2. CASE PassChecks \/ PassSends
  <2>1. pass.at \in {"check", "send"} /\ pass.settle = {}
    BY <1>2, <1>a, Zenon DEF PassChecks, PassSends
  <2>2. PassMoves
    BY <1>1, <1>2, <2>1, MovesOfPass, ZenonT(30) DEF PassChecks, PassSends
  <2> QED
    BY <1>b, <2>2, RoomPass, Zenon
<1>3. CASE PassEnds \/ PassIsRefused \/ PassLosesAnswer \/ PassDies \/ ReconcileConflicts
  <2>1. PassMoves
    BY <1>3, MovesOfPass, Zenon DEF PassEnds, PassIsRefused, PassLosesAnswer, PassDies, ReconcileConflicts
  <2> QED
    BY <1>b, <2>1, RoomPass, Zenon
<1>4. ASSUME NEW b \in Jobs, PassReplays(b) PROVE Room'
  <2>1. PassMoves
    BY <1>1, <1>4, Zenon DEF PassReplays
  <2> QED
    BY <1>b, <2>1, RoomPass, Zenon
<1>5. ASSUME NEW b \in Jobs, PassSkips(b) PROVE Room'
  <2>1. /\ pass'.settle \subseteq pass.settle /\ pass'.answer = pass.answer /\ pass'.at = "work"
        /\ pass.at = "work" /\ pass'.snap = pass.snap
    BY <1>5, <1>a, ZenonT(30) DEF PassSkips, LockHolders
  <2>2. PassMoves
    BY <1>a, <2>1, Zenon DEF PassMoves, Weighed
  <2> QED
    BY <1>b, <2>2, RoomPass, Zenon
<1>6. ASSUME NEW b \in Jobs, ReconcileStarts(b) PROVE Room'
  <2>1. pass'.settle = {} /\ pass'.answer = "none" /\ pass'.at = "fence"
    BY <1>6, Zenon DEF ReconcileStarts, IdlePass
  <2>2. PassMoves
    BY <2>1, Zenon DEF PassMoves, Weighed
  <2> QED
    BY <1>b, <2>2, RoomPass, Zenon
<1> QED
  BY <1>2, <1>3, <1>4, <1>5, <1>6, ZenonT(30)

\* The second reading of the records: only jobs that the figures count are settled.
LEMMA RoomReads ==
  ASSUME Inv, Room, PassReads
  PROVE  Room'
<1>a. pass \in LockHolders /\ rec \in [Jobs -> Records] /\ Told
  BY Zenon DEF Inv, Types, Room
<1>1. /\ pass'.at = "work" /\ pass'.answer = pass.answer /\ pass'.snap = pass.snap
      /\ pass'.settle = {b \in pass.known : /\ rec[b].state = "placed" /\ rec[b].charged
                                            /\ b \in pass.snap[rec[b].target].counts}
  BY <1>a, Zenon DEF PassReads, LockHolders
<1>2. UNCHANGED <<rec, tgt, pub>> /\ pass.at = "recover"
  BY Zenon DEF PassReads
<1>3. Told'
  BY <1>1, <1>2, <1>a, Zenon DEF Told
<1>4. FiguresStay
  BY <1>1, <1>2, Zenon DEF FiguresStay, Weighed
<1> QED
  BY <1>2, <1>3, <1>4, RoomIdle, Zenon

\* broker_capacity.collect: the pass reads the figures as they are published.
LEMMA RoomStarts ==
  ASSUME Inv, Room, PassStarts
  PROVE  Room'
<1>a. pub \in [Roots -> Figures]
  BY Zenon DEF Inv, Types
<1> DEFINE snap == [r \in Roots |-> [pub[r] EXCEPT !.ready = @ /\ Live(r) = Active(r)]]
<1>1. pass' = [IdlePass EXCEPT
                 !.at = "recover",
                 !.known = {b \in Jobs : rec[b].state # "absent"},
                 !.recover = {b \in Jobs : rec[b].state \in {"reserved", "returned"}},
                 !.snap = snap]
  BY Zenon DEF PassStarts
<1>2. \A r \in Roots : /\ snap[r].counts = pub[r].counts /\ snap[r].used = pub[r].used
                       /\ snap[r].ready => pub[r].ready
  <2> SUFFICES ASSUME NEW r \in Roots
               PROVE  /\ snap[r].counts = pub[r].counts /\ snap[r].used = pub[r].used
                      /\ snap[r].ready => pub[r].ready
    BY Zenon
  <2>1. snap[r] = [pub[r] EXCEPT !.ready = @ /\ Live(r) = Active(r)]
    BY Zenon
  <2> HIDE DEF snap
  <2> QED
    BY <1>a, <2>1, ZenonT(30) DEF Figures
<1> HIDE DEF snap
<1>3. pass'.at = "recover" /\ pass'.settle = {} /\ pass'.answer = "none" /\ pass'.snap = snap
  BY <1>1, Zenon DEF IdlePass
<1>4. UNCHANGED <<rec, tgt, pub>>
  BY Zenon DEF PassStarts
<1>5. Told'
  BY <1>3, Zenon DEF Told
<1>6. \A b \in Jobs : Booked(b)'
  BY <1>4, Zenon DEF Room, Booked
<1>7. \A r \in Roots : /\ Live(r)' = Live(r) /\ Promised(r)' = Promised(r)
  BY <1>4, Zenon DEF Live, Promised, Charged
<1>8. ASSUME NEW r \in Roots
      PROVE  /\ (Backed(pub[r], r) /\ Covers(pub[r], r))'
             /\ (Backed(pass.snap[r], r) /\ Covers(pass.snap[r], r))'
             /\ pass'.snap[r].counts \subseteq pub'[r].counts
  <2>1. Backed(pub[r], r) /\ Covers(pub[r], r)
    BY Zenon DEF Room
  <2> QED
    BY <1>2, <1>3, <1>4, <1>7, <2>1, ZenonT(30) DEF Backed, Covers
<1>9. \A r \in Roots : Cardinality(Promised(r))' <= Slots
  BY <1>7, Zenon DEF Room
<1> QED
  BY <1>5, <1>6, <1>8, <1>9, Zenon DEF Room

\* A transition of one record while the pass moves.
LEMMA RoomMoves ==
  ASSUME Inv, Room, NEW b \in Jobs, NEW new, Fits(rec[b], new),
         rec' = [rec EXCEPT ![b] = new], tgt' = tgt, pub' = pub, PassMoves,
         rec[b].state = "transferring" => new.target = rec[b].target,
         new.charged => rec[b].charged /\ new.target = rec[b].target,
         new.state \in {"reserved", "transferring"} => new.charged,
         new.state = "placed" => /\ rec[b].state = "placed" \/ new.charged
                                 /\ tgt[new.target][b] \in Accepted
                                 /\ ~new.charged => ~rec[b].charged \/ b \in pass.settle
  PROVE  Room'
<1>1. rec \in [Jobs -> Records] /\ rec'[b] = new /\ \A c \in Jobs \ {b} : rec'[c] = rec[c]
  BY Zenon DEF Inv, Types
<1>2. PlacedStay /\ TargetsStay
  BY <1>1, Zenon DEF PlacedStay, TargetsStay, Fits
<1>3. AcceptedStay
  BY Zenon DEF AcceptedStay
<1>4. FiguresStay
  BY Zenon DEF FiguresStay, PassMoves
<1>5. Told'
  BY <1>2, <1>3, ToldStays, Zenon
<1> QED
  BY <1>4, <1>5, RoomRecord, Zenon

\* What the transitions of the store do to a charge and a target.
LEMMA TransitionsCharge ==
  ASSUME NEW record \in Records
  PROVE  /\ /\ ~Returned(record).charged /\ Returned(record).state = "returned"
            /\ Returned(record).target = record.target
         /\ /\ Held(record).charged = record.charged /\ Held(record).target = record.target
            /\ Held(record).state \in {"held", "cancelled"}
         /\ /\ Cancelled(record).charged = record.charged
            /\ Cancelled(record).target = record.target
            /\ Cancelled(record).state = record.state \/ Cancelled(record).state = "cancelled"
<1>1. /\ Returned(record).charged = FALSE /\ Returned(record).state = "returned"
      /\ Returned(record).target = record.target
  BY Zenon DEF Records, Returned
<1>2. /\ Held(record).charged = record.charged /\ Held(record).target = record.target
      /\ Held(record).state \in {"held", "cancelled"}
  BY Zenon DEF Records, Held
<1>3. /\ Cancelled(record).charged = record.charged /\ Cancelled(record).target = record.target
      /\ Cancelled(record).state = record.state \/ Cancelled(record).state = "cancelled"
  BY Zenon DEF Records, Cancelled
<1> QED
  BY <1>1, <1>2, <1>3, Zenon

\* Steps that change one field of a record.
LEMMA FieldsOfRecord ==
  ASSUME NEW record \in Records
  PROVE  /\ \A s \in {"transferring", "placed"} :
              LET new == [record EXCEPT !.state = s]
              IN  new.state = s /\ new.target = record.target /\ new.charged = record.charged
         /\ LET new == [record EXCEPT !.charged = FALSE]
            IN  new.state = record.state /\ new.target = record.target /\ ~new.charged
         /\ LET new == [record EXCEPT !.cancel = TRUE]
            IN  /\ new.state = record.state /\ new.target = record.target
                /\ new.charged = record.charged
BY Zenon DEF Records

\* The pass and the reconcile change a record.
LEMMA RoomTransitions ==
  ASSUME Inv, Room,
         \/ PassBegins \/ PassRecords
         \/ ReconcileRecords \/ ReconcileCancels \/ ReconcileResumes
         \/ \E b \in Jobs : PassRecovers(b) \/ PassSettles(b) \/ Accept(b)
  PROVE  Room'
<1>a. /\ pass \in LockHolders /\ rec \in [Jobs -> Records] /\ PassHolds /\ Told
      /\ (pass.settle # {} => pass.at = "work") /\ \A b \in Jobs : Booked(b)
      /\ (pass.answer = "accepted" => pass.at \in {"await", "fenced"})
  BY Zenon DEF Inv, Types, Room, Told
<1>b. UNCHANGED <<tgt, pub>>
  BY Zenon DEF PassBegins, PassRecords, ReconcileRecords, ReconcileCancels, ReconcileResumes,
         PassRecovers, PassSettles, Accept
<1>c. ASSUME NEW b \in Jobs
      PROVE  /\ rec[b].state = "placed" => tgt[rec[b].target][b] \in Accepted
             /\ rec[b].state \in {"reserved", "transferring"} => rec[b].charged
             /\ rec[b] \in Records
  BY <1>a, Zenon DEF Booked
<1>1. CASE PassBegins
  <2>1. CASE rec[pass.job].cancel
    <3>1. rec' = rec /\ PassMoves
      BY <1>1, <2>1, MovesOfPass, Zenon DEF PassBegins
    <3> QED
      BY <1>b, <3>1, RoomPass, Zenon
  <2>2. CASE ~rec[pass.job].cancel
    <3>1. PICK b \in Jobs : b = pass.job /\ rec[b].state = "reserved"
      BY <1>a, <1>1, Zenon DEF PassBegins, PassHolds
    <3> DEFINE new == [rec[b] EXCEPT !.state = "transferring"]
    <3>2. rec' = [rec EXCEPT ![b] = new] /\ pass' = [pass EXCEPT !.at = "check"] /\ pass.at = "begin"
      BY <1>1, <2>2, <3>1, Zenon DEF PassBegins, Put
    <3>3. pass'.settle = pass.settle /\ pass'.answer = pass.answer /\ pass'.at = "check" /\ pass'.snap = pass.snap
      BY <1>a, <3>2, Zenon DEF LockHolders
    <3>4. PassMoves
      BY <1>a, <3>2, <3>3, Zenon DEF PassMoves, Weighed
    <3>5. Fits(rec[b], new)
      BY <2>2, <3>1, TransitionsFit, Zenon
    <3>6. new.state = "transferring" /\ new.target = rec[b].target /\ new.charged = rec[b].charged
      BY <1>c, FieldsOfRecord, Zenon
    <3> HIDE DEF new
    <3> QED
      BY <1>b, <1>c, <3>1, <3>2, <3>4, <3>5, <3>6, RoomMoves, ZenonT(30)
  <2> QED
    BY <2>1, <2>2, Zenon
<1>2. CASE PassRecords \/ (ReconcileRecords /\ pass.answer = "accepted")
  <2>1. PICK b \in Jobs : b = pass.job /\ rec[b].state = "transferring"
    BY <1>a, <1>2, Zenon DEF PassRecords, ReconcileRecords, PassHolds
  <2> DEFINE new == [rec[b] EXCEPT !.state = "placed"]
  <2>2. rec' = [rec EXCEPT ![b] = new] /\ pass.answer = "accepted"
    BY <1>2, <2>1, Zenon DEF PassRecords, ReconcileRecords, Put
  <2>3. PassMoves
    BY <1>2, MovesOfPass, Zenon DEF PassRecords, ReconcileRecords
  <2>4. Fits(rec[b], new)
    BY <2>1, TransitionsFit, Zenon
  <2>5. new.state = "placed" /\ new.target = rec[b].target /\ new.charged = rec[b].charged
    BY <1>c, FieldsOfRecord, Zenon
  <2>6. tgt[rec[b].target][b] \in Accepted
    BY <1>a, <2>1, <2>2, Zenon DEF Told
  <2> HIDE DEF new
  <2> QED
    BY <1>b, <1>c, <2>1, <2>2, <2>3, <2>4, <2>5, <2>6, RoomMoves, ZenonT(30)
<1>3. CASE ReconcileRecords /\ pass.answer = "fenced"
  <2>1. PICK b \in Jobs : b = pass.job /\ rec[b].state = "transferring"
    BY <1>a, <1>3, Zenon DEF ReconcileRecords, PassHolds
  <2> DEFINE new == Returned(rec[b])
  <2>2. PICK at \in {"resume", "cancel"} :
          rec' = [rec EXCEPT ![b] = new] /\ pass' = [pass EXCEPT !.at = at] /\ pass.at = "fenced"
    BY <1>3, <2>1, Zenon DEF ReconcileRecords, Put
  <2>3. pass'.settle = pass.settle /\ pass'.answer = pass.answer /\ pass'.at = at
    BY <1>a, <2>2, Zenon DEF LockHolders
  <2>4. PassMoves
    BY <1>a, <1>3, <2>2, <2>3, Zenon DEF PassMoves, Weighed
  <2>5. Fits(rec[b], new)
    BY <2>1, TransitionsFit, Zenon
  <2>6. ~new.charged /\ new.state = "returned" /\ new.target = rec[b].target
    BY <1>c, TransitionsCharge, Zenon
  <2> HIDE DEF new
  <2> QED
    BY <1>b, <2>2, <2>4, <2>5, <2>6, RoomMoves, ZenonT(30)
<1>4. CASE ReconcileCancels
  <2>1. PICK b \in Jobs : b = pass.job /\ rec[b].state = "returned"
    BY <1>a, <1>4, Zenon DEF ReconcileCancels, PassHolds
  <2> DEFINE new == [rec[b] EXCEPT !.cancel = TRUE]
  <2>2. rec' = [rec EXCEPT ![b] = new] /\ pass.at = "cancel"
    BY <1>4, <2>1, Zenon DEF ReconcileCancels, Put
  <2>3. pass'.settle = pass.settle /\ pass'.answer = pass.answer /\ pass'.at = "resume"
    BY <1>a, <1>4, Zenon DEF ReconcileCancels, LockHolders
  <2>4. PassMoves
    BY <1>a, <2>2, <2>3, Zenon DEF PassMoves, Weighed
  <2>5. Fits(rec[b], new)
    BY <2>1, TransitionsFit, Zenon
  <2>6. new.state = rec[b].state /\ new.target = rec[b].target /\ new.charged = rec[b].charged
    BY <1>c, FieldsOfRecord, Zenon
  <2> HIDE DEF new
  <2> QED
    BY <1>b, <2>1, <2>2, <2>4, <2>5, <2>6, RoomMoves, ZenonT(30)
<1>5. ASSUME NEW b \in Jobs, rec[b].state = "returned", rec' = [rec EXCEPT ![b] = Held(rec[b])], PassMoves
      PROVE  Room'
  <2> DEFINE new == Held(rec[b])
  <2>1. Fits(rec[b], new) /\ rec' = [rec EXCEPT ![b] = new]
    BY <1>5, TransitionsFit, Zenon
  <2>2. /\ new.charged = rec[b].charged /\ new.target = rec[b].target
        /\ new.state \in {"held", "cancelled"}
    BY <1>c, TransitionsCharge, Zenon
  <2> HIDE DEF new
  <2> QED
    BY <1>b, <1>5, <2>1, <2>2, RoomMoves, ZenonT(30)
<1>6. CASE ReconcileResumes
  <2>1. pass.job \in Jobs /\ rec[pass.job].state = "returned"
    BY <1>a, <1>6, Zenon DEF ReconcileResumes, PassHolds
  <2>2. PassMoves
    BY <1>6, MovesOfPass, Zenon DEF ReconcileResumes
  <2> QED
    BY <1>5, <1>6, <2>1, <2>2, Zenon DEF ReconcileResumes, Put
<1>7. ASSUME NEW b \in Jobs, PassRecovers(b) PROVE Room'
  <2>1. CASE rec[b].state = "reserved"
    <3> DEFINE new == Returned(rec[b])
    <3>1. rec' = [rec EXCEPT ![b] = new] /\ PassMoves
      BY <1>7, <2>1, MovesOfPass, Zenon DEF PassRecovers, Put
    <3>2. Fits(rec[b], new)
      BY <2>1, TransitionsFit, Zenon
    <3>3. ~new.charged /\ new.state = "returned" /\ new.target = rec[b].target
      BY <1>c, TransitionsCharge, Zenon
    <3> HIDE DEF new
    <3> QED
      BY <1>b, <3>1, <3>2, <3>3, RoomMoves, ZenonT(30)
  <2>2. CASE rec[b].state = "returned"
    <3>1. /\ rec' = [rec EXCEPT ![b] = Held(rec[b])]
          /\ pass' = [pass EXCEPT !.recover = @ \ {b}] /\ pass.at = "recover"
      BY <1>7, <2>2, Zenon DEF PassRecovers, Put
    <3>2. /\ pass'.settle = pass.settle /\ pass'.answer = pass.answer /\ pass'.at = "recover"
          /\ pass'.snap = pass.snap
      BY <1>a, <3>1, Zenon DEF LockHolders
    <3>3. PassMoves
      BY <1>a, <3>1, <3>2, Zenon DEF PassMoves, Weighed
    <3> QED
      BY <1>5, <2>2, <3>1, <3>3, ZenonT(30)
  <2> QED
    BY <1>7, <2>1, <2>2, Zenon DEF PassRecovers
<1>8. ASSUME NEW b \in Jobs, PassSettles(b) PROVE Room'
  <2> DEFINE new == [rec[b] EXCEPT !.charged = FALSE]
  <2>1. /\ rec' = [rec EXCEPT ![b] = new] /\ pass' = [pass EXCEPT !.settle = @ \ {b}]
        /\ b \in pass.settle /\ pass.at = "work"
    BY <1>8, Zenon DEF PassSettles, Put
  <2>2. /\ pass'.settle = pass.settle \ {b} /\ pass'.answer = pass.answer /\ pass'.at = "work"
        /\ pass'.snap = pass.snap
    BY <1>a, <2>1, Zenon DEF LockHolders
  <2>3. PassMoves
    BY <1>a, <2>1, <2>2, Zenon DEF PassMoves, Weighed
  <2>4. Fits(rec[b], new)
    BY TransitionsFit, Zenon
  <2>5. new.state = rec[b].state /\ new.target = rec[b].target /\ ~new.charged
    BY <1>c, FieldsOfRecord, Zenon
  <2>6. rec[b].state = "placed"
    BY <1>a, <2>1, Zenon DEF Told
  <2> HIDE DEF new
  <2> QED
    BY <1>b, <1>c, <2>1, <2>3, <2>4, <2>5, <2>6, RoomMoves, ZenonT(30)
<1>9. ASSUME NEW b \in Jobs, Accept(b) PROVE Room'
  <2> DEFINE new == [Absent EXCEPT !.state = "held"]
  <2>1. rec' = [rec EXCEPT ![b] = new] /\ rec[b].state = "absent" /\ PassMoves
    BY <1>9, MovesOfPass, Zenon DEF Accept, Put
  <2>2. Fits(rec[b], new)
    BY <2>1, TransitionsFit, Zenon
  <2>3. new.charged = FALSE /\ new.state = "held"
    BY Zenon DEF Absent
  <2> HIDE DEF new
  <2>4. ~new.charged
    BY <2>3, Zenon
  <2> QED
    BY <1>b, <2>1, <2>2, <2>3, <2>4, RoomMoves, Zenon
<1>10. ReconcileRecords => pass.answer \in {"accepted", "fenced"}
  BY Zenon DEF ReconcileRecords
<1> QED
  BY <1>1, <1>2, <1>3, <1>4, <1>6, <1>7, <1>8, <1>9, <1>10, ZenonT(30)

-----------------------------------------------------------------------------
(* What happens at the targets. *)

\* A job's key changes at one target.  What is accepted stays so, and a job that
\* comes to life there was charged to the target.
LEMMA RoomTarget ==
  ASSUME Inv, Room, NEW r \in Roots, NEW b \in Jobs, NEW v,
         rec' = rec, tgt' = [tgt EXCEPT ![r][b] = v], FiguresStay, Told',
         tgt[r][b] \in Accepted => v \in Accepted,
         v \in {"pending", "active"} =>
           \/ tgt[r][b] \in {"pending", "active"}
           \/ tgt[r][b] \notin Accepted /\ b \in Charged(r)
  PROVE  Room'
<1>1. /\ tgt'[r][b] = v
      /\ \A q \in Roots, c \in Jobs : q # r \/ c # b => tgt'[q][c] = tgt[q][c]
  BY Zenon DEF Inv, Types
<1>2. NoneRevived
  BY <1>1, Zenon DEF NoneRevived
<1>3. PlacedStay /\ ChargesStay
  BY Zenon DEF PlacedStay, ChargesStay
<1>4. NothingPromised
  <2> SUFFICES ASSUME NEW q \in Roots, NEW c \in Jobs, tgt'[q][c] \in {"pending", "active"}
               PROVE  c \in Promised(q)
    BY Zenon DEF NothingPromised, Promised, Live, Charged
  <2> QED
    BY <1>1, Zenon DEF Promised, Live
<1>5. ASSUME NEW c \in Jobs PROVE Booked(c)'
  <2>1. Booked(c)
    BY Zenon DEF Room
  <2>2. rec[c].state = "placed" => rec[c].target \in Roots
    BY Zenon DEF Inv, RecordsMakeSense
  <2>3. rec[c].state = "placed" => tgt'[rec[c].target][c] \in Accepted
    BY <1>1, <2>1, <2>2, Zenon DEF Booked
  <2> QED
    BY <2>1, <2>3, Zenon DEF Booked
<1> QED
  BY <1>2, <1>3, <1>4, <1>5, RoomStays, ZenonT(30)

\* A copy of a submit comes to life only while its job is charged to the target,
\* and the pass is told what the target now has.
LEMMA RoomHandles ==
  ASSUME Inv, Room, NEW r \in Roots, NEW b \in Jobs, TargetHandles(r, b)
  PROVE  Room'
<1>a. /\ pass \in LockHolders /\ tgt[r][b] \in {"open", "fenced"} \cup Accepted
      /\ tgt \in [Roots -> [Jobs -> {"open", "fenced"} \cup Accepted]] /\ Told
  BY Zenon DEF Inv, Types, Room
<1> DEFINE v == IF tgt[r][b] = "open" THEN "pending" ELSE tgt[r][b]
<1>1. /\ tgt' = [tgt EXCEPT ![r][b] = v] /\ UNCHANGED <<rec, pub>> /\ <<r, b>> \in wire
  BY Zenon DEF TargetHandles
<1>2. tgt[r][b] = "open" => b \in Charged(r)
  <2> SUFFICES ASSUME tgt[r][b] = "open" PROVE b \in Charged(r)
    BY Zenon
  <2>1. rec[b].state \in {"transferring", "placed"} /\ rec[b].target = r
    BY <1>1, Zenon DEF Inv, RecordTellsWhere
  <2>2. Booked(b)
    BY Zenon DEF Room
  <2> QED
    BY <2>1, <2>2, Zenon DEF Booked, Charged, Accepted
<1>3. /\ tgt[r][b] \in Accepted => v \in Accepted
      /\ v \in {"pending", "active"} =>
           \/ tgt[r][b] \in {"pending", "active"}
           \/ tgt[r][b] \notin Accepted /\ b \in Charged(r)
      /\ tgt[r][b] # "fenced" => v \in Accepted
  BY <1>a, <1>2, Zenon DEF Accepted
<1> HIDE DEF v
<1>4. /\ tgt'[r][b] = v /\ \A q \in Roots, c \in Jobs : q # r \/ c # b => tgt'[q][c] = tgt[q][c]
  BY <1>a, <1>1, Zenon
<1>5. CASE pass.at = "await" /\ pass.job = b /\ rec[b].target = r
  <2>1. pass' = [pass EXCEPT !.answer = IF tgt[r][b] = "fenced" THEN "fenced" ELSE "accepted"]
    BY <1>5, Zenon DEF TargetHandles
  <2>2. /\ pass'.at = "await" /\ pass'.job = b /\ pass'.settle = pass.settle
        /\ pass'.snap = pass.snap
        /\ pass'.answer = IF tgt[r][b] = "fenced" THEN "fenced" ELSE "accepted"
    BY <1>a, <1>5, <2>1, ZenonT(30) DEF LockHolders
  <2>3. pass'.settle = {}
    BY <1>a, <1>5, <2>2, Zenon DEF Told
  <2>4. pass'.answer = "accepted" => v \in Accepted
    BY <1>3, <2>2, Zenon
  <2>5. Told'
    BY <1>1, <1>4, <1>5, <2>2, <2>3, <2>4, ZenonT(30) DEF Told
  <2>6. FiguresStay
    BY <1>1, <1>5, <2>2, ZenonT(30) DEF FiguresStay, Weighed
  <2> QED
    BY <1>1, <1>3, <2>5, <2>6, RoomTarget, ZenonT(30)
<1>6. CASE ~(pass.at = "await" /\ pass.job = b /\ rec[b].target = r)
  <2>1. pass' = pass
    BY <1>6, Zenon DEF TargetHandles
  <2>2. PassMoves /\ PlacedStay /\ TargetsStay
    BY <1>1, <2>1, MovesOfPass, ZenonT(30) DEF PlacedStay, TargetsStay
  <2>3. AcceptedStay
    BY <1>3, <1>4, Zenon DEF AcceptedStay
  <2>4. Told'
    BY <2>2, <2>3, ToldStays, ZenonT(30)
  <2>5. FiguresStay
    BY <1>1, <2>2, Zenon DEF FiguresStay, PassMoves
  <2> QED
    BY <1>1, <1>3, <2>4, <2>5, RoomTarget, Zenon
<1> QED
  BY <1>5, <1>6, Zenon

\* A job at a target moves on while the pass stays where it is.
LEMMA RoomMovesOn ==
  ASSUME Inv, Room, NEW r \in Roots, NEW b \in Jobs, NEW v \in {"active", "ended"},
         tgt[r][b] \in Accepted, v = "active" => tgt[r][b] = "pending",
         tgt' = [tgt EXCEPT ![r][b] = v], UNCHANGED <<rec, pub, pass>>
  PROVE  Room'
<1>1. /\ tgt'[r][b] = v /\ \A q \in Roots, c \in Jobs : q # r \/ c # b => tgt'[q][c] = tgt[q][c]
  BY Zenon DEF Inv, Types
<1>2. PassMoves /\ PlacedStay /\ TargetsStay
  BY MovesOfPass, Zenon DEF PlacedStay, TargetsStay
<1>3. AcceptedStay
  BY <1>1, Zenon DEF AcceptedStay, Accepted
<1>4. Told'
  BY <1>2, <1>3, ToldStays, Zenon
<1>5. FiguresStay
  BY <1>2, Zenon DEF FiguresStay, PassMoves
<1>6. v \in Accepted
  BY Zenon DEF Accepted
<1> QED
  BY <1>4, <1>5, <1>6, RoomTarget, Zenon

\* The target settles the key and the reconcile hears how.
LEMMA RoomFences ==
  ASSUME Inv, Room, ReconcileFences
  PROVE  Room'
<1>a. /\ pass \in LockHolders /\ Told /\ pass.at = "fence"
      /\ tgt \in [Roots -> [Jobs -> {"open", "fenced"} \cup Accepted]]
  BY Zenon DEF Inv, Types, Room, ReconcileFences
<1>1. PICK b \in Jobs : b = pass.job /\ rec[b].target \in Roots
  BY <1>a, Zenon DEF Inv, PassHolds, RecordsMakeSense
<1>2. PICK r \in Roots : r = rec[b].target
  BY <1>1, Zenon
<1> DEFINE v == IF tgt[r][b] = "open" THEN "fenced" ELSE tgt[r][b]
<1>3. /\ tgt' = [tgt EXCEPT ![r][b] = v] /\ UNCHANGED <<rec, pub>>
      /\ pass' = [pass EXCEPT !.at = "fenced", !.answer =
                     IF tgt[r][b] \in Accepted THEN "accepted" ELSE "fenced"]
  BY <1>1, <1>2, Zenon DEF ReconcileFences
<1>4. /\ pass'.at = "fenced" /\ pass'.job = b /\ pass'.settle = pass.settle
      /\ pass'.answer = IF tgt[r][b] \in Accepted THEN "accepted" ELSE "fenced"
  BY <1>a, <1>1, <1>3, Zenon DEF LockHolders
<1>5. pass'.settle = {} /\ (pass'.answer = "accepted" => tgt[r][b] \in Accepted)
  BY <1>a, <1>4, Zenon DEF Told
<1>6. /\ tgt[r][b] \in Accepted => v = tgt[r][b]
      /\ v \in {"pending", "active"} => tgt[r][b] \in {"pending", "active"}
  BY Zenon DEF Accepted
<1> HIDE DEF v
<1>7. tgt'[r][b] = v
  BY <1>a, <1>3, Zenon
<1>8. Told'
  BY <1>2, <1>3, <1>4, <1>5, <1>6, <1>7, ZenonT(30) DEF Told
<1>9. FiguresStay
  BY <1>3, <1>4, Zenon DEF FiguresStay, Weighed
<1> QED
  BY <1>3, <1>6, <1>8, <1>9, RoomTarget, Zenon

\* New figures: they count every placed job, and use a slot for each live one
\* unless some job is pending.
LEMMA RoomPublishes ==
  ASSUME Inv, Room, NEW r \in Roots, TargetPublishes(r)
  PROVE  Room'
<1>a. pub \in [Roots -> Figures]
  BY Zenon DEF Inv, Types
<1> DEFINE f == [used |-> Cardinality(Active(r)), ready |-> Live(r) = Active(r),
                 counts |-> {b \in Jobs : rec[b].state = "placed" /\ rec[b].target = r}]
<1>1. /\ pub' = [pub EXCEPT ![r] = f] /\ UNCHANGED <<rec, tgt, pass>>
  BY Zenon DEF TargetPublishes
<1>2. /\ f.used = Cardinality(Active(r)) /\ (f.ready => Live(r) = Active(r))
      /\ f.counts = {b \in Jobs : rec[b].state = "placed" /\ rec[b].target = r}
  BY Zenon
<1> HIDE DEF f
<1>3. pub'[r] = f /\ \A q \in Roots \ {r} : pub'[q] = pub[q]
  BY <1>a, <1>1, Zenon
<1>4. Backed(f, r) /\ Covers(f, r)
  <2>1. Live(r) \in SUBSET Jobs /\ Live(r) \cap f.counts \in SUBSET Live(r)
    BY Zenon DEF Live
  <2>2. /\ Cardinality(Live(r) \cap f.counts) <= Cardinality(Live(r))
    BY <2>1, FewerJobs, Zenon
  <2>3. f.ready => Cardinality(Live(r) \cap f.counts) <= f.used
    BY <1>2, <2>2, Zenon
  <2>4. \A b \in f.counts : rec[b].state = "placed" /\ rec[b].target = r
    BY <1>2, Zenon
  <2>5. Covers(f, r)
    BY <1>2, Zenon DEF Covers
  <2> QED
    BY <2>3, <2>4, <2>5, Zenon DEF Backed
<1>5. \A q \in Roots : Live(q)' = Live(q) /\ Promised(q)' = Promised(q)
  BY <1>1, Zenon DEF Live, Promised, Charged
<1>6. Told' /\ (Weighed' <=> Weighed)
  BY <1>1, Zenon DEF Room, Told, Weighed
<1>7. \A b \in Jobs : Booked(b)'
  BY <1>1, Zenon DEF Room, Booked
<1>8. ASSUME NEW q \in Roots PROVE (Backed(pub[q], q) /\ Covers(pub[q], q))'
  <2>1. Backed(pub'[q], q) /\ Covers(pub'[q], q)
    BY <1>3, <1>4, Zenon DEF Room
  <2> QED
    BY <1>1, <1>5, <2>1, Zenon DEF Backed, Covers
<1>9. ASSUME NEW q \in Roots, Weighed
      PROVE  (/\ Backed(pass.snap[q], q) /\ Covers(pass.snap[q], q)
              /\ pass.snap[q].counts \subseteq pub[q].counts)'
  <2>1. /\ Backed(pass.snap[q], q) /\ Covers(pass.snap[q], q)
        /\ pass.snap[q].counts \subseteq pub[q].counts
    BY <1>9, Zenon DEF Room
  <2>2. pass.snap[q].counts \subseteq Jobs
    <3>1. pass.snap \in [Roots -> Figures]
      BY Zenon DEF Inv, Types, LockHolders
    <3> QED
      BY <3>1, Zenon DEF Figures
  <2>3. pass.snap[q].counts \subseteq pub'[q].counts
    BY <1>2, <1>3, <2>1, <2>2, ZenonT(30) DEF Backed
  <2> QED
    BY <1>1, <1>5, <2>1, <2>3, ZenonT(30) DEF Backed, Covers
<1>10. \A q \in Roots : Cardinality(Promised(q)') <= Slots
  BY <1>5, Zenon DEF Room
<1> QED
  BY <1>6, <1>7, <1>8, <1>9, <1>10, ZenonT(30) DEF Room

-----------------------------------------------------------------------------
(* Placement. *)

\* A job that is live at a target is charged to it, or counted by any figures
\* that cover the settled charges.
LEMMA LiveIsWeighed ==
  ASSUME Inv, Room, NEW r \in Roots, NEW f \in Figures, Covers(f, r)
  PROVE  Live(r) \subseteq Charged(r) \cup (Live(r) \cap f.counts)
<1> SUFFICES ASSUME NEW b \in Jobs, b \in Live(r), ~rec[b].charged \/ rec[b].target # r
             PROVE  b \in f.counts
  BY Zenon DEF Live, Charged
<1>1. rec[b].state \in {"transferring", "placed"} /\ rec[b].target = r
  BY Zenon DEF Inv, RecordTellsWhere, Live, Accepted
<1>2. rec[b].state = "placed" /\ ~rec[b].charged
  BY <1>1, Zenon DEF Room, Booked
<1> QED
  BY <1>1, <1>2, Zenon DEF Covers

\* So one more job fits a target that the figures and the charges find eligible.
LEMMA OneMoreFits ==
  ASSUME Inv, Room, pass.at = "work", NEW r \in Roots, Eligible(r), NEW b \in Jobs
  PROVE  Cardinality(Promised(r) \cup {b}) <= Slots
<1>1. PICK f \in Figures : f = pass.snap[r]
  <2>1. pass.snap \in [Roots -> Figures]
    BY Zenon DEF Inv, Types, LockHolders
  <2> QED
    BY <2>1, Zenon
<1>2. Backed(f, r) /\ Covers(f, r) /\ f.ready
  BY <1>1, Zenon DEF Room, Weighed, Eligible
<1> DEFINE L == Live(r) \cap f.counts
           C == Charged(r)
<1>3. C \in SUBSET Jobs /\ L \in SUBSET Jobs
  BY Zenon DEF Charged, Live
<1>4. Cardinality(L) <= f.used /\ f.used \in Nat /\ Cardinality(L) \in Nat /\ Cardinality(C) \in Nat
  BY <1>2, <1>3, CardinalityIsNat, Zenon DEF Backed, Figures
<1>5. Slots - f.used - Cardinality(C) >= 1
  BY <1>1, Zenon DEF Eligible, Charges, Charged
<1>6. Promised(r) \cup {b} \subseteq (C \cup L) \cup {b}
  BY <1>1, <1>2, LiveIsWeighed, Zenon DEF Promised
<1> HIDE DEF L, C
<1>7. IsFiniteSet(C) /\ IsFiniteSet(L) /\ C \cap L \in SUBSET Jobs
  BY <1>3, BrokerAssumption, FS_Subset, Zenon DEF BrokerAssumption
<1>8. /\ IsFiniteSet(C \cup L)
      /\ Cardinality(C \cup L) = Cardinality(C) + Cardinality(L) - Cardinality(C \cap L)
  BY <1>7, FS_Union, Zenon
<1>9. Cardinality(C \cap L) \in Nat /\ Cardinality(C \cup L) \in Nat
  BY <1>3, <1>7, CardinalityIsNat, Zenon
<1>10. Cardinality((C \cup L) \cup {b}) = IF b \in C \cup L THEN Cardinality(C \cup L)
                                          ELSE Cardinality(C \cup L) + 1
  BY <1>8, FS_AddElement, Zenon
<1>11. Cardinality((C \cup L) \cup {b}) <= Cardinality(C) + Cardinality(L) + 1
  BY <1>4, <1>8, <1>9, <1>10, SMTT(30)
<1>12. /\ Cardinality(Promised(r) \cup {b}) <= Cardinality((C \cup L) \cup {b})
       /\ Cardinality(Promised(r) \cup {b}) \in Nat
       /\ Cardinality((C \cup L) \cup {b}) \in Nat
  <2>1. (C \cup L) \cup {b} \in SUBSET Jobs
    BY <1>3, Zenon
  <2> QED
    BY <1>6, <2>1, FewerJobs, ZenonT(30)
<1> QED
  BY <1>4, <1>5, <1>11, <1>12, BrokerAssumption, SMTT(30) DEF BrokerAssumption

\* _place_locked: the reservation charges the target for one more job.
LEMMA RoomPlaces ==
  ASSUME Inv, Room, PassPlaces
  PROVE  Room'
<1>a. /\ pass \in LockHolders /\ rec \in [Jobs -> Records] /\ Told /\ pass.at = "work"
      /\ pass.settle = {} /\ pass.queue # {} /\ pass.answer # "accepted"
      /\ UNCHANGED <<tgt, pub>> /\ Room
  BY Zenon DEF Inv, Types, Room, Told, PassPlaces
<1>1. PICK b \in Jobs : b = Head
  <2>1. pass.queue \in SUBSET Jobs /\ pass.queue \in SUBSET Nat
    BY <1>a, BrokerAssumption, Zenon DEF LockHolders, BrokerAssumption
  <2>2. \E c \in pass.queue : \A d \in pass.queue : c <= d
    BY <1>a, <2>1, LeastOfQueue, ZenonT(30)
  <2> QED
    BY <2>1, <2>2, Zenon DEF Head
<1>2. CASE pass' = [pass EXCEPT !.queue = @ \ {b}] /\ UNCHANGED rec
  <2>1. pass'.settle = {} /\ pass'.answer = pass.answer /\ pass'.at = "work" /\ pass'.snap = pass.snap
    BY <1>a, <1>2, ZenonT(30) DEF LockHolders
  <2>2. PassMoves
    BY <1>a, <2>1, Zenon DEF PassMoves, Weighed
  <2> QED
    BY <1>a, <1>2, <2>2, RoomPass, ZenonT(30)
<1>3. CASE pass' = IdlePass /\ UNCHANGED rec
  <2>1. PassMoves
    BY <1>3, MovesOfPass, Zenon
  <2> QED
    BY <1>a, <1>3, <2>1, RoomPass, ZenonT(30)
<1>4. ASSUME NEW r \in Roots, rec[b].state = "held", Eligible(r), Put(b, Reserved(rec[b], r)),
             pass' = [pass EXCEPT !.at = "begin", !.job = b]
      PROVE  Room'
  <2>1. pass'.settle = {} /\ pass'.answer = pass.answer /\ pass'.at = "begin" /\ pass'.snap = pass.snap
    BY <1>a, <1>4, Zenon DEF LockHolders
  <2>2. PassMoves
    BY <1>a, <2>1, Zenon DEF PassMoves, Weighed
  <2>3. FiguresStay
    BY <1>a, <2>2, Zenon DEF FiguresStay, PassMoves
  <2>4. /\ rec'[b] = Reserved(rec[b], r) /\ \A c \in Jobs \ {b} : rec'[c] = rec[c]
    BY <1>a, <1>4, Zenon DEF Put
  <2>5. rec'[b].state = "reserved" /\ rec'[b].target = r /\ rec'[b].charged = TRUE
    <3>1. rec[b] \in Records
      BY <1>a, Zenon
    <3>2. ASSUME NEW n
          PROVE  LET new == [rec[b] EXCEPT !.state = "reserved", !.target = r, !.charged = TRUE,
                                           !.attempts = n]
                 IN  new.state = "reserved" /\ new.target = r /\ new.charged = TRUE
      BY <3>1, Zenon DEF Records
    <3> QED
      BY <2>4, <3>2, ZenonT(30) DEF Reserved
  <2>6. PlacedStay /\ TargetsStay
    BY <1>4, <2>4, Zenon DEF PlacedStay, TargetsStay
  <2>7. ChargesStay
    BY <2>4, <2>5, Zenon DEF ChargesStay
  <2>8. NoneRevived /\ AcceptedStay
    BY <1>a, Zenon DEF NoneRevived, AcceptedStay
  <2>9. Told'
    BY <2>2, <2>6, <2>8, ToldStays, Zenon
  <2>10. ASSUME NEW c \in Jobs PROVE Booked(c)'
    <3>1. CASE c = b
      BY <2>5, <3>1, Zenon DEF Booked
    <3>2. CASE c # b
      BY <1>a, <2>4, <3>2, Zenon DEF Room, Booked
    <3> QED
      BY <3>1, <3>2, Zenon
  <2>11. ASSUME NEW q \in Roots PROVE Cardinality(Promised(q)') <= Slots
    <3>1. Slots \in Nat /\ Promised(q) \in SUBSET Jobs /\ Cardinality(Promised(q)) <= Slots
      BY BrokerAssumption, Zenon DEF BrokerAssumption, Promised, Live, Charged, Room
    <3>2. CASE q = r
      <4>1. Promised(q)' \subseteq Promised(r) \cup {b}
        BY <1>a, <2>4, <3>2, Zenon DEF Promised, Live, Charged
      <4>2. Cardinality(Promised(r) \cup {b}) <= Slots /\ Promised(r) \cup {b} \in SUBSET Jobs
        BY <1>a, <1>4, <3>1, <3>2, OneMoreFits, ZenonT(30)
      <4>3. /\ Cardinality(Promised(q)') <= Cardinality(Promised(r) \cup {b})
            /\ Cardinality(Promised(q)') \in Nat /\ Cardinality(Promised(r) \cup {b}) \in Nat
        BY <4>1, <4>2, FewerJobs, Zenon
      <4> QED
        BY <3>1, <4>2, <4>3
    <3>3. CASE q # r
      <4>1. Promised(q)' \subseteq Promised(q)
        BY <1>a, <2>4, <2>5, <3>3, Zenon DEF Promised, Live, Charged
      <4>2. /\ Cardinality(Promised(q)') <= Cardinality(Promised(q))
            /\ Cardinality(Promised(q)') \in Nat /\ Cardinality(Promised(q)) \in Nat
        BY <3>1, <4>1, FewerJobs, Zenon
      <4> QED
        BY <3>1, <4>2
    <3> QED
      BY <3>2, <3>3, Zenon
  <2> QED
    BY <2>3, <2>6, <2>7, <2>8, <2>9, <2>10, <2>11, RoomKept, ZenonT(30)
<1> QED
  BY <1>1, <1>2, <1>3, <1>4, ZenonT(30) DEF PassPlaces

-----------------------------------------------------------------------------
(* vq kill, and every step. *)

\* A kill cancels a record, which charges nothing, and ends a placed job.
LEMMA RoomKills ==
  ASSUME Inv, Room, NEW b \in Killed, KillReads(b) \/ KillCancels(b) \/ KillDecides(b)
  PROVE  Room'
<1>a. /\ b \in Jobs /\ UNCHANGED <<pub, pass>> /\ rec \in [Jobs -> Records] /\ Booked(b)
  BY BrokerAssumption, Zenon DEF BrokerAssumption, KillReads, KillCancels, KillDecides, Inv, Types, Room
<1>b. PassMoves
  BY <1>a, MovesOfPass, Zenon
<1>1. CASE UNCHANGED <<rec, tgt>>
  BY <1>a, <1>b, <1>1, RoomPass, ZenonT(30)
<1>2. CASE KillCancels(b) /\ rec' # rec
  <2> DEFINE new == Cancelled(rec[b])
  <2>1. rec' = [rec EXCEPT ![b] = new] /\ tgt' = tgt /\ rec[b] = kill[b].seen /\ kill[b].at = "cancel"
    BY <1>2, Zenon DEF KillCancels, Put
  <2>2. rec[b].state # "absent"
    BY <2>1, Zenon DEF Inv, KillHolds
  <2>3. Fits(rec[b], new)
    BY <1>a, <2>2, TransitionsFit, Zenon
  <2>4. /\ new.charged = rec[b].charged /\ new.target = rec[b].target
        /\ new.state = rec[b].state \/ new.state = "cancelled"
    BY <1>a, TransitionsCharge, Zenon
  <2> HIDE DEF new
  <2> QED
    BY <1>a, <1>b, <2>1, <2>3, <2>4, RoomMoves, ZenonT(30) DEF Booked
<1>3. CASE KillDecides(b) /\ tgt' # tgt
  <2>1. /\ kill[b].at = "decide" /\ kill[b].seen.state = "placed" /\ rec' = rec
        /\ tgt' = [tgt EXCEPT ![kill[b].seen.target][b] = "ended"]
    BY <1>3, Zenon DEF KillDecides
  <2>2. rec[b].state = "placed" /\ rec[b].target = kill[b].seen.target /\ rec[b].target \in Roots
    BY <1>a, <2>1, Zenon DEF Inv, KillHolds, RecordsMakeSense
  <2>3. tgt[rec[b].target][b] \in Accepted
    BY <1>a, <2>2, Zenon DEF Booked
  <2> QED
    BY <1>a, <2>1, <2>2, <2>3, RoomMovesOn, ZenonT(30)
<1> QED
  BY <1>1, <1>2, <1>3, Zenon DEF KillReads, KillCancels, KillDecides

\* Nothing is promised when the broker starts.
LEMMA RoomAtFirst ==
  ASSUME Init
  PROVE  Room
<1>1. /\ \A b \in Jobs : rec[b].state = "absent" /\ rec[b].charged = FALSE
      /\ \A r \in Roots : pub[r].ready = FALSE /\ pub[r].counts = {}
      /\ pass.answer = "none" /\ pass.settle = {} /\ pass.at = "idle"
  BY Zenon DEF Init, Absent, NoFigures, IdlePass
<1>2. \A b \in Jobs : Booked(b)
  BY <1>1, Zenon DEF Booked
<1>3. \A r \in Roots : Backed(pub[r], r) /\ Covers(pub[r], r)
  BY <1>1, Zenon DEF Backed, Covers
<1>4. Told /\ ~Weighed
  BY <1>1, Zenon DEF Told, Weighed
<1>5. ASSUME NEW r \in Roots PROVE Cardinality(Promised(r)) <= Slots
  <2>1. Promised(r) = {}
    BY <1>1, Zenon DEF Promised, Live, Charged, Init
  <2>2. Cardinality({}) = 0
    BY FS_EmptySet, Zenon
  <2> QED
    BY <2>1, <2>2, BrokerAssumption DEF BrokerAssumption
<1> QED
  BY <1>2, <1>3, <1>4, <1>5, Zenon DEF Room

\* Every step keeps Room.
LEMMA RoomStep ==
  ASSUME Inv, Room, [Next]_vars
  PROVE  Room'
<1>1. CASE UNCHANGED vars
  <2>1. UNCHANGED <<rec, tgt, pub, pass>>
    BY <1>1, Zenon DEF vars
  <2> QED
    BY <2>1, MovesOfPass, RoomPass, Zenon
<1>2. CASE PassStep \/ PassLosesAnswer \/ PassDies
  BY <1>2, RoomReads, RoomStarts, RoomTransitions, RoomChooses, RoomPlaces, ZenonT(30) DEF PassStep
<1>3. CASE ReconcileStep
  BY <1>3, RoomFences, RoomTransitions, RoomChooses, ZenonT(30) DEF ReconcileStep
<1>4. CASE \E b \in Jobs : Accept(b) \/ ReconcileStarts(b)
  BY <1>4, RoomTransitions, RoomChooses, Zenon
<1>5. ASSUME NEW b \in Jobs, NEW r \in Roots, TargetHandles(r, b) \/ TargetStarts(r, b) \/ TargetEnds(r, b)
      PROVE  Room'
  <2>1. CASE TargetHandles(r, b)
    BY <2>1, RoomHandles, Zenon
  <2>2. CASE TargetStarts(r, b) \/ TargetEnds(r, b)
    <3>1. PICK v \in {"active", "ended"} :
            /\ tgt' = [tgt EXCEPT ![r][b] = v] /\ UNCHANGED <<rec, pub, pass>>
            /\ tgt[r][b] \in {"pending", "active"} /\ (v = "active" => tgt[r][b] = "pending")
      BY <2>2, Zenon DEF TargetStarts, TargetEnds
    <3>2. tgt[r][b] \in Accepted
      BY <3>1, Zenon DEF Accepted
    <3> QED
      BY <3>1, <3>2, RoomMovesOn, Zenon
  <2> QED
    BY <1>5, <2>1, <2>2, Zenon
<1>6. ASSUME NEW b \in Killed, KillReads(b) \/ KillCancels(b) \/ KillDecides(b) PROVE Room'
  BY <1>6, RoomKills, Zenon
<1>7. ASSUME NEW r \in Roots, TargetPublishes(r) PROVE Room'
  BY <1>7, RoomPublishes, Zenon
<1> QED
  BY <1>1, <1>2, <1>3, <1>4, <1>5, <1>6, <1>7, ZenonT(30) DEF Next

\* The broker never sends a target more work than it has slots, whatever copies
\* arrive late, however old the figures are, and although a charge is settled
\* long before its job ends.
THEOREM TargetsHaveRoom == Spec => []NoOverCommit
<1>1. Room => NoOverCommit
  <2> SUFFICES ASSUME Room, NEW r \in Roots PROVE Cardinality(Live(r)) <= Slots
    BY Zenon DEF NoOverCommit
  <2>1. Promised(r) \in SUBSET Jobs /\ Live(r) \in SUBSET Promised(r)
    BY Zenon DEF Promised, Live, Charged
  <2>2. /\ Cardinality(Live(r)) <= Cardinality(Promised(r))
        /\ Cardinality(Live(r)) \in Nat /\ Cardinality(Promised(r)) \in Nat
    BY <2>1, FewerJobs, Zenon
  <2> QED
    BY <2>2, BrokerAssumption DEF Room, BrokerAssumption
<1>2. Init => Inv /\ Room
  BY InvStarts, RoomAtFirst, Zenon
<1>3. Inv /\ Room /\ [Next]_vars => Inv' /\ Room'
  BY InvStays, RoomStep, Zenon
<1> QED
  BY <1>1, <1>2, <1>3, PTL DEF Spec
=============================================================================
