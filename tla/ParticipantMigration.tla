------------------------ MODULE ParticipantMigration ------------------------
(***************************************************************************)
(* A runtime migration whose participants are scheduler hosts behind a site *)
(* adapter (runtime_participant): every lane is prepared, applied, verified  *)
(* and recorded, or rolled back and verified again, as one journaled         *)
(* transaction under a drain lease on every host.  A call may be lost before *)
(* or after the adapter acts, or go on after vq stopped waiting; every       *)
(* command may die between two saves of its journal, and --resume,           *)
(* --rollback and --acknowledge continue from what was saved.                *)
(* The adapter is external: it is modelled from the protocol vq relies on.   *)
(***************************************************************************)
EXTENDS Integers, FiniteSets

CONSTANTS N,           \* lanes, one program on each of N hosts, in plan order
          MaxCommands  \* commands the operator runs

VARIABLES rt,       \* the runtime in service on each lane
          ops,      \* what the adapter knows of each operation id
          seen,     \* the last verification of the runtime now in service
          lease,    \* the migration's drain lease on each host
          ready,    \* a ready plan is stored
          jr,       \* transaction.json
          says,     \* what the authorities' status rows record of the migration
          cmd,      \* the command holding admin ownership: its copy of the journal
          side,     \* a command under the receipt's lock, without the ownership
          commands,
          gaps      \* what happened so far that the properties except

vars == <<rt, ops, seen, lease, ready, jr, says, cmd, side, commands, gaps>>

Lanes == 1..N
Steps == {"prepare", "apply", "verify", "rollback", "verify-rollback", "acknowledge"}

\* A journal row: never sent, sent and unanswered (needs_inspect), answered
\* without effect, answered ok, or a verification that answered unhealthy.
Row == {"none", "sent", "clear", "ok", "bad"}

States == {"none", "initializing", "applying", "verifying", "recording", "applied",
           "rolling_back", "rollback_unverified", "rolled_back", "acknowledged"}

Journal == [st: States, rows: [Steps -> [Lanes -> Row]], held: BOOLEAN,
            recs: {"none", "failed", "recorded"}]

NewRows == [s \in Steps |-> [l \in Lanes |-> "none"]]

NoJournal == [st |-> "none", rows |-> NewRows, held |-> FALSE, recs |-> "none"]

IdleCmd == [pc |-> "idle", rollback |-> FALSE, receipt |-> FALSE, mem |-> NoJournal]
IdleSide == [pc |-> "idle", rollback |-> FALSE, mem |-> NoJournal]

\* "stale": a command saved, or went on from, a copy of a journal that another
\* had saved since.  "pending": a rollback took a pending apply as never applied.
\* "release", "record": a command ended with leases released, or records
\* written, that its journal does not tell of.
Gaps == {"stale", "pending", "release", "record"}

\* One type invariant.
TypeOK ==
  /\ rt \in [Lanes -> {"old", "new"}]
  /\ ops \in [Steps -> [Lanes -> {"none", "busy", "done"}]]
  /\ seen \in [Lanes -> {"unverified", "healthy"}]
  /\ lease \in [Lanes -> BOOLEAN]
  /\ jr \in Journal
  /\ says \in {"nothing", "apply", "rollback"}
  /\ cmd \in [pc: {"idle", "prepare", "lease", "begin", "drive", "record", "release"},
              rollback: BOOLEAN, receipt: BOOLEAN, mem: Journal]
  /\ side \in [pc: {"idle", "read", "settle", "acknowledge"}, rollback: BOOLEAN, mem: Journal]
  /\ commands \in 0..MaxCommands
  /\ ready \in BOOLEAN /\ gaps \subseteq Gaps

Init ==
  /\ rt = [l \in Lanes |-> "old"]
  /\ ops = [s \in Steps |-> [l \in Lanes |-> "none"]]
  /\ seen = [l \in Lanes |-> "healthy"]
  /\ lease = [l \in Lanes |-> FALSE]
  /\ ready = FALSE /\ jr = NoJournal /\ says = "nothing"
  /\ cmd = IdleCmd /\ side = IdleSide /\ commands = 0 /\ gaps = {}

mem == cmd.mem

\* _save: the journal becomes the command's copy.
Save(m) == jr' = m /\ cmd' = [cmd EXCEPT !.mem = m]
SaveAndGo(m, pc) == jr' = m /\ cmd' = [cmd EXCEPT !.mem = m, !.pc = pc]
SaveAndExit(m) == jr' = m /\ cmd' = IdleCmd

External == UNCHANGED <<rt, ops, seen>>
Rest == UNCHANGED <<ready, side, commands, gaps>>

-----------------------------------------------------------------------------
(* The adapter.                                                               *)

Checks == {"verify", "verify-rollback"}

\* What an operation that is now in state o did to the runtime in service.
Effect(step, l, o) ==
  /\ ops' = [ops EXCEPT ![step][l] = o]
  /\ rt' = IF o = "done" /\ step = "apply" THEN [rt EXCEPT ![l] = "new"]
           ELSE IF o = "done" /\ step = "rollback" THEN [rt EXCEPT ![l] = "old"] ELSE rt

\* A runtime that was just put in service is unverified.
Fresh(step, l, o) ==
  IF o = "done" /\ ops[step][l] # "done" /\ step \in {"apply", "rollback"}
    THEN [seen EXCEPT ![l] = "unverified"] ELSE seen

\* An operation vq no longer waits for completes, or fails without effect.
AdapterSettles(step, l) ==
  /\ ops[step][l] = "busy"
  /\ \E o \in {"none", "done"} : Effect(step, l, o) /\ seen' = Fresh(step, l, o)
  /\ UNCHANGED <<lease, jr, says, cmd>> /\ Rest

\* An answer to a request: how far the adapter came and what vq learns.  An
\* answer that is lost or "unknown" may follow any outcome; an operation id
\* already done answers with its receipt again.
Answers(step, l) ==
  LET o == ops[step][l] IN
       {<<n, "sent">> : n \in IF o = "none" THEN {"none", "busy", "done"} ELSE {o}}
  \cup (IF o # "done" THEN {<<"busy", "pending">>} ELSE {})
  \cup (IF o = "none" THEN {<<o, "refused">>} ELSE {})
  \cup (IF o # "busy" THEN {<<"done", "ok">>} ELSE {})
  \cup (IF o # "busy" /\ step \in Checks THEN {<<"done", "bad">>} ELSE {})

\* An answer to inspect: applied, not applied, or in progress or no answer.
Inspections(step, l) ==
  LET o == ops[step][l] IN
       {<<o, "sent">>}
  \cup (IF o = "none" THEN {<<o, "clear">>} ELSE {})
  \cup (IF o = "done" THEN {<<o, "ok">>} ELSE {})
  \cup (IF o = "done" /\ step \in Checks THEN {<<o, "bad">>} ELSE {})

-----------------------------------------------------------------------------
(* One journaled call (_rpc, _resolve_by_inspect).                            *)

WithRow(m, step, l, answer) ==
  [m EXCEPT !.rows[step][l] = IF answer \in {"pending", "refused"} THEN "clear" ELSE answer]

\* A row whose answer was lost is inspected before it is sent again.
Replies(m, step, l) ==
  IF m.rows[step][l] = "sent" THEN Inspections(step, l) ELSE Answers(step, l)

\* On a refusal nothing changed there: the lease goes, unless a lane applied.
KeepsNothing(m) == FALSE  \* mutant: a refusal always ends the lease
KeepsLease(m) == \E k \in Lanes : m.rows["apply"][k] = "ok"

\* What the adapter did, and what a verification shows.
Acts(step, l, o, answer) ==
  /\ Effect(step, l, o)
  /\ seen' = IF step \in Checks /\ answer = "ok" THEN [seen EXCEPT ![l] = "healthy"]
             ELSE IF step \in Checks /\ answer = "bad" THEN [seen EXCEPT ![l] = "unverified"]
             ELSE Fresh(step, l, o)

\* An unanswered row keeps needs_inspect and ends the command with its lease;
\* "pending" ends it too, but the row is cleared.
Receive(step, l, o, answer) ==
  LET m == WithRow(mem, step, l, answer) IN
  /\ Acts(step, l, o, answer)
  /\ jr' = m
  /\ cmd' = IF answer \in {"sent", "pending"} \/ (answer = "refused" /\ KeepsLease(m))
              THEN IdleCmd
              ELSE [cmd EXCEPT !.mem = m, !.pc = IF answer = "refused" THEN "release" ELSE @]

Inspect(step, l) == \E a \in Inspections(step, l) : Receive(step, l, a[1], a[2])
Call(step, l) == \E a \in Replies(mem, step, l) : Receive(step, l, a[1], a[2])

Unanswered(m, step, l) == m.rows[step][l] \in {"none", "sent", "clear"}
Open(step, l) == Unanswered(mem, step, l)

-----------------------------------------------------------------------------
(* Prepare.                                                                   *)

StartPrepare ==
  /\ cmd.pc = "idle" /\ ~ready /\ jr.st = "none" /\ commands < MaxCommands
  /\ commands' = commands + 1
  /\ cmd' = [IdleCmd EXCEPT !.pc = "prepare"]
  /\ UNCHANGED <<lease, ready, jr, says, side, gaps>> /\ External

\* _until_done: a pending build is polled to its end; a repeat of the whole
\* command draws new operation ids.  The ready plan is stored after the last.
PrepareLane(l) ==
  /\ cmd.pc = "prepare" /\ mem.rows["prepare"][l] # "ok"
  /\ \A k \in 1..(l - 1) : mem.rows["prepare"][k] = "ok"
  /\ \/ cmd' = [cmd EXCEPT !.mem = WithRow(mem, "prepare", l, "ok")]
     \/ cmd' = IdleCmd
  /\ UNCHANGED <<lease, jr, says>> /\ External /\ Rest

StoreReady ==
  /\ cmd.pc = "prepare" /\ \A l \in Lanes : mem.rows["prepare"][l] = "ok"
  /\ ready' = TRUE /\ cmd' = IdleCmd
  /\ UNCHANGED <<lease, jr, says, side, commands, gaps>> /\ External

-----------------------------------------------------------------------------
(* Apply, and the recovery of an interrupted transaction.                     *)

\* participant_apply: the inventories and bindings are those of the ready plan;
\* the receipt directory is new, and its lock is not taken.
StartApply ==
  /\ cmd.pc = "idle" /\ ready /\ jr.st = "none" /\ commands < MaxCommands
  /\ commands' = commands + 1
  /\ jr' = [NoJournal EXCEPT !.st = "initializing"]
  /\ cmd' = [IdleCmd EXCEPT !.pc = "lease", !.mem = [NoJournal EXCEPT !.st = "initializing"]]
  /\ UNCHANGED <<lease, ready, says, side, gaps>> /\ External

\* recover holds the receipt's own lock to its end, which refuses another one.
ReceiptIsFree == side.pc = "idle" /\ ~cmd.receipt

\* It reads the journal ...
ReadJournal(rollback) ==
  /\ ReceiptIsFree /\ jr.st # "none" /\ commands < MaxCommands
  /\ commands' = commands + 1
  /\ side' = [pc |-> "read", rollback |-> rollback, mem |-> jr]
  /\ UNCHANGED <<lease, ready, jr, says, cmd, gaps>> /\ External

Changed(m) == IF m # jr THEN {"stale"} ELSE {}

\* ... and only then takes the ownership, which an apply in progress refuses.
\* A finished transaction is returned or refused; an applied one is recorded
\* again where that failed, without the ownership.
StartRecover ==
  LET m == side.mem
      settles == m.st = "applied" /\ ~side.rollback /\ m.recs = "failed"
      over == \/ m.st \in {"rolled_back", "acknowledged"}
              \/ m.st = "applied" /\ ~side.rollback /\ ~settles
  IN
  /\ side.pc = "read"
  /\ IF settles THEN side' = [side EXCEPT !.pc = "settle"] /\ UNCHANGED <<cmd, gaps>>
     ELSE IF over \/ cmd.pc # "idle" THEN side' = IdleSide /\ UNCHANGED <<cmd, gaps>>
     ELSE /\ cmd' = [pc |-> "lease", rollback |-> side.rollback, receipt |-> TRUE, mem |-> m]
          /\ side' = IdleSide /\ gaps' = gaps \cup Changed(m)
  /\ UNCHANGED <<lease, ready, jr, says, commands>> /\ External

\* _run: the lease on every host unless the journal says it is held.
AcquireLease ==
  /\ cmd.pc = "lease"
  /\ \/ mem.held /\ cmd' = [cmd EXCEPT !.pc = "begin"] /\ UNCHANGED <<lease, jr>>
     \/ /\ ~mem.held /\ \E l \in Lanes : ~lease[l]
        /\ \/ \E l \in Lanes : /\ ~lease[l] /\ \A k \in 1..(l - 1) : lease[k]
                               /\ lease' = [lease EXCEPT ![l] = TRUE]
              /\ UNCHANGED cmd
           \/ cmd' = IdleCmd /\ UNCHANGED lease
        /\ UNCHANGED jr
     \/ /\ ~mem.held /\ \A l \in Lanes : lease[l]
        /\ SaveAndGo([mem EXCEPT !.held = TRUE], "begin") /\ UNCHANGED lease
  /\ UNCHANGED says /\ External /\ Rest

Backward == cmd.rollback \/ mem.st \in {"rolling_back", "rollback_unverified"}

\* A lane needs no rollback when its apply was never sent or had no effect.
UntouchedUnlessOk(l) == mem.rows["apply"][l] # "ok"  \* mutant: a lost answer is "never applied"
Untouched(l) == mem.rows["apply"][l] \in {"none", "clear"}

\* _drive begins: forward it applies (rows already answered are not sent again);
\* backward, a rollback that did not verify is verified over, with new ids.
Begin ==
  LET again == Backward /\ mem.st = "rollback_unverified"
      m == [mem EXCEPT !.st = IF Backward THEN "rolling_back" ELSE "applying"]
      passed == /\ Backward
                /\ \E l \in Lanes : mem.rows["apply"][l] = "clear" /\ ops["apply"][l] # "none"
  IN
  /\ cmd.pc = "begin"
  /\ SaveAndGo(IF again THEN [m EXCEPT !.rows["verify-rollback"] = NewRows["verify-rollback"]]
               ELSE m, "drive")
  /\ ops' = IF again THEN [ops EXCEPT !["verify-rollback"] = [l \in Lanes |-> "none"]] ELSE ops
  /\ gaps' = IF passed THEN gaps \cup {"pending"} ELSE gaps
  /\ UNCHANGED <<rt, seen, lease, says, ready, side, commands>>

\* The forward half of _drive: apply every lane, verify every lane, record.
ApplyLane(l) ==
  /\ cmd.pc = "drive" /\ ~Backward /\ mem.st = "applying"
  /\ Open("apply", l) /\ \A k \in 1..(l - 1) : ~Open("apply", k)
  /\ Call("apply", l)
  /\ UNCHANGED <<lease, says>> /\ Rest

VerifyLane(l) ==
  /\ cmd.pc = "drive" /\ ~Backward /\ mem.st = "verifying"
  /\ Open("verify", l) /\ \A k \in 1..(l - 1) : ~Open("verify", k)
  /\ \A k \in Lanes : mem.rows["verify"][k] # "bad"
  /\ Call("verify", l)
  /\ UNCHANGED <<lease, says>> /\ Rest

\* The state changes of _drive between its loops; an unhealthy verification
\* turns it round.
Advance ==
  /\ cmd.pc = "drive" /\ ~Backward
  /\ \/ /\ mem.st = "applying" /\ \A l \in Lanes : mem.rows["apply"][l] = "ok"
        /\ Save([mem EXCEPT !.st = "verifying"])
     \/ /\ mem.st = "verifying" /\ \E l \in Lanes : mem.rows["verify"][l] = "bad"
        /\ cmd' = [cmd EXCEPT !.rollback = TRUE, !.pc = "begin"] /\ UNCHANGED jr
     \/ /\ mem.st = "verifying" /\ \A l \in Lanes : mem.rows["verify"][l] = "ok"
        /\ SaveAndGo([mem EXCEPT !.st = "recording"], "record")
  /\ UNCHANGED <<lease, says>> /\ External /\ Rest

\* The backward half.
Undone(l) == Untouched(l) \/ mem.rows["verify-rollback"][l] = "ok"

RollBackLane(l) ==
  /\ cmd.pc = "drive" /\ Backward /\ mem.st = "rolling_back"
  /\ ~Undone(l) /\ \A k \in 1..(l - 1) : Undone(k)
  /\ IF mem.rows["apply"][l] = "sent" THEN Inspect("apply", l)
     ELSE IF Open("rollback", l) THEN Call("rollback", l)
     ELSE IF mem.rows["verify-rollback"][l] = "bad"
       THEN SaveAndExit([mem EXCEPT !.st = "rollback_unverified"]) /\ External
     ELSE Call("verify-rollback", l)
  /\ UNCHANGED <<lease, says>> /\ Rest

FinishRollback ==
  /\ cmd.pc = "drive" /\ Backward /\ mem.st = "rolling_back"
  /\ \A l \in Lanes : Undone(l)
  /\ IF mem.recs # "none" THEN cmd' = [cmd EXCEPT !.pc = "record"] /\ UNCHANGED jr
     ELSE SaveAndGo([mem EXCEPT !.st = "rolled_back"], "release")
  /\ UNCHANGED <<lease, says>> /\ External /\ Rest

\* What the authorities' rows may say after record_migration on each of them.
Says(r, back) ==
  (IF r = "failed" THEN {says} ELSE {}) \cup {IF back THEN "rollback" ELSE "apply"}

\* _record_everywhere, then the final state in the same save; the crash in
\* between is DieRecording.
Record ==
  LET back == mem.st = "rolling_back" IN
  /\ cmd.pc = "record"
  /\ \E r \in {"recorded", "failed"} :
       /\ says' \in Says(r, back)
       /\ SaveAndGo([mem EXCEPT !.recs = r, !.st = IF back THEN "rolled_back" ELSE "applied"],
                    "release")
  /\ UNCHANGED lease /\ External /\ Rest

\* The lease is released host by host, then the journal says so.
ReleaseLease ==
  /\ cmd.pc = "release"
  /\ \/ /\ \E l \in Lanes : /\ lease[l] /\ \A k \in 1..(l - 1) : ~lease[k]
                            /\ lease' = [lease EXCEPT ![l] = FALSE]
        /\ UNCHANGED <<cmd, jr>>
     \/ /\ \A l \in Lanes : ~lease[l]
        /\ SaveAndExit([mem EXCEPT !.held = FALSE]) /\ UNCHANGED lease
  /\ UNCHANGED says /\ External /\ Rest

\* The command dies (or a lease command fails).
Die ==
  /\ cmd.pc # "idle" /\ cmd' = IdleCmd
  /\ gaps' = IF cmd.pc = "release" /\ \E l \in Lanes : ~lease[l]
               THEN gaps \cup {"release"} ELSE gaps
  /\ UNCHANGED <<lease, ready, jr, says, side, commands>> /\ External

\* It dies after some authority recorded and before the save.
DieRecording ==
  /\ cmd.pc = "record" /\ cmd' = IdleCmd
  /\ says' = IF mem.st = "rolling_back" THEN "rollback" ELSE "apply"
  /\ gaps' = gaps \cup {"record"}
  /\ UNCHANGED <<lease, ready, jr, side, commands>> /\ External

-----------------------------------------------------------------------------
(* What runs under the receipt's lock alone, also while an apply ends.        *)

SideSave(m) == jr' = m /\ gaps' = gaps \cup Changed(side.mem)

\* participant_recover of an applied transaction: recorded again.
Settle ==
  /\ side.pc = "settle"
  /\ \E r \in {"recorded", "failed"} :
       says' \in Says(r, FALSE) /\ SideSave([side.mem EXCEPT !.recs = r])
  /\ side' = IdleSide
  /\ UNCHANGED <<lease, ready, cmd, commands>> /\ External

\* participant_acknowledge: terminal on every participant.
StartAcknowledge ==
  /\ ReceiptIsFree /\ commands < MaxCommands
  /\ jr.st = "applied" /\ jr.recs = "recorded"
  /\ commands' = commands + 1
  /\ side' = [pc |-> "acknowledge", rollback |-> FALSE, mem |-> jr]
  /\ UNCHANGED <<lease, ready, jr, says, cmd, gaps>> /\ External

AcknowledgeLane(l) ==
  /\ side.pc = "acknowledge" /\ Unanswered(side.mem, "acknowledge", l)
  /\ \A k \in 1..(l - 1) : ~Unanswered(side.mem, "acknowledge", k)
  /\ \E a \in Replies(side.mem, "acknowledge", l) :
       LET m == WithRow(side.mem, "acknowledge", l, a[2]) IN
       /\ Acts("acknowledge", l, a[1], a[2]) /\ SideSave(m)
       /\ side' = IF a[2] \in {"sent", "pending", "refused"} THEN IdleSide
                  ELSE [side EXCEPT !.mem = m]
  /\ UNCHANGED <<lease, ready, says, cmd, commands>>

FinishAcknowledge ==
  /\ side.pc = "acknowledge" /\ \A l \in Lanes : ~Unanswered(side.mem, "acknowledge", l)
  /\ SideSave([side.mem EXCEPT !.st = "acknowledged"]) /\ side' = IdleSide
  /\ UNCHANGED <<lease, ready, says, cmd, commands>> /\ External

\* It dies, a settling one perhaps after some authority recorded.
SideDies ==
  /\ side.pc # "idle" /\ side' = IdleSide
  /\ says' \in IF side.pc = "settle" THEN {says, "apply"} ELSE {says}
  /\ UNCHANGED <<lease, ready, jr, cmd, commands, gaps>> /\ External

Next ==
  \/ StartPrepare \/ StoreReady \/ StartApply \/ StartRecover \/ AcquireLease
  \/ Begin \/ Advance \/ FinishRollback \/ Record \/ ReleaseLease
  \/ Die \/ DieRecording \/ Settle \/ StartAcknowledge \/ FinishAcknowledge \/ SideDies
  \/ \E rollback \in BOOLEAN : ReadJournal(rollback)
  \/ \E l \in Lanes :
       \/ PrepareLane(l) \/ ApplyLane(l) \/ VerifyLane(l) \/ RollBackLane(l)
       \/ AcknowledgeLane(l)
       \/ \E s \in Steps : AdapterSettles(s, l)

Spec == Init /\ [][Next]_vars

-----------------------------------------------------------------------------
(* Properties.                                                                *)

\* The journal of a finished transaction tells the truth about every host, for
\* every order of lost, late and repeated calls: "applied" and "acknowledged"
\* mean every lane runs the new runtime and was verified, "rolled_back" that
\* every lane runs the old one again and no apply is still at work; and the
\* rows of the authorities record the same (runtime_participant._drive, _rpc,
\* _resolve_by_inspect, _record_everywhere).  Not covered: a command that saved
\* or went on from a journal changed since it read it; a rollback after an
\* apply that was answered with "pending"; and, for the rows, a command that died
\* between them and its save.
FinishedIsTrue ==
  {"stale", "pending"} \cap gaps = {} =>
    /\ jr.st \in {"applied", "acknowledged"} =>
         \A l \in Lanes : rt[l] = "new" /\ jr.rows["verify"][l] = "ok"
    /\ jr.st = "rolled_back" =>
         \A l \in Lanes : rt[l] = "old" /\ ops["apply"][l] # "busy"
    /\ "record" \notin gaps /\ jr.recs = "recorded" =>
         /\ jr.st \in {"applied", "acknowledged"} => says = "apply"
         /\ jr.st = "rolled_back" => says = "rollback"

\* A lane whose runtime in service is not verified stays under the lease until
\* it is ("the lease is kept"), over lost, late and repeated calls, refusals and
\* deaths while lanes are applied, verified, rolled back or recorded: jobs are
\* not handed to a runtime nobody checked (_run, _drive).  Not covered: the two
\* first cases of FinishedIsTrue, and a release of the lease that failed or died
\* halfway; the journal then still says that the lease is held, and a later
\* resume or rollback does not take it again (_run, "held").
LeaseCoversUnverified ==
  {"stale", "pending", "release"} \cap gaps = {} =>
    \A l \in Lanes : seen[l] = "unverified" => lease[l]

\* Without its exemption for a release that was cut off, which _run's comment
\* does not make: "An applied runtime is active but unverified: keep the lease."
LeaseIsKept ==
  {"stale", "pending"} \cap gaps = {} =>
    \A l \in Lanes : seen[l] = "unverified" => lease[l]

\* A rolled-back transaction left nothing applied, pending calls included
\* (_drive: "a lost answer is an unknown outcome, not 'never applied'").
RolledBackIsOld ==
  "stale" \notin gaps /\ jr.st = "rolled_back" => \A l \in Lanes : rt[l] = "old"
=============================================================================
