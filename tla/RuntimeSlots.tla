---------------------------- MODULE RuntimeSlots ----------------------------
(***************************************************************************)
(* The store of immutable runtime generations of one registered program:   *)
(* releases/<sha> built in place by an update (admin._do_slot_update_work   *)
(* over runtime_slots), the current and previous pointers, the reviewed     *)
(* removal of old generations (runtime_retention), and the jobs that run    *)
(* from a generation.  An update, a retention and a build child that        *)
(* outlived its update exclude each other through the store's lifecycle     *)
(* lock; jobs take no lock.  Any process may die between two of its file    *)
(* operations, and a tree is removed file by file.                          *)
(***************************************************************************)
EXTENDS Integers, FiniteSets

CONSTANTS Shas, Jobs, NoSha,
          Firsts,   \* the generation the store begins with, or NoSha
          MaxTx,    \* transaction ids drawn: bounds the builds attempted
          MaxInos,  \* pointer files written after the first
          Keep      \* --keep of the retention plan

ASSUME SlotsAssumption ==
  /\ NoSha \notin Shas /\ Firsts \subseteq Shas \cup {NoSha}
  /\ MaxTx \in Nat /\ MaxInos \in Nat

VARIABLES slot,       \* releases/<sha> and its sibling build receipt
          current,    \* the two pointers: [sha, ino], ino the link's identity
          previous,
          inos,       \* identities given to pointer links so far
          upd,        \* the update process
          txs,        \* transaction ids drawn so far
          lock,       \* the lifecycle lock of the store
          marker,     \* the admin-update-in-progress marker
          ret,        \* the retention command
          job,        \* the specs and their processes
          raced,      \* jobs that had selected, not recorded, at a census
          torn        \* generations whose removal was begun

svars == <<slot, current, previous, inos, upd, txs, lock, marker, ret, job,
           raced, torn>>

-----------------------------------------------------------------------------
(* A generation: whether its directory exists, the state marker and its      *)
(* transaction, the immutable marker in the virtualenv, what the trees hold  *)
(* ("whole" is the content as it was built) and the sibling build receipt.   *)

Slot == [there: BOOLEAN, mark: {"none", "building", "verified"}, tx: 0..MaxTx,
         sealed: BOOLEAN, body: {"none", "some", "whole"}, receipt: 0..MaxTx]

NoSlot == [there |-> FALSE, mark |-> "none", tx |-> 0, sealed |-> FALSE,
           body |-> "none", receipt |-> 0]

\* _verified_markers_match raises when the state marker says verified and the
\* immutable marker cannot be read; every caller then refuses.
MarkersUnreadable(s) == slot[s].mark = "verified" /\ ~slot[s].sealed

Verified(s) == slot[s].there /\ slot[s].mark = "verified" /\ slot[s].sealed

\* The digests of source and virtualenv are those of the seal.
ContentMatches(s) == slot[s].body = "whole"

\* _assert_generation(verify_content=True).
Intact(s) == Verified(s) /\ ContentMatches(s)

\* The receipt and the state marker of a failed build name one transaction; a
\* directory without the marker must be empty.
Ours(s) ==
  LET g == slot[s]
      empty == g.mark = "none" /\ g.body = "none" /\ ~g.sealed
  IN g.receipt # 0 /\ (empty \/ (g.mark = "building" /\ g.tx = g.receipt))

Pointer == [sha: Shas \cup {NoSha}, ino: 0..MaxInos]

\* resolve_current and _previous_sha raise when the pointer names a generation
\* that is not verified.
Readable(p) == p.sha # NoSha => Verified(p.sha)

-----------------------------------------------------------------------------
(* Jobs.  A "program" job binds the generation the daemon selects and records*)
(* before it starts; a "launcher" job runs a stable launcher that resolves   *)
(* current at exec and leaves no record.                                     *)

Job == [st: {"none", "pending", "admitted", "selected", "running", "done"},
        via: {"program", "launcher"}, pin: Shas \cup {NoSha},
        held: Shas \cup {NoSha}, rec: Shas \cup {NoSha}]

Live(j) == job[j].st \notin {"none", "done"}

\* slots_in_use: a live local spec whose command names no exact generation
\* path may be running any of them.
SlotsInUse == IF \E j \in Jobs : Live(j) THEN {s \in Shas : slot[s].there} ELSE {}

-----------------------------------------------------------------------------
Upd == [pc: {"idle", "begin", "clean", "cleaned", "reserve", "mkdir", "mark",
             "source", "ancestry", "seed", "build", "seal", "state", "unlink", "reuse", "activate",
             "point"},
        sha: Shas \cup {NoSha}, tx: 0..MaxTx, again: BOOLEAN, prep: BOOLEAN]

IdleUpd == [pc |-> "idle", sha |-> NoSha, tx |-> 0, again |-> FALSE, prep |-> FALSE]

Ret == [pc: {"idle", "reviewed", "next", "pointer", "tree", "rest"},
        drop: BOOLEAN, cands: SUBSET Shas, cur: Pointer, prev: Pointer,
        cleared: BOOLEAN, at: Shas \cup {NoSha}]

IdleRet == [pc |-> "idle", drop |-> FALSE, cands |-> {},
            cur |-> [sha |-> NoSha, ino |-> 0], prev |-> [sha |-> NoSha, ino |-> 0],
            cleared |-> FALSE, at |-> NoSha]

\* One type invariant: the fields of the store, the processes and the jobs.
SlotsTypeOK ==
  /\ slot \in [Shas -> Slot]
  /\ current \in Pointer /\ previous \in Pointer
  /\ inos \in 0..MaxInos /\ txs \in 0..MaxTx
  /\ upd \in Upd /\ ret \in Ret
  /\ lock \in {"free", "update", "child", "retain", "migrate"}
  /\ marker \in BOOLEAN
  /\ job \in [Jobs -> Job]
  /\ raced \subseteq Jobs /\ torn \subseteq Shas

SlotsInit ==
  /\ \E first \in Firsts :
       /\ slot = [s \in Shas |-> IF s = first
                                 THEN [there |-> TRUE, mark |-> "verified", tx |-> 0,
                                       sealed |-> TRUE, body |-> "whole", receipt |-> 0]
                                 ELSE NoSlot]
       /\ current = [sha |-> first, ino |-> 0]
  /\ previous = [sha |-> NoSha, ino |-> 0]
  /\ inos = 0 /\ txs = 0
  /\ upd = IdleUpd /\ lock = "free" /\ marker = FALSE
  /\ ret = IdleRet
  /\ job = [j \in Jobs |-> [st |-> "none", via |-> "program", pin |-> NoSha,
                            held |-> NoSha, rec |-> NoSha]]
  /\ raced = {} /\ torn = {}

-----------------------------------------------------------------------------
(* The update.  Its exit releases the lock and removes the admin marker; a    *)
(* preparation for a migration (prep) has no marker and does not activate.    *)

UpdateExit ==
  /\ upd' = IdleUpd /\ lock' = "free"
  /\ marker' = (marker /\ upd.prep)

To(pc) == /\ upd' = [upd EXCEPT !.pc = pc]
          /\ UNCHANGED <<lock, marker>>

StoreSame == UNCHANGED <<current, previous, inos>>
OthersSame == UNCHANGED <<ret, job, raced>>

\* Ownership, the lifecycle lock of the store and of the future checkout, the
\* marker guard; a target that is already current needs no work
\* (_slot_already_current).  The transaction id is drawn.
UpdateStart(s, prep) ==
  /\ upd.pc = "idle" /\ lock = "free" /\ ~marker
  /\ txs < MaxTx
  /\ prep \/ ~(current.sha = s /\ Verified(s))
  /\ txs' = txs + 1
  /\ upd' = [pc |-> "begin", sha |-> s, tx |-> txs + 1, again |-> FALSE, prep |-> prep]
  /\ lock' = "update" /\ marker' = ~prep
  /\ UNCHANGED <<slot, torn>> /\ StoreSame /\ OthersSame

\* begin_slot_build on the generation as it stands.  A verified one is reused
\* and its left-over receipt removed; a failed one is resealed when only the
\* seal is missing, or cleaned when receipt and marker name one transaction
\* and nothing may use it; anything else is refused.
BeginBuild ==
  LET s == upd.sha
      g == slot[s]
      referenced == {current.sha, previous.sha} \cup SlotsInUse
  IN
  /\ upd.pc = "begin"
  /\ \/ /\ Verified(s)
        /\ IF g.receipt # 0 /\ g.receipt # g.tx
             THEN UpdateExit /\ UNCHANGED slot
             ELSE To("reuse") /\ slot' = [slot EXCEPT ![s].receipt = 0]
     \/ /\ ~Verified(s) /\ ~MarkersUnreadable(s) /\ (g.there \/ g.receipt # 0)
        /\ IF ~g.there /\ g.receipt # 0 THEN To("cleaned")
           ELSE IF ~Ours(s) THEN UpdateExit
           ELSE IF g.sealed THEN upd' = [upd EXCEPT !.pc = "state", !.tx = g.tx,
                                                     !.again = TRUE]
                                 /\ UNCHANGED <<lock, marker>>
           ELSE IF ~Readable(current) \/ ~Readable(previous) \/ s \in referenced
             THEN UpdateExit
           ELSE To("clean")
        /\ UNCHANGED slot
     \/ MarkersUnreadable(s) /\ UpdateExit /\ UNCHANGED slot
     \/ ~g.there /\ g.receipt = 0 /\ To("reserve") /\ UNCHANGED slot
  /\ UNCHANGED <<txs, torn>> /\ StoreSame /\ OthersSame

\* What rmtree has left when it is interrupted: any part of the tree.
PartRemoved(g) ==
  {[g EXCEPT !.mark = m, !.tx = IF m = "none" THEN 0 ELSE g.tx, !.sealed = z,
             !.body = IF g.body = "none" THEN "none" ELSE "some"] :
     m \in {"none", g.mark}, z \in {FALSE, g.sealed}}

\* shutil.rmtree of a failed generation, in two steps: part of it, and the rest.
CleanTree ==
  LET s == upd.sha IN
  /\ upd.pc = "clean" /\ slot[s].there
  /\ IF s \notin torn
       THEN /\ \E g \in PartRemoved(slot[s]) : slot' = [slot EXCEPT ![s] = g]
            /\ torn' = torn \cup {s} /\ To("clean")
       ELSE /\ slot' = [slot EXCEPT ![s] = [NoSlot EXCEPT !.receipt = slot[s].receipt]]
            /\ torn' = torn \ {s} /\ To("cleaned")
  /\ UNCHANGED txs /\ StoreSame /\ OthersSame

DropReceipt ==
  /\ upd.pc = "cleaned"
  /\ slot' = [slot EXCEPT ![upd.sha].receipt = 0]
  /\ To("reserve") /\ UNCHANGED <<txs, torn>> /\ StoreSame /\ OthersSame

\* The receipt is durable before the directory exists, the state marker last.
Reserve ==
  /\ upd.pc = "reserve"
  /\ slot' = [slot EXCEPT ![upd.sha].receipt = upd.tx]
  /\ To("mkdir") /\ UNCHANGED <<txs, torn>> /\ StoreSame /\ OthersSame

MakeDirectory ==
  /\ upd.pc = "mkdir"
  /\ slot' = [slot EXCEPT ![upd.sha].there = TRUE]
  /\ To("mark") /\ UNCHANGED <<txs, torn>> /\ StoreSame /\ OthersSame

MarkBuilding ==
  /\ upd.pc = "mark"
  /\ slot' = [slot EXCEPT ![upd.sha].mark = "building", ![upd.sha].tx = upd.tx]
  /\ To("source") /\ UNCHANGED <<txs, torn>> /\ StoreSame /\ OthersSame

\* The clone, the ancestry gate and native seeding: each may refuse and leaves
\* the failed generation for a retry.
MaterializeSource ==
  /\ upd.pc = "source"
  /\ slot' = [slot EXCEPT ![upd.sha].body = "some"]
  /\ To("ancestry") \/ UpdateExit
  /\ UNCHANGED <<txs, torn>> /\ StoreSame /\ OthersSame

AncestryGate ==
  /\ upd.pc = "ancestry"
  /\ To("seed") \/ UpdateExit
  /\ UNCHANGED <<slot, txs, torn>> /\ StoreSame /\ OthersSame

\* With an adapter the natives of the current generation are copied into the
\* new one; without a donor, or when the adapter holds, the build stops.
SeedNatives ==
  /\ upd.pc = "seed"
  /\ \E adapter \in BOOLEAN :
       \/ (adapter => current.sha # NoSha /\ Verified(current.sha)) /\ To("build")
       \/ adapter /\ UpdateExit
  /\ UNCHANGED <<slot, txs, torn>> /\ StoreSame /\ OthersSame

\* _do_update_work inside the slot: scripts, checks, or a failure.
RunBuild ==
  /\ upd.pc = "build"
  /\ \/ slot' = [slot EXCEPT ![upd.sha].body = "whole"] /\ To("seal")
     \/ UpdateExit /\ UNCHANGED slot
  /\ UNCHANGED <<txs, torn>> /\ StoreSame /\ OthersSame

\* seal_slot_build: the markers must be this transaction's; then the immutable
\* marker, the verified state and the removal of the receipt, in this order.
SealImmutable ==
  /\ upd.pc = "seal"
  /\ IF slot[upd.sha].tx = upd.tx /\ slot[upd.sha].receipt = upd.tx
       THEN slot' = [slot EXCEPT ![upd.sha].sealed = TRUE] /\ To("state")
       ELSE UpdateExit /\ UNCHANGED slot
  /\ UNCHANGED <<txs, torn>> /\ StoreSame /\ OthersSame

SealState ==
  /\ upd.pc = "state"
  /\ slot' = [slot EXCEPT ![upd.sha].mark = "verified"]
  /\ To("unlink") /\ UNCHANGED <<txs, torn>> /\ StoreSame /\ OthersSame

UnlinkReceipt ==
  /\ upd.pc = "unlink"
  /\ slot' = [slot EXCEPT ![upd.sha].receipt = 0]
  /\ IF upd.again THEN To("reuse")
     ELSE IF upd.prep THEN UpdateExit ELSE To("activate")
  /\ UNCHANGED <<txs, torn>> /\ StoreSame /\ OthersSame

\* The reused generation is probed again before it is activated.
ProbeReused ==
  /\ upd.pc = "reuse"
  /\ (IF upd.prep THEN UpdateExit ELSE To("activate")) \/ UpdateExit
  /\ UNCHANGED <<slot, txs, torn>> /\ StoreSame /\ OthersSame

\* activate: the content seal is checked, previous takes the prior generation,
\* then one rename moves current.
ActivatePrevious ==
  /\ upd.pc = "activate"
  /\ IF ~Intact(upd.sha) \/ ~Readable(current) \/ current.sha = upd.sha
       THEN UpdateExit /\ StoreSame
     ELSE IF current.sha = NoSha THEN To("point") /\ StoreSame
     ELSE /\ inos < MaxInos /\ inos' = inos + 1
          /\ previous' = [sha |-> current.sha, ino |-> inos + 1]
          /\ To("point") /\ UNCHANGED current
  /\ UNCHANGED <<slot, txs, torn>> /\ OthersSame

ActivateCurrent ==
  /\ upd.pc = "point"
  /\ inos < MaxInos /\ inos' = inos + 1
  /\ current' = [sha |-> upd.sha, ino |-> inos + 1]
  /\ UpdateExit
  /\ UNCHANGED <<slot, previous, txs, torn>> /\ OthersSame

\* The update dies.  The lock's descriptors are inherited by the build child,
\* which keeps writing and keeps the store locked until it exits.
UpdateDies ==
  /\ upd.pc # "idle"
  /\ upd' = IdleUpd
  /\ lock' = IF upd.pc = "build" THEN "child" ELSE "free"
  /\ UNCHANGED <<slot, txs, torn, marker>> /\ StoreSame /\ OthersSame

ChildExits ==
  /\ lock = "child" /\ lock' = "free"
  /\ UNCHANGED <<slot, upd, txs, torn, marker>> /\ StoreSame /\ OthersSame

\* The operator clears the marker an interrupted update left.
ClearMarker ==
  /\ marker /\ lock = "free" /\ marker' = FALSE
  /\ UNCHANGED <<slot, upd, txs, torn, lock>> /\ StoreSame /\ OthersSame

UpdateNext ==
  \/ \E s \in Shas : UpdateStart(s, FALSE)
  \/ BeginBuild \/ CleanTree \/ DropReceipt \/ Reserve \/ MakeDirectory
  \/ MarkBuilding \/ MaterializeSource \/ AncestryGate \/ SeedNatives
  \/ RunBuild \/ SealImmutable
  \/ SealState \/ UnlinkReceipt \/ ProbeReused \/ ActivatePrevious
  \/ ActivateCurrent \/ UpdateDies \/ ChildExits \/ ClearMarker

-----------------------------------------------------------------------------
(* Jobs.                                                                      *)

StoreAndAdmin == <<slot, current, previous, inos, upd, txs, lock, marker, ret, torn>>

NewJob(via, pin) ==
  [st |-> "pending", via |-> via, pin |-> pin, held |-> NoSha, rec |-> NoSha]

\* A pin names the generation that is current when the submission is checked.
SubmitJob(j, via, pin) ==
  /\ job[j].st = "none"
  /\ pin # NoSha => via = "program" /\ pin = current.sha /\ Verified(pin)
  /\ job' = [job EXCEPT ![j] = NewJob(via, pin)]
  /\ UNCHANGED <<StoreAndAdmin, raced>>

\* One dispatch pass reads the marker before it walks its jobs; a job that does
\* not name the program is not held by the program's marker.
AdmitJob(j) ==
  /\ job[j].st = "pending"
  /\ job[j].via = "program" => ~marker
  /\ job' = [job EXCEPT ![j].st = "admitted"]
  /\ UNCHANGED <<StoreAndAdmin, raced>>

\* execution_program: the pin's retained generation, or current; a generation
\* that is gone or unverified fails the job.
SelectRuntime(j) ==
  LET s == IF job[j].pin # NoSha THEN job[j].pin ELSE current.sha IN
  /\ job[j].st = "admitted" /\ job[j].via = "program"
  /\ IF s # NoSha /\ Verified(s)
       THEN job' = [job EXCEPT ![j].st = "selected", ![j].held = s]
       ELSE job' = [job EXCEPT ![j].st = "done"]
  /\ UNCHANGED <<StoreAndAdmin, raced>>

\* _persist_program_runtime_resolution, then the start of the command.
RecordAndStart(j) ==
  /\ job[j].st = "selected"
  /\ job' = [job EXCEPT ![j].st = "running", ![j].rec = job[j].held]
  /\ UNCHANGED <<StoreAndAdmin, raced>>

\* exec_current_python from a stable launcher.
StartLauncher(j) ==
  /\ job[j].st = "admitted" /\ job[j].via = "launcher"
  /\ IF current.sha # NoSha /\ Verified(current.sha)
       THEN job' = [job EXCEPT ![j].st = "running", ![j].held = current.sha]
       ELSE job' = [job EXCEPT ![j].st = "done"]
  /\ UNCHANGED <<StoreAndAdmin, raced>>

EndJob(j) ==
  /\ job[j].st = "running"
  /\ job' = [job EXCEPT ![j].st = "done", ![j].held = NoSha, ![j].rec = NoSha]
  /\ raced' = raced \ {j}
  /\ UNCHANGED StoreAndAdmin

JobNext ==
  \E j \in Jobs :
    \/ \E via \in {"program", "launcher"}, pin \in Shas \cup {NoSha} :
         SubmitJob(j, via, pin)
    \/ AdmitJob(j) \/ SelectRuntime(j) \/ RecordAndStart(j)
    \/ StartLauncher(j) \/ EndJob(j)

-----------------------------------------------------------------------------
(* Retention.                                                                 *)

CensusPinsOnly(j) == {job[j].pin}  \* mutant: what the job recorded at its start is not read

\* _job_census: what a live spec proves it holds or will select.
CensusPins(j) ==
  IF job[j].st = "running" THEN {job[j].rec} ELSE {job[j].pin}

Launchers == {j \in Jobs : job[j].st = "running" /\ job[j].via = "launcher"}

\* plan: the outcomes of one census.  A started launcher job is proven by its
\* whole process group or not at all, and then every generation is kept.
\* Of the rest the Keep newest stay.
Candidates(drop) ==
  LET kept == {current.sha} \cup (IF drop THEN {} ELSE {previous.sha})
              \cup UNION {CensusPins(j) : j \in {k \in Jobs : Live(k)}}
      rest(groups) == {s \in Shas : slot[s].there /\ Verified(s)}
                        \ (kept \cup {job[j].held : j \in groups})
      after(groups) == IF groups = Launchers THEN rest(groups) ELSE {}
      fewer(a, b) == IF a < b THEN a ELSE b
  IN UNION {{c \in SUBSET after(g) :
               Cardinality(c) = Cardinality(after(g)) - fewer(Keep, Cardinality(after(g)))} :
            g \in {Launchers, {}}}

Blocked(drop) == marker \/ (drop /\ (current.sha = NoSha \/ ~Intact(current.sha)))

UpdateAndJobs == <<inos, upd, txs, marker, job>>

\* The read-only plan the operator reviews, with the outcome its id commits to.
ReviewRetention(drop) ==
  /\ ret.pc = "idle"
  /\ Readable(current) /\ Readable(previous) /\ ~Blocked(drop)
  /\ \E c \in Candidates(drop) \ {{}} :
       ret' = [pc |-> "reviewed", drop |-> drop, cands |-> c, cur |-> current,
               prev |-> previous, cleared |-> FALSE, at |-> NoSha]
  /\ UNCHANGED <<slot, current, previous, lock, raced, torn, UpdateAndJobs>>

\* apply, under the lock: a fresh plan must have the reviewed id.
StartRetention ==
  /\ ret.pc = "reviewed" /\ lock = "free"
  /\ IF /\ Readable(current) /\ Readable(previous) /\ ~Blocked(ret.drop)
        /\ ret.cands \in Candidates(ret.drop)
        /\ current.sha = ret.cur.sha /\ previous.sha = ret.prev.sha
       THEN /\ ret' = [ret EXCEPT !.pc = "next"] /\ lock' = "retain"
            /\ raced' = raced \cup {j \in Jobs : job[j].st = "selected" /\ job[j].pin = NoSha}
       ELSE ret' = IdleRet /\ UNCHANGED <<lock, raced>>
  /\ UNCHANGED <<slot, current, previous, torn, UpdateAndJobs>>

NextCandidateDirect ==  \* mutant: the tree goes before the pointer
  /\ ret.pc = "next" /\ ret.cands # {}
  /\ \E s \in ret.cands :
       LET same == /\ Readable(current) /\ Readable(previous)
                   /\ current.sha = ret.cur.sha
                   /\ previous.sha = (IF ret.cleared THEN NoSha ELSE ret.prev.sha)
           r == [ret EXCEPT !.cands = @ \ {s}, !.at = s]
       IN ret' = IF ~same \/ s = current.sha \/ (s = previous.sha /\ ~ret.drop) THEN r
                 ELSE [r EXCEPT !.pc = "tree"]
  /\ UNCHANGED <<slot, current, previous, lock, raced, torn, UpdateAndJobs>>

\* One candidate: the pointers are read again, and a dropped previous is
\* unlinked before its tree is touched.
NextCandidate ==
  /\ ret.pc = "next" /\ ret.cands # {}
  /\ \E s \in ret.cands :
       LET same == /\ Readable(current) /\ Readable(previous)
                   /\ current.sha = ret.cur.sha
                   /\ previous.sha = (IF ret.cleared THEN NoSha ELSE ret.prev.sha)
           r == [ret EXCEPT !.cands = @ \ {s}, !.at = s]
       IN ret' = IF ~same \/ s = current.sha \/ (s = previous.sha /\ ~ret.drop) THEN r
                 ELSE IF s = previous.sha THEN [r EXCEPT !.pc = "pointer"]
                 ELSE [r EXCEPT !.pc = "tree"]
  /\ UNCHANGED <<slot, current, previous, lock, raced, torn, UpdateAndJobs>>

ClearPrevious ==
  /\ ret.pc = "pointer"
  /\ previous' = [sha |-> NoSha, ino |-> 0]
  /\ ret' = [ret EXCEPT !.pc = "tree", !.cleared = TRUE]
  /\ UNCHANGED <<slot, current, lock, raced, torn, UpdateAndJobs>>

\* rmtree of a candidate: part of it, then the rest; an OSError in between
\* leaves the part and the loop goes on.
RemoveTree ==
  /\ ret.pc = "tree"
  /\ \E g \in PartRemoved(slot[ret.at]) : slot' = [slot EXCEPT ![ret.at] = g]
  /\ torn' = torn \cup {ret.at}
  /\ \E pc \in {"rest", "next"} : ret' = [ret EXCEPT !.pc = pc]
  /\ UNCHANGED <<current, previous, lock, raced, UpdateAndJobs>>

RemoveRest ==
  /\ ret.pc = "rest"
  /\ slot' = [slot EXCEPT ![ret.at] = [NoSlot EXCEPT !.receipt = slot[ret.at].receipt]]
  /\ torn' = torn \ {ret.at}
  /\ ret' = [ret EXCEPT !.pc = "next"]
  /\ UNCHANGED <<current, previous, lock, raced, UpdateAndJobs>>

\* The last candidate is done and the receipt written, or the command dies.
RetentionEnds ==
  /\ ret.pc \notin {"idle", "reviewed"}
  /\ ret' = IdleRet /\ lock' = "free"
  /\ UNCHANGED <<slot, current, previous, raced, torn, UpdateAndJobs>>

RetentionNext ==
  \/ \E drop \in BOOLEAN : ReviewRetention(drop)
  \/ StartRetention \/ NextCandidate \/ ClearPrevious \/ RemoveTree
  \/ RemoveRest \/ RetentionEnds

SlotsNext == UpdateNext \/ JobNext \/ RetentionNext

SlotsSpec == SlotsInit /\ [][SlotsNext]_svars

-----------------------------------------------------------------------------
(* Properties.                                                                *)

\* A command that runs from a generation keeps all of it to its end, whatever
\* updates and retentions come and die meanwhile; the one exception is a job
\* the retention census caught between the choice of its generation and the
\* record of it (daemon._program_runtime_pin_dispatch_resolution,
\* _persist_program_runtime_resolution).
RuntimeStaysWhole ==
  \A j \in Jobs : job[j].st = "running" /\ j \notin raced => Intact(job[j].held)

\* Without the exception (runtime_retention: "Always kept: ... every generation a
\* live job ... references").
LiveJobKeepsRuntime ==
  \A j \in Jobs : job[j].st = "running" => Intact(job[j].held)

\* At every point where a process can die, current and previous name
\* generations that are sealed and whole, so dispatch and rollback always have
\* a target; and a generation left unfinished by a build (not by an interrupted
\* removal) carries the receipt that lets the next build recognise and clean or
\* finish it (runtime_slots.begin_slot_build, seal_slot_build, activate,
\* runtime_retention.apply).
StoreIsSound ==
  /\ current.sha # NoSha => Intact(current.sha)
  /\ previous.sha # NoSha => Intact(previous.sha)
  /\ \A s \in Shas \ torn :
       slot[s].there /\ ~Verified(s) =>
         /\ slot[s].receipt # 0
         /\ \/ slot[s].mark = "building" /\ slot[s].tx = slot[s].receipt
            \/ slot[s].mark = "none" /\ slot[s].body = "none" /\ ~slot[s].sealed
=============================================================================
