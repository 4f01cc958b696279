-------------------------- MODULE RuntimeMigration --------------------------
(***************************************************************************)
(* migrate-runtime and retire-checkout over one runtime store: the reviewed *)
(* transaction that points a component at a prepared generation by          *)
(* replacing the store's pointers, a new stable launcher and the registry   *)
(* file, one rename at a time under a journal; its resume and rollback after *)
(* a crash; and the deletion of the checkout the registry used to run from.  *)
(* Updates and retention of the same store go on meanwhile, and an operator  *)
(* edits the launcher and the registry without any lock.                     *)
(***************************************************************************)
EXTENDS RuntimeSlots, Sequences

CONSTANTS Target,      \* manifest.source_sha
          MaxPlans     \* migrations applied, each with a receipt directory

ASSUME MigrationAssumption == Target \in Shas /\ MaxPlans \in Nat

VARIABLES launcher,    \* the stable launcher's file
          registry,    \* the registry file
          jr,          \* transaction.json of the latest receipt directory
          used,        \* staged files renamed away: <<binding, rollback>>
          plans,       \* receipt directories so far
          orphans,     \* an earlier receipt is still "initializing"
          mig,         \* the migrate-runtime process
          checkout,    \* the legacy checkout exists
          late         \* a rollback was begun after the retirement

mvars == <<launcher, registry, jr, used, plans, orphans, mig, checkout, late>>
rtvars == <<svars, mvars>>

\* Files compare by content and identity: "restored" is the staged copy of the
\* legacy registry, "foreign" anything the operator wrote.
Launcher == {"absent", "stable", "foreign"}
Registry == {"legacy", "slot", "restored", "foreign"}

Absent == [sha |-> NoSha, ino |-> 0]

\* One binding of the plan: what was there, and the two staged replacements.
Binding(S) == [before: S, after: S, back: S]

Same(v) == [before |-> v, after |-> v, back |-> v]

Unbound == [previous |-> Same(Absent), current |-> Same(Absent),
            launcher |-> Same("absent"), registry |-> Same("legacy")]

States == {"none", "initializing", "prepared", "applying", "rolling_back",
           "applied", "rolled_back"}

NoJournal == [st |-> "none", cur |-> Absent, prev |-> Absent, reg |-> "legacy",
              act |-> Unbound]

\* The field edit is history: the operator's edit came before the walk ("known"),
\* during it, or between the comparison of its file and the rename.
Edits == {"known", "walk", "edge"}

IdleMig == [pc |-> "idle", rollback |-> FALSE, cur |-> Absent, prev |-> Absent,
            reg |-> "legacy", i |-> 0, edit |-> "known"]

\* One type invariant.
MigrationTypeOK ==
  /\ SlotsTypeOK
  /\ launcher \in Launcher /\ registry \in Registry
  /\ jr \in [st: States, cur: Pointer, prev: Pointer, reg: Registry,
             act: [previous: Binding(Pointer), current: Binding(Pointer),
                   launcher: Binding(Launcher), registry: Binding(Registry)]]
  /\ mig \in [pc: {"idle", "planned", "stage", "resume", "preflight", "walk",
                   "rename"},
              rollback: BOOLEAN, cur: Pointer, prev: Pointer, reg: Registry, i: 0..5,
              edit: Edits]
  /\ used \subseteq ((DOMAIN Unbound) \X BOOLEAN)
  /\ plans \in 0..MaxPlans
  /\ {orphans, checkout, late} \subseteq BOOLEAN

MigrationInit ==
  /\ SlotsInit
  /\ launcher = "absent" /\ registry = "legacy"
  /\ jr = NoJournal /\ used = {} /\ plans = 0 /\ orphans = FALSE /\ mig = IdleMig
  /\ checkout = TRUE /\ late = FALSE

-----------------------------------------------------------------------------
\* _actions: the pointers move only when current does not name the target yet,
\* and previous only when there is a current to keep.  Then launchers, and the
\* registry last; a rollback walks the list backwards.
Ordered(cur) ==
  IF cur.sha = Target THEN <<"launcher", "registry">>
  ELSE IF cur.sha = NoSha THEN <<"current", "launcher", "registry">>
  ELSE <<"previous", "current", "launcher", "registry">>

Turn(seq) == [i \in 1..Len(seq) |-> seq[Len(seq) + 1 - i]]

WalkedForward == Ordered(jr.cur)  \* mutant: a rollback walks the list as apply does
Walked == IF mig.rollback THEN Turn(Ordered(jr.cur)) ELSE Ordered(jr.cur)

Actual(n) == CASE n = "previous" -> previous
               [] n = "current" -> current
               [] n = "launcher" -> launcher
               [] n = "registry" -> registry

Rebind(n, value) ==
  /\ previous' = IF n = "previous" THEN value ELSE previous
  /\ current' = IF n = "current" THEN value ELSE current
  /\ launcher' = IF n = "launcher" THEN value ELSE launcher
  /\ registry' = IF n = "registry" THEN value ELSE registry

BindingsSame == UNCHANGED <<previous, current, launcher, registry>>

SlotsRest == UNCHANGED <<slot, upd, txs, marker, ret, job, raced, torn>>

MigExit == mig' = IdleMig /\ lock' = "free"

-----------------------------------------------------------------------------
\* plan: read-only; "ready" needs the verified target, no marker, a launcher
\* path that is free, and a registry that still executes the legacy runtime.
Plannable ==
  /\ Intact(Target) /\ ~marker
  /\ Readable(current) /\ Readable(previous)
  /\ launcher = "absent" /\ registry \in {"legacy", "restored"} /\ checkout

ReviewMigration ==
  /\ mig.pc = "idle" /\ plans < MaxPlans /\ Plannable
  /\ mig' = [IdleMig EXCEPT !.pc = "planned", !.cur = current, !.prev = previous,
                            !.reg = registry]
  /\ UNCHANGED <<lock, inos, jr, used, plans, orphans, checkout, late>>
  /\ BindingsSame /\ SlotsRest

\* apply: under ownership the plan is made again and must be the reviewed one;
\* the receipt directory is created, indexed and journaled before anything is
\* staged.
ApplyMigration ==
  /\ mig.pc = "planned" /\ lock = "free"
  /\ IF /\ Plannable
        /\ <<current, previous, registry>> = <<mig.cur, mig.prev, mig.reg>>
       THEN /\ jr' = [st |-> "initializing", cur |-> current, prev |-> previous,
                      reg |-> registry, act |-> Unbound]
            /\ orphans' = (orphans \/ jr.st = "initializing")
            /\ plans' = plans + 1 /\ used' = {}
            /\ mig' = [mig EXCEPT !.pc = "stage"] /\ lock' = "migrate"
       ELSE mig' = IdleMig /\ UNCHANGED <<jr, used, orphans, plans, lock>>
  /\ UNCHANGED <<inos, checkout, late>> /\ BindingsSame /\ SlotsRest

\* Every binding is compared with the plan and its two replacements are staged
\* beside it; the staged pointers get fresh identities.
StageBindings ==
  LET moves(n) == \E i \in DOMAIN Ordered(jr.cur) : Ordered(jr.cur)[i] = n
      staged(old, ino) == IF old.sha = NoSha THEN Absent ELSE [sha |-> old.sha, ino |-> ino]
      act == [previous |-> IF ~moves("previous") THEN Same(jr.prev)
                           ELSE [before |-> jr.prev, after |-> staged(jr.cur, inos + 1),
                                 back |-> staged(jr.prev, inos + 2)],
              current |-> IF ~moves("current") THEN Same(jr.cur)
                          ELSE [before |-> jr.cur,
                                after |-> [sha |-> Target, ino |-> inos + 1],
                                back |-> staged(jr.cur, inos + 2)],
              launcher |-> [before |-> "absent", after |-> "stable", back |-> "absent"],
              registry |-> [before |-> jr.reg, after |-> "slot", back |-> "restored"]]
  IN
  /\ mig.pc = "stage" /\ inos + 2 <= MaxInos
  /\ IF launcher = "absent" /\ registry = jr.reg
       THEN /\ jr' = [jr EXCEPT !.st = "prepared", !.act = act]
            /\ inos' = inos + 2
            /\ mig' = [mig EXCEPT !.pc = "resume"] /\ UNCHANGED lock
       ELSE MigExit /\ UNCHANGED <<jr, inos>>
  /\ UNCHANGED <<used, plans, orphans, checkout, late>> /\ BindingsSame /\ SlotsRest

\* recover: the receipt's lock and the ownership, then _resume.
RecoverMigration(rollback) ==
  /\ mig.pc = "idle" /\ lock = "free" /\ ~marker
  /\ jr.st # "none"
  /\ mig' = [IdleMig EXCEPT !.pc = "resume", !.rollback = rollback]
  /\ lock' = "migrate"
  /\ late' = (late \/ (rollback /\ ~checkout /\ jr.st # "rolling_back"))
  /\ UNCHANGED <<inos, jr, used, plans, orphans, checkout>> /\ BindingsSame /\ SlotsRest

\* The entry checks of _resume, and the journal that commits to a direction.
ResumeMigration ==
  LET whole(p) == p.sha # NoSha => Intact(p.sha)
      refused == \/ jr.st \in {"initializing", "rolled_back"}
                 \/ ~mig.rollback /\ (jr.st = "rolling_back" \/ ~Intact(Target))
                 \/ mig.rollback /\ ~(whole(jr.cur) /\ whole(jr.prev))
  IN
  /\ mig.pc = "resume"
  /\ IF refused THEN MigExit /\ UNCHANGED jr
     ELSE /\ jr' = [jr EXCEPT !.st = IF mig.rollback THEN "rolling_back" ELSE "applying"]
          /\ mig' = [mig EXCEPT !.pc = "preflight"] /\ UNCHANGED lock
  /\ UNCHANGED <<inos, used, plans, orphans, checkout, late>> /\ BindingsSame /\ SlotsRest

\* Every binding must be the original or a staged replacement before any moves.
Preflight ==
  LET ours(n) == \/ Actual(n) \in {jr.act[n].before, jr.act[n].after}
                 \/ mig.rollback /\ Actual(n) = jr.act[n].back
  IN
  /\ mig.pc = "preflight"
  /\ IF \A i \in DOMAIN Walked : ours(Walked[i])
       THEN mig' = [mig EXCEPT !.pc = "walk", !.i = 1] /\ UNCHANGED lock
       ELSE MigExit
  /\ UNCHANGED <<inos, jr, used, plans, orphans, checkout, late>> /\ BindingsSame /\ SlotsRest

\* The binding the walk has come to, and what it shall become.
Walks == mig.i <= Len(Walked)
Name == Walked[mig.i]
Desired == IF mig.rollback THEN jr.act[Name].back ELSE jr.act[Name].after
Unlinks == Desired = IF Name \in {"previous", "current"} THEN Absent ELSE "absent"
Done == Actual(Name) = Desired \/ (mig.rollback /\ Actual(Name) = jr.act[Name].before)
StageIsThere == Unlinks \/ <<Name, mig.rollback>> \notin used
ExpectedAny == TRUE  \* mutant: the binding is not compared again
Expected == Actual(Name) = IF mig.rollback THEN jr.act[Name].after ELSE jr.act[Name].before

\* One binding is read: it is skipped when it is done, refused when it is not the
\* expected one or its staged replacement is gone.
CompareBinding ==
  /\ mig.pc = "walk" /\ Walks
  /\ \/ Done /\ mig' = [mig EXCEPT !.i = @ + 1] /\ UNCHANGED lock
     \/ ~Done /\ Expected /\ StageIsThere /\ mig' = [mig EXCEPT !.pc = "rename"] /\ UNCHANGED lock
     \/ ~Done /\ ~(Expected /\ StageIsThere) /\ MigExit
  /\ UNCHANGED <<inos, jr, used, plans, orphans, checkout, late>> /\ BindingsSame /\ SlotsRest

\* It is replaced by one rename (or unlink), whatever is there by now.
ReplaceBinding ==
  /\ mig.pc = "rename"
  /\ Rebind(Name, Desired) /\ mig' = [mig EXCEPT !.pc = "walk", !.i = @ + 1]
  /\ used' = IF Unlinks THEN used ELSE used \cup {<<Name, mig.rollback>>}
  /\ UNCHANGED <<lock, inos, jr, plans, orphans, checkout, late>> /\ SlotsRest

FinishMigration ==
  /\ mig.pc = "walk" /\ mig.i > Len(Walked)
  /\ jr' = [jr EXCEPT !.st = IF mig.rollback THEN "rolled_back" ELSE "applied"]
  /\ MigExit
  /\ UNCHANGED <<inos, used, plans, orphans, checkout, late>> /\ BindingsSame /\ SlotsRest

MigrationDies ==
  /\ mig.pc \notin {"idle", "planned"} /\ MigExit
  /\ UNCHANGED <<inos, jr, used, plans, orphans, checkout, late>> /\ BindingsSame /\ SlotsRest

\* The operator writes a binding file, one of them; no lock stops them.
OperatorEdits ==
  /\ registry # "foreign" /\ launcher # "foreign"
  /\ \E n \in {"launcher", "registry"} :
       /\ Rebind(n, "foreign")
       /\ mig' = [mig EXCEPT !.edit = IF mig.pc = "rename" /\ Name = n THEN "edge"
                                      ELSE IF mig.pc \in {"walk", "rename"} THEN "walk"
                                      ELSE "known"]
  /\ UNCHANGED <<lock, inos, jr, used, plans, orphans, checkout, late>> /\ SlotsRest

-----------------------------------------------------------------------------
UnfinishedApplying == jr.st = "applying"  \* mutant: a rollback in progress is forgotten

\* indexed_transactions: a receipt that is neither applied nor rolled back may
\* still put the checkout back in service.
Unfinished == orphans \/ jr.st \in {"initializing", "prepared", "applying", "rolling_back"}

\* retire-checkout: planned and, under the lock, planned again; here the
\* registry executes and builds from the current generation.
RetireCheckout ==
  /\ lock = "free" /\ ~marker /\ checkout
  /\ registry = "slot" /\ current.sha # NoSha /\ Intact(current.sha)
  /\ ~Unfinished
  /\ checkout' = FALSE
  /\ UNCHANGED <<lock, inos, jr, used, plans, orphans, mig, late>> /\ BindingsSame /\ SlotsRest

\* prepare: the target is built under the same ownership and not activated.
PrepareGeneration ==
  /\ mig.pc = "idle" /\ launcher = "absent" /\ registry \in {"legacy", "restored"}
  /\ checkout /\ UpdateStart(Target, TRUE) /\ UNCHANGED mvars

MigrationNext ==
  \/ PrepareGeneration \/ ReviewMigration \/ ApplyMigration \/ StageBindings
  \/ \E rollback \in BOOLEAN : RecoverMigration(rollback)
  \/ ResumeMigration \/ Preflight \/ CompareBinding \/ ReplaceBinding
  \/ FinishMigration \/ MigrationDies \/ OperatorEdits \/ RetireCheckout

RuntimeNext == MigrationNext \/ (SlotsNext /\ UNCHANGED mvars)

RuntimeSpec == MigrationInit /\ [][RuntimeNext]_rtvars

-----------------------------------------------------------------------------
(* Properties.                                                                *)

\* Whatever dies between two renames of a migration or of its rollback, and
\* whatever updates and retentions ran since, a registry or a launcher that
\* sends jobs to the store finds a whole current generation there
\* (runtime_migration._actions, _resume): the order of the walk is what keeps it.
\* Likewise the checkout is not retired while a registry runs from it or an
\* interrupted transaction may yet restore one that does; only a rollback of the
\* finished migration that is begun after the retirement brings such a registry
\* back (checkout_retirement._migration_blockers).
BindingsAreBacked ==
  /\ registry = "slot" \/ launcher = "stable" =>
       current.sha # NoSha /\ Intact(current.sha)
  /\ registry \in {"legacy", "restored"} /\ ~late => checkout

\* What the operator wrote in a binding file is kept, over deaths, resumes and
\* rollbacks: an edit known at the preflight of a migration or a rollback stops it
\* before it replaces anything at all ("a known foreign edit causes no further
\* writes"), and one made later is not overwritten unless it falls between the
\* comparison of that very file and its rename (runtime_migration._resume).
OperatorEditIsKept ==
  [][/\ mig.edit # "edge" =>
          /\ registry = "foreign" => registry' = "foreign"
          /\ launcher = "foreign" => launcher' = "foreign"
     /\ mig.edit = "known" /\ "foreign" \in {registry, launcher} =>
          /\ UNCHANGED <<registry, launcher>>
          /\ lock = "migrate" => UNCHANGED <<previous, current>>]_rtvars

\* Without the exemption ("recovery will not overwrite it"; docs/runtime_slots.md:
\* it "refuses to overwrite an edit you made after the apply").
EditIsNeverLost ==
  [][/\ registry = "foreign" => registry' = "foreign"
     /\ launcher = "foreign" => launcher' = "foreign"]_rtvars

\* A transaction that retirement counts as unfinished can be finished: some
\* recovery of it is not refused at once (checkout_retirement: "finish or roll
\* it back first").
UnfinishedCanFinish ==
  mig.pc \in {"idle", "planned"} => ~orphans /\ jr.st # "initializing"
=============================================================================
