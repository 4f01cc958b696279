------------------------ MODULE GenerationAdmission ------------------------
(***************************************************************************)
(* Managed generations of a scheduler host (runtime_admission): a job that  *)
(* names an exact generation reserves it at the provider before its spec is *)
(* published, commits the reservation to the published job, has it checked  *)
(* again just before dispatch and releases it when the terminal job is       *)
(* archived or deleted.  The provider's cleanup removes a generation only    *)
(* while it holds the same lock and finds no reservation on it.  Answers are *)
(* lost, submitters die, the job is killed at any time.  The provider and    *)
(* its scheduler are external.                                               *)
(***************************************************************************)
EXTENDS Integers

CONSTANTS Keys,    \* idempotency keys: one durable job each
          Gens,    \* generations of the program at the provider
          NoGen,
          MaxIds   \* job ids drawn per key: bounds the submissions

ASSUME NoGenIsNone == NoGen \notin Gens
ASSUME MaxIdsIsNat == MaxIds \in Nat

VARIABLES row,     \* the provider's reservation of a key
          there,   \* generations that are there, verified and unchanged
          sweep,   \* the generation the cleanup holds the lock for
          sub,     \* the submission in progress, under the key's claim lock
          ids,     \* job ids drawn for a key
          spec,    \* the durable spec
          claim,   \* keys whose idempotency claim is published
          disp,    \* how far the daemon's dispatch of the key's job is
          batch    \* the job on the cluster

vars == <<row, there, sweep, sub, ids, spec, claim, disp, batch>>

Ids == 0..MaxIds

Row == [st: {"none", "reserved", "committed", "released"}, job: Ids,
        gen: Gens \cup {NoGen}]
Sub == [pc: {"idle", "reserve", "publish", "claim", "commit"}, gen: Gens \cup {NoGen}]

\* seen: the scheduler id is on record; begun: the dispatch was claimed.
SpecT == [st: {"none", "pending", "running", "terminal", "deleted"}, id: Ids,
          gen: Gens \cup {NoGen}, begun: BOOLEAN, seen: BOOLEAN]

Marked(s, st, begun, seen) ==
  [st |-> st, id |-> s.id, gen |-> s.gen, begun |-> begun, seen |-> seen]

At(s, pc) == [pc |-> pc, gen |-> s.gen]

NoSub == [pc |-> "idle", gen |-> NoGen]

\* One type invariant.
TypeOK ==
  /\ row \in [Keys -> Row] /\ there \subseteq Gens /\ sweep \in Gens \cup {NoGen}
  /\ sub \in [Keys -> Sub] /\ ids \in [Keys -> Ids]
  /\ spec \in [Keys -> SpecT] /\ claim \subseteq Keys
  /\ disp \in [Keys -> {"idle", "checked", "staging"}]
  /\ batch \in [Keys -> {"none", "live", "ended"}]

Init ==
  /\ row = [k \in Keys |-> [st |-> "none", job |-> 0, gen |-> NoGen]]
  /\ there = Gens /\ sweep = NoGen
  /\ sub = [k \in Keys |-> NoSub] /\ ids = [k \in Keys |-> 0]
  /\ spec = [k \in Keys |-> [st |-> "none", id |-> 0, gen |-> NoGen,
                             begun |-> FALSE, seen |-> FALSE]]
  /\ claim = {}
  /\ disp = [k \in Keys |-> "idle"] /\ batch = [k \in Keys |-> "none"]

\* ReservationStore.transaction: every provider operation needs the lock, and a
\* busy one is refused at once.
Unlocked == sweep = NoGen

Protects(g) == {k \in Keys : row[k].st \in {"reserved", "committed"} /\ row[k].gen = g}

-----------------------------------------------------------------------------
(* Submission, one per key at a time under the claim lock.                    *)

\* describe resolves the requested generation without reserving it.
StartSubmit(k, g) ==
  /\ sub[k].pc = "idle" /\ k \notin claim /\ spec[k].st = "none"
  /\ ids[k] < MaxIds /\ g \in there /\ Unlocked
  /\ sub' = [sub EXCEPT ![k] = [pc |-> "reserve", gen |-> g]]
  /\ ids' = [ids EXCEPT ![k] = @ + 1]
  /\ UNCHANGED <<row, there, sweep, spec, claim, disp, batch>>

\* reserve: an exact replay is harmless, another binding or a released row is
\* refused, and the generation is verified either way.
Reservable(k, g) ==
  /\ Unlocked /\ g \in there
  /\ row[k].st = "none" \/ (row[k].st \in {"reserved", "committed"} /\ row[k].gen = g)

Reserved(k, g) ==
  IF row[k].st = "none" THEN [st |-> "reserved", job |-> 0, gen |-> g] ELSE row[k]

\* reserve_spec: the submission goes on only with a reservation of no job; the
\* answer may be lost after the row was written.
ReserveSpec(k) ==
  LET g == sub[k].gen IN
  /\ sub[k].pc = "reserve"
  /\ \/ /\ Reservable(k, g)
        /\ row' = [row EXCEPT ![k] = Reserved(k, g)]
        /\ \/ /\ Reserved(k, g).st = "reserved"
              /\ sub' = [sub EXCEPT ![k] = At(@, "publish")]
           \/ sub' = [sub EXCEPT ![k] = NoSub]
     \/ sub' = [sub EXCEPT ![k] = NoSub] /\ UNCHANGED row
  /\ UNCHANGED <<there, sweep, ids, spec, claim, disp, batch>>

\* The spec is published, then the claim.
PublishSpec(k) ==
  /\ sub[k].pc = "publish"
  /\ spec' = [spec EXCEPT ![k] = [st |-> "pending", id |-> ids[k], gen |-> sub[k].gen,
                                  begun |-> FALSE, seen |-> FALSE]]
  /\ sub' = [sub EXCEPT ![k] = At(@, "claim")]
  /\ UNCHANGED <<row, there, sweep, ids, claim, disp, batch>>

PublishClaim(k) ==
  /\ sub[k].pc = "claim"
  /\ claim' = claim \cup {k} /\ sub' = [sub EXCEPT ![k] = At(@, "commit")]
  /\ UNCHANGED <<row, there, sweep, ids, spec, disp, batch>>

\* commit: only the job the reservation has, or the first.
Committable(k, id) ==
  /\ Unlocked /\ row[k].st \in {"reserved", "committed"} /\ row[k].job \in {0, id}

Commit(k, id) ==
  row' = [row EXCEPT ![k] = [st |-> "committed", job |-> id, gen |-> row[k].gen]]

\* commit_spec after publication: a failure is left to the dispatch.
CommitSpec(k) ==
  /\ sub[k].pc = "commit"
  /\ (Committable(k, ids[k]) /\ Commit(k, ids[k])) \/ UNCHANGED row
  /\ sub' = [sub EXCEPT ![k] = NoSub]
  /\ UNCHANGED <<there, sweep, ids, spec, claim, disp, batch>>

\* The submitter dies; a spec without its claim is found and claimed by the
\* next submission of the key.
SubmitterDies(k) ==
  /\ sub[k].pc # "idle" /\ sub' = [sub EXCEPT ![k] = NoSub]
  /\ UNCHANGED <<row, there, sweep, ids, spec, claim, disp, batch>>

-----------------------------------------------------------------------------
(* Dispatch: _start_job, _start_scheduler_job.                                *)

\* check_spec commits again and has the generation verified; a busy provider
\* defers the job, any other failure fails it.
CheckSpec(k) ==
  LET id == spec[k].id IN
  /\ disp[k] = "idle" /\ spec[k].st = "pending"
  /\ \/ /\ Committable(k, id) /\ Commit(k, id)
        /\ \/ /\ row[k].gen \in there /\ row[k].gen = spec[k].gen
              /\ disp' = [disp EXCEPT ![k] = "checked"] /\ UNCHANGED spec
           \/ spec' = [spec EXCEPT ![k] = Marked(@, "terminal", @.begun, @.seen)] /\ UNCHANGED disp
     \/ /\ Unlocked /\ spec' = [spec EXCEPT ![k] = Marked(@, "terminal", @.begun, @.seen)] /\ UNCHANGED <<row, disp>>
  /\ UNCHANGED <<there, sweep, sub, ids, claim, batch>>

\* The two-phase claim: SUBMITTING ("running" here, as is the RUNNING that
\* follows) is durable before anything is staged, and only a spec that is still
\* pending is claimed.
ClaimSpecUnread(k) ==  \* mutant: the claim does not read the spec again
  /\ disp[k] = "checked" /\ spec[k].st \in {"pending", "terminal"}
  /\ disp' = [disp EXCEPT ![k] = "staging"]
  /\ spec' = [spec EXCEPT ![k] = Marked(@, "running", TRUE, @.seen)]
  /\ UNCHANGED <<row, there, sweep, sub, ids, claim, batch>>

ClaimSpec(k) ==
  /\ disp[k] = "checked"
  /\ IF spec[k].st = "pending"
       THEN /\ disp' = [disp EXCEPT ![k] = "staging"]
            /\ spec' = [spec EXCEPT ![k] = Marked(@, "running", TRUE, @.seen)]
       ELSE disp' = [disp EXCEPT ![k] = "idle"] /\ UNCHANGED spec
  /\ UNCHANGED <<row, there, sweep, sub, ids, claim, batch>>

\* The scheduler accepts, with its id recorded or the answer lost; or it refuses.
SubmitBatch(k) ==
  /\ disp[k] = "staging" /\ disp' = [disp EXCEPT ![k] = "idle"]
  /\ \/ /\ batch' = [batch EXCEPT ![k] = "live"]
        /\ \E seen \in BOOLEAN : spec' = [spec EXCEPT ![k] = Marked(@, @.st, @.begun, seen)]
     \/ /\ spec' = [spec EXCEPT ![k] =
             Marked(@, IF @.st = "running" THEN "terminal" ELSE @.st, @.begun, @.seen)]
        /\ UNCHANGED batch
  /\ UNCHANGED <<row, there, sweep, sub, ids, claim>>

\* The daemon dies: the pass is lost, a claimed dispatch is never submitted.
DaemonDies ==
  /\ \E k \in Keys : disp[k] # "idle"
  /\ disp' = [k \in Keys |-> "idle"]
  /\ UNCHANGED <<row, there, sweep, sub, ids, spec, claim, batch>>

BatchEnds(k) ==
  /\ batch[k] = "live" /\ batch' = [batch EXCEPT ![k] = "ended"]
  /\ UNCHANGED <<row, there, sweep, sub, ids, spec, claim, disp>>

\* vq kill or the daemon's reconciliation makes the spec terminal, whatever the
\* cluster does; the id of a lost answer may be found meanwhile.
SpecEnds(k) ==
  /\ spec[k].st \in {"pending", "running"}
  /\ \E seen \in BOOLEAN :
       /\ seen => spec[k].seen \/ batch[k] # "none"
       /\ spec' = [spec EXCEPT ![k] = Marked(@, "terminal", @.begun, seen \/ @.seen)]
  /\ UNCHANGED <<row, there, sweep, sub, ids, claim, disp, batch>>

-----------------------------------------------------------------------------
(* Release and cleanup.                                                       *)

\* The provider's own proof of termination: the proof says the job was never
\* dispatched, or names a scheduler job that has ended.
ProvenByLabel(k) == TRUE  \* mutant: the terminal queue state is taken for proof
Proven(k) == IF spec[k].begun THEN spec[k].seen /\ batch[k] = "ended" ELSE TRUE

Releasable(k) ==
  /\ Unlocked /\ row[k].job = spec[k].id
  /\ row[k].st = "released" \/ (row[k].st = "committed" /\ Proven(k))

\* archive_workspace and delete_job under the spec's lock: the release comes
\* first and its failure, or a lost answer, keeps the job.
ReleaseSpec(k) ==
  /\ spec[k].st = "terminal" /\ Releasable(k)
  /\ row' = [row EXCEPT ![k] = [st |-> "released", job |-> row[k].job, gen |-> row[k].gen]]
  /\ \E st \in {"terminal", "deleted"} : spec' = [spec EXCEPT ![k] = Marked(@, st, @.begun, @.seen)]
  /\ claim' = claim \cup {k}
  /\ UNCHANGED <<there, sweep, sub, ids, disp, batch>>

\* A cleanup owner takes the lock and asks protects ...
StartSweepBlind(g) ==  \* mutant: only committed reservations protect
  /\ Unlocked /\ g \in there /\ {k \in Protects(g) : row[k].st = "committed"} = {}
  /\ sweep' = g
  /\ UNCHANGED <<row, there, sub, ids, spec, claim, disp, batch>>

StartSweep(g) ==
  /\ Unlocked /\ g \in there /\ Protects(g) = {}
  /\ sweep' = g
  /\ UNCHANGED <<row, there, sub, ids, spec, claim, disp, batch>>

\* ... and holds it through the removal, or dies in it.
EndSweep ==
  /\ ~Unlocked /\ sweep' = NoGen /\ there' = there \ {sweep}
  /\ UNCHANGED <<row, sub, ids, spec, claim, disp, batch>>

Next ==
  \/ \E k \in Keys :
       \/ \E g \in Gens : StartSubmit(k, g)
       \/ ReserveSpec(k) \/ PublishSpec(k) \/ PublishClaim(k) \/ CommitSpec(k)
       \/ SubmitterDies(k) \/ CheckSpec(k) \/ ClaimSpec(k) \/ SubmitBatch(k)
       \/ BatchEnds(k) \/ SpecEnds(k) \/ ReleaseSpec(k)
  \/ DaemonDies \/ EndSweep
  \/ \E g \in Gens : StartSweep(g)

Spec == Init /\ [][Next]_vars

-----------------------------------------------------------------------------
(* Properties.                                                                *)

\* The generation a published, dispatched or running job was admitted for is
\* there until the provider has proof that the job ended, over lost answers,
\* deaths and kills at every point (ReservationStore.reserve, commit, release,
\* protects; reserve_spec, check_spec, release_spec).
AdmittedIsKept ==
  \A k \in Keys :
    \/ batch[k] = "live" \/ disp[k] = "staging" \/ spec[k].st \in {"pending", "running"}
    => spec[k].gen \in there /\ spec[k].gen # sweep
=============================================================================
