------------------------------- MODULE Broker -------------------------------
(***************************************************************************)
(* The fleet broker: its held records (broker_store.py), the placement     *)
(* pass (broker_placement.py, broker_service.run_pass), the operator's     *)
(* reconcile (broker_service.reconcile) and vq kill of a broker job        *)
(* (broker_relay._kill), against targets that keep the promise of          *)
(* OneShotKey for the one key a broker job has there.                      *)
(*                                                                         *)
(* A transition is a compare-and-swap on the record's revision under the   *)
(* writer lock.  Passes and reconciles exclude each other with the pass    *)
(* lock, so the only writer beside them is a cancellation, which no        *)
(* transition undoes: a record that looks as it was read has not changed.  *)
(*                                                                         *)
(* A request is a copy on the wire until the target handles it, long after *)
(* the pass gave up on it if the network so decides.  A target's capacity  *)
(* is a number of job slots; its daemon publishes what it uses from time   *)
(* to time, and placement sees that publication.                           *)
(***************************************************************************)
EXTENDS FiniteSets, Integers

CONSTANTS
    Jobs,          \* broker jobs: the least is the oldest by (created_at, id)
    Killed,        \* those somebody may run vq kill on
    Roots,         \* targets, each with one state root
    NoRoot,
    Slots,         \* job slots of a target
    MaxAttempts,   \* _ATTEMPTS_MAX
    MaxFaults      \* crashes, lost answers and failed probes there may be

ASSUME BrokerAssumption ==
    /\ Jobs \subseteq Nat \ {0}
    /\ IsFiniteSet(Jobs)
    /\ Killed \subseteq Jobs
    /\ NoRoot \notin Roots
    /\ Slots \in Nat
    /\ MaxAttempts \in Nat
    /\ MaxFaults \in Nat

VARIABLES
    rec,      \* the broker's records
    tgt,      \* at each target, the job's key: open, fenced, or its job's life
    wire,     \* copies of submit requests that no target has handled yet
    pub,      \* what each target's daemon published last
    pass,     \* the holder of the pass lock and where it is
    kill,     \* for each job, the vq kill that is under way
    stopped,  \* history: the jobs somebody was told are stopped
    faults

vars == <<rec, tgt, wire, pub, pass, kill, stopped, faults>>

Accepted == {"pending", "active", "ended"}
NotSent == {"absent", "held", "reserved", "returned", "cancelled"}

Absent == [state |-> "absent", target |-> NoRoot, attempts |-> 0,
           charged |-> FALSE, cancel |-> FALSE]
NoKill == [at |-> "idle", seen |-> Absent]
NoFigures == [used |-> 0, ready |-> FALSE, counts |-> {}]
IdlePass == [at |-> "idle", job |-> 0, known |-> {}, recover |-> {}, settle |-> {},
             replay |-> {}, queue |-> {}, snap |-> [r \in Roots |-> NoFigures],
             answer |-> "none", seen |-> FALSE]

RecordType ==
    [state : NotSent \cup {"transferring", "placed"}, target : Roots \cup {NoRoot},
     attempts : 0 .. MaxAttempts, charged : BOOLEAN, cancel : BOOLEAN]
Snapshots == [used : 0 .. Cardinality(Jobs), ready : BOOLEAN, counts : SUBSET Jobs]
Passes ==
    [at : {"idle", "recover", "work", "begin", "check", "send", "await",
           "fence", "fenced", "cancel", "resume"},
     job : Jobs \cup {0}, known : SUBSET Jobs, recover : SUBSET Jobs, settle : SUBSET Jobs,
     replay : SUBSET Jobs, queue : SUBSET Jobs, snap : [Roots -> Snapshots],
     answer : {"none", "accepted", "fenced"}, seen : BOOLEAN]

Init ==
    /\ rec = [b \in Jobs |-> Absent]
    /\ tgt = [r \in Roots |-> [b \in Jobs |-> "open"]]
    /\ wire = {}
    /\ pub = [r \in Roots |-> NoFigures]
    /\ pass = IdlePass
    /\ kill = [b \in Killed |-> NoKill]
    /\ stopped = {}
    /\ faults = 0

-----------------------------------------------------------------------------
(* The store's transitions, on the record they find.                       *)

Held(record) == [record EXCEPT !.state = IF record.cancel THEN "cancelled" ELSE "held"]
Reserved(record, r) ==
    [record EXCEPT !.state = "reserved", !.target = r, !.charged = TRUE,
                   !.attempts = @ + 1]
Returned(record) == [record EXCEPT !.state = "returned", !.charged = FALSE]
Cancelled(record) ==
    [record EXCEPT !.cancel = TRUE,
                   !.state = IF @ = "held" THEN "cancelled" ELSE @]

Put(b, record) == rec' = [rec EXCEPT ![b] = record]

\* outstanding_charges: what the broker has promised of a target's slots.
Charges(r) == Cardinality({b \in Jobs : rec[b].charged /\ rec[b].target = r})

\* BrokerStore.accept published the payload and the held record.
Accept(b) ==
    /\ rec[b].state = "absent"
    /\ Put(b, [Absent EXCEPT !.state = "held"])
    /\ UNCHANGED <<tgt, wire, pub, pass, kill, stopped, faults>>

-----------------------------------------------------------------------------
(* Targets.  Their keyed submit and fence are KeyedSubmit's; their jobs    *)
(* start when a slot is free, and end.                                     *)

Live(r) == {b \in Jobs : tgt[r][b] \in {"pending", "active"}}
Active(r) == {b \in Jobs : tgt[r][b] = "active"}

\* A copy of a keyed submit arrives; an open key takes it.  The answer
\* reaches the pass if that is still waiting for it.
TargetHandles(r, b) ==
    /\ <<r, b>> \in wire
    /\ wire' = wire \ {<<r, b>>}
    /\ tgt' = [tgt EXCEPT ![r][b] = IF @ = "open" THEN "pending" ELSE @]
    /\ pass' = IF pass.at = "await" /\ pass.job = b /\ rec[b].target = r
               THEN [pass EXCEPT !.answer =
                       IF tgt[r][b] = "fenced" THEN "fenced" ELSE "accepted"]
               ELSE pass
    /\ UNCHANGED <<rec, pub, kill, stopped, faults>>

TargetStarts(r, b) ==
    /\ tgt[r][b] = "pending"
    /\ Cardinality(Active(r)) < Slots
    /\ tgt' = [tgt EXCEPT ![r][b] = "active"]
    /\ UNCHANGED <<rec, wire, pub, pass, kill, stopped, faults>>

TargetEnds(r, b) ==
    /\ tgt[r][b] = "active"
    /\ tgt' = [tgt EXCEPT ![r][b] = "ended"]
    /\ UNCHANGED <<rec, wire, pub, pass, kill, stopped, faults>>

\* The daemon publishes its admission snapshot.  counts is the placed jobs
\* accepted before it: those whose acceptance it is not older than.
TargetPublishes(r) ==
    /\ pub' = [pub EXCEPT ![r] =
                 [used |-> Cardinality(Active(r)),
                  ready |-> Live(r) = Active(r),
                  counts |-> {b \in Jobs : rec[b].state = "placed" /\ rec[b].target = r}]]
    /\ pub' # pub
    /\ UNCHANGED <<rec, tgt, wire, pass, kill, stopped, faults>>

-----------------------------------------------------------------------------
(* The placement pass, under the pass lock.                                *)

\* broker_capacity.collect: the targets show their daemons' figures, and are
\* ready only if no live spec is pending either.  A target that does not
\* answer, or whose figures are too old, is one for which the steps below
\* settle, replay and place nothing, as they always may.  The scan that
\* follows finds the jobs, and the attempts a crash interrupted.
PassStarts ==
    /\ pass.at = "idle"
    /\ pass' = [IdlePass EXCEPT
                  !.at = "recover",
                  !.known = {b \in Jobs : rec[b].state # "absent"},
                  !.recover = {b \in Jobs : rec[b].state \in {"reserved", "returned"}},
                  !.snap = [r \in Roots |->
                              [pub[r] EXCEPT !.ready = @ /\ Live(r) = Active(r)]]]
    /\ UNCHANGED <<rec, tgt, wire, pub, kill, stopped, faults>>

\* _recover_one: an unstarted reservation is released, a returned job resumes
\* holding or completes its cancellation.  These are two transitions.
PassRecovers(b) ==
    /\ pass.at = "recover" /\ b \in pass.recover
    /\ \/ /\ rec[b].state = "reserved"
          /\ Put(b, Returned(rec[b]))
          /\ UNCHANGED pass
       \/ /\ rec[b].state = "returned"
          /\ Put(b, Held(rec[b]))
          /\ pass' = [pass EXCEPT !.recover = @ \ {b}]
    /\ UNCHANGED <<tgt, wire, pub, kill, stopped, faults>>

\* Mutants of PassReads: a charge settles as soon as the job is listed, however
\* old the figures; a transfer in doubt waits for an operator.
PassReadsListed ==
    /\ pass.at = "recover" /\ pass.recover = {}
    /\ pass' = [pass EXCEPT
                  !.at = "work",
                  !.settle = {b \in pass.known : rec[b].state = "placed" /\ rec[b].charged},
                  !.replay = {b \in pass.known : rec[b].state = "transferring"},
                  !.queue = {b \in pass.known : rec[b].state = "held"}]
    /\ UNCHANGED <<rec, tgt, wire, pub, kill, stopped, faults>>

PassReadsNoReplay ==
    /\ pass.at = "recover" /\ pass.recover = {}
    /\ pass' = [pass EXCEPT
                  !.at = "work",
                  !.settle = {b \in pass.known : /\ rec[b].state = "placed" /\ rec[b].charged
                                                 /\ b \in pass.snap[rec[b].target].counts},
                  !.queue = {b \in pass.known : rec[b].state = "held"}]
    /\ UNCHANGED <<rec, tgt, wire, pub, kill, stopped, faults>>

\* The scanned records are read again: what to settle, to replay, to place.  A
\* charge settles on figures that are not older than the job's acceptance.
PassReads ==
    /\ pass.at = "recover" /\ pass.recover = {}
    /\ pass' = [pass EXCEPT
                  !.at = "work",
                  !.settle = {b \in pass.known : /\ rec[b].state = "placed" /\ rec[b].charged
                                                 /\ b \in pass.snap[rec[b].target].counts},
                  !.replay = {b \in pass.known : rec[b].state = "transferring"},
                  !.queue = {b \in pass.known : rec[b].state = "held"}]
    /\ UNCHANGED <<rec, tgt, wire, pub, kill, stopped, faults>>

\* settle_charge, also on the revision a cancellation made meanwhile.
PassSettles(b) ==
    /\ pass.at = "work" /\ b \in pass.settle
    /\ Put(b, [rec[b] EXCEPT !.charged = FALSE])
    /\ pass' = [pass EXCEPT !.settle = @ \ {b}]
    /\ UNCHANGED <<tgt, wire, pub, kill, stopped, faults>>

\* A transfer in doubt is replayed, to a target that answers with the recorded
\* state root and unless it is cancelled.
PassReplays(b) ==
    /\ pass.at = "work" /\ pass.settle = {} /\ b \in pass.replay
    /\ ~rec[b].cancel
    /\ pass' = [pass EXCEPT !.at = "check", !.job = b]
    /\ UNCHANGED <<rec, tgt, wire, pub, kill, stopped, faults>>

\* No evidence of the target, a retry interval that is not over, a
\* cancellation: the job is left as it is.
PassSkips(b) ==
    /\ pass.at = "work"
    /\ \/ b \in pass.settle /\ pass' = [pass EXCEPT !.settle = @ \ {b}]
       \/ /\ pass.settle = {} /\ b \in pass.replay
          /\ pass' = [pass EXCEPT !.replay = @ \ {b}]
    /\ UNCHANGED <<rec, tgt, wire, pub, kill, stopped, faults>>

\* The transfer of pass.job is over, well or not: the next one's turn.
NextJob(p) ==
    [p EXCEPT !.at = "work", !.replay = @ \ {p.job}, !.queue = @ \ {p.job},
              !.job = 0, !.answer = "none"]

\* The oldest job of the queue.
Head == CHOOSE b \in pass.queue : \A c \in pass.queue : b <= c

Eligible(r) ==
    /\ pass.snap[r].ready
    /\ Slots - pass.snap[r].used - Charges(r) >= 1

\* _place_locked up to reserve.  A host with room may still be refused to this
\* job (pool, program, wall time); without any, or with no attempt left, the
\* head stays and the pass ends.  A job cancelled meanwhile is skipped.
PassPlaces ==
    /\ pass.at = "work" /\ pass.settle = {} /\ pass.replay = {} /\ pass.queue # {}
    /\ LET b == Head
       IN  \/ /\ rec[b].state = "cancelled"
              /\ pass' = [pass EXCEPT !.queue = @ \ {b}]
              /\ UNCHANGED rec
           \/ /\ rec[b].state = "held"
              /\ pass' = IdlePass
              /\ UNCHANGED rec
           \/ \E r \in Roots :
                /\ rec[b].state = "held"
                /\ rec[b].attempts < MaxAttempts
                /\ Eligible(r)
                /\ Put(b, Reserved(rec[b], r))
                /\ pass' = [pass EXCEPT !.at = "begin", !.job = b]
    /\ UNCHANGED <<tgt, wire, pub, kill, stopped, faults>>

PassEnds ==
    /\ pass.at = "work" /\ pass.settle = {} /\ pass.replay = {} /\ pass.queue = {}
    /\ pass' = IdlePass
    /\ UNCHANGED <<rec, tgt, wire, pub, kill, stopped, faults>>

\* Mutant of PassBegins: no look at the cancellation.
PassBeginsAnyway ==
    /\ pass.at = "begin"
    /\ Put(pass.job, [rec[pass.job] EXCEPT !.state = "transferring"])
    /\ pass' = [pass EXCEPT !.at = "send"]
    /\ UNCHANGED <<tgt, wire, pub, kill, stopped, faults>>

\* begin_transfer, refused once a cancellation was requested.
PassBegins ==
    /\ pass.at = "begin"
    /\ \/ /\ ~rec[pass.job].cancel
          /\ Put(pass.job, [rec[pass.job] EXCEPT !.state = "transferring"])
          /\ pass' = [pass EXCEPT !.at = "check"]
       \/ /\ rec[pass.job].cancel
          /\ pass' = NextJob(pass)
          /\ UNCHANGED rec
    /\ UNCHANGED <<tgt, wire, pub, kill, stopped, faults>>

\* The last look at the cancellation before sending.
PassChecks ==
    /\ pass.at = "check"
    /\ pass' = IF rec[pass.job].cancel THEN NextJob(pass)
               ELSE [pass EXCEPT !.at = "send"]
    /\ UNCHANGED <<rec, tgt, wire, pub, kill, stopped, faults>>

PassSends ==
    /\ pass.at = "send"
    /\ wire' = wire \cup {<<rec[pass.job].target, pass.job>>}
    /\ pass' = [pass EXCEPT !.at = "await"]
    /\ UNCHANGED <<rec, tgt, pub, kill, stopped, faults>>

\* record_placed: on the current revision, whatever was cancelled meanwhile.
PassRecords ==
    /\ pass.at = "await" /\ pass.answer = "accepted"
    /\ Put(pass.job, [rec[pass.job] EXCEPT !.state = "placed"])
    /\ pass' = NextJob(pass)
    /\ UNCHANGED <<tgt, wire, pub, kill, stopped, faults>>

\* The target refused the key.  A refusal is no proof that no copy was
\* accepted: the attempt stays where it is.
PassIsRefused ==
    /\ pass.at = "await" /\ pass.answer = "fenced"
    /\ pass' = NextJob(pass)
    /\ UNCHANGED <<rec, tgt, wire, pub, kill, stopped, faults>>

\* The request or its answer is lost or late: the outcome is unknown.
PassLosesAnswer ==
    /\ pass.at = "await" /\ pass.answer # "fenced"
    /\ faults < MaxFaults
    /\ faults' = faults + 1
    /\ pass' = NextJob(pass)
    /\ UNCHANGED <<rec, tgt, wire, pub, kill, stopped>>

\* The process dies, or an error ends it, wherever it is.
PassDies ==
    /\ pass.at # "idle"
    /\ faults < MaxFaults
    /\ faults' = faults + 1
    /\ pass' = IdlePass
    /\ UNCHANGED <<rec, tgt, wire, pub, kill, stopped>>

-----------------------------------------------------------------------------
(* vq broker reconcile, under the pass lock.                               *)

ReconcileStarts(b) ==
    /\ pass.at = "idle"
    /\ rec[b].state = "transferring"
    /\ pass' = [IdlePass EXCEPT !.at = "fence", !.job = b, !.seen = rec[b].cancel]
    /\ UNCHANGED <<rec, tgt, wire, pub, kill, stopped, faults>>

\* Mutant of ReconcileFences: the target looks the key up and fences nothing.
ReconcileLooks ==
    /\ pass.at = "fence"
    /\ pass' = [pass EXCEPT !.at = "fenced", !.answer =
                  IF tgt[rec[pass.job].target][pass.job] \in Accepted
                  THEN "accepted" ELSE "fenced"]
    /\ UNCHANGED <<rec, tgt, wire, pub, kill, stopped, faults>>

\* The target settles the key under its lock and answers.
ReconcileFences ==
    /\ pass.at = "fence"
    /\ LET r == rec[pass.job].target
       IN  /\ tgt' = [tgt EXCEPT ![r][pass.job] = IF @ = "open" THEN "fenced" ELSE @]
           /\ pass' = [pass EXCEPT !.at = "fenced", !.answer =
                         IF tgt[r][pass.job] \in Accepted THEN "accepted" ELSE "fenced"]
    /\ UNCHANGED <<rec, wire, pub, kill, stopped, faults>>

\* The revision is the one this command saw last.
Unmoved == rec[pass.job].cancel = pass.seen

\* record_placed, or fence_transfer; --cancel then cancels the returned job.
ReconcileRecords ==
    /\ pass.at = "fenced" /\ Unmoved
    /\ \/ /\ pass.answer = "accepted"
          /\ Put(pass.job, [rec[pass.job] EXCEPT !.state = "placed"])
          /\ pass' = IdlePass
       \/ /\ pass.answer = "fenced"
          /\ Put(pass.job, Returned(rec[pass.job]))
          /\ \/ pass' = [pass EXCEPT !.at = "resume"]
             \/ ~pass.seen /\ pass' = [pass EXCEPT !.at = "cancel"]
    /\ UNCHANGED <<tgt, wire, pub, kill, stopped, faults>>

ReconcileCancels ==
    /\ pass.at = "cancel" /\ Unmoved
    /\ Put(pass.job, [rec[pass.job] EXCEPT !.cancel = TRUE])
    /\ pass' = [pass EXCEPT !.at = "resume", !.seen = TRUE]
    /\ UNCHANGED <<tgt, wire, pub, kill, stopped, faults>>

ReconcileResumes ==
    /\ pass.at = "resume" /\ Unmoved
    /\ Put(pass.job, Held(rec[pass.job]))
    /\ pass' = IdlePass
    /\ UNCHANGED <<tgt, wire, pub, kill, stopped, faults>>

\* A cancellation came between: the transition conflicts and the command
\* fails, leaving what it has done.
ReconcileConflicts ==
    /\ pass.at \in {"fenced", "cancel", "resume"} /\ ~Unmoved
    /\ pass' = IdlePass
    /\ UNCHANGED <<rec, tgt, wire, pub, kill, stopped, faults>>

-----------------------------------------------------------------------------
(* vq kill of a broker job: broker_relay._kill.                            *)

\* broker_service.cancel reads the record.
KillReads(b) ==
    /\ kill[b].at = "idle"
    /\ rec[b].state # "absent"
    /\ kill' = [kill EXCEPT ![b] = [at |-> "cancel", seen |-> rec[b]]]
    /\ UNCHANGED <<rec, tgt, wire, pub, pass, stopped, faults>>

\* request_cancel on the revision it read, unless that is cancelled already.
\* On a conflict it reads again, three times at most.
KillCancels(b) ==
    /\ kill[b].at = "cancel"
    /\ \/ /\ kill[b].seen.cancel
          /\ kill' = [kill EXCEPT ![b].at = "decide"]
          /\ UNCHANGED rec
       \/ /\ ~kill[b].seen.cancel
          /\ rec[b] = kill[b].seen
          /\ Put(b, Cancelled(rec[b]))
          /\ kill' = [kill EXCEPT ![b] = [at |-> "decide", seen |-> Cancelled(rec[b])]]
       \/ /\ ~kill[b].seen.cancel
          /\ rec[b] # kill[b].seen
          /\ \/ kill' = [kill EXCEPT ![b].seen = rec[b]]
             \/ kill' = [kill EXCEPT ![b] = NoKill]
          /\ UNCHANGED rec
    /\ UNCHANGED <<tgt, wire, pub, pass, stopped, faults>>

\* A job in doubt is not stopped.  One that is neither sent nor placed never
\* will be.  A placed one is killed on its target, if that can be reached.
KillDecides(b) ==
    /\ kill[b].at = "decide"
    /\ LET seen == kill[b].seen
       IN  \/ /\ seen.state \in {"transferring", "placed"}
              /\ UNCHANGED <<tgt, stopped>>
           \/ /\ seen.state \in NotSent
              /\ stopped' = stopped \cup {b}
              /\ UNCHANGED tgt
           \/ /\ seen.state = "placed"
              /\ tgt' = [tgt EXCEPT ![seen.target][b] = "ended"]
              /\ stopped' = stopped \cup {b}
    /\ kill' = [kill EXCEPT ![b] = NoKill]
    /\ UNCHANGED <<rec, wire, pub, pass, faults>>

-----------------------------------------------------------------------------

PassStep ==
    \/ PassStarts \/ PassReads \/ PassPlaces \/ PassEnds
    \/ PassBegins \/ PassChecks \/ PassSends \/ PassRecords \/ PassIsRefused
    \/ \E b \in Jobs : PassRecovers(b) \/ PassSettles(b)
                      \/ PassReplays(b) \/ PassSkips(b)
ReconcileStep ==
    \/ ReconcileFences \/ ReconcileRecords \/ ReconcileCancels \/ ReconcileResumes
    \/ ReconcileConflicts

Next ==
    \/ PassStep \/ PassLosesAnswer \/ PassDies
    \/ ReconcileStep
    \/ \E b \in Jobs :
         \/ Accept(b)
         \/ ReconcileStarts(b)
         \/ \E r \in Roots :
              TargetHandles(r, b) \/ TargetStarts(r, b) \/ TargetEnds(r, b)
    \/ \E b \in Killed : KillReads(b) \/ KillCancels(b) \/ KillDecides(b)
    \/ \E r \in Roots : TargetPublishes(r)

Spec == Init /\ [][Next]_vars

\* The daemon starts a pass at every interval and a pass goes on until it
\* ends; a reconcile command goes on; a request that is waited for is
\* handled; and a transfer in doubt is not for ever too recent or without
\* evidence of its target when a pass looks at it.
Fairness ==
    /\ WF_vars(PassStep)
    /\ WF_vars(ReconcileStep)
    /\ \A b \in Jobs :
         /\ SF_vars(PassReplays(b))
         /\ \A r \in Roots : WF_vars(pass.at = "await" /\ TargetHandles(r, b))

FairSpec == Spec /\ Fairness

-----------------------------------------------------------------------------
(* Properties.                                                             *)

TypeOK ==
    /\ rec \in [Jobs -> RecordType]
    /\ tgt \in [Roots -> [Jobs -> {"open", "fenced"} \cup Accepted]]
    /\ wire \subseteq Roots \X Jobs
    /\ pub \in [Roots -> Snapshots]
    /\ pass \in Passes
    /\ kill \in [Killed -> [at : {"idle", "cancel", "decide"}, seen : RecordType]]
    /\ stopped \subseteq Jobs
    /\ faults \in 0 .. MaxFaults

\* A target has the job, or a copy of the request could still give it the job,
\* only while the record is in transfer to that target or placed there.  So a
\* held job is nowhere, and no job is at two targets, whatever crashes, lost
\* answers, late copies, replays and reconciles there were.
RecordTellsWhere ==
    \A b \in Jobs, r \in Roots :
        \/ tgt[r][b] \in Accepted
        \/ tgt[r][b] = "open" /\ <<r, b>> \in wire
        => rec[b].state \in {"transferring", "placed"} /\ rec[b].target = r

\* What vq kill called stopped, so that --resubmit makes a second copy of the
\* work, never runs again and cannot arrive anywhere later.
StoppedStaysStopped ==
    \A b \in stopped, r \in Roots :
        /\ tgt[r][b] \notin {"pending", "active"}
        /\ ~(tgt[r][b] = "open" /\ <<r, b>> \in wire)

\* The broker never sends a target more work than it has room for: charges
\* and published figures together never lose a job, even though the figures
\* are old and a charge is settled before the job ends.
NoOverCommit == \A r \in Roots : Cardinality(Live(r)) <= Slots

\* Nobody waits for an operator.  A pass or reconcile that stops half-way
\* strands no job: one that is reserved or returned is held again, sent, or its
\* cancellation completed.  And a transfer in doubt that nobody cancels, to a
\* target that has not fenced its key, is settled by replays alone.
NothingStranded ==
    \A b \in Jobs :
        /\ rec[b].state \in {"reserved", "returned"}
           ~> rec[b].state \in {"held", "transferring", "cancelled"}
        /\ (/\ rec[b].state = "transferring" /\ ~rec[b].cancel
            /\ tgt[rec[b].target][b] # "fenced")
           ~> \/ rec[b].state # "transferring" \/ rec[b].cancel
              \/ tgt[rec[b].target][b] = "fenced"
=============================================================================
