--------------------------- MODULE SchedulerDrain ---------------------------
(***************************************************************************)
(* Holding back dispatch: drain.json and the scheduler drain leases        *)
(* (drain.py), the vq drain commands that change them (cli.py), the        *)
(* dispatch pass of the driver daemon that obeys them, and vq admin update *)
(* of a scheduler host, which takes a lease while it waits for the host's  *)
(* jobs to finish and then rebuilds the host's environment.                *)
(*                                                                         *)
(* Every change but the daemon's own expiry of drain.json is an RPC.  The  *)
(* daemon answers RPCs one at a time, in the order in which it accepts     *)
(* them.  A caller that gives up leaves its request in the backlog.        *)
(*                                                                         *)
(* drain.json may still hold what an older vq wrote: a full hold without   *)
(* the full_dispatch flag, or the lane of a scheduler host.  Job counts    *)
(* and cpu caps of a partial drain are one flag here.                      *)
(***************************************************************************)
EXTENDS Integers, FiniteSets, Sequences

CONSTANTS
    Hosts,        \* scheduler targets
    Updated,      \* the one that vq admin update rebuilds
    Local,        \* the driver itself, where local jobs go
    Jobs,
    Target,       \* where each job goes
    Operators,    \* people at a terminal
    MultiUser,    \* the daemon serves a system, not one user
    MaxCommands,  \* bound: vq drain and vq admin update commands
    MaxFaults     \* bound: given-up calls, restarts, broken stores

ASSUME DrainAssumption ==
    /\ Updated \in Hosts
    /\ Local \notin Hosts
    /\ Target \in [Jobs -> Hosts \cup {Local}]
    /\ {"update", "gone"} \cap Operators = {}
    /\ MultiUser \in BOOLEAN
    /\ MaxCommands \in Nat
    /\ MaxFaults \in Nat

VARIABLES
    drain,     \* drain.json
    leases,    \* scheduler-drain-leases.json
    readable,  \* that file can be read
    backlog,   \* RPC requests the daemon has not handled
    pass,      \* the daemon's dispatch pass
    job,       \* the state of each job
    cli,       \* each operator's vq drain
    update,    \* vq admin update
    marker,    \* its admin-update marker is on disk
    commands,  \* commands so far
    faults,
    cover      \* history: the targets held since the pass began

dvars == <<drain, leases, readable, backlog, pass, job, cli, update, marker,
           commands, faults, cover>>

Targets == Hosts \cup {Local}

-----------------------------------------------------------------------------
(* drain.py: what the two files say.                                       *)

NoDrain == [set |-> FALSE, full |-> FALSE, hosts |-> {}, caps |-> FALSE,
            timed |-> FALSE, ripe |-> FALSE]
DrainStates == [set : BOOLEAN, full : BOOLEAN, hosts : SUBSET Hosts, caps : BOOLEAN,
                timed : BOOLEAN, ripe : BOOLEAN]

Lease(n, h, owner) == [id |-> <<n, h>>, host |-> h, owner |-> owner]
Owners == {"operator", "update"}

is_full_drain(d) == d.set /\ (d.full \/ (~d.caps /\ d.hosts = {}))

\* Without the global hold, as release_full_drain and the expiry leave it.
WithoutFull(d) ==
    LET lifted == [d EXCEPT !.full = FALSE, !.timed = FALSE, !.ripe = FALSE]
    IN  IF d.hosts = {} /\ ~d.caps THEN NoDrain ELSE lifted

\* read_drain_state drops the global hold when its duration is over; caps go
\* too unless there is a lane to keep.
Expired(d) ==
    IF ~d.ripe THEN d
    ELSE IF d.hosts = {} THEN NoDrain
    ELSE [d EXCEPT !.full = FALSE, !.timed = FALSE, !.ripe = FALSE]

\* Mutant of Composed: the lanes are added to the hold as it is encoded.
ComposedPlainly(d, claims) ==
    IF claims = {} THEN d
    ELSE [d EXCEPT !.set = TRUE, !.hosts = @ \cup {l.host : l \in claims}]

\* _compose_effective_drain_state: a full hold that has no flag gets one, or
\* the lanes would turn it into a hold of these lanes alone.
Composed(d, claims) ==
    IF claims = {} THEN d
    ELSE [d EXCEPT !.set = TRUE, !.full = is_full_drain(d),
                   !.hosts = @ \cup {l.host : l \in claims}]

\* What dispatch holds back under the effective state e.
HeldBy(e, t) == is_full_drain(e) \/ (e.set /\ t \in e.hosts)

\* The target is held now, by drain.json, by a lease, by either.
HeldByDrain(t) == HeldBy(Expired(drain), t)
HeldByLease(t) == \E l \in leases : l.host = t
TargetHeld(t) == HeldByDrain(t) \/ HeldByLease(t)

-----------------------------------------------------------------------------
(* The daemon's RPC methods.  A request is sent by a client, who waits.    *)

Callers == Operators \cup {"update"}
Gone == "gone"

Acquire(l) == [op |-> "acquire", lease |-> l]
ReleaseId(id) == [op |-> "release id", id |-> id]
ReleaseHost(h) == [op |-> "release host", host |-> h]
ReleaseAll == [op |-> "release all"]
SetDrain(d) == [op |-> "set drain", drain |-> d]
ReleaseLane(h) == [op |-> "release lane", host |-> h]

LeaseOps == {"acquire", "release id", "release host", "release all"}

\* apply_scheduler_drain_lease_mutation.  One owner has one claim on a host:
\* asking again finds the first one.
Mutated(r) ==
    CASE r.op = "acquire" ->
           IF \E l \in leases : l.host = r.lease.host /\ l.owner = r.lease.owner
           THEN leases ELSE leases \cup {r.lease}
      [] r.op = "release id" -> {l \in leases : l.id # r.id}
      [] r.op = "release host" -> {l \in leases : l.host # r.host}
      [] r.op = "release all" -> {}

\* release_legacy_scheduler_host, on the unexpired state.
WithoutLane(d, h) ==
    IF h \notin d.hosts THEN d
    ELSE LET left == [d EXCEPT !.hosts = @ \ {h}]
         IN  IF left.hosts = {} /\ ~left.full /\ ~left.caps THEN NoDrain ELSE left

\* The answer reaches the client if that is still waiting.
Answer(p, reply) ==
    /\ cli' = IF p \in Operators THEN [cli EXCEPT ![p].reply = reply] ELSE cli
    /\ update' = IF p = "update" THEN [update EXCEPT !.reply = reply] ELSE update

Handle ==
    /\ backlog # <<>>
    /\ LET r == Head(backlog).request
       IN  IF r.op \in LeaseOps
           THEN /\ leases' = IF readable THEN Mutated(r) ELSE leases
                /\ Answer(Head(backlog).from,
                          IF ~readable THEN "error"
                          ELSE IF leases' # leases THEN "changed" ELSE "same")
                /\ UNCHANGED drain
           ELSE /\ drain' = IF r.op = "set drain" THEN r.drain
                            ELSE WithoutLane(Expired(drain), r.host)
                /\ Answer(Head(backlog).from, "changed")
                /\ UNCHANGED leases
    /\ backlog' = Tail(backlog)
    /\ UNCHANGED <<readable, pass, job, marker, commands, faults>>

Sent(p, request) == backlog' = Append(backlog, [from |-> p, request |-> request])

-----------------------------------------------------------------------------
(* Daemon._dispatch_pending, as far as it decides what may go where.       *)

IdlePass == [at |-> "idle", held |-> {}, drain |-> NoDrain]

\* The update's marker holds the one host it names.
PassStarts ==
    /\ pass.at = "idle"
    /\ \E j \in Jobs : job[j] = "pending"
    /\ pass' = [IdlePass EXCEPT !.at = "drain", !.held = IF marker THEN {Updated} ELSE {}]
    /\ UNCHANGED <<drain, leases, readable, backlog, job, cli, update, marker, commands,
                   faults>>

\* read_effective_drain_snapshot, first half: drain.json, under its lock,
\* written back if its duration is over.
PassReadsDrain ==
    /\ pass.at = "drain"
    /\ drain' = Expired(drain)
    /\ pass' = [pass EXCEPT !.at = "leases", !.drain = drain']
    /\ UNCHANGED <<leases, readable, backlog, job, cli, update, marker, commands, faults>>

\* Second half: the leases.  If they cannot be read, everything is held.
PassReadsLeases ==
    /\ pass.at = "leases"
    /\ LET e == Composed(pass.drain, leases)
       IN  pass' = IF ~readable \/ is_full_drain(e) THEN IdlePass
                   ELSE [pass EXCEPT !.at = "dispatch", !.drain = NoDrain,
                                     !.held = @ \cup {t \in Targets : HeldBy(e, t)}]
    /\ UNCHANGED <<drain, leases, readable, backlog, job, cli, update, marker, commands,
                   faults>>

\* The durable claim, PENDING to SUBMITTING (or RUNNING), that comes before
\* anything reaches the target.
PassClaims(j) ==
    /\ pass.at = "dispatch"
    /\ job[j] = "pending"
    /\ Target[j] \notin pass.held
    /\ job' = [job EXCEPT ![j] = "claimed"]
    /\ UNCHANGED <<drain, leases, readable, backlog, pass, cli, update, marker, commands,
                   faults>>

PassEnds ==
    /\ pass.at = "dispatch"
    /\ pass' = IdlePass
    /\ UNCHANGED <<drain, leases, readable, backlog, job, cli, update, marker, commands,
                   faults>>

JobEnds(j) ==
    /\ job[j] = "claimed"
    /\ job' = [job EXCEPT ![j] = "ended"]
    /\ UNCHANGED <<drain, leases, readable, backlog, pass, cli, update, marker, commands,
                   faults>>

\* _poll_admin_update_marker removes a marker whose writer is gone.
ReapMarker ==
    /\ marker
    /\ update.at \in {"over", "dead"}
    /\ marker' = FALSE
    /\ UNCHANGED <<drain, leases, readable, backlog, pass, job, cli, update, commands,
                   faults>>

-----------------------------------------------------------------------------
(* vq drain.  An operator's command has a number; its lease ids carry it.  *)

NoCommand ==
    [at |-> "idle", n |-> 0, cmd |-> "none", plan |-> {}, asked |-> {}, mine |-> {},
     drain |-> NoDrain, reply |-> "none"]

CliUnchanged == <<leases, readable, pass, job, update, marker>>

FirstStep(cmd) ==
    CASE cmd \in {"full", "caps"} -> "read"
      [] cmd \in {"hold", "handoff"} -> "acquire"
      [] cmd \in {"release", "release host"} -> "release"

\* vq drain, --max-jobs, --scheduler-host, --release-full with or without
\* --scheduler-host, --release, --release --scheduler-host.
Begin(p) ==
    /\ cli[p].at = "idle"
    /\ commands < MaxCommands
    /\ commands' = commands + 1
    /\ \E cmd \in {"full", "caps", "hold", "handoff", "release", "release host"},
          plan \in SUBSET Hosts :
         /\ cmd \in {"hold", "release host"} => plan # {}
         /\ cmd \in {"full", "caps", "release"} => plan = {}
         /\ cmd = "release host" => Cardinality(plan) = 1
         /\ cli' = [cli EXCEPT ![p] =
                      [NoCommand EXCEPT !.at = FirstStep(cmd), !.n = commands + 1,
                                        !.cmd = cmd, !.plan = plan]]
    /\ UNCHANGED <<drain, backlog, faults, CliUnchanged>>

\* read_drain_state, whose expiry is the daemon's.  The daemon answers it in
\* its turn; without an answer the command reads the file itself.
CliReads(p) ==
    /\ cli[p].at = "read"
    /\ drain' = Expired(drain)
    /\ cli' = [cli EXCEPT ![p].drain = drain', ![p].at = "write"]
    /\ UNCHANGED <<backlog, commands, faults, CliUnchanged>>

\* The state a command writes from the one it read.  A new hold keeps the
\* lanes; --release-full lifts the global hold and keeps the rest.
Written(c) ==
    IF c.cmd = "handoff" THEN {WithoutFull(c.drain)}
    ELSE {[NoDrain EXCEPT !.set = TRUE, !.full = c.cmd = "full", !.caps = c.cmd = "caps",
                          !.hosts = c.drain.hosts, !.timed = t] : t \in BOOLEAN}

CliWrites(p) ==
    /\ cli[p].at = "write"
    /\ \/ /\ cli[p].cmd = "handoff" /\ ~is_full_drain(cli[p].drain)
          /\ cli' = [cli EXCEPT ![p] = NoCommand]
          /\ UNCHANGED backlog
       \/ /\ cli[p].cmd # "handoff" \/ is_full_drain(cli[p].drain)
          /\ \E d \in Written(cli[p]) :
               /\ Sent(p, SetDrain(d))
               /\ cli' = [cli EXCEPT ![p].at = "written", ![p].drain = d]
    /\ UNCHANGED <<drain, commands, faults, CliUnchanged>>

\* write_drain_state and clear_drain, unanswered: a single user's command
\* writes the file itself.
CliWritten(p) ==
    /\ cli[p].at = "written" /\ cli[p].reply # "none"
    /\ drain' = IF cli[p].reply = "error" /\ ~MultiUser THEN cli[p].drain ELSE drain
    /\ cli' = [cli EXCEPT ![p] = NoCommand]
    /\ UNCHANGED <<backlog, commands, faults, CliUnchanged>>

\* _acquire_scheduler_leases, one host after the other.
CliAcquires(p) ==
    /\ cli[p].at = "acquire"
    /\ \/ /\ cli[p].plan = {}
          /\ cli' = IF cli[p].cmd = "handoff" THEN [cli EXCEPT ![p].at = "read"]
                    ELSE [cli EXCEPT ![p] = NoCommand]
          /\ UNCHANGED backlog
       \/ \E h \in cli[p].plan :
            /\ Sent(p, Acquire(Lease(cli[p].n, h, "operator")))
            /\ cli' = [cli EXCEPT ![p].at = "acquired", ![p].plan = @ \ {h},
                                  ![p].asked = {<<cli[p].n, h>>}]
    /\ UNCHANGED <<drain, commands, faults, CliUnchanged>>

\* A claim that was there before is not this command's to roll back; one that
\* may have been made is.
CliAcquired(p) ==
    /\ cli[p].at = "acquired" /\ cli[p].reply # "none"
    /\ cli' = [cli EXCEPT ![p].at = IF cli[p].reply = "error" THEN "roll back" ELSE "acquire",
                          ![p].mine = IF cli[p].reply = "same" THEN @
                                      ELSE @ \cup cli[p].asked,
                          ![p].asked = {}, ![p].reply = "none"]
    /\ UNCHANGED <<drain, backlog, commands, faults, CliUnchanged>>

CliRollsBack(p) ==
    /\ cli[p].at = "roll back"
    /\ \/ /\ cli[p].mine = {}
          /\ cli' = [cli EXCEPT ![p] = NoCommand]
          /\ UNCHANGED backlog
       \/ \E id \in cli[p].mine :
            /\ Sent(p, ReleaseId(id))
            /\ cli' = [cli EXCEPT ![p].at = "rolled back", ![p].mine = @ \ {id}]
    /\ UNCHANGED <<drain, commands, faults, CliUnchanged>>

\* Whatever the answer, the next one is tried.
CliRolledBack(p) ==
    /\ cli[p].at = "rolled back" /\ cli[p].reply # "none"
    /\ cli' = [cli EXCEPT ![p].at = "roll back", ![p].reply = "none"]
    /\ UNCHANGED <<drain, backlog, commands, faults, CliUnchanged>>

\* --release: all leases, or those of the host, and then drain.json or its
\* lane.
CliReleases(p) ==
    /\ cli[p].at = "release"
    /\ \/ cli[p].cmd = "release" /\ Sent(p, ReleaseAll)
       \/ cli[p].cmd = "release host" /\ \E h \in cli[p].plan : Sent(p, ReleaseHost(h))
    /\ cli' = [cli EXCEPT ![p].at = "released"]
    /\ UNCHANGED <<drain, commands, faults, CliUnchanged>>

\* A release that failed ends the command, unless the store can be read and
\* holds nothing.
CliReleased(p) ==
    /\ cli[p].at = "released" /\ cli[p].reply # "none"
    /\ \/ /\ cli[p].reply # "error" \/ (readable /\ leases = {})
          /\ \/ /\ cli[p].cmd = "release"
                /\ Sent(p, SetDrain(NoDrain))
                /\ cli' = [cli EXCEPT ![p].at = "written", ![p].drain = NoDrain,
                                      ![p].reply = "none"]
             \/ /\ cli[p].cmd = "release host"
                /\ \E h \in cli[p].plan : Sent(p, ReleaseLane(h))
                /\ cli' = [cli EXCEPT ![p].at = "unlaned", ![p].reply = "none"]
       \/ /\ cli[p].reply = "error" /\ ~(readable /\ leases = {})
          /\ cli' = [cli EXCEPT ![p] = NoCommand]
          /\ UNCHANGED backlog
    /\ UNCHANGED <<drain, commands, faults, CliUnchanged>>

CliUnlaned(p) ==
    /\ cli[p].at = "unlaned" /\ cli[p].reply # "none"
    /\ cli' = [cli EXCEPT ![p] = NoCommand]
    /\ UNCHANGED <<drain, backlog, commands, faults, CliUnchanged>>

-----------------------------------------------------------------------------
(* vq admin update of the scheduler host: _update_scheduler_host_guarded.  *)

NoUpdate == [at |-> "none", lane |-> FALSE, failed |-> FALSE, started |-> FALSE,
             unreleased |-> FALSE, reply |-> "none"]
UpdateLease == Lease(0, Updated, "update")
UpdateUnchanged == <<drain, leases, readable, pass, job, cli, commands, faults>>

\* With --drain-wait the lane is taken under an id made up beforehand; without
\* it, or if the site's last receipt proves that its deploy is atomic, not.
UpdateStarts ==
    /\ update.at = "none"
    /\ commands < MaxCommands
    /\ commands' = commands + 1
    /\ marker' = TRUE
    /\ \/ /\ update' = [NoUpdate EXCEPT !.at = "lane", !.lane = TRUE]
          /\ Sent("update", Acquire(UpdateLease))
       \/ /\ update' = [NoUpdate EXCEPT !.at = "census"]
          /\ UNCHANGED backlog
       \/ /\ update' = [NoUpdate EXCEPT !.at = "stage"]
          /\ UNCHANGED backlog
    /\ UNCHANGED <<drain, leases, readable, pass, job, cli, faults>>

\* Mutant of UpdateHasLane: an unanswered call took no lane.
UpdateHasLaneIfTold ==
    /\ update.at = "lane" /\ update.reply # "none"
    /\ update' = [update EXCEPT !.at = IF update.reply = "error" THEN "end" ELSE "census",
                                !.lane = update.reply # "error",
                                !.failed = update.reply = "error", !.reply = "none"]
    /\ UNCHANGED <<backlog, marker, UpdateUnchanged>>

\* _take_scheduler_drain_lane answers, or fails and with it the update.
UpdateHasLane ==
    /\ update.at = "lane" /\ update.reply # "none"
    /\ update' = [update EXCEPT !.at = IF update.reply = "error" THEN "end" ELSE "census",
                                !.failed = update.reply = "error", !.reply = "none"]
    /\ UNCHANGED <<backlog, marker, UpdateUnchanged>>

\* The specs that still occupy the target, less those the scheduler says have
\* ended: _reconcile_active_scheduler_jobs.
Occupying == {j \in Jobs : Target[j] = Updated /\ job[j] = "claimed"}

\* _await_scheduler_quiescence: none is left, or some are and the wait is over.
UpdateCounts ==
    /\ update.at = "census"
    /\ update' = [update EXCEPT !.at = IF Occupying = {} THEN "stage" ELSE "end",
                                !.failed = Occupying # {}]
    /\ UNCHANGED <<backlog, marker, UpdateUnchanged>>

\* The source is staged, or not, and then the update command runs.
UpdateStages ==
    /\ update.at = "stage"
    /\ \/ update' = [update EXCEPT !.at = "end", !.failed = TRUE]
       \/ update' = [update EXCEPT !.at = "command", !.started = TRUE]
    /\ UNCHANGED <<backlog, marker, UpdateUnchanged>>

UpdateRuns ==
    /\ update.at = "command"
    /\ \E failed \in BOOLEAN : update' = [update EXCEPT !.at = "end", !.failed = failed]
    /\ UNCHANGED <<backlog, marker, UpdateUnchanged>>

\* The finally block: exactly this update's claim is released.
UpdateReleases ==
    /\ update.at = "end"
    /\ IF update.lane
       THEN /\ Sent("update", ReleaseId(UpdateLease.id))
            /\ update' = [update EXCEPT !.at = "release"]
       ELSE update' = [update EXCEPT !.at = "clear"] /\ UNCHANGED backlog
    /\ UNCHANGED <<marker, UpdateUnchanged>>

\* A release that is not confirmed is an error of the update, which names the
\* command that clears the lane.
UpdateReleased ==
    /\ update.at = "release" /\ update.reply # "none"
    /\ update' = [update EXCEPT !.at = "clear", !.failed = @ \/ update.reply = "error",
                                !.unreleased = update.reply = "error", !.reply = "none"]
    /\ UNCHANGED <<backlog, marker, UpdateUnchanged>>

\* A failed update that had started its command keeps its marker.
UpdateEnds ==
    /\ update.at = "clear"
    /\ update' = [NoUpdate EXCEPT !.at = "over", !.unreleased = update.unreleased]
    /\ marker' = (update.failed /\ update.started)
    /\ UNCHANGED <<backlog, UpdateUnchanged>>

-----------------------------------------------------------------------------
(* Time and faults.                                                        *)

\* The duration of a hold is over.
Ripens ==
    /\ drain.timed /\ ~drain.ripe
    /\ drain' = [drain EXCEPT !.ripe = TRUE]
    /\ UNCHANGED <<leases, readable, backlog, pass, job, cli, update, marker, commands,
                   faults>>

Fails == faults < MaxFaults /\ faults' = faults + 1

Waiting(p) == \E i \in 1 .. Len(backlog) : backlog[i].from = p

\* Nobody waits for any of these requests any more.
Abandoned(requests, ps) ==
    [i \in DOMAIN requests |->
        IF requests[i].from \in ps THEN [requests[i] EXCEPT !.from = Gone] ELSE requests[i]]

\* The client's five seconds are over; the request stays where it is.
GivesUp(p) ==
    /\ Fails
    /\ Waiting(p)
    /\ backlog' = Abandoned(backlog, {p})
    /\ Answer(p, "error")
    /\ UNCHANGED <<drain, leases, readable, pass, job, marker, commands>>

\* The daemon dies with its backlog and starts again.
Restarts ==
    /\ Fails
    /\ backlog' = <<>>
    /\ pass' = IdlePass
    /\ cli' = [p \in Operators |-> IF Waiting(p) THEN [cli[p] EXCEPT !.reply = "error"]
                                   ELSE cli[p]]
    /\ update' = IF Waiting("update") THEN [update EXCEPT !.reply = "error"] ELSE update
    /\ UNCHANGED <<drain, leases, readable, job, marker, commands>>

\* The lease store cannot be read, until somebody mends it.
Breaks ==
    /\ IF readable THEN Fails ELSE UNCHANGED faults
    /\ readable' = ~readable
    /\ UNCHANGED <<drain, leases, backlog, pass, job, cli, update, marker, commands>>

\* kill -9: no finally block runs.
UpdateDies ==
    /\ Fails
    /\ update.at \notin {"none", "over", "dead"}
    /\ update' = [NoUpdate EXCEPT !.at = "dead"]
    /\ backlog' = Abandoned(backlog, {"update"})
    /\ UNCHANGED <<drain, leases, readable, pass, job, cli, marker, commands>>

-----------------------------------------------------------------------------

NoCover == [any |-> {}, drain |-> {}, lease |-> {}]

\* What an older vq may have left: nothing, a full hold, a lane.
DrainInit ==
    /\ drain \in {NoDrain, [NoDrain EXCEPT !.set = TRUE],
                  [NoDrain EXCEPT !.set = TRUE, !.hosts = {Updated}]}
    /\ leases = {}
    /\ readable = TRUE
    /\ backlog = <<>>
    /\ pass = IdlePass
    /\ job = [j \in Jobs |-> "pending"]
    /\ cli = [p \in Operators |-> NoCommand]
    /\ update = NoUpdate
    /\ marker = FALSE
    /\ commands = 0
    /\ faults = 0
    /\ cover = NoCover

Step ==
    \/ Handle
    \/ PassStarts \/ PassReadsDrain \/ PassReadsLeases \/ PassEnds
    \/ \E j \in Jobs : PassClaims(j) \/ JobEnds(j)
    \/ \E p \in Operators :
         \/ Begin(p) \/ CliReads(p) \/ CliWrites(p) \/ CliWritten(p)
         \/ CliAcquires(p) \/ CliAcquired(p) \/ CliRollsBack(p) \/ CliRolledBack(p)
         \/ CliReleases(p) \/ CliReleased(p) \/ CliUnlaned(p)
    \/ UpdateStarts \/ UpdateHasLane \/ UpdateCounts \/ UpdateStages \/ UpdateRuns
    \/ UpdateReleases \/ UpdateReleased \/ UpdateEnds
    \/ ReapMarker \/ Ripens
    \/ \E p \in Callers : GivesUp(p)
    \/ Restarts \/ Breaks \/ UpdateDies

\* Since the pass began: any, held at every moment; drain, by drain.json at
\* every moment; lease, by a lease now and by drain.json or a lease before.
DrainNext ==
    /\ Step
    /\ LET over(s) == IF pass.at = "idle" THEN Targets ELSE s
       IN  cover' = IF pass'.at = "idle" THEN NoCover
                    ELSE [any   |-> {t \in over(cover.any) : TargetHeld(t)'},
                          drain |-> {t \in over(cover.drain) : HeldByDrain(t)'},
                          lease |-> {t \in over(cover.drain \cup cover.lease) :
                                       HeldByLease(t)'}]

DrainSpec == DrainInit /\ [][DrainNext]_dvars

-----------------------------------------------------------------------------
(* Properties.                                                             *)

Claimed(j) == job[j] = "pending" /\ job'[j] = "claimed"

\* A target that a full hold, an old lane or a lease held when a pass began, and
\* that is held ever since, gets no job from this pass, even if drain.json
\* hands it to a lease in the middle.  It needs the pass to read drain.json
\* before the leases, an old full hold to stay one when leases join it, and a
\* lease store that cannot be read to hold everything.
HeldGetsNothing ==
    [][\A j \in Jobs : Claimed(j) => Target[j] \notin cover.drain \cup cover.lease]_dvars

\* The same for a hold that goes from a lease to drain.json, as a "coherent
\* legacy/lease snapshot" would give.
SnapshotIsCoherent ==
    [][\A j \in Jobs : Claimed(j) => Target[j] \notin cover.any]_dvars

\* An update that ends, even one that gave up on the call that took its lane,
\* leaves no lane behind once the daemon has caught up, or else says so.
NoLaneLeaks ==
    update.at = "over" /\ backlog = <<>> /\ UpdateLease \in leases => update.unreleased

\* No job occupies the scheduler host while its environment is rebuilt: "The
\* lane stops the daemon dispatching *new* work to the target for the duration".
NothingRunsMeanwhile == update.at = "command" /\ update.lane => Occupying = {}
=============================================================================
