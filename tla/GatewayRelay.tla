---------------------------- MODULE GatewayRelay ----------------------------
(***************************************************************************)
(* The relay-mode gateway (gateway/relay.py) and the outbound connector    *)
(* that drives a broker for it (gateway/connector.py).                     *)
(*                                                                         *)
(* The gateway leases work items (submit, cancel, collect) under an epoch; *)
(* the connector claims them, acts on the broker, and acknowledges.  Any   *)
(* request or answer may be lost or late, the connector may crash and come *)
(* back with another configuration, and an acknowledgement whose sender    *)
(* gave up may still arrive.                                               *)
(*                                                                         *)
(* The broker is seen through what the connector does to it: the keyed     *)
(* accept, the kill, and the state of the job.                             *)
(***************************************************************************)
EXTENDS Naturals

CONSTANTS
    Jobs,         \* relay jobs, one per idempotency key
    NoJob,
    Chunks,       \* pushes that a job's result files take
    MaxCollects,  \* times a client asks for the results of one job
    MaxFaults     \* lost messages, deferrals and crashes there may be

ASSUME RelayAssumption ==
    /\ NoJob \notin Jobs
    /\ Chunks \in Nat \ {0}
    /\ MaxCollects \in Nat
    /\ MaxFaults \in Nat

VARIABLES
    relay,     \* the gateway's records
    pushed,    \* chunks of results the gateway has received for each job
    wire,      \* acknowledgements sent and not yet handled
    conn,      \* the connector process
    journal,   \* its durable journal: jobs the broker accepted
    broker,    \* the broker's job under the relay job's key
    faults

vars == <<relay, pushed, wire, conn, journal, broker, faults>>

Kinds == {"submit", "cancel", "collect"}
Items == [kind : Kinds, job : Jobs, epoch : Nat]
Outcomes == {"accepted", "refused", "stopped", "not-stopped", "collected",
             "not-finished", "failed"}
NoItem == [kind |-> "submit", job |-> NoJob, epoch |-> 0]

\* One leased thing of a record: its state, claim epoch and lease.
Work(state) == [state |-> state, epoch |-> 0, leased |-> FALSE]
NewRecord == [submit |-> Work("absent"), cancel |-> Work("none"), collect |-> Work("none"),
              view |-> "none"]

Idle(placeable) ==
    [at |-> "idle", todo |-> {}, item |-> NoItem, outcome |-> "accepted",
     placeable |-> placeable]

Init ==
    /\ relay = [j \in Jobs |-> NewRecord]
    /\ pushed = [j \in Jobs |-> 0]
    /\ wire = {}
    /\ conn = Idle(TRUE)
    /\ journal = {}
    /\ broker = [j \in Jobs |-> [state |-> "none", cancel |-> FALSE]]
    /\ faults = 0

Fault == faults < MaxFaults /\ faults' = faults + 1

-----------------------------------------------------------------------------
(* Clients of the gateway.                                                 *)

Admit(j) ==
    /\ relay[j].submit.state = "absent"
    /\ relay' = [relay EXCEPT ![j].submit.state = "queued"]
    /\ UNCHANGED <<pushed, wire, conn, journal, broker, faults>>

\* Mutant of RequestCancel: a claimed job counts as not delivered.
RequestCancelClaimed(j) ==
    /\ relay[j].submit.state \in {"queued", "claimed"}
    /\ relay[j].cancel.state = "none"
    /\ relay' = [relay EXCEPT ![j].submit.state = "cancelled", ![j].cancel.state = "stopped"]
    /\ UNCHANGED <<pushed, wire, conn, journal, broker, faults>>

\* request_cancel: a job nobody has claimed is cancelled here and now.
RequestCancel(j) ==
    /\ relay[j].submit.state \in {"queued", "claimed", "accepted"}
    /\ relay[j].cancel.state = "none"
    /\ relay' = [relay EXCEPT
                   ![j].submit.state = IF @ = "queued" THEN "cancelled" ELSE @,
                   ![j].cancel.state =
                     IF relay[j].submit.state = "queued" THEN "stopped" ELSE "requested"]
    /\ UNCHANGED <<pushed, wire, conn, journal, broker, faults>>

\* request_results: again after a settled not-finished or failed.
RequestResults(j) ==
    /\ relay[j].submit.state = "accepted"
    /\ relay[j].collect.state \in {"none", "not-finished", "failed"}
    /\ relay[j].collect.epoch < MaxCollects
    /\ relay' = [relay EXCEPT ![j].collect.state = "requested", ![j].collect.leased = FALSE]
    /\ UNCHANGED <<pushed, wire, conn, journal, broker, faults>>

-----------------------------------------------------------------------------
(* Leases.                                                                 *)

\* Mutant of Claimable: a submission is handed out once.
ClaimableOnce(k, j) ==
    /\ ~relay[j][k].leased
    /\ IF k = "submit" THEN relay[j].submit.state = "queued"
       ELSE relay[j].submit.state = "accepted" /\ relay[j][k].state = "requested"

Claimable(k, j) ==
    /\ ~relay[j][k].leased
    /\ IF k = "submit" THEN relay[j].submit.state \in {"queued", "claimed"}
       ELSE relay[j].submit.state = "accepted" /\ relay[j][k].state = "requested"

\* What claim leaves of a record: a new epoch and lease for each item taken.
Lease(work, state) == [state |-> state, epoch |-> work.epoch + 1, leased |-> TRUE]
Leased(j, taken) ==
    [relay[j] EXCEPT
       !.submit = IF <<"submit", j>> \in taken THEN Lease(@, "claimed") ELSE @,
       !.cancel = IF <<"cancel", j>> \in taken THEN Lease(@, @.state) ELSE @,
       !.collect = IF <<"collect", j>> \in taken THEN Lease(@, @.state) ELSE @]

\* Work that does not fit the spool or the item limit stays for a later claim.
Claim ==
    /\ conn.at = "idle"
    /\ \E taken \in SUBSET {t \in Kinds \X Jobs : Claimable(t[1], t[2])} :
         /\ taken # {}
         /\ relay' = [j \in Jobs |-> Leased(j, taken)]
         /\ \/ /\ conn' = [conn EXCEPT
                             !.at = "next",
                             !.todo = {[kind |-> t[1], job |-> t[2],
                                        epoch |-> relay[t[2]][t[1]].epoch + 1] : t \in taken}]
               /\ UNCHANGED faults
            \/ Fault /\ UNCHANGED conn                  \* the answer is lost
    /\ UNCHANGED <<pushed, wire, journal, broker>>

LeaseExpires(k, j) ==
    /\ relay[j][k].leased
    /\ relay' = [relay EXCEPT ![j][k].leased = FALSE]
    /\ UNCHANGED <<pushed, wire, conn, journal, broker, faults>>

-----------------------------------------------------------------------------
(* The connector's run_once.                                               *)

item == conn.item
Goto(place) == conn' = [conn EXCEPT !.at = place]
NextItem == conn' = [conn EXCEPT !.at = "next", !.item = NoItem]
ToAck(outcome) == conn' = [conn EXCEPT !.at = "ack", !.outcome = outcome]

\* Submits come first in the list, then cancels, then collects.
Rank(k) == CASE k = "submit" -> 1 [] k = "cancel" -> 2 [] k = "collect" -> 3

TakesItem ==
    /\ conn.at = "next"
    /\ \E i \in conn.todo :
         /\ \A other \in conn.todo : Rank(i.kind) <= Rank(other.kind)
         /\ conn' = [conn EXCEPT !.at = i.kind, !.item = i, !.todo = @ \ {i}]
    /\ UNCHANGED <<relay, pushed, wire, journal, broker, faults>>

\* The payload is served while the record is claimed; anything else defers
\* the item to its next lease.
Downloads ==
    /\ conn.at = "submit"
    /\ \/ /\ relay[item.job].submit.state = "claimed"
          /\ Goto("accept")
          /\ UNCHANGED faults
       \/ /\ relay[item.job].submit.state # "claimed"
          /\ NextItem
          /\ UNCHANGED faults
       \/ Fault /\ NextItem
    /\ UNCHANGED <<relay, pushed, wire, journal, broker>>

\* Mutant of Accepts: acknowledge before the journal is written.
AcceptsAndAcks ==
    /\ conn.at = "accept"
    /\ conn.placeable
    /\ broker' = [broker EXCEPT ![item.job].state = IF @ = "none" THEN "held" ELSE @]
    /\ ToAck("accepted")
    /\ UNCHANGED <<relay, pushed, wire, journal, faults>>

\* broker_service.accept: the configuration is asked before the key is looked
\* up.  A store that is busy defers.
Accepts ==
    /\ conn.at = "accept"
    /\ \/ /\ conn.placeable
          /\ broker' = [broker EXCEPT ![item.job].state = IF @ = "none" THEN "held" ELSE @]
          /\ Goto("remember")
          /\ UNCHANGED faults
       \/ ~conn.placeable /\ ToAck("refused") /\ UNCHANGED <<broker, faults>>
       \/ Fault /\ NextItem /\ UNCHANGED broker
    /\ UNCHANGED <<relay, pushed, wire, journal>>

Remembers ==
    /\ conn.at = "remember"
    /\ journal' = journal \cup {item.job}
    /\ ToAck("accepted")
    /\ UNCHANGED <<relay, pushed, wire, broker, faults>>

\* broker_relay._kill.  An unreachable target defers.
Kills ==
    /\ conn.at = "cancel"
    /\ LET b == broker[item.job]
       IN  \/ /\ b.state \in {"held", "cancelled"}
              /\ broker' = [broker EXCEPT ![item.job] = [state |-> "cancelled", cancel |-> TRUE]]
              /\ ToAck("stopped")
              /\ UNCHANGED faults
           \/ /\ b.state = "transferring"
              /\ broker' = [broker EXCEPT ![item.job].cancel = TRUE]
              /\ ToAck("not-stopped")
              /\ UNCHANGED faults
           \/ /\ b.state \in {"placed", "done"}
              /\ broker' = [broker EXCEPT ![item.job] = [state |-> "done", cancel |-> TRUE]]
              /\ ToAck("stopped")
              /\ UNCHANGED faults
           \/ Fault /\ NextItem /\ UNCHANGED broker
    /\ UNCHANGED <<relay, pushed, wire, journal>>

\* Mutant of Collects: a placed job counts as finished.
CollectsPlaced ==
    /\ conn.at = "collect"
    /\ broker[item.job].state \in {"placed", "done"} /\ Goto("push")
    /\ UNCHANGED <<relay, pushed, wire, journal, broker, faults>>

\* ResultStore.collect: only a job that ended on its target has results.
Collects ==
    /\ conn.at = "collect"
    /\ \/ broker[item.job].state = "done" /\ Goto("push") /\ UNCHANGED faults
       \/ broker[item.job].state # "done" /\ ToAck("not-finished") /\ UNCHANGED faults
       \/ Fault /\ NextItem
    /\ UNCHANGED <<relay, pushed, wire, journal, broker>>

\* One chunk, at exactly the size the gateway has; a lost answer makes the
\* connector go on from there.  Over the quota the collection fails.
Pushes ==
    /\ conn.at = "push"
    /\ \/ /\ relay[item.job].collect.state = "requested"
          /\ pushed[item.job] < Chunks
          /\ pushed' = [pushed EXCEPT ![item.job] = @ + 1]
          /\ UNCHANGED <<conn, faults>>
       \/ /\ pushed[item.job] = Chunks
          /\ ToAck("collected")
          /\ UNCHANGED <<pushed, faults>>
       \/ /\ relay[item.job].collect.state = "requested"
          /\ pushed[item.job] < Chunks
          /\ ToAck("failed")
          /\ UNCHANGED <<pushed, faults>>
       \/ /\ relay[item.job].collect.state # "requested"
          /\ NextItem
          /\ UNCHANGED <<pushed, faults>>
       \/ Fault /\ NextItem /\ UNCHANGED pushed
    /\ UNCHANGED <<relay, wire, journal, broker>>

SendsAck ==
    /\ conn.at = "ack"
    /\ wire' = wire \cup {<<item, conn.outcome>>}
    /\ Goto("await")
    /\ UNCHANGED <<relay, pushed, journal, broker, faults>>

\* An acknowledgement fails with an error: a submit or a collected item is
\* deferred, any other error ends the run with the rest of the list.
Defers ==
    IF conn.outcome \in {"stopped", "not-stopped", "not-finished", "failed"}
    THEN conn' = Idle(conn.placeable)
    ELSE NextItem

GivesUp ==
    /\ conn.at = "await"
    /\ Fault
    /\ Defers
    /\ UNCHANGED <<relay, pushed, wire, journal, broker>>

\* The list is done: report the views of all journalled jobs.
Reports ==
    /\ conn.at = "next" /\ conn.todo = {}
    /\ \/ /\ relay' = [j \in Jobs |->
                         IF j \in journal /\ relay[j].submit.state = "accepted"
                         THEN [relay[j] EXCEPT !.view = broker[j].state] ELSE relay[j]]
          /\ UNCHANGED faults
       \/ Fault /\ UNCHANGED relay
    /\ conn' = Idle(conn.placeable)
    /\ UNCHANGED <<pushed, wire, journal, broker>>

\* The process dies and its supervisor starts it again, with the
\* configuration as it is then.
Restarts ==
    /\ Fault
    /\ \E placeable \in BOOLEAN : conn' = Idle(placeable)
    /\ UNCHANGED <<relay, pushed, wire, journal, broker>>

-----------------------------------------------------------------------------
(* RelayStore.ack, on the claim's epoch.                                   *)

SubmitAcked(record, outcome) ==
    [record EXCEPT
       !.submit = [@ EXCEPT !.state = outcome, !.leased = FALSE],
       !.cancel.state = IF outcome = "refused" /\ @ = "requested" THEN "stopped" ELSE @]
CancelAcked(record, outcome) ==
    [record EXCEPT !.cancel = [@ EXCEPT !.state = outcome, !.leased = FALSE]]
CollectAcked(record, outcome) ==
    [record EXCEPT !.collect = [@ EXCEPT !.state = outcome, !.leased = FALSE]]

\* The acknowledgement is for the current claim and nothing settled it yet.
Settles(i, outcome) ==
    /\ i.epoch = relay[i.job][i.kind].epoch
    /\ CASE i.kind = "submit" -> relay[i.job].submit.state # "accepted"
         [] i.kind = "cancel" -> relay[i.job].cancel.state = "requested"
         [] i.kind = "collect" -> /\ relay[i.job].collect.state = "requested"
                                  /\ outcome = "collected" => pushed[i.job] = Chunks

\* It repeats what the record says: accepted again, without effect.
Repeats(i, outcome) ==
    /\ i.epoch = relay[i.job][i.kind].epoch
    /\ outcome = relay[i.job][i.kind].state
    /\ outcome \in {"accepted", "stopped", "not-stopped", "collected"}

HandlesAck(i, outcome) ==
    /\ <<i, outcome>> \in wire
    /\ wire' = wire \ {<<i, outcome>>}
    /\ IF Settles(i, outcome)
       THEN /\ relay' = [relay EXCEPT ![i.job] =
                           CASE i.kind = "submit" -> SubmitAcked(@, outcome)
                             [] i.kind = "cancel" -> CancelAcked(@, outcome)
                             [] i.kind = "collect" -> CollectAcked(@, outcome)]
            /\ pushed' = IF outcome \in {"not-finished", "failed"}
                         THEN [pushed EXCEPT ![i.job] = 0] ELSE pushed
       ELSE UNCHANGED <<relay, pushed>>
    /\ \/ /\ conn.at = "await" /\ <<conn.item, conn.outcome>> = <<i, outcome>>
          /\ IF Settles(i, outcome) \/ Repeats(i, outcome) THEN NextItem ELSE Defers
       \/ /\ ~(conn.at = "await" /\ <<conn.item, conn.outcome>> = <<i, outcome>>)
          /\ UNCHANGED conn
    /\ UNCHANGED <<journal, broker, faults>>

-----------------------------------------------------------------------------
(* The broker's own steps.                                                 *)

BrokerMoves(j) ==
    /\ \/ /\ broker[j].state = "held"
          /\ broker' = [broker EXCEPT ![j].state = "transferring"]
       \/ /\ broker[j].state = "transferring"
          /\ broker' = [broker EXCEPT ![j].state = "placed"]
       \/ /\ broker[j].state = "transferring"
          /\ broker' = [broker EXCEPT ![j].state =
                          IF broker[j].cancel THEN "cancelled" ELSE "held"]
       \/ /\ broker[j].state = "placed"
          /\ broker' = [broker EXCEPT ![j].state = "done"]
    /\ UNCHANGED <<relay, pushed, wire, conn, journal, faults>>

-----------------------------------------------------------------------------

ConnectorStep ==
    \/ TakesItem \/ Downloads \/ Accepts \/ Remembers \/ Kills
    \/ Collects \/ Pushes \/ SendsAck \/ Reports

Next ==
    \/ \E j \in Jobs : Admit(j) \/ RequestCancel(j) \/ RequestResults(j) \/ BrokerMoves(j)
    \/ Claim
    \/ \E k \in Kinds, j \in Jobs : LeaseExpires(k, j)
    \/ ConnectorStep \/ GivesUp \/ Restarts
    \/ \E m \in wire : HandlesAck(m[1], m[2])

Spec == Init /\ [][Next]_vars

\* The connector runs on and claims again and again, leases run out, and an
\* acknowledgement that is waited for arrives or its sender gives up.
Fairness ==
    /\ WF_vars(ConnectorStep) /\ WF_vars(Claim)
    /\ WF_vars(conn.at = "await" /\ HandlesAck(conn.item, conn.outcome))
    /\ \A k \in Kinds, j \in Jobs : WF_vars(LeaseExpires(k, j))

FairSpec == Spec /\ Fairness

-----------------------------------------------------------------------------
(* Properties.                                                             *)

WorkType(states) == [state : states, epoch : Nat, leased : BOOLEAN]
TypeOK ==
    /\ relay \in [Jobs ->
         [submit : WorkType({"absent", "queued", "claimed", "accepted", "refused", "cancelled"}),
          cancel : WorkType({"none", "requested", "stopped", "not-stopped"}),
          collect : WorkType({"none", "requested", "not-finished", "failed", "collected"}),
          view : {"none", "held", "transferring", "placed", "done", "cancelled"}]]
    /\ pushed \in [Jobs -> 0 .. Chunks]
    /\ wire \subseteq Items \X Outcomes
    /\ conn.at \in {"idle", "next", "accept", "remember", "push", "ack", "await"} \cup Kinds
    /\ conn.todo \subseteq Items
    /\ conn.item \in Items \cup {NoItem}
    /\ journal \subseteq Jobs
    /\ faults \in 0 .. MaxFaults

\* What a client is told is true, whenever the connector crashed: a job that is
\* "accepted" is in the broker and in the journal, so that every later report
\* covers it; one cancelled before any claim never reaches the broker; and
\* "stopped": true on an admitted job means that it can no longer run.
AnswersAreTrue ==
    \A j \in Jobs :
        /\ relay[j].submit.state = "accepted" => broker[j].state # "none" /\ j \in journal
        /\ relay[j].submit.state = "cancelled" => broker[j].state = "none"
        /\ relay[j].submit.state = "accepted" /\ relay[j].cancel.state = "stopped"
           => broker[j].state \in {"cancelled", "done"}

\* The results a client may download are all there and of an ended job.
ResultsAreWhole ==
    \A j \in Jobs :
        relay[j].collect.state = "collected" => pushed[j] = Chunks /\ broker[j].state = "done"

\* Refused jobs never ran: the record's reader, and a cancellation settled as
\* stopped on the strength of it, take the broker to have no such job.
RefusedNeverRan ==
    \A j \in Jobs : relay[j].submit.state = "refused" => broker[j].state = "none"

\* Every admitted job is accepted, refused or cancelled in the end, and every
\* cancellation is settled, whatever is lost on the way: none is queued, claimed
\* or requested for ever, and none is withdrawn.
EverythingSettles ==
    \A j \in Jobs :
        /\ []<>(relay[j].submit.state \notin {"queued", "claimed"})
        /\ []<>(relay[j].cancel.state # "requested")
=============================================================================
