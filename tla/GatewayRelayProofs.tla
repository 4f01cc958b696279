------------------------- MODULE GatewayRelayProofs -------------------------
(***************************************************************************)
(* Proofs about GatewayRelay, for any jobs, chunks and faults: what a      *)
(* client is told is true, and the results it may download are whole.      *)
(*                                                                         *)
(* An acknowledgement may be as old as the wire lets it be.  Inv says what *)
(* each item in flight still knows of the broker, that an item has one     *)
(* acknowledgement, and that a settled claim has none left.                *)
(***************************************************************************)
EXTENDS GatewayRelay, TLAPS

States == {"none", "held", "transferring", "placed", "done", "cancelled"}
Relays ==
    [submit : WorkType({"absent", "queued", "claimed", "accepted", "refused", "cancelled"}),
     cancel : WorkType({"none", "requested", "stopped", "not-stopped"}),
     collect : WorkType({"none", "requested", "not-finished", "failed", "collected"}),
     view : States]
Connectors ==
    [at : {"idle", "next", "accept", "remember", "push", "ack", "await"} \cup Kinds,
     todo : SUBSET Items, item : Items \cup {NoItem}, outcome : Outcomes, placeable : BOOLEAN]

\* GatewayRelay's types, without the bound on faults.
Types ==
    /\ relay \in [Jobs -> Relays]
    /\ pushed \in [Jobs -> 0 .. Chunks]
    /\ wire \subseteq Items \X Outcomes
    /\ conn \in Connectors
    /\ journal \subseteq Jobs
    /\ broker \in [Jobs -> [state : States, cancel : BOOLEAN]]

\* What an acknowledgement says was true when it was made and stays true.
Truthful(i, outcome) ==
    /\ i.kind = "submit" =>
         /\ outcome \in {"accepted", "refused"}
         /\ outcome = "accepted" => broker[i.job].state # "none" /\ i.job \in journal
    /\ i.kind = "cancel" =>
         /\ outcome \in {"stopped", "not-stopped"}
         /\ outcome = "stopped" => broker[i.job].state \in {"cancelled", "done"}
    /\ i.kind = "collect" =>
         /\ outcome \in {"collected", "not-finished", "failed"}
         /\ outcome = "collected" => broker[i.job].state = "done"

WireIsTrue == \A i \in Items, outcome \in Outcomes : <<i, outcome>> \in wire => Truthful(i, outcome)

\* The step the connector is at is one for the item it has.
ItemFits ==
    /\ conn.at \in {"idle", "next"} <=> conn.item = NoItem
    /\ conn.at = "idle" => conn.todo = {}
    /\ conn.at \in {"submit", "accept", "remember"} => item.kind = "submit"
    /\ conn.at = "cancel" => item.kind = "cancel"
    /\ conn.at \in {"collect", "push"} => item.kind = "collect"
    /\ conn.at = "remember" => broker[item.job].state # "none"
    /\ conn.at = "push" => broker[item.job].state = "done"
    /\ conn.at \in {"ack", "await"} => Truthful(item, conn.outcome)

Acked(i) == \E outcome \in Outcomes : <<i, outcome>> \in wire
Working(i) == i \in conn.todo \/ conn.item = i

\* A claimed submission is in one place, and has at most one acknowledgement.
OneAcknowledgement ==
    \A i \in Items : i.kind = "submit" =>
        /\ i \in conn.todo => conn.item # i /\ ~Acked(i)
        /\ conn.item = i /\ conn.at # "await" => ~Acked(i)
        /\ conn.item = i /\ conn.at = "await" => <<i, conn.outcome>> \in wire
        /\ \A o1, o2 \in Outcomes : <<i, o1>> \in wire /\ <<i, o2>> \in wire => o1 = o2

\* A submission is out only for a job that was claimed, under an epoch the record
\* has reached, and none is out for the claim that a refusal settled.
SubmitsAreClaimed ==
    \A i \in Items : i.kind = "submit" /\ (Working(i) \/ Acked(i)) =>
        /\ i.epoch <= relay[i.job].submit.epoch
        /\ relay[i.job].submit.state \in {"claimed", "accepted", "refused"}
        /\ relay[i.job].submit.state = "refused" => i.epoch < relay[i.job].submit.epoch

\* What the records say of the broker.  A cancellation counts as stopped by a
\* true answer, by the refusal of the job, or before any claim of it.
RecordsAreTrue ==
    \A j \in Jobs :
        /\ relay[j].submit.state \in {"absent", "queued", "cancelled"} =>
             broker[j].state = "none"
        /\ relay[j].submit.state = "accepted" => broker[j].state # "none" /\ j \in journal
        /\ relay[j].cancel.state = "stopped" =>
             \/ broker[j].state \in {"cancelled", "done"}
             \/ relay[j].submit.state \in {"refused", "cancelled"}

Inv ==
    /\ Types
    /\ WireIsTrue
    /\ ItemFits
    /\ OneAcknowledgement
    /\ SubmitsAreClaimed
    /\ RecordsAreTrue
    /\ ResultsAreWhole

-----------------------------------------------------------------------------
(* What only grows. *)

\* The broker forgets no job, and one that ended or was cancelled stays so.
Grows ==
    /\ journal \subseteq journal'
    /\ \A j \in Jobs :
         /\ broker[j].state # "none" => broker'[j].state # "none"
         /\ broker[j].state \in {"cancelled", "done"} => broker'[j].state = broker[j].state

LEMMA TruthStays ==
  ASSUME Grows, NEW i \in Items, NEW outcome, Truthful(i, outcome)
  PROVE  Truthful(i, outcome)'
<1>1. i.job \in Jobs
  BY Zenon DEF Items
<1> QED
  BY <1>1, Zenon DEF Grows, Truthful

\* A step of the connector on its list: what it works on now it had before.
LEMMA ConnectorMoves ==
  ASSUME Inv, Grows, journal' \subseteq Jobs,
         broker' \in [Jobs -> [state : States, cancel : BOOLEAN]],
         relay' = relay, pushed' = pushed, wire' = wire,
         conn' \in Connectors, ItemFits', RecordsAreTrue',
         conn'.todo \subseteq conn.todo, conn'.at # "await",
         \A i \in Items : conn'.item = i =>
             \/ conn.item = i /\ conn.at # "await"
             \/ i \in conn.todo /\ i \notin conn'.todo
  PROVE  Inv'
<1> USE DEF Inv
<1>1. Types'
  BY Zenon DEF Types
<1>2. WireIsTrue'
  BY TruthStays, Zenon DEF WireIsTrue
<1>3. OneAcknowledgement'
  BY Zenon DEF OneAcknowledgement, Acked
<1>4. SubmitsAreClaimed'
  BY Zenon DEF SubmitsAreClaimed, Working, Acked
<1>5. ResultsAreWhole'
  BY Zenon DEF ResultsAreWhole, Grows
<1> QED
  BY <1>1, <1>2, <1>3, <1>4, <1>5, Zenon

LEMMA ConnectorOnly ==
  ASSUME Inv, UNCHANGED <<relay, pushed, wire, journal, broker>>,
         conn' \in Connectors, ItemFits',
         conn'.todo \subseteq conn.todo, conn'.at # "await",
         \A i \in Items : conn'.item = i =>
             \/ conn.item = i /\ conn.at # "await"
             \/ i \in conn.todo /\ i \notin conn'.todo
  PROVE  Inv'
<1>1. Grows /\ RecordsAreTrue'
  BY Zenon DEF Grows, Inv, RecordsAreTrue
<1> QED
  BY <1>1, ConnectorMoves, Zenon DEF Inv, Types

\* A change of the records that concerns no claim.
LEMMA RecordsOnly ==
  ASSUME Inv, UNCHANGED <<pushed, wire, conn, journal, broker>>,
         relay' \in [Jobs -> Relays],
         \A j \in Jobs :
           /\ relay'[j].submit.epoch = relay[j].submit.epoch
           /\ \/ relay'[j].submit.state = relay[j].submit.state
              \/ /\ relay[j].submit.state \in {"absent", "queued"}
                 /\ relay'[j].submit.state \in {"queued", "cancelled"}
           /\ relay'[j].cancel.state = "stopped" =>
                relay[j].cancel.state = "stopped" \/ relay'[j].submit.state = "cancelled"
           /\ relay'[j].collect.state = "collected" => relay[j].collect.state = "collected"
  PROVE  Inv'
<1> USE DEF Inv
<1>1. Types'
  BY Zenon DEF Types
<1>2. WireIsTrue'
  BY DEF WireIsTrue, Truthful
<1>3. ItemFits' /\ OneAcknowledgement'
  <2>1. ItemFits'
    BY DEF ItemFits, item, Truthful
  <2>2. OneAcknowledgement'
    BY Zenon DEF OneAcknowledgement, Acked
  <2> QED
    BY <2>1, <2>2, Zenon
<1>4. SubmitsAreClaimed'
  <2> SUFFICES ASSUME NEW i \in Items
               PROVE  SubmitsAreClaimed!(i)'
    BY Zenon DEF SubmitsAreClaimed
  <2>1. i.job \in Jobs
    BY Zenon DEF Items
  <2> QED
    BY <2>1, Zenon DEF SubmitsAreClaimed, Working, Acked
<1>5. RecordsAreTrue'
  BY DEF RecordsAreTrue
<1>6. ResultsAreWhole'
  BY Zenon DEF ResultsAreWhole
<1> QED
  BY <1>1, <1>2, <1>3, <1>4, <1>5, <1>6, Zenon

-----------------------------------------------------------------------------
(* Clients, leases and reports. *)

LEMMA ClientSteps ==
  ASSUME Inv, NEW j \in Jobs,
         Admit(j) \/ RequestCancel(j) \/ RequestResults(j)
  PROVE  Inv'
<1>1. relay \in [Jobs -> Relays] /\ relay[j] \in Relays
  BY Zenon DEF Inv, Types
<1>2. CASE Admit(j)
  <2>1. relay' \in [Jobs -> Relays]
    BY <1>1, <1>2, Zenon DEF Admit, Relays, WorkType
  <2>2. /\ relay'[j].submit.epoch = relay[j].submit.epoch
        /\ relay'[j].submit.state = "queued"
        /\ relay'[j].cancel = relay[j].cancel /\ relay'[j].collect = relay[j].collect
        /\ \A other \in Jobs : other # j => relay'[other] = relay[other]
    BY <1>1, <1>2 DEF Admit, Relays, WorkType
  <2>3. ASSUME NEW other \in Jobs
        PROVE  /\ relay'[other].submit.epoch = relay[other].submit.epoch
               /\ \/ relay'[other].submit.state = relay[other].submit.state
                  \/ /\ relay[other].submit.state \in {"absent", "queued"}
                     /\ relay'[other].submit.state \in {"queued", "cancelled"}
               /\ relay'[other].cancel.state = "stopped" =>
                    relay[other].cancel.state = "stopped" \/ relay'[other].submit.state = "cancelled"
               /\ relay'[other].collect.state = "collected" => relay[other].collect.state = "collected"
    <3>1. CASE other = j
      BY <1>2, <2>2, <3>1 DEF Admit
    <3>2. CASE other # j
      BY <2>2, <3>2, Zenon
    <3> QED
      BY <3>1, <3>2, Zenon
  <2> QED
    BY <1>2, <2>1, <2>3, RecordsOnly, Zenon DEF Admit
<1>3. CASE RequestCancel(j)
  <2>1. relay' \in [Jobs -> Relays]
    BY <1>1, <1>3 DEF RequestCancel, Relays, WorkType
  <2>2. /\ relay'[j].submit.epoch = relay[j].submit.epoch
        /\ relay'[j].submit.state =
             IF relay[j].submit.state = "queued" THEN "cancelled" ELSE relay[j].submit.state
        /\ relay'[j].cancel.state =
             IF relay[j].submit.state = "queued" THEN "stopped" ELSE "requested"
        /\ relay'[j].collect = relay[j].collect
        /\ \A other \in Jobs : other # j => relay'[other] = relay[other]
    BY <1>1, <1>3 DEF RequestCancel, Relays, WorkType
  <2>3. ASSUME NEW other \in Jobs
        PROVE  /\ relay'[other].submit.epoch = relay[other].submit.epoch
               /\ \/ relay'[other].submit.state = relay[other].submit.state
                  \/ /\ relay[other].submit.state \in {"absent", "queued"}
                     /\ relay'[other].submit.state \in {"queued", "cancelled"}
               /\ relay'[other].cancel.state = "stopped" =>
                    relay[other].cancel.state = "stopped" \/ relay'[other].submit.state = "cancelled"
               /\ relay'[other].collect.state = "collected" => relay[other].collect.state = "collected"
    <3>1. CASE other = j
      <4>1. relay[j].submit.state = "queued" \/ relay[j].submit.state # "queued"
        OBVIOUS
      <4> QED
        BY <2>2, <3>1, <4>1
    <3>2. CASE other # j
      BY <2>2, <3>2
    <3> QED
      BY <3>1, <3>2, Zenon
  <2> QED
    BY <1>3, <2>1, <2>3, RecordsOnly, Zenon DEF RequestCancel
<1>4. CASE RequestResults(j)
  <2>1. relay' \in [Jobs -> Relays]
    BY <1>1, <1>4, Zenon DEF RequestResults, Relays, WorkType
  <2>2. /\ relay'[j].submit = relay[j].submit /\ relay'[j].cancel = relay[j].cancel
        /\ relay'[j].collect.state = "requested"
        /\ \A other \in Jobs : other # j => relay'[other] = relay[other]
    BY <1>1, <1>4 DEF RequestResults, Relays, WorkType
  <2> QED
    BY <1>4, <2>1, <2>2, RecordsOnly DEF RequestResults
<1> QED
  BY <1>2, <1>3, <1>4, Zenon

LEMMA LeaseStep ==
  ASSUME Inv, NEW k \in Kinds, NEW j \in Jobs, LeaseExpires(k, j)
  PROVE  Inv'
<1>1. relay \in [Jobs -> Relays] /\ relay[j] \in Relays
  BY Zenon DEF Inv, Types
<1>2. CASE k = "submit"
  <2>1. relay' = [relay EXCEPT ![j].submit.leased = FALSE]
    BY <1>2, Zenon DEF LeaseExpires
  <2>2. relay' \in [Jobs -> Relays]
    BY <1>1, <2>1, Zenon DEF Relays, WorkType
  <2>3. \A other \in Jobs : /\ relay'[other].submit.state = relay[other].submit.state
                           /\ relay'[other].submit.epoch = relay[other].submit.epoch
                           /\ relay'[other].cancel.state = relay[other].cancel.state
                           /\ relay'[other].collect.state = relay[other].collect.state
    BY <1>1, <2>1 DEF Relays, WorkType
  <2> QED
    BY <2>2, <2>3, RecordsOnly, Zenon DEF LeaseExpires
<1>3. CASE k = "cancel"
  <2>1. relay' = [relay EXCEPT ![j].cancel.leased = FALSE]
    BY <1>3, Zenon DEF LeaseExpires
  <2>2. relay' \in [Jobs -> Relays]
    BY <1>1, <2>1, Zenon DEF Relays, WorkType
  <2>3. \A other \in Jobs : /\ relay'[other].submit.state = relay[other].submit.state
                           /\ relay'[other].submit.epoch = relay[other].submit.epoch
                           /\ relay'[other].cancel.state = relay[other].cancel.state
                           /\ relay'[other].collect.state = relay[other].collect.state
    BY <1>1, <2>1 DEF Relays, WorkType
  <2> QED
    BY <2>2, <2>3, RecordsOnly, Zenon DEF LeaseExpires
<1>4. CASE k = "collect"
  <2>1. relay' = [relay EXCEPT ![j].collect.leased = FALSE]
    BY <1>4, Zenon DEF LeaseExpires
  <2>2. relay' \in [Jobs -> Relays]
    BY <1>1, <2>1, Zenon DEF Relays, WorkType
  <2>3. \A other \in Jobs : /\ relay'[other].submit.state = relay[other].submit.state
                           /\ relay'[other].submit.epoch = relay[other].submit.epoch
                           /\ relay'[other].cancel.state = relay[other].cancel.state
                           /\ relay'[other].collect.state = relay[other].collect.state
    BY <1>1, <2>1 DEF Relays, WorkType
  <2> QED
    BY <2>2, <2>3, RecordsOnly, Zenon DEF LeaseExpires
<1> QED
  BY <1>2, <1>3, <1>4, Zenon DEF Kinds

-----------------------------------------------------------------------------
(* The connector's moves. *)

LEMMA Idles ==
  ASSUME NEW p \in BOOLEAN
  PROVE  /\ Idle(p) \in Connectors
         /\ Idle(p).at = "idle" /\ Idle(p).todo = {} /\ Idle(p).item = NoItem
  BY Zenon DEF Idle, Connectors, Outcomes

LEMMA NoItemIsNone == NoItem \notin Items
  BY RelayAssumption, Zenon DEF NoItem, Items, RelayAssumption

LEMMA Going ==
  ASSUME conn \in Connectors, NEW p \in {"accept", "remember", "push", "await"}, Goto(p)
  PROVE  /\ conn' \in Connectors
         /\ conn'.at = p /\ conn'.todo = conn.todo
         /\ conn'.item = conn.item /\ conn'.outcome = conn.outcome
  BY Zenon DEF Connectors, Goto

LEMMA Answering ==
  ASSUME conn \in Connectors, NEW o \in Outcomes, ToAck(o)
  PROVE  /\ conn' \in Connectors
         /\ conn'.at = "ack" /\ conn'.todo = conn.todo
         /\ conn'.item = conn.item /\ conn'.outcome = o
  BY Zenon DEF Connectors, ToAck

LEMMA MovingOn ==
  ASSUME conn \in Connectors, NextItem
  PROVE  /\ conn' \in Connectors
         /\ conn'.at = "next" /\ conn'.todo = conn.todo /\ conn'.item = NoItem
  BY Zenon DEF Connectors, NextItem

\* A deferred item, a lost run and a restart leave the connector with no item.
LEMMA LetsGo ==
  ASSUME Inv, UNCHANGED <<relay, pushed, wire, journal, broker>>,
         NextItem \/ (\E p \in BOOLEAN : conn' = Idle(p))
  PROVE  Inv'
<1>1. conn \in Connectors
  BY Zenon DEF Inv, Types
<1>2. /\ conn' \in Connectors /\ conn'.todo \subseteq conn.todo
      /\ conn'.at \in {"idle", "next"} /\ conn'.item = NoItem
      /\ conn'.at = "idle" => conn'.todo = {}
  BY <1>1, MovingOn, Idles, Zenon
<1>3. ItemFits'
  BY <1>2, Zenon DEF ItemFits
<1> QED
  BY <1>2, <1>3, NoItemIsNone, ConnectorOnly, Zenon

\* Away from "idle" and "next" the connector has an item of some job.
LEMMA HasItem ==
  ASSUME Inv, conn.at \notin {"idle", "next"}
  PROVE  /\ item \in Items /\ conn.item \in Items /\ item = conn.item
         /\ item.job \in Jobs /\ item.epoch \in Nat
<1>1. conn.item \in Items \cup {NoItem}
  BY Zenon DEF Inv, Types, Connectors
<1>2. conn.item # NoItem
  BY Zenon DEF Inv, ItemFits
<1> QED
  BY <1>1, <1>2, Zenon DEF Items, item

LEMMA TakesItemStep ==
  ASSUME Inv, TakesItem
  PROVE  Inv'
<1>1. conn \in Connectors /\ conn.todo \subseteq Items
  BY Zenon DEF Inv, Types, Connectors
<1>2. PICK i \in conn.todo : conn' = [conn EXCEPT !.at = i.kind, !.item = i, !.todo = @ \ {i}]
  BY Zenon DEF TakesItem
<1>3. i \in Items /\ i.kind \in Kinds
  BY <1>1, Zenon DEF Items
<1>4. /\ conn' \in Connectors /\ conn'.at = i.kind /\ conn'.item = i
      /\ conn'.todo = conn.todo \ {i}
  BY <1>1, <1>2, <1>3, Zenon DEF Connectors
<1>5. ItemFits'
  BY <1>3, <1>4, NoItemIsNone, Zenon DEF ItemFits, Kinds, item
<1>6. conn'.at # "await"
  BY <1>3, <1>4, Zenon DEF Kinds
<1> QED
  BY <1>3, <1>4, <1>5, <1>6, ConnectorOnly, Zenon DEF TakesItem

LEMMA DownloadsStep ==
  ASSUME Inv, Downloads
  PROVE  Inv'
<1>1. conn \in Connectors
  BY Zenon DEF Inv, Types
<1>2. CASE NextItem
  BY <1>2, LetsGo, Zenon DEF Downloads
<1>3. CASE Goto("accept")
  <2>1. conn.at = "submit" /\ conn.at \notin {"idle", "next"}
    BY Zenon DEF Downloads
  <2>2. ItemFits'
    BY <1>1, <1>3, <2>1, Going, HasItem, NoItemIsNone, Zenon DEF Inv, ItemFits, item
  <2> QED
    BY <1>1, <1>3, <2>1, <2>2, Going, ConnectorOnly, Zenon DEF Downloads
<1> QED
  BY <1>2, <1>3, Zenon DEF Downloads

\* A claimed submission reaches the broker only while its record says so.
LEMMA AcceptsStep ==
  ASSUME Inv, Accepts
  PROVE  Inv'
<1>1. conn \in Connectors /\ broker \in [Jobs -> [state : States, cancel : BOOLEAN]]
  BY Zenon DEF Inv, Types
<1>2. conn.at = "accept" /\ conn.at \notin {"idle", "next"} /\ item.kind = "submit"
  BY Zenon DEF Accepts, Inv, ItemFits
<1>3. item \in Items /\ conn.item = item /\ item.job \in Jobs
  BY <1>2, HasItem, Zenon
<1>4. CASE NextItem /\ UNCHANGED broker
  BY <1>4, LetsGo, Zenon DEF Accepts
<1>5. CASE ToAck("refused") /\ UNCHANGED broker
  <2>1. "refused" \in Outcomes
    BY Zenon DEF Outcomes
  <2>2. ItemFits'
    BY <1>1, <1>2, <1>3, <1>5, <2>1, Answering, NoItemIsNone, Zenon DEF ItemFits, item, Truthful
  <2> QED
    BY <1>1, <1>2, <1>5, <2>1, <2>2, Answering, ConnectorOnly, Zenon DEF Accepts
<1>6. CASE /\ broker' = [broker EXCEPT ![item.job].state = IF @ = "none" THEN "held" ELSE @]
           /\ Goto("remember")
  <2>1. /\ broker' \in [Jobs -> [state : States, cancel : BOOLEAN]]
        /\ broker'[item.job].state # "none"
        /\ \A j \in Jobs : broker[j].state # "none" => broker'[j] = broker[j]
        /\ \A j \in Jobs : j # item.job => broker'[j] = broker[j]
    BY <1>1, <1>3, <1>6 DEF States
  <2>2. Grows
    BY <2>1, Zenon DEF Grows, Accepts
  <2>3. ItemFits'
    BY <1>1, <1>2, <1>3, <1>6, <2>1, Going, NoItemIsNone, Zenon DEF ItemFits, item
  <2>4. relay[item.job].submit.state \in {"claimed", "accepted", "refused"}
    BY <1>2, <1>3, Zenon DEF Inv, SubmitsAreClaimed, Working
  <2>5. RecordsAreTrue'
    BY <2>1, <2>4 DEF RecordsAreTrue, Inv, Accepts
  <2> QED
    BY <1>1, <1>2, <1>6, <2>1, <2>2, <2>3, <2>5, Going, ConnectorMoves, Zenon DEF Accepts, Inv, Types
<1> QED
  BY <1>4, <1>5, <1>6, Zenon DEF Accepts

LEMMA RemembersStep ==
  ASSUME Inv, Remembers
  PROVE  Inv'
<1>1. conn \in Connectors /\ journal \subseteq Jobs
  BY Zenon DEF Inv, Types
<1>2. /\ conn.at = "remember" /\ conn.at \notin {"idle", "next"} /\ item.kind = "submit"
      /\ broker[item.job].state # "none"
  BY Zenon DEF Remembers, Inv, ItemFits
<1>3. item \in Items /\ conn.item = item /\ item.job \in Jobs
  BY <1>2, HasItem, Zenon
<1>4. /\ conn' \in Connectors /\ conn'.at = "ack" /\ conn'.todo = conn.todo
      /\ conn'.item = conn.item /\ conn'.outcome = "accepted"
  BY <1>1, Answering, Zenon DEF Remembers, Outcomes
<1>5. Grows /\ journal' \subseteq Jobs /\ item.job \in journal' /\ broker' = broker
  BY <1>1, <1>3, Zenon DEF Grows, Remembers
<1>6. ItemFits'
  BY <1>2, <1>3, <1>4, <1>5, NoItemIsNone, Zenon DEF ItemFits, item, Truthful
<1>7. RecordsAreTrue'
  BY <1>5, Zenon DEF RecordsAreTrue, Inv, Remembers, Grows
<1> QED
  BY <1>2, <1>4, <1>5, <1>6, <1>7, ConnectorMoves, Zenon DEF Remembers, Inv, Types

LEMMA KillsStep ==
  ASSUME Inv, Kills
  PROVE  Inv'
<1>1. conn \in Connectors /\ broker \in [Jobs -> [state : States, cancel : BOOLEAN]]
  BY Zenon DEF Inv, Types
<1>2. conn.at = "cancel" /\ conn.at \notin {"idle", "next"} /\ item.kind = "cancel"
  BY Zenon DEF Kills, Inv, ItemFits
<1>3. item \in Items /\ conn.item = item /\ item.job \in Jobs
  BY <1>2, HasItem, Zenon
<1>4. CASE NextItem /\ UNCHANGED broker
  BY <1>4, LetsGo, Zenon DEF Kills
<1>5. ASSUME NEW o \in {"stopped", "not-stopped"}, ToAck(o),
             broker' \in [Jobs -> [state : States, cancel : BOOLEAN]],
             o = "stopped" => broker'[item.job].state \in {"cancelled", "done"},
             broker[item.job].state # "none", broker'[item.job].state # "none",
             broker[item.job].state \in {"cancelled", "done"} =>
               broker'[item.job].state = broker[item.job].state,
             \A j \in Jobs : j # item.job => broker'[j] = broker[j]
      PROVE  Inv'
  <2>1. o \in Outcomes
    BY Zenon DEF Outcomes
  <2>2. /\ conn' \in Connectors /\ conn'.at = "ack" /\ conn'.todo = conn.todo
        /\ conn'.item = conn.item /\ conn'.outcome = o
    BY <1>1, <1>5, <2>1, Answering, Zenon
  <2>3. Grows
    BY <1>5, Zenon DEF Grows, Kills
  <2>4. ItemFits'
    BY <1>2, <1>3, <1>5, <2>2, NoItemIsNone, Zenon DEF ItemFits, item, Truthful
  <2>5. RecordsAreTrue'
    BY <1>5 DEF RecordsAreTrue, Inv, Kills
  <2> QED
    BY <1>2, <1>5, <2>2, <2>3, <2>4, <2>5, ConnectorMoves, Zenon DEF Kills, Inv, Types
<1>6. CASE /\ broker[item.job].state \in {"held", "cancelled"}
           /\ broker' = [broker EXCEPT ![item.job] = [state |-> "cancelled", cancel |-> TRUE]]
           /\ ToAck("stopped")
  <2>1. /\ broker' \in [Jobs -> [state : States, cancel : BOOLEAN]]
        /\ broker'[item.job].state = "cancelled"
        /\ \A j \in Jobs : j # item.job => broker'[j] = broker[j]
    BY <1>1, <1>3, <1>6, Zenon DEF States
  <2> QED
    BY <1>5, <1>6, <2>1, Zenon
<1>7. CASE /\ broker[item.job].state = "transferring"
           /\ broker' = [broker EXCEPT ![item.job].cancel = TRUE]
           /\ ToAck("not-stopped")
  <2>1. /\ broker' \in [Jobs -> [state : States, cancel : BOOLEAN]]
        /\ broker'[item.job].state = "transferring"
        /\ \A j \in Jobs : j # item.job => broker'[j] = broker[j]
    BY <1>1, <1>3, <1>7, Zenon DEF States
  <2> QED
    BY <1>5, <1>7, <2>1, Zenon
<1>8. CASE /\ broker[item.job].state \in {"placed", "done"}
           /\ broker' = [broker EXCEPT ![item.job] = [state |-> "done", cancel |-> TRUE]]
           /\ ToAck("stopped")
  <2>1. /\ broker' \in [Jobs -> [state : States, cancel : BOOLEAN]]
        /\ broker'[item.job].state = "done"
        /\ \A j \in Jobs : j # item.job => broker'[j] = broker[j]
    BY <1>1, <1>3, <1>8, Zenon DEF States
  <2> QED
    BY <1>5, <1>8, <2>1, Zenon
<1> QED
  BY <1>4, <1>6, <1>7, <1>8, Zenon DEF Kills

\* A chunk arrives only while the results are still asked for.
LEMMA ChunkArrives ==
  ASSUME Inv, NEW j \in Jobs, UNCHANGED <<relay, wire, conn, journal, broker>>,
         relay[j].collect.state # "collected",
         pushed' \in [Jobs -> 0 .. Chunks],
         \A other \in Jobs : other # j => pushed'[other] = pushed[other]
  PROVE  Inv'
<1> USE DEF Inv
<1>1. Types' /\ ItemFits'
  BY DEF Types, ItemFits, item, Truthful
<1>2. WireIsTrue'
  BY DEF WireIsTrue, Truthful
<1>3. OneAcknowledgement' /\ SubmitsAreClaimed'
  BY Zenon DEF OneAcknowledgement, Acked, SubmitsAreClaimed, Working
<1>4. RecordsAreTrue' /\ ResultsAreWhole'
  BY DEF RecordsAreTrue, ResultsAreWhole
<1> QED
  BY <1>1, <1>2, <1>3, <1>4, Zenon

LEMMA CollectsStep ==
  ASSUME Inv, Collects \/ Pushes
  PROVE  Inv'
<1>1. conn \in Connectors /\ pushed \in [Jobs -> 0 .. Chunks]
  BY Zenon DEF Inv, Types
<1>2. /\ conn.at \in {"collect", "push"} /\ conn.at \notin {"idle", "next"}
      /\ item.kind = "collect"
      /\ conn.at = "push" => broker[item.job].state = "done"
  BY Zenon DEF Collects, Pushes, Inv, ItemFits
<1>3. item \in Items /\ conn.item = item /\ item.job \in Jobs
  BY <1>2, HasItem, Zenon
<1>4. CASE NextItem /\ UNCHANGED pushed
  BY <1>4, LetsGo, Zenon DEF Collects, Pushes
<1>5. ASSUME NEW o \in {"collected", "not-finished", "failed"}, ToAck(o), UNCHANGED pushed,
             o = "collected" => broker[item.job].state = "done"
      PROVE  Inv'
  <2>1. o \in Outcomes /\ UNCHANGED <<relay, pushed, wire, journal, broker>>
    BY <1>5, Zenon DEF Outcomes, Collects, Pushes
  <2>2. /\ conn' \in Connectors /\ conn'.at = "ack" /\ conn'.todo = conn.todo
        /\ conn'.item = conn.item /\ conn'.outcome = o
    BY <1>1, <1>5, <2>1, Answering, Zenon
  <2>3. ItemFits'
    BY <1>2, <1>3, <1>5, <2>1, <2>2, NoItemIsNone, Zenon DEF ItemFits, item, Truthful
  <2> QED
    BY <1>2, <2>1, <2>2, <2>3, ConnectorOnly, Zenon
<1>6. CASE broker[item.job].state = "done" /\ Goto("push") /\ Collects
  <2>1. UNCHANGED <<relay, pushed, wire, journal, broker>>
    BY <1>6, Zenon DEF Collects
  <2>2. /\ conn' \in Connectors /\ conn'.at = "push" /\ conn'.todo = conn.todo
        /\ conn'.item = conn.item
    BY <1>1, <1>6, Going, Zenon
  <2>3. ItemFits'
    BY <1>2, <1>3, <1>6, <2>1, <2>2, NoItemIsNone, Zenon DEF ItemFits, item
  <2> QED
    BY <1>2, <2>1, <2>2, <2>3, ConnectorOnly, Zenon
<1>7. CASE /\ Pushes /\ relay[item.job].collect.state = "requested"
           /\ pushed[item.job] < Chunks
           /\ pushed' = [pushed EXCEPT ![item.job] = @ + 1]
           /\ UNCHANGED conn
  <2>1. pushed[item.job] + 1 \in 0 .. Chunks
    BY <1>1, <1>3, <1>7, RelayAssumption DEF RelayAssumption
  <2>2. /\ pushed' \in [Jobs -> 0 .. Chunks]
        /\ \A other \in Jobs : other # item.job => pushed'[other] = pushed[other]
    BY <1>1, <1>7, <2>1, Zenon
  <2> QED
    BY <1>3, <1>7, <2>2, ChunkArrives, Zenon DEF Pushes
<1>8. CASE Collects
  BY <1>4, <1>5, <1>6, <1>8, Zenon DEF Collects
<1>9. CASE Pushes
  BY <1>2, <1>4, <1>5, <1>7, <1>9, Zenon DEF Pushes
<1> QED
  BY <1>8, <1>9, Zenon

\* The acknowledgement leaves, and is the only one of its item.
LEMMA SendsAckStep ==
  ASSUME Inv, SendsAck
  PROVE  Inv'
<1>1. conn \in Connectors /\ wire \subseteq Items \X Outcomes /\ conn.outcome \in Outcomes
  BY Zenon DEF Inv, Types, Connectors
<1>2. conn.at = "ack" /\ conn.at \notin {"idle", "next"} /\ Truthful(item, conn.outcome)
  BY Zenon DEF SendsAck, Inv, ItemFits
<1>3. item \in Items /\ conn.item = item /\ item.job \in Jobs
  BY <1>2, HasItem, Zenon
<1>4. /\ conn' \in Connectors /\ conn'.at = "await" /\ conn'.todo = conn.todo
      /\ conn'.item = conn.item /\ conn'.outcome = conn.outcome
  BY <1>1, Going, Zenon DEF SendsAck
<1>5. \A i \in Items, o \in Outcomes :
         <<i, o>> \in wire' <=> <<i, o>> \in wire \/ (i = item /\ o = conn.outcome)
  BY Zenon DEF SendsAck
<1>6. UNCHANGED <<relay, pushed, journal, broker>>
  BY Zenon DEF SendsAck
<1>7. Types'
  BY <1>1, <1>3, <1>4, <1>6 DEF SendsAck, Inv, Types
<1>8. WireIsTrue'
  BY <1>2, <1>5, <1>6 DEF Inv, WireIsTrue, Truthful
<1>9. ItemFits'
  BY <1>2, <1>3, <1>4, <1>6, NoItemIsNone, Zenon DEF ItemFits, item, Truthful
<1>10. \A i \in Items : Acked(i)' <=> Acked(i) \/ i = item
  BY <1>1, <1>5, Zenon DEF Acked
<1>11. OneAcknowledgement'
  <2> SUFFICES ASSUME NEW i \in Items, i.kind = "submit"
               PROVE  OneAcknowledgement!(i)'
    BY Zenon DEF OneAcknowledgement
  <2>1. CASE i = item
    <3>1. i \notin conn.todo /\ ~Acked(i)
      BY <1>2, <1>3, <2>1, Zenon DEF Inv, OneAcknowledgement
    <3>2. \A o \in Outcomes : <<i, o>> \in wire' <=> o = conn.outcome
      BY <1>5, <2>1, <3>1, Zenon DEF Acked
    <3> QED
      BY <1>1, <1>4, <2>1, <3>1, <3>2, Zenon
  <2>2. CASE i # item
    BY <1>3, <1>4, <1>5, <1>10, <2>2, Zenon DEF Inv, OneAcknowledgement
  <2> QED
    BY <2>1, <2>2, Zenon
<1>12. SubmitsAreClaimed'
  BY <1>3, <1>4, <1>6, <1>10, Zenon DEF Inv, SubmitsAreClaimed, Working
<1>13. RecordsAreTrue' /\ ResultsAreWhole'
  BY <1>6, Zenon DEF Inv, RecordsAreTrue, ResultsAreWhole
<1> QED
  BY <1>7, <1>8, <1>9, <1>11, <1>12, <1>13, Zenon DEF Inv

\* What the broker does by itself takes nothing back.
LEMMA BrokerStep ==
  ASSUME Inv, NEW j \in Jobs, BrokerMoves(j)
  PROVE  Inv'
<1>1. broker \in [Jobs -> [state : States, cancel : BOOLEAN]]
  BY Zenon DEF Inv, Types
<1>2. UNCHANGED <<relay, pushed, wire, conn, journal>>
  BY Zenon DEF BrokerMoves
<1>3. /\ broker' \in [Jobs -> [state : States, cancel : BOOLEAN]]
      /\ broker[j].state \in {"held", "transferring", "placed"}
      /\ broker'[j].state # "none"
      /\ \A other \in Jobs : other # j => broker'[other] = broker[other]
  BY <1>1 DEF BrokerMoves, States
<1>4. Grows
  BY <1>2, <1>3, Zenon DEF Grows
<1>5. Types' /\ OneAcknowledgement' /\ SubmitsAreClaimed'
  BY <1>2, <1>3, Zenon DEF Inv, Types, OneAcknowledgement, Acked, SubmitsAreClaimed, Working
<1>6. WireIsTrue'
  BY <1>2, <1>4, TruthStays, Zenon DEF Inv, WireIsTrue
<1>7. ItemFits'
  <2>1. CASE conn.at \in {"idle", "next"}
    BY <1>2, <2>1, Zenon DEF Inv, ItemFits, item
  <2>2. CASE conn.at \notin {"idle", "next"}
    <3>1. item \in Items /\ item.job \in Jobs /\ item' = item
      BY <1>2, <2>2, HasItem, Zenon DEF item
    <3>2. Truthful(item, conn.outcome) => Truthful(item, conn.outcome)'
      BY <1>2, <1>4, <3>1, TruthStays, Zenon DEF Truthful, Grows
    <3> QED
      BY <1>2, <1>4, <2>2, <3>1, <3>2, Zenon DEF Inv, ItemFits, Grows
  <2> QED
    BY <2>1, <2>2, Zenon
<1>8. RecordsAreTrue' /\ ResultsAreWhole'
  BY <1>2, <1>3 DEF Inv, RecordsAreTrue, ResultsAreWhole
<1> QED
  BY <1>5, <1>6, <1>7, <1>8, Zenon DEF Inv

\* The end of a run, and of a process.
LEMMA EndSteps ==
  ASSUME Inv, GivesUp \/ Restarts \/ Reports
  PROVE  Inv'
<1>1. conn.placeable \in BOOLEAN /\ relay \in [Jobs -> Relays]
      /\ broker \in [Jobs -> [state : States, cancel : BOOLEAN]]
  BY Zenon DEF Inv, Types, Connectors
<1>2. CASE GivesUp
  BY <1>1, <1>2, LetsGo, Zenon DEF GivesUp, Defers
<1>3. CASE Restarts
  BY <1>3, LetsGo, Zenon DEF Restarts
<1>4. CASE Reports /\ UNCHANGED relay
  BY <1>1, <1>4, LetsGo, Zenon DEF Reports
<1>5. CASE Reports /\ relay' = [j \in Jobs |->
                         IF j \in journal /\ relay[j].submit.state = "accepted"
                         THEN [relay[j] EXCEPT !.view = broker[j].state] ELSE relay[j]]
  <2>1. relay' \in [Jobs -> Relays]
    BY <1>1, <1>5 DEF Relays
  <2>2. \A j \in Jobs : /\ relay'[j].submit = relay[j].submit
                       /\ relay'[j].cancel = relay[j].cancel
                       /\ relay'[j].collect = relay[j].collect
    BY <1>1, <1>5, Zenon DEF Relays
  <2>3. /\ conn' \in Connectors /\ conn'.at = "idle" /\ conn'.todo = {} /\ conn'.item = NoItem
        /\ UNCHANGED <<pushed, wire, journal, broker>>
    BY <1>1, <1>5, Idles, Zenon DEF Reports
  <2>4. Types' /\ WireIsTrue' /\ ItemFits'
    BY <2>1, <2>3, Zenon DEF Inv, Types, WireIsTrue, Truthful, ItemFits
  <2>5. OneAcknowledgement'
    BY <2>3, NoItemIsNone, Zenon DEF Inv, OneAcknowledgement, Acked
  <2>6. SubmitsAreClaimed'
    <3> SUFFICES ASSUME NEW i \in Items
                 PROVE  SubmitsAreClaimed!(i)'
      BY Zenon DEF SubmitsAreClaimed
    <3>1. i.job \in Jobs
      BY Zenon DEF Items
    <3> QED
      BY <2>2, <2>3, <3>1, NoItemIsNone, Zenon DEF Inv, SubmitsAreClaimed, Working, Acked
  <2>7. RecordsAreTrue' /\ ResultsAreWhole'
    BY <2>2, <2>3 DEF Inv, RecordsAreTrue, ResultsAreWhole
  <2> QED
    BY <2>4, <2>5, <2>6, <2>7, Zenon DEF Inv
<1> QED
  BY <1>2, <1>3, <1>4, <1>5, Zenon DEF Reports

-----------------------------------------------------------------------------
(* A claim starts new epochs, above those of everything in flight. *)

LEMMA LeasedWork ==
  ASSUME NEW S, NEW w \in WorkType(S), NEW state \in S
  PROVE  Lease(w, state) \in WorkType(S)
  BY DEF Lease, WorkType

LEMMA LeasedRecords ==
  ASSUME relay \in [Jobs -> Relays],
         NEW taken \in SUBSET {t \in Kinds \X Jobs : Claimable(t[1], t[2])},
         NEW j \in Jobs
  PROVE  /\ Leased(j, taken) \in Relays
         /\ Leased(j, taken).cancel.state = relay[j].cancel.state
         /\ Leased(j, taken).collect.state = relay[j].collect.state
         /\ IF <<"submit", j>> \in taken
            THEN /\ relay[j].submit.state \in {"queued", "claimed"}
                 /\ Leased(j, taken).submit.state = "claimed"
                 /\ Leased(j, taken).submit.epoch = relay[j].submit.epoch + 1
            ELSE Leased(j, taken).submit = relay[j].submit
<1>1. relay[j] \in Relays
  BY Zenon
<1>2. <<"submit", j>> \in taken => relay[j].submit.state \in {"queued", "claimed"}
  BY Zenon DEF Claimable
<1>3. Leased(j, taken) \in Relays
  <2>1. PICK s, c, r :
           /\ Leased(j, taken) = [relay[j] EXCEPT !.submit = s, !.cancel = c, !.collect = r]
           /\ s \in {relay[j].submit, Lease(relay[j].submit, "claimed")}
           /\ c \in {relay[j].cancel, Lease(relay[j].cancel, relay[j].cancel.state)}
           /\ r \in {relay[j].collect, Lease(relay[j].collect, relay[j].collect.state)}
    BY Zenon DEF Leased
  <2>2. s \in WorkType({"absent", "queued", "claimed", "accepted", "refused", "cancelled"})
    <3>1. relay[j].submit \in
            WorkType({"absent", "queued", "claimed", "accepted", "refused", "cancelled"})
      BY <1>1, Zenon DEF Relays
    <3> QED
      BY <2>1, <3>1, LeasedWork
  <2>3. relay[j].cancel \in WorkType({"none", "requested", "stopped", "not-stopped"})
    BY <1>1, Zenon DEF Relays
  <2>4. relay[j].collect \in
          WorkType({"none", "requested", "not-finished", "failed", "collected"})
    BY <1>1, Zenon DEF Relays
  <2>5. /\ relay[j].cancel.state \in {"none", "requested", "stopped", "not-stopped"}
        /\ relay[j].collect.state \in {"none", "requested", "not-finished", "failed", "collected"}
    BY <2>3, <2>4, Zenon DEF WorkType
  <2>6. c \in WorkType({"none", "requested", "stopped", "not-stopped"})
    BY <2>1, <2>3, <2>5, LeasedWork
  <2>7. r \in WorkType({"none", "requested", "not-finished", "failed", "collected"})
    BY <2>1, <2>4, <2>5, LeasedWork
  <2> QED
    BY <1>1, <2>1, <2>2, <2>6, <2>7, Zenon DEF Relays
<1>4. /\ Leased(j, taken).cancel.state = relay[j].cancel.state
      /\ Leased(j, taken).collect.state = relay[j].collect.state
  BY <1>1, Zenon DEF Leased, Lease, Relays, WorkType
<1>5. IF <<"submit", j>> \in taken
      THEN /\ Leased(j, taken).submit.state = "claimed"
           /\ Leased(j, taken).submit.epoch = relay[j].submit.epoch + 1
      ELSE Leased(j, taken).submit = relay[j].submit
  BY <1>1, Zenon DEF Leased, Lease, Relays, WorkType
<1> QED
  BY <1>2, <1>3, <1>4, <1>5, Zenon

\* What the connector is handed: items of the new epochs.
LEMMA HandedOut ==
  ASSUME relay \in [Jobs -> Relays], conn \in Connectors,
         NEW taken \in SUBSET {t \in Kinds \X Jobs : Claimable(t[1], t[2])},
         conn' = [conn EXCEPT !.at = "next",
                    !.todo = {[kind |-> t[1], job |-> t[2],
                               epoch |-> relay[t[2]][t[1]].epoch + 1] : t \in taken}]
  PROVE  /\ conn' \in Connectors /\ conn'.at = "next" /\ conn'.item = conn.item
         /\ \A i \in conn'.todo : i.kind = "submit" =>
              /\ <<"submit", i.job>> \in taken /\ i.job \in Jobs
              /\ i.epoch = relay[i.job].submit.epoch + 1
<1> DEFINE handed == {[kind |-> t[1], job |-> t[2],
                       epoch |-> relay[t[2]][t[1]].epoch + 1] : t \in taken}
<1>1. ASSUME NEW t \in taken
      PROVE  /\ t = <<t[1], t[2]>> /\ t[1] \in Kinds /\ t[2] \in Jobs
             /\ relay[t[2]][t[1]].epoch + 1 \in Nat
  <2>1. t \in Kinds \X Jobs
    BY Zenon
  <2>2. t = <<t[1], t[2]>> /\ t[1] \in Kinds /\ t[2] \in Jobs
    BY <2>1
  <2>3. relay[t[2]] \in Relays
    BY <2>2, Zenon
  <2> QED
    BY <2>2, <2>3 DEF Kinds, Relays, WorkType
<1>2. handed \in SUBSET Items
  BY <1>1 DEF Items
<1>3. ASSUME NEW i \in handed, i.kind = "submit"
      PROVE  /\ <<"submit", i.job>> \in taken /\ i.job \in Jobs
             /\ i.epoch = relay[i.job].submit.epoch + 1
  <2>1. PICK t \in taken : i = [kind |-> t[1], job |-> t[2],
                               epoch |-> relay[t[2]][t[1]].epoch + 1]
    BY <1>3, Zenon
  <2>2. t[1] = "submit" /\ i.job = t[2] /\ i.epoch = relay[t[2]][t[1]].epoch + 1
    BY <1>3, <2>1, Zenon
  <2> QED
    BY <1>1, <2>2, Zenon
<1> HIDE DEF handed
<1>4. conn' = [conn EXCEPT !.at = "next", !.todo = handed]
  BY Zenon DEF handed
<1>5. conn' \in Connectors /\ conn'.at = "next" /\ conn'.item = conn.item /\ conn'.todo = handed
  BY <1>2, <1>4, Zenon DEF Connectors
<1> QED
  BY <1>3, <1>5, Zenon

LEMMA ClaimStep ==
  ASSUME Inv, Claim
  PROVE  Inv'
<1>1. relay \in [Jobs -> Relays] /\ conn \in Connectors
  BY Zenon DEF Inv, Types
<1>2. conn.at = "idle" /\ conn.todo = {} /\ conn.item = NoItem
  BY Zenon DEF Claim, Inv, ItemFits
<1>3. PICK taken \in SUBSET {t \in Kinds \X Jobs : Claimable(t[1], t[2])} :
         /\ relay' = [j \in Jobs |-> Leased(j, taken)]
         /\ \/ conn' = [conn EXCEPT !.at = "next",
                          !.todo = {[kind |-> t[1], job |-> t[2],
                                     epoch |-> relay[t[2]][t[1]].epoch + 1] : t \in taken}]
            \/ conn' = conn
  BY Zenon DEF Claim
<1>4. UNCHANGED <<pushed, wire, journal, broker>>
  BY Zenon DEF Claim
<1>5. /\ conn' \in Connectors /\ conn'.at \in {"idle", "next"} /\ conn'.item = NoItem
      /\ conn'.at = "idle" => conn'.todo = {}
      /\ \A i \in conn'.todo : i.kind = "submit" =>
           /\ <<"submit", i.job>> \in taken /\ i.job \in Jobs
           /\ i.epoch = relay[i.job].submit.epoch + 1
  BY <1>1, <1>2, <1>3, HandedOut, Zenon
<1>6. relay' \in [Jobs -> Relays]
  BY <1>1, <1>3, LeasedRecords, Zenon
<1>7. \A j \in Jobs :
         /\ relay'[j].cancel.state = relay[j].cancel.state
         /\ relay'[j].collect.state = relay[j].collect.state
         /\ IF <<"submit", j>> \in taken
            THEN /\ relay[j].submit.state \in {"queued", "claimed"}
                 /\ relay'[j].submit.state = "claimed"
                 /\ relay'[j].submit.epoch = relay[j].submit.epoch + 1
            ELSE relay'[j].submit = relay[j].submit
  <2> TAKE j \in Jobs
  <2>1. relay'[j] = Leased(j, taken)
    BY <1>3, Zenon
  <2> QED
    BY <1>1, <2>1, LeasedRecords
<1>8. \A j \in Jobs : relay[j].submit.epoch \in Nat
  BY <1>1, Zenon DEF Relays, WorkType
<1>9. Types' /\ WireIsTrue' /\ ItemFits'
  <2>1. Types' /\ ItemFits'
    BY <1>4, <1>5, <1>6, Zenon DEF Inv, Types, ItemFits
  <2>2. WireIsTrue'
    BY <1>4 DEF Inv, WireIsTrue, Truthful
  <2> QED
    BY <2>1, <2>2, Zenon
<1>10. ASSUME NEW i \in Items, i.kind = "submit", Acked(i)
       PROVE  /\ i.job \in Jobs /\ i.epoch \in Nat /\ i.epoch <= relay[i.job].submit.epoch
              /\ relay[i.job].submit.state \in {"claimed", "accepted", "refused"}
              /\ relay[i.job].submit.state = "refused" => i.epoch < relay[i.job].submit.epoch
  BY <1>10, Zenon DEF Inv, SubmitsAreClaimed, Items
<1>11. \A i \in Items : Acked(i)' <=> Acked(i)
  BY <1>4, Zenon DEF Acked
<1>12. OneAcknowledgement'
  <2> SUFFICES ASSUME NEW i \in Items, i.kind = "submit"
               PROVE  OneAcknowledgement!(i)'
    BY Zenon DEF OneAcknowledgement
  <2>1. i \in conn'.todo => ~Acked(i)
    <3> SUFFICES ASSUME i \in conn'.todo, Acked(i)
                 PROVE  FALSE
      BY Zenon
    <3>1. i.job \in Jobs /\ i.epoch = relay[i.job].submit.epoch + 1
      BY <1>5, Zenon
    <3>2. relay[i.job].submit.epoch \in Nat
      BY <1>8, <3>1, Zenon
    <3>3. i.epoch <= relay[i.job].submit.epoch
      BY <1>10, Zenon
    <3> QED
      BY <3>1, <3>2, <3>3
  <2>2. conn'.item # i
    BY <1>5, NoItemIsNone, Zenon
  <2> QED
    BY <1>4, <1>11, <2>1, <2>2, Zenon DEF Inv, OneAcknowledgement
<1>13. SubmitsAreClaimed'
  <2> SUFFICES ASSUME NEW i \in Items, i.kind = "submit", Working(i)' \/ Acked(i)'
               PROVE  SubmitsAreClaimed!(i)!2'
    BY Zenon DEF SubmitsAreClaimed
  <2>1. CASE i \in conn'.todo
    <3>1. /\ i.job \in Jobs /\ <<"submit", i.job>> \in taken
          /\ i.epoch = relay[i.job].submit.epoch + 1
      BY <1>5, <2>1, Zenon
    <3>2. /\ relay'[i.job].submit.state = "claimed"
          /\ relay'[i.job].submit.epoch = relay[i.job].submit.epoch + 1
      BY <1>7, <3>1, Zenon
    <3>3. relay[i.job].submit.epoch \in Nat
      BY <1>8, <3>1, Zenon
    <3> QED
      BY <3>1, <3>2, <3>3
  <2>2. CASE Acked(i)
    <3>1. CASE <<"submit", i.job>> \in taken
      BY <1>7, <1>8, <1>10, <2>2, <3>1
    <3>2. CASE <<"submit", i.job>> \notin taken
      BY <1>7, <1>10, <2>2, <3>2, Zenon
    <3> QED
      BY <3>1, <3>2, Zenon
  <2> QED
    BY <1>5, <1>11, <2>1, <2>2, NoItemIsNone, Zenon DEF Working
<1>14. RecordsAreTrue'
  <2> SUFFICES ASSUME NEW j \in Jobs
               PROVE  RecordsAreTrue!(j)'
    BY Zenon DEF RecordsAreTrue
  <2>1. CASE <<"submit", j>> \in taken
    BY <1>4, <1>7, <2>1 DEF Inv, RecordsAreTrue
  <2>2. CASE <<"submit", j>> \notin taken
    BY <1>4, <1>7, <2>2 DEF Inv, RecordsAreTrue
  <2> QED
    BY <2>1, <2>2, Zenon
<1>15. ResultsAreWhole'
  BY <1>4, <1>7, Zenon DEF Inv, ResultsAreWhole
<1> QED
  BY <1>9, <1>12, <1>13, <1>14, <1>15, Zenon DEF Inv

-----------------------------------------------------------------------------
(* An acknowledgement is handled. *)

LEMMA SettledRecord ==
  ASSUME relay \in [Jobs -> Relays], NEW i \in Items, NEW o \in Outcomes, Truthful(i, o),
         relay' = [relay EXCEPT ![i.job] =
                           CASE i.kind = "submit" -> SubmitAcked(@, o)
                             [] i.kind = "cancel" -> CancelAcked(@, o)
                             [] i.kind = "collect" -> CollectAcked(@, o)]
  PROVE  /\ relay' \in [Jobs -> Relays]
         /\ \A j \in Jobs : j # i.job => relay'[j] = relay[j]
         /\ relay'[i.job].submit.epoch = relay[i.job].submit.epoch
         /\ relay'[i.job].submit.state =
              IF i.kind = "submit" THEN o ELSE relay[i.job].submit.state
         /\ relay'[i.job].cancel.state =
              IF i.kind = "cancel" THEN o
              ELSE IF i.kind = "submit" /\ o = "refused"
                      /\ relay[i.job].cancel.state = "requested" THEN "stopped"
              ELSE relay[i.job].cancel.state
         /\ relay'[i.job].collect.state =
              IF i.kind = "collect" THEN o ELSE relay[i.job].collect.state
<1>1. i.job \in Jobs /\ i.kind \in Kinds /\ relay[i.job] \in Relays
  BY Zenon DEF Items
<1>2. CASE i.kind = "submit"
  <2>1. relay' = [relay EXCEPT ![i.job] = SubmitAcked(relay[i.job], o)]
    BY <1>2, Zenon
  <2>2. o \in {"accepted", "refused"}
    BY <1>2, Zenon DEF Truthful
  <2>3. /\ SubmitAcked(relay[i.job], o) \in Relays
        /\ SubmitAcked(relay[i.job], o).submit.epoch = relay[i.job].submit.epoch
        /\ SubmitAcked(relay[i.job], o).submit.state = o
        /\ SubmitAcked(relay[i.job], o).cancel.state =
             IF o = "refused" /\ relay[i.job].cancel.state = "requested" THEN "stopped"
             ELSE relay[i.job].cancel.state
        /\ SubmitAcked(relay[i.job], o).collect.state = relay[i.job].collect.state
    BY <1>1, <2>2, ZenonT(20) DEF SubmitAcked, Relays, WorkType
  <2> QED
    BY <1>1, <1>2, <2>1, <2>3, Zenon
<1>3. CASE i.kind = "cancel"
  <2>1. relay' = [relay EXCEPT ![i.job] = CancelAcked(relay[i.job], o)]
    BY <1>3, Zenon
  <2>2. o \in {"stopped", "not-stopped"}
    BY <1>3, Zenon DEF Truthful
  <2>3. /\ CancelAcked(relay[i.job], o) \in Relays
        /\ CancelAcked(relay[i.job], o).submit = relay[i.job].submit
        /\ CancelAcked(relay[i.job], o).cancel.state = o
        /\ CancelAcked(relay[i.job], o).collect = relay[i.job].collect
    BY <1>1, <2>2, Zenon DEF CancelAcked, Relays, WorkType
  <2> QED
    BY <1>1, <1>3, <2>1, <2>3, Zenon
<1>4. CASE i.kind = "collect"
  <2>1. relay' = [relay EXCEPT ![i.job] = CollectAcked(relay[i.job], o)]
    BY <1>4, Zenon
  <2>2. o \in {"collected", "not-finished", "failed"}
    BY <1>4, Zenon DEF Truthful
  <2>3. /\ CollectAcked(relay[i.job], o) \in Relays
        /\ CollectAcked(relay[i.job], o).submit = relay[i.job].submit
        /\ CollectAcked(relay[i.job], o).cancel = relay[i.job].cancel
        /\ CollectAcked(relay[i.job], o).collect.state = o
    BY <1>1, <2>2, Zenon DEF CollectAcked, Relays, WorkType
  <2> QED
    BY <1>1, <1>4, <2>1, <2>3, Zenon
<1> QED
  BY <1>1, <1>2, <1>3, <1>4, Zenon DEF Kinds

\* The acknowledgement leaves the wire, its sender goes on if it still waits,
\* and a submission is then nowhere any more.
LEMMA AckTaken ==
  ASSUME Inv, NEW i \in Items, NEW o \in Outcomes, HandlesAck(i, o)
  PROVE  /\ conn' \in Connectors /\ wire' \subseteq wire
         /\ ItemFits' /\ WireIsTrue' /\ OneAcknowledgement'
         /\ \A other \in Items : (Acked(other)' => Acked(other))
                              /\ (Working(other)' => Working(other))
         /\ i.kind = "submit" => ~Acked(i)' /\ ~Working(i)'
         /\ Acked(i) /\ Truthful(i, o)
<1>1. conn \in Connectors /\ conn.placeable \in BOOLEAN
  BY Zenon DEF Inv, Types, Connectors
<1>2. wire' = wire \ {<<i, o>>} /\ <<i, o>> \in wire /\ UNCHANGED <<journal, broker>>
  BY Zenon DEF HandlesAck
<1>3. Acked(i) /\ Truthful(i, o)
  BY <1>2, Zenon DEF Acked, Inv, WireIsTrue
<1>4. \/ conn' = conn /\ ~(conn.at = "await" /\ conn.item = i /\ conn.outcome = o)
      \/ /\ conn.at = "await" /\ conn.item = i /\ conn.outcome = o
         /\ NextItem \/ conn' = Idle(conn.placeable)
  BY Zenon DEF HandlesAck, Defers
<1>5. \/ conn' = conn /\ ~(conn.at = "await" /\ conn.item = i /\ conn.outcome = o)
      \/ /\ conn.at = "await" /\ conn.item = i
         /\ conn' \in Connectors /\ conn'.at \in {"idle", "next"} /\ conn'.item = NoItem
         /\ conn'.todo \subseteq conn.todo
         /\ conn'.at = "idle" => conn'.todo = {}
  BY <1>1, <1>4, MovingOn, Idles, Zenon
<1>6. conn' \in Connectors /\ conn'.todo \subseteq conn.todo
      /\ \A other \in Items : conn'.item = other => conn' = conn
  BY <1>1, <1>5, NoItemIsNone, Zenon
<1>7. ItemFits'
  BY <1>2, <1>5, Zenon DEF Inv, ItemFits, item, Truthful
<1>8. WireIsTrue'
  BY <1>2, Zenon DEF Inv, WireIsTrue, Truthful
<1>9. \A other \in Items : (Acked(other)' => Acked(other)) /\ (Working(other)' => Working(other))
  BY <1>2, <1>6, Zenon DEF Acked, Working
<1>10. ASSUME i.kind = "submit"
       PROVE  ~Acked(i)' /\ ~Working(i)'
  <2>1. \A o2 \in Outcomes : <<i, o2>> \in wire => o2 = o
    BY <1>2, <1>10, Zenon DEF Inv, OneAcknowledgement
  <2>2. ~Acked(i)'
    BY <1>2, <2>1, Zenon DEF Acked
  <2>3. i \notin conn.todo /\ (conn.item = i => conn.at = "await" /\ <<i, conn.outcome>> \in wire)
    BY <1>3, <1>10, Zenon DEF Inv, OneAcknowledgement
  <2>4. conn.item = i => conn.outcome = o
    BY <1>1, <2>1, <2>3, Zenon DEF Connectors
  <2>5. conn'.item # i
    BY <1>5, <2>3, <2>4, NoItemIsNone, Zenon
  <2> QED
    BY <1>6, <2>2, <2>3, <2>5, Zenon DEF Working
<1>11. OneAcknowledgement'
  <2> SUFFICES ASSUME NEW other \in Items, other.kind = "submit"
               PROVE  OneAcknowledgement!(other)'
    BY Zenon DEF OneAcknowledgement
  <2>1. CASE other = i
    BY <1>10, <2>1, Zenon DEF Working, Acked
  <2>2. CASE other # i
    <3>1. \A o2 : <<other, o2>> \in wire' <=> <<other, o2>> \in wire
      BY <1>2, <2>2, Zenon
    <3> QED
      BY <1>6, <1>9, <3>1, Zenon DEF Inv, OneAcknowledgement
  <2> QED
    BY <2>1, <2>2, Zenon
<1> QED
  BY <1>2, <1>3, <1>6, <1>7, <1>8, <1>9, <1>10, <1>11, Zenon

LEMMA HandlesAckStep ==
  ASSUME Inv, NEW i \in Items, NEW o \in Outcomes, HandlesAck(i, o)
  PROVE  Inv'
<1>1. /\ conn' \in Connectors /\ wire' \subseteq wire
      /\ ItemFits' /\ WireIsTrue' /\ OneAcknowledgement'
      /\ \A other \in Items : (Acked(other)' => Acked(other))
                           /\ (Working(other)' => Working(other))
      /\ i.kind = "submit" => ~Acked(i)' /\ ~Working(i)'
      /\ Acked(i) /\ Truthful(i, o)
  BY AckTaken, Zenon
<1>2. UNCHANGED <<journal, broker>>
  BY Zenon DEF HandlesAck
<1>3. relay \in [Jobs -> Relays] /\ pushed \in [Jobs -> 0 .. Chunks] /\ i.job \in Jobs
  BY Zenon DEF Inv, Types, Items
<1>4. CASE ~Settles(i, o)
  <2>1. UNCHANGED <<relay, pushed>>
    BY <1>4, Zenon DEF HandlesAck
  <2>2. Types'
    BY <1>1, <1>2, <2>1, Zenon DEF Inv, Types
  <2>3. SubmitsAreClaimed'
    BY <1>1, <2>1, Zenon DEF Inv, SubmitsAreClaimed
  <2>4. RecordsAreTrue' /\ ResultsAreWhole'
    BY <1>2, <2>1, Zenon DEF Inv, RecordsAreTrue, ResultsAreWhole
  <2> QED
    BY <1>1, <2>2, <2>3, <2>4, Zenon DEF Inv
<1>5. CASE Settles(i, o)
  <2>1. /\ relay' \in [Jobs -> Relays]
        /\ \A j \in Jobs : j # i.job => relay'[j] = relay[j]
        /\ relay'[i.job].submit.epoch = relay[i.job].submit.epoch
        /\ relay'[i.job].submit.state =
             IF i.kind = "submit" THEN o ELSE relay[i.job].submit.state
        /\ relay'[i.job].cancel.state =
             IF i.kind = "cancel" THEN o
             ELSE IF i.kind = "submit" /\ o = "refused"
                     /\ relay[i.job].cancel.state = "requested" THEN "stopped"
             ELSE relay[i.job].cancel.state
        /\ relay'[i.job].collect.state =
             IF i.kind = "collect" THEN o ELSE relay[i.job].collect.state
    BY <1>1, <1>3, <1>5, SettledRecord, Zenon DEF HandlesAck
  <2>2. pushed' = IF o \in {"not-finished", "failed"} THEN [pushed EXCEPT ![i.job] = 0] ELSE pushed
    BY <1>5, Zenon DEF HandlesAck
  <2>3. pushed' \in [Jobs -> 0 .. Chunks]
    <3>1. 0 \in 0 .. Chunks
      BY RelayAssumption DEF RelayAssumption
    <3> QED
      BY <1>3, <2>2, <3>1, Zenon
  <2>4. Types'
    BY <1>1, <1>2, <2>1, <2>3, Zenon DEF Inv, Types
  <2>5. i.kind = "submit" => /\ i.epoch = relay[i.job].submit.epoch
                             /\ relay[i.job].submit.state = "claimed"
    <3>1. i.kind = "submit" => /\ relay[i.job].submit.state # "accepted"
                               /\ i.epoch = relay[i.job].submit.epoch
      BY <1>5, Zenon DEF Settles
    <3>2. i.kind = "submit" =>
            /\ relay[i.job].submit.state \in {"claimed", "accepted", "refused"}
            /\ relay[i.job].submit.state = "refused" => i.epoch < relay[i.job].submit.epoch
      BY <1>1, Zenon DEF Inv, SubmitsAreClaimed
    <3>3. i.epoch \in Nat
      BY Zenon DEF Items
    <3> QED
      BY <3>1, <3>2, <3>3
  <2>6. SubmitsAreClaimed'
    <3> SUFFICES ASSUME NEW other \in Items, other.kind = "submit",
                        Working(other)' \/ Acked(other)'
                 PROVE  SubmitsAreClaimed!(other)!2'
      BY Zenon DEF SubmitsAreClaimed
    <3>1. /\ other.job \in Jobs /\ other.epoch \in Nat
          /\ other.epoch <= relay[other.job].submit.epoch
          /\ relay[other.job].submit.state \in {"claimed", "accepted", "refused"}
          /\ relay[other.job].submit.state = "refused" =>
               other.epoch < relay[other.job].submit.epoch
      BY <1>1, Zenon DEF Inv, SubmitsAreClaimed, Items
    <3>2. CASE other.job # i.job \/ i.kind # "submit"
      BY <2>1, <3>1, <3>2, Zenon
    <3>3. CASE other.job = i.job /\ i.kind = "submit"
      <4>1. other # i
        BY <1>1, <3>3, Zenon
      <4>2. other.epoch # i.epoch
        BY <3>3, <4>1 DEF Items
      <4>3. other.epoch < relay[i.job].submit.epoch
        <5>1. relay[i.job].submit.epoch \in Nat
          BY <1>3, Zenon DEF Relays, WorkType
        <5> QED
          BY <2>5, <3>1, <3>3, <4>2, <5>1
      <4>4. o \in {"accepted", "refused"}
        BY <1>1, <3>3, Zenon DEF Truthful
      <4> QED
        BY <2>1, <3>1, <3>3, <4>3, <4>4, Zenon
    <3> QED
      BY <3>2, <3>3, Zenon
  <2>7. RecordsAreTrue'
    <3> SUFFICES ASSUME NEW j \in Jobs
                 PROVE  RecordsAreTrue!(j)'
      BY Zenon DEF RecordsAreTrue
    <3>1. CASE j # i.job
      BY <1>2, <2>1, <3>1, Zenon DEF Inv, RecordsAreTrue
    <3>2. CASE j = i.job /\ i.kind = "submit"
      <4>1. /\ o \in {"accepted", "refused"}
            /\ o = "accepted" => broker[j].state # "none" /\ j \in journal
        BY <1>1, <3>2 DEF Truthful
      <4>2. /\ relay'[j].submit.state = o
            /\ relay'[j].cancel.state = "stopped" =>
                 o = "refused" \/ relay[j].cancel.state = "stopped"
        BY <2>1, <3>2
      <4>3. relay[j].cancel.state = "stopped" => broker[j].state \in {"cancelled", "done"}
        BY <2>5, <3>2 DEF Inv, RecordsAreTrue
      <4> QED
        BY <1>2, <4>1, <4>2, <4>3
    <3>3. CASE j = i.job /\ i.kind # "submit"
      BY <1>1, <1>2, <2>1, <3>3 DEF Inv, RecordsAreTrue, Truthful
    <3> QED
      BY <3>1, <3>2, <3>3, Zenon
  <2>8. ResultsAreWhole'
    <3> SUFFICES ASSUME NEW j \in Jobs, relay'[j].collect.state = "collected"
                 PROVE  pushed'[j] = Chunks /\ broker'[j].state = "done"
      BY Zenon DEF ResultsAreWhole
    <3>1. CASE j # i.job
      BY <1>2, <1>3, <2>1, <2>2, <3>1, Zenon DEF Inv, ResultsAreWhole
    <3>2. CASE j = i.job /\ i.kind = "collect"
      <4>1. o = "collected" /\ pushed[i.job] = Chunks
        BY <1>5, <2>1, <3>2, Zenon DEF Settles
      <4> QED
        BY <1>1, <1>2, <2>2, <3>2, <4>1, Zenon DEF Truthful
    <3>3. CASE j = i.job /\ i.kind # "collect"
      <4>1. o \notin {"not-finished", "failed"}
        BY <1>1, <3>3, Zenon DEF Truthful, Items, Kinds
      <4> QED
        BY <1>2, <2>1, <2>2, <3>3, <4>1, Zenon DEF Inv, ResultsAreWhole
    <3> QED
      BY <3>1, <3>2, <3>3, Zenon
  <2> QED
    BY <1>1, <2>4, <2>6, <2>7, <2>8, Zenon DEF Inv
<1> QED
  BY <1>4, <1>5, Zenon

-----------------------------------------------------------------------------
(* The invariant, and what it says. *)

LEMMA InvInit == Init => Inv
<1> SUFFICES ASSUME Init
             PROVE  Inv
  BY Zenon
<1> USE DEF Init
<1>1. relay \in [Jobs -> Relays]
  BY Zenon DEF NewRecord, Work, Relays, WorkType, States
<1>2. /\ \A j \in Jobs : relay[j].submit.state = "absent" /\ relay[j].cancel.state = "none"
                        /\ relay[j].collect.state = "none" /\ broker[j].state = "none"
  BY Zenon DEF NewRecord, Work
<1>3. pushed \in [Jobs -> 0 .. Chunks]
  BY RelayAssumption DEF RelayAssumption
<1>4. conn \in Connectors /\ conn.at = "idle" /\ conn.todo = {} /\ conn.item = NoItem
  BY Idles, Zenon
<1>5. Types
  BY <1>1, <1>3, <1>4, Zenon DEF Types, States
<1>6. WireIsTrue /\ ItemFits
  BY <1>4, Zenon DEF WireIsTrue, ItemFits
<1>7. OneAcknowledgement /\ SubmitsAreClaimed
  BY <1>4, NoItemIsNone, Zenon DEF OneAcknowledgement, SubmitsAreClaimed, Acked, Working
<1>8. RecordsAreTrue /\ ResultsAreWhole
  BY <1>2, Zenon DEF RecordsAreTrue, ResultsAreWhole
<1> QED
  BY <1>5, <1>6, <1>7, <1>8, Zenon DEF Inv

LEMMA InvStep == Inv /\ [Next]_vars => Inv'
<1> SUFFICES ASSUME Inv, [Next]_vars
             PROVE  Inv'
  BY Zenon
<1>1. CASE \E j \in Jobs : Admit(j) \/ RequestCancel(j) \/ RequestResults(j)
  BY <1>1, ClientSteps, Zenon
<1>2. CASE \E j \in Jobs : BrokerMoves(j)
  BY <1>2, BrokerStep, Zenon
<1>3. CASE Claim
  BY <1>3, ClaimStep, Zenon
<1>4. CASE \E k \in Kinds, j \in Jobs : LeaseExpires(k, j)
  BY <1>4, LeaseStep, Zenon
<1>5. CASE ConnectorStep
  BY <1>5, TakesItemStep, DownloadsStep, AcceptsStep, RemembersStep, KillsStep, CollectsStep,
     SendsAckStep, EndSteps, Zenon DEF ConnectorStep
<1>6. CASE GivesUp \/ Restarts
  BY <1>6, EndSteps, Zenon
<1>7. CASE \E m \in wire : HandlesAck(m[1], m[2])
  <2>1. PICK m \in wire : HandlesAck(m[1], m[2])
    BY <1>7, Zenon
  <2>2. m[1] \in Items /\ m[2] \in Outcomes
    BY <2>1, Zenon DEF Inv, Types
  <2> QED
    BY <2>1, <2>2, HandlesAckStep, Zenon
<1>8. CASE UNCHANGED vars
  <2>1. Types' /\ WireIsTrue' /\ ItemFits'
    BY <1>8 DEF vars, Inv, Types, WireIsTrue, Truthful, ItemFits, item
  <2>2. OneAcknowledgement' /\ SubmitsAreClaimed'
    BY <1>8 DEF vars, Inv, OneAcknowledgement, Acked, SubmitsAreClaimed, Working
  <2>3. RecordsAreTrue' /\ ResultsAreWhole'
    BY <1>8 DEF vars, Inv, RecordsAreTrue, ResultsAreWhole
  <2> QED
    BY <2>1, <2>2, <2>3, Zenon DEF Inv
<1> QED
  BY <1>1, <1>2, <1>3, <1>4, <1>5, <1>6, <1>7, <1>8, Zenon DEF Next

LEMMA InvHolds == Spec => []Inv
  BY InvInit, InvStep, PTL DEF Spec

\* Whatever is lost, late or repeated between the gateway and its connector, and
\* whenever the connector crashes: a job the client was told is accepted is in
\* the broker and in the journal, one cancelled before any claim never reaches
\* the broker, and one told stopped cannot run any more.
THEOREM AnswersStayTrue == Spec => []AnswersAreTrue
<1>1. Inv => AnswersAreTrue
  BY Zenon DEF Inv, RecordsAreTrue, AnswersAreTrue
<1> QED
  BY <1>1, InvHolds, PTL

\* Results a client may download are complete and of a job that ended, however
\* often pushes were repeated and late acknowledgements of an earlier collection
\* arrived.
THEOREM ResultsStayWhole == Spec => []ResultsAreWhole
<1>1. Inv => ResultsAreWhole
  BY Zenon DEF Inv
<1> QED
  BY <1>1, InvHolds, PTL

=============================================================================
