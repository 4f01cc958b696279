----------------------------- MODULE MCRuntime -----------------------------
(***************************************************************************)
(* Three small instances in one run: a runtime store with jobs, updates and *)
(* retention; the store with a migration to it; and the migration of several*)
(* participant hosts.                                                       *)
(***************************************************************************)
EXTENDS RuntimeMigration

CONSTANTS N, MaxCommands

VARIABLES part, rt, ops, seen, lease, ready, transaction, says, cmd, side, commands, gaps

pvars == <<rt, ops, seen, lease, ready, transaction, says, cmd, side, commands, gaps>>

P == INSTANCE ParticipantMigration WITH jr <- transaction

MCInit ==
  /\ part \in {"jobs", "migration", "participants"}
  /\ MigrationInit /\ P!Init
  /\ part = "participants" => current.sha = NoSha

MCNext ==
  /\ UNCHANGED part
  /\ \/ part = "jobs" /\ SlotsNext /\ UNCHANGED <<mvars, pvars>>
     \/ /\ part = "migration"
        /\ MigrationNext \/ ((UpdateNext \/ RetentionNext) /\ UNCHANGED mvars)
        /\ UNCHANGED pvars
     \/ part = "participants" /\ P!Next /\ UNCHANGED rtvars

MCSpec == MCInit /\ [][MCNext]_<<rtvars, pvars, part>>

\* The journal of a finished migration tells the truth about every host and is
\* what the authorities record, unless a command went on from a journal changed
\* since it read it, a rollback met a "pending" apply or, for the records, a
\* command died while it made them (ParticipantMigration; _drive, _rpc).
FinishedIsTrue == P!FinishedIsTrue

\* A lane whose runtime nobody verified stays under the drain lease, unless a
\* command went on from a journal changed since it read it, a rollback met a
\* "pending" apply or a release of the lease was cut off (ParticipantMigration;
\* _run, _drive).
LeaseCoversUnverified == P!LeaseCoversUnverified

\* The same without the exemption of a release that was cut off (_run).
LeaseIsKept == P!LeaseIsKept

\* A rolled-back transaction left nothing applied, pending calls included (_drive).
RolledBackIsOld == P!RolledBackIsOld
=============================================================================
