---------------------------- MODULE KeyedSubmit ----------------------------
(***************************************************************************)
(* Keyed submission on one host (submit.py): submit_local with an          *)
(* idempotency key, fence_idempotency_key, and the two life-cycle steps    *)
(* that destroy the evidence a repair needs (the daemon's retry, cleanup). *)
(*                                                                         *)
(* A key has one create-once record, a claim or a fence, and the queue     *)
(* holds the specs, each bound to the key and the intent it was submitted  *)
(* under until a retry clears the binding.  The spec is published first    *)
(* and the claim second, under the key's lock; whoever holds the lock next *)
(* repairs what a crash left in between.                                   *)
(***************************************************************************)
EXTENDS FiniteSets, Naturals

CONSTANTS
    Keys,       \* idempotency keys
    Ids,        \* the job ids there are (a bound: new_jobid never repeats one)
    Intents,    \* submission intents (spec and payload digests)
    Clients,    \* processes that call submit_local
    NoId,       \* None, for a job id
    NoIntent,   \* None, for an intent
    NoKey,      \* None, for a key
    NoOne       \* the holder of a free lock

ASSUME NamesDistinct ==
    /\ NoId \notin Ids
    /\ NoKey \notin Keys
    /\ NoIntent \notin Intents
    /\ NoOne \notin Clients

VARIABLES
    spec,     \* queue directory: for each id its spec, or NoSpec
    record,   \* .submit-idempotency: for each key its create-once record
    lock,     \* the holder of each key's lock
    call,     \* for each client, the submit_local call it is in
    used,     \* the ids handed out by new_jobid
    origin,   \* history: the key and intent each id was published under
    answers   \* history: what callers were told, <<key, their intent, job or NoId>>

vars == <<spec, record, lock, call, used, origin, answers>>

NoSpec == [life |-> "absent", key |-> NoKey, intent |-> NoIntent]
NoRecord == [kind |-> "none", job |-> NoId, intent |-> NoIntent]
FenceRecord == [kind |-> "fence", job |-> NoId, intent |-> NoIntent]
Claim(i, n) == [kind |-> "claim", job |-> i, intent |-> n]
Idle == [at |-> "idle", key |-> NoKey, intent |-> NoIntent, job |-> NoId]

Specs ==
    [life : {"absent", "pending", "running", "terminal"},
     key : Keys \cup {NoKey}, intent : Intents \cup {NoIntent}]
Records ==
    [kind : {"none", "claim", "fence"},
     job : Ids \cup {NoId}, intent : Intents \cup {NoIntent}]
Calls ==
    [at : {"idle", "replay", "gates", "lookup", "commit", "claim", "withdraw"},
     key : Keys \cup {NoKey}, intent : Intents \cup {NoIntent},
     job : Ids \cup {NoId}]

Init ==
    /\ spec = [i \in Ids |-> NoSpec]
    /\ record = [k \in Keys |-> NoRecord]
    /\ lock = [k \in Keys |-> NoOne]
    /\ call = [c \in Clients |-> Idle]
    /\ used = {}
    /\ origin = [i \in Ids |-> <<NoKey, NoIntent>>]
    /\ answers = {}

-----------------------------------------------------------------------------
(* Reading the evidence.                                                   *)

\* _idempotency_spec_matches: the specs still bound to the key.
SpecMatches(k) == {i \in Ids : spec[i].life # "absent" /\ spec[i].key = k}

\* Mutant of Found: the key alone decides, the intent is not compared.
FoundByKey(k, n, i) ==
    \/ record[k].kind = "claim" /\ record[k].job = i
    \/ record[k] = NoRecord /\ SpecMatches(k) = {i}

\* _lookup_idempotent_submission found the caller's own job, in the claim or
\* in the one bound spec.
Found(k, n, i) ==
    \/ record[k] = Claim(i, n)
    \/ /\ record[k] = NoRecord
       /\ SpecMatches(k) = {i}
       /\ spec[i].intent = n

\* It found nothing at all: the key is new here.
NothingFound(k) == record[k] = NoRecord /\ SpecMatches(k) = {}

\* It raised IdempotencyConflict: another intent, or several specs.
Conflict(k, n) ==
    \/ record[k].kind = "claim" /\ record[k].intent # n
    \/ /\ record[k] = NoRecord
       /\ \/ Cardinality(SpecMatches(k)) > 1
          \/ \E i \in SpecMatches(k) : spec[i].intent # n

Return(c) == call' = [call EXCEPT ![c] = Idle]
Goto(c, place) == call' = [call EXCEPT ![c].at = place]

\* The answers of a lookup under the lock that do not admit a new job.  A
\* repair writes the claim of the spec it found.
Classified(c) ==
    LET k == call[c].key
        n == call[c].intent
    IN  \/ \E i \in Ids :
              /\ Found(k, n, i)
              /\ record' = [record EXCEPT ![k] = Claim(i, n)]
              /\ answers' = answers \cup {<<k, n, i>>}
              /\ Return(c)
        \/ /\ record[k] = FenceRecord          \* IdempotencyFenced
           /\ answers' = answers \cup {<<k, n, NoId>>}
           /\ Return(c)
           /\ UNCHANGED record
        \/ /\ Conflict(k, n)
           /\ Return(c)
           /\ UNCHANGED <<record, answers>>

-----------------------------------------------------------------------------
(* submit_local with a key.                                                *)

Submit(c, k, n) ==
    /\ call[c] = Idle
    /\ call' = [call EXCEPT ![c] =
                  [at |-> "replay", key |-> k, intent |-> n, job |-> NoId]]
    /\ UNCHANGED <<spec, record, lock, used, origin, answers>>

\* _replay_preexisting_idempotent_submission: before the admission gates, an
\* accepted key gets its receipt.  Without a lock file it classifies unlocked,
\* and again under a new lock if that finds anything.
Replay(c) ==
    /\ call[c].at = "replay"
    /\ lock[call[c].key] = NoOne
    /\ \/ Classified(c)
       \/ /\ NothingFound(call[c].key)
          /\ Goto(c, "gates")
          /\ UNCHANGED <<record, answers>>
    /\ UNCHANGED <<spec, lock, used, origin>>

\* The unlocked read found nothing; by now there may be something.
ReplaysUnlocked(c) ==
    /\ call[c].at = "replay"
    /\ NothingFound(call[c].key)
    /\ Goto(c, "gates")
    /\ UNCHANGED <<spec, record, lock, used, origin, answers>>

\* The gates on new work: a drain that rejects submits, a missing predecessor.
Gates(c) ==
    /\ call[c].at = "gates"
    /\ Goto(c, "lookup") \/ Return(c)
    /\ UNCHANGED <<spec, record, lock, used, origin, answers>>

\* Under the lock, look again; a key still unknown goes on to the commit.
Lookup(c) ==
    /\ call[c].at = "lookup"
    /\ lock[call[c].key] = NoOne
    /\ \/ Classified(c) /\ UNCHANGED lock
       \/ /\ NothingFound(call[c].key)
          /\ lock' = [lock EXCEPT ![call[c].key] = c]
          /\ Goto(c, "commit")
          /\ UNCHANGED <<record, answers>>
    /\ UNCHANGED <<spec, used, origin>>

\* _write_spec_exclusive publishes the spec; the daemon can see it from here.
WriteSpec(c) ==
    /\ call[c].at = "commit"
    /\ \E i \in Ids \ used :
         /\ spec' = [spec EXCEPT ![i] =
                       [life |-> "pending", key |-> call[c].key,
                        intent |-> call[c].intent]]
         /\ used' = used \cup {i}
         /\ origin' = [origin EXCEPT ![i] = <<call[c].key, call[c].intent>>]
         /\ call' = [call EXCEPT ![c].at = "claim", ![c].job = i]
    /\ UNCHANGED <<record, lock, answers>>

\* _write_idempotency_claim, the acceptance point: the receipt goes out.
WriteClaim(c) ==
    LET k == call[c].key
    IN  /\ call[c].at = "claim"
        /\ record[k] \in {NoRecord, Claim(call[c].job, call[c].intent)}
        /\ record' = [record EXCEPT ![k] = Claim(call[c].job, call[c].intent)]
        /\ answers' = answers \cup {<<k, call[c].intent, call[c].job>>}
        /\ lock' = [lock EXCEPT ![k] = NoOne]
        /\ Return(c)
        /\ UNCHANGED <<spec, used, origin>>

\* The workspace was replaced before the claim: the published spec still has
\* the submitted bytes, so it is to be unlinked.
WithdrawChecks(c) ==
    /\ call[c].at = "claim"
    /\ spec[call[c].job] = [life |-> "pending", key |-> call[c].key,
                            intent |-> call[c].intent]
    /\ Goto(c, "withdraw")
    /\ UNCHANGED <<spec, record, lock, used, origin, answers>>

WithdrawUnlinks(c) ==
    /\ call[c].at = "withdraw"
    /\ spec' = [spec EXCEPT ![call[c].job] = NoSpec]
    /\ lock' = [lock EXCEPT ![call[c].key] = NoOne]
    /\ Return(c)
    /\ UNCHANGED <<record, used, origin, answers>>

\* The process dies, or an I/O error ends the call: the lock goes with the
\* descriptor, what is on disk stays.
Dies(c) ==
    /\ call[c] # Idle
    /\ Return(c)
    /\ lock' = [k \in Keys |-> IF lock[k] = c THEN NoOne ELSE lock[k]]
    /\ UNCHANGED <<spec, record, used, origin, answers>>

-----------------------------------------------------------------------------
(* fence_idempotency_key, and the life of the spec.                        *)

\* Mutant of FenceKey: a spec whose claim is missing is overlooked.
FenceKeyBlind(k) ==
    /\ lock[k] = NoOne
    /\ \/ /\ record[k].kind = "claim"
          /\ answers' = answers \cup {<<k, NoIntent, record[k].job>>}
          /\ UNCHANGED record
       \/ /\ record[k].kind # "claim"
          /\ record' = [record EXCEPT ![k] = FenceRecord]
          /\ answers' = answers \cup {<<k, NoIntent, NoId>>}
    /\ UNCHANGED <<spec, lock, call, used, origin>>

FenceKey(k) ==
    /\ lock[k] = NoOne
    /\ \/ /\ record[k].kind = "claim"
          /\ answers' = answers \cup {<<k, NoIntent, record[k].job>>}
          /\ UNCHANGED record
       \/ /\ record[k] = NoRecord
          /\ \E i \in Ids :
               /\ SpecMatches(k) = {i}
               /\ record' = [record EXCEPT ![k] = Claim(i, spec[i].intent)]
               /\ answers' = answers \cup {<<k, NoIntent, i>>}
       \/ /\ record[k] = FenceRecord \/ NothingFound(k)
          /\ record' = [record EXCEPT ![k] = FenceRecord]
          /\ answers' = answers \cup {<<k, NoIntent, NoId>>}
    /\ UNCHANGED <<spec, lock, call, used, origin>>

\* ensure_idempotency_claim_for_spec went through: the spec has no binding, or
\* its claim stands when the step ends.
ClaimEnsured(i) ==
    LET k == spec[i].key
        own == Claim(i, spec[i].intent)
    IN  \/ k = NoKey /\ UNCHANGED record
        \/ /\ k # NoKey
           /\ lock[k] = NoOne
           /\ record[k] \in {NoRecord, own}
           /\ record' = [record EXCEPT ![k] = own]

DaemonStarts(i) ==
    /\ spec[i].life = "pending"
    /\ spec' = [spec EXCEPT ![i].life = "running"]
    /\ UNCHANGED <<record, lock, call, used, origin, answers>>

DaemonFinishes(i) ==
    /\ spec[i].life \in {"pending", "running"}
    /\ spec' = [spec EXCEPT ![i].life = "terminal"]
    /\ UNCHANGED <<record, lock, call, used, origin, answers>>

\* _maybe_retry: secure the claim, then requeue without the binding.
DaemonRetries(i) ==
    /\ spec[i].life = "running"
    /\ ClaimEnsured(i)
    /\ spec' = [spec EXCEPT ![i] =
                  [life |-> "pending", key |-> NoKey, intent |-> NoIntent]]
    /\ UNCHANGED <<lock, call, used, origin, answers>>

\* delete_job: the same before the spec goes.
Cleanup(i) ==
    /\ spec[i].life = "terminal"
    /\ ClaimEnsured(i)
    /\ spec' = [spec EXCEPT ![i] = NoSpec]
    /\ UNCHANGED <<lock, call, used, origin, answers>>

Next ==
    \/ \E c \in Clients :
         \/ \E k \in Keys, n \in Intents : Submit(c, k, n)
         \/ Replay(c) \/ ReplaysUnlocked(c) \/ Gates(c) \/ Lookup(c)
         \/ WriteSpec(c) \/ WriteClaim(c)
         \/ WithdrawChecks(c) \/ WithdrawUnlinks(c)
         \/ Dies(c)
    \/ \E k \in Keys : FenceKey(k)
    \/ \E i \in Ids :
         \/ DaemonStarts(i) \/ DaemonFinishes(i) \/ DaemonRetries(i)
         \/ Cleanup(i)

Spec == Init /\ [][Next]_vars

-----------------------------------------------------------------------------
(* Properties.                                                             *)

\* Every variable has its type.
TypeOK ==
    /\ spec \in [Ids -> Specs]
    /\ record \in [Keys -> Records]
    /\ lock \in [Keys -> Clients \cup {NoOne}]
    /\ call \in [Clients -> Calls]
    /\ used \subseteq Ids
    /\ origin \in [Ids -> (Keys \cup {NoKey}) \X (Intents \cup {NoIntent})]
    /\ answers \subseteq Keys \X (Intents \cup {NoIntent}) \X (Ids \cup {NoId})

\* A caller who is given a job id gets the job of its own key and intent: a
\* reused key with other content is refused, never answered with the old job.
ReceiptMatchesIntent ==
    \A a \in answers :
        a[3] # NoId =>
            /\ origin[a[3]][1] = a[1]
            /\ a[2] \in {NoIntent, origin[a[3]][2]}

\* The phase of a key, as its submitters may rely on it.
KeyPhase(k) ==
    IF record[k].kind = "claim" THEN [phase |-> "taken", job |-> record[k].job]
    ELSE IF record[k].kind = "fence" THEN [phase |-> "fenced", job |-> NoId]
    ELSE IF SpecMatches(k) = {} THEN [phase |-> "open", job |-> NoId]
    ELSE [phase |-> "held", job |-> CHOOSE i \in SpecMatches(k) : TRUE]

Promise ==
    INSTANCE OneShotKey
        WITH key <- [k \in Keys |-> KeyPhase(k)],
             answers <- {<<a[1], a[3]>> : a \in answers}

\* The host keeps the promise of OneShotKey: whatever crashes, retries and
\* cleanups come between, a key names one job for ever or none, and no two
\* answers about it differ.
KeepsPromise == Promise!Spec

=============================================================================
