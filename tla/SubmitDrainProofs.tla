------------------------- MODULE SubmitDrainProofs -------------------------
(***************************************************************************)
(* Proofs about KeyedSubmit, for any keys, ids, intents and clients: the   *)
(* receipts are for the caller's own intent, and the host implements the   *)
(* promise of OneShotKey.  Both rest on Inv: no two specs are bound to one *)
(* key, the specs bound to a claimed key are of the claimed job, and the   *)
(* holder of a key's lock finds the key as its lookup left it.             *)
(*                                                                         *)
(* Then proofs about SchedulerDrain, for any hosts, jobs and operators: a  *)
(* held target gets no job, and an update leaves no lane behind.  They     *)
(* rest on DrainInv, which is explained there.                             *)
(***************************************************************************)
EXTENDS KeyedSubmit, SchedulerDrain, TLAPS

\* A bound spec is of the key and intent it was published under, and no other
\* spec is bound to that key.
SpecsAreBound ==
    /\ \A i \in Ids :
         /\ spec[i].life = "absent" => spec[i] = NoSpec
         /\ spec[i].life # "absent" => i \in used
         /\ spec[i].key # NoKey =>
              /\ spec[i].life # "absent"
              /\ spec[i].intent \in Intents
              /\ origin[i] = <<spec[i].key, spec[i].intent>>
    /\ \A i, j \in Ids : spec[i].key # NoKey /\ spec[i].key = spec[j].key => i = j

\* A fenced key has no bound spec; that of a claimed key is the claimed job's.
RecordsHold ==
    \A k \in Keys :
        /\ record[k].kind = "none" => record[k] = NoRecord
        /\ record[k].kind = "fence" =>
             record[k] = FenceRecord /\ \A i \in Ids : spec[i].key # k
        /\ record[k].kind = "claim" =>
             /\ record[k].job \in used
             /\ record[k].intent \in Intents
             /\ origin[record[k].job] = <<k, record[k].intent>>
             /\ \A i \in Ids : spec[i].key = k => i = record[k].job

\* What a client found under the lock is still so while it holds the lock.
CallsHold ==
    \A c \in Clients :
        /\ call[c].at # "idle" => call[c].key \in Keys /\ call[c].intent \in Intents
        /\ call[c].at \in {"commit", "claim", "withdraw"} =>
             lock[call[c].key] = c /\ record[call[c].key] = NoRecord
        /\ call[c].at = "commit" => \A i \in Ids : spec[i].key # call[c].key
        /\ call[c].at \in {"claim", "withdraw"} =>
             /\ call[c].job \in Ids
             /\ spec[call[c].job].key = call[c].key
             /\ spec[call[c].job].intent = call[c].intent

\* What was said about a key is what its record says for ever.
AnswersHold ==
    \A a \in answers :
        IF a[3] = NoId THEN record[a[1]].kind = "fence"
        ELSE /\ record[a[1]].kind = "claim"
             /\ record[a[1]].job = a[3]
             /\ a[2] \in {NoIntent, record[a[1]].intent}

Inv == TypeOK /\ SpecsAreBound /\ RecordsHold /\ CallsHold /\ AnswersHold

-----------------------------------------------------------------------------
(* What the lookups find. *)

\* The bound specs of a key, one at most.
LEMMA Matches ==
  ASSUME Inv, NEW k \in Keys
  PROVE  /\ SpecMatches(k) = {i \in Ids : spec[i].key = k}
         /\ \A i \in SpecMatches(k) : SpecMatches(k) = {i}
BY NamesDistinct DEF Inv, TypeOK, SpecsAreBound, SpecMatches

\* A key that a client works on under the lock is not free.
LEMMA FreeIsQuiet ==
  ASSUME Inv, NEW k \in Keys, lock[k] = NoOne, NEW c \in Clients, call[c].key = k
  PROVE  call[c].at \notin {"commit", "claim", "withdraw"}
BY NamesDistinct, Zenon DEF Inv, CallsHold

-----------------------------------------------------------------------------
(* What a step has to show, by what it changes. *)

\* A step of one client that changes no evidence and takes no lock from others.
LEMMA OnlyTheCall ==
  ASSUME Inv, NEW c \in Clients, NEW new \in Calls,
         call' = [call EXCEPT ![c] = new],
         lock' \in [Keys -> Clients \cup {NoOne}],
         \A k \in Keys : lock'[k] = lock[k] \/ lock[k] \in {c, NoOne},
         new.at # "idle" => new.key \in Keys /\ new.intent \in Intents,
         new.at \in {"commit", "claim", "withdraw"} =>
           lock'[new.key] = c /\ record[new.key] = NoRecord,
         new.at = "commit" => \A i \in Ids : spec[i].key # new.key,
         new.at \in {"claim", "withdraw"} =>
           /\ new.job \in Ids
           /\ spec[new.job].key = new.key
           /\ spec[new.job].intent = new.intent,
         spec' = spec, record' = record, used' = used, origin' = origin, answers' = answers
  PROVE  Inv'
<1> USE DEF Inv, TypeOK
<1>1. call' \in [Clients -> Calls] /\ call'[c] = new /\ \A d \in Clients \ {c} : call'[d] = call[d]
  BY Zenon
<1>2. TypeOK' /\ SpecsAreBound' /\ RecordsHold' /\ AnswersHold'
  BY <1>1 DEF SpecsAreBound, RecordsHold, AnswersHold
<1>3. CallsHold'
  BY <1>1, NamesDistinct DEF CallsHold
<1> QED
  BY <1>2, <1>3, Zenon

\* The record of a key whose evidence agrees is written or found written, with
\* nobody else at work on the key.
Agrees(k, i, n) ==
    \/ record[k] = Claim(i, n)
    \/ record[k] = NoRecord /\ spec[i].key = k /\ spec[i].intent = n

LEMMA TakesRecord ==
  ASSUME Inv, NEW k \in Keys, NEW i \in Ids, NEW n \in Intents, Agrees(k, i, n),
         record' = [record EXCEPT ![k] = Claim(i, n)],
         answers' \subseteq answers \cup {<<k, n, i>>, <<k, NoIntent, i>>},
         \A j \in Ids : spec'[j].key \in {spec[j].key, NoKey},
         used' = used, origin' = origin
  PROVE  /\ record' \in [Keys -> Records]
         /\ RecordsHold'
         /\ AnswersHold'
         /\ answers' \subseteq Keys \X (Intents \cup {NoIntent}) \X (Ids \cup {NoId})
<1> USE NamesDistinct DEF Inv, TypeOK
<1>1. /\ record'[k] = Claim(i, n)
      /\ \A l \in Keys \ {k} : record'[l] = record[l]
      /\ record' \in [Keys -> Records]
  BY Zenon DEF Claim, Records
<1>2. RecordsHold'
  <2> SUFFICES ASSUME NEW l \in Keys
               PROVE  RecordsHold!(l)'
    BY Zenon DEF RecordsHold
  <2>1. \A j \in Ids : spec'[j].key = l => spec[j].key = l
    BY Zenon
  <2>2. CASE l # k
    BY <1>1, <2>1, <2>2 DEF RecordsHold
  <2>3. CASE l = k
    BY <1>1, <2>1, <2>3, SMTT(30) DEF RecordsHold, SpecsAreBound, Agrees, Claim, NoRecord
  <2> QED
    BY <2>2, <2>3, Zenon
<1>3. AnswersHold'
  BY <1>1 DEF AnswersHold, RecordsHold, Agrees, Claim, NoRecord
<1> QED
  BY <1>1, <1>2, <1>3

\* Records that are left alone stand while bindings are only dropped.
LEMMA RecordsStand ==
  ASSUME Inv, record' = record, used' = used, origin' = origin,
         \A j \in Ids : spec'[j].key \in {spec[j].key, NoKey}
  PROVE  RecordsHold'
<1> SUFFICES ASSUME NEW k \in Keys
             PROVE  RecordsHold!(k)'
  BY Zenon DEF RecordsHold
<1>1. \A j \in Ids : spec'[j].key = k => spec[j].key = k
  BY NamesDistinct, Zenon
<1> QED
  BY <1>1, Zenon DEF Inv, RecordsHold

\* The same on the specs: bindings are only dropped.
LEMMA DropsBinding ==
  ASSUME Inv, NEW i \in Ids, NEW new \in Specs,
         spec' = [spec EXCEPT ![i] = new],
         new.life = "absent" => new = NoSpec,
         new.life # "absent" => i \in used,
         \/ new.key = NoKey
         \/ new.key = spec[i].key /\ new.intent = spec[i].intent /\ new.life # "absent",
         used' = used, origin' = origin
  PROVE  /\ spec' \in [Ids -> Specs]
         /\ SpecsAreBound'
         /\ spec'[i] = new
         /\ \A j \in Ids : spec'[j].key \in {spec[j].key, NoKey}
         /\ \A j \in Ids : j # i => spec'[j] = spec[j]
<1> USE NamesDistinct DEF Inv, TypeOK
<1>1. /\ spec'[i] = new
      /\ \A j \in Ids \ {i} : spec'[j] = spec[j]
      /\ spec' \in [Ids -> Specs]
  BY Zenon
<1>2. SpecsAreBound'
  BY <1>1 DEF SpecsAreBound
<1> QED
  BY <1>1, <1>2, Zenon

-----------------------------------------------------------------------------
(* The steps of a client. *)

LEMMA ClassifiedKeeps ==
  ASSUME Inv, NEW c \in Clients, call[c].at \in {"replay", "lookup"},
         lock[call[c].key] = NoOne, Classified(c), UNCHANGED <<spec, lock, used, origin>>
  PROVE  Inv'
<1> DEFINE k == call[c].key
           n == call[c].intent
<1>0. k \in Keys /\ n \in Intents
  BY Zenon DEF Inv, CallsHold
<1>1. Idle \in Calls
  BY Zenon DEF Idle, Calls
<1>2. ASSUME NEW i \in Ids, Found(k, n, i), Return(c),
             record' = [record EXCEPT ![k] = Claim(i, n)],
             answers' = answers \cup {<<k, n, i>>}
      PROVE  Inv'
  <2>1. Agrees(k, i, n)
    BY <1>0, <1>2, Matches, Zenon DEF Found, Agrees
  <2>2. \A j \in Ids : spec'[j].key \in {spec[j].key, NoKey}
    BY Zenon
  <2>3. /\ record' \in [Keys -> Records]
        /\ RecordsHold'
        /\ AnswersHold'
        /\ answers' \subseteq Keys \X (Intents \cup {NoIntent}) \X (Ids \cup {NoId})
    BY <1>0, <1>2, <2>1, <2>2, TakesRecord, Zenon
  <2>4. call' \in [Clients -> Calls] /\ TypeOK' /\ SpecsAreBound'
    BY <1>1, <1>2, <2>3, ZenonT(30) DEF Inv, TypeOK, Return, SpecsAreBound
  <2>5. CallsHold'
    <3> SUFFICES ASSUME NEW d \in Clients, d # c
                 PROVE  CallsHold!(d)'
      BY <1>2, <2>4 DEF CallsHold, Return, Idle, Inv, TypeOK
    <3>1. call'[d] = call[d]
      BY <1>2, Zenon DEF Return, Inv, TypeOK
    <3>2. call[d].key # k => record'[call[d].key] = record[call[d].key]
      BY <1>2, <1>0 DEF Inv, TypeOK
    <3> QED
      BY <1>0, <3>1, <3>2, FreeIsQuiet, SMTT(30) DEF Inv, CallsHold
  <2> QED
    BY <2>3, <2>4, <2>5, Zenon DEF Inv
<1>3. CASE /\ record[k] = FenceRecord
           /\ answers' = answers \cup {<<k, n, NoId>>}
           /\ Return(c)
           /\ UNCHANGED record
  <2>1. TypeOK' /\ SpecsAreBound' /\ RecordsHold'
    BY <1>0, <1>1, <1>3 DEF Inv, TypeOK, Return, SpecsAreBound, RecordsHold
  <2>2. AnswersHold'
    BY <1>0, <1>3 DEF Inv, AnswersHold, FenceRecord
  <2>3. CallsHold'
    BY <1>3 DEF Inv, TypeOK, CallsHold, Return, Idle
  <2> QED
    BY <2>1, <2>2, <2>3, Zenon DEF Inv
<1>4. CASE Conflict(k, n) /\ Return(c) /\ UNCHANGED <<record, answers>>
  BY <1>1, <1>4, OnlyTheCall, Zenon DEF Return, Idle, Inv, TypeOK
<1> QED
  BY <1>2, <1>3, <1>4, Zenon DEF Classified

\* submit_local's steps that change no evidence.
LEMMA QuietSteps ==
  ASSUME Inv, NEW c \in Clients,
         \/ \E k \in Keys, n \in Intents : Submit(c, k, n)
         \/ ReplaysUnlocked(c)
         \/ Gates(c)
         \/ WithdrawChecks(c)
         \/ Dies(c)
  PROVE  Inv'
<1> USE DEF Inv, TypeOK
<1>0. Idle \in Calls
  BY Zenon DEF Idle, Calls
<1>1. ASSUME NEW k \in Keys, NEW n \in Intents, Submit(c, k, n)
      PROVE  Inv'
  <2> DEFINE new == [at |-> "replay", key |-> k, intent |-> n, job |-> NoId]
  <2>1. new \in Calls
    BY Zenon DEF Calls
  <2> QED
    BY <1>1, <2>1, OnlyTheCall, Zenon DEF Submit
<1>2. ASSUME NEW place \in {"gates", "lookup", "withdraw"}, Goto(c, place),
             call[c].at # "idle", place = "withdraw" => call[c].at = "claim",
             UNCHANGED <<spec, record, lock, used, origin, answers>>
      PROVE  Inv'
  <2> DEFINE new == [call[c] EXCEPT !.at = place]
  <2>1. new \in Calls /\ call' = [call EXCEPT ![c] = new]
    BY <1>2, SMTT(30) DEF Goto, Calls
  <2>2. new.key = call[c].key /\ new.intent = call[c].intent /\ new.job = call[c].job
        /\ new.at = place
    BY Zenon DEF Calls
  <2> HIDE DEF new
  <2>3. CallsHold!(c)
    BY Zenon DEF CallsHold
  <2>4. /\ new.key \in Keys /\ new.intent \in Intents
        /\ place = "withdraw" =>
             /\ lock[new.key] = c /\ record[new.key] = NoRecord
             /\ new.job \in Ids
             /\ spec[new.job].key = new.key
             /\ spec[new.job].intent = new.intent
    BY <1>2, <2>2, <2>3, Zenon
  <2>5. lock' \in [Keys -> Clients \cup {NoOne}] /\ \A k \in Keys : lock'[k] = lock[k]
    BY <1>2, Zenon
  <2> QED
    BY <1>2, <2>1, <2>2, <2>4, <2>5, OnlyTheCall, Zenon
<1>3. CASE ReplaysUnlocked(c)
  BY <1>2, <1>3, Zenon DEF ReplaysUnlocked
<1>4. CASE Gates(c)
  <2>1. CASE Goto(c, "lookup")
    BY <1>2, <1>4, <2>1, Zenon DEF Gates
  <2>2. CASE Return(c)
    BY <1>0, <1>4, <2>2, OnlyTheCall, Zenon DEF Gates, Return, Idle
  <2> QED
    BY <1>4, <2>1, <2>2, Zenon DEF Gates
<1>5. CASE WithdrawChecks(c)
  BY <1>2, <1>5, Zenon DEF WithdrawChecks
<1>6. CASE Dies(c)
  <2>1. /\ lock' \in [Keys -> Clients \cup {NoOne}]
        /\ \A k \in Keys : lock'[k] = lock[k] \/ lock[k] \in {c, NoOne}
    BY <1>6, Zenon DEF Dies
  <2> QED
    BY <1>0, <1>6, <2>1, OnlyTheCall, Zenon DEF Dies, Return, Idle
<1> QED
  BY <1>1, <1>3, <1>4, <1>5, <1>6, Zenon

\* The lookups, before the gates and under the lock.
LEMMA LookupSteps ==
  ASSUME Inv, NEW c \in Clients, Replay(c) \/ Lookup(c)
  PROVE  Inv'
<1> DEFINE k == call[c].key
<1>1. CASE Classified(c) /\ UNCHANGED lock
  BY <1>1, ClassifiedKeeps, Zenon DEF Replay, Lookup
<1>2. CASE Replay(c) /\ ~Classified(c)
  <2>1. ReplaysUnlocked(c)
    BY <1>2, Zenon DEF Replay, ReplaysUnlocked
  <2> QED
    BY <2>1, QuietSteps, Zenon
<1>3. CASE Lookup(c) /\ ~(Classified(c) /\ UNCHANGED lock)
  <2> DEFINE new == [call[c] EXCEPT !.at = "commit"]
  <2>1. /\ call[c].at = "lookup" /\ lock[k] = NoOne
        /\ NothingFound(k)
        /\ lock' = [lock EXCEPT ![k] = c]
        /\ Goto(c, "commit")
        /\ UNCHANGED <<record, answers, spec, used, origin>>
    BY <1>3, Zenon DEF Lookup
  <2>2. k \in Keys /\ call[c].intent \in Intents
    BY <2>1, Zenon DEF Inv, CallsHold
  <2>3. new \in Calls /\ call' = [call EXCEPT ![c] = new]
    BY <2>1, ZenonT(30) DEF Goto, Inv, TypeOK, Calls
  <2>4. /\ new.at = "commit" /\ new.key = k /\ new.intent = call[c].intent
    BY Zenon DEF Inv, TypeOK, Calls
  <2>5. /\ lock' \in [Keys -> Clients \cup {NoOne}] /\ lock'[k] = c
        /\ \A l \in Keys : lock'[l] = lock[l] \/ lock[l] \in {c, NoOne}
    BY <2>1, <2>2, Zenon DEF Inv, TypeOK
  <2>6. record[k] = NoRecord /\ \A i \in Ids : spec[i].key # k
    BY <2>1, <2>2, Matches, Zenon DEF NothingFound
  <2> HIDE DEF new
  <2> QED
    BY <2>1, <2>2, <2>3, <2>4, <2>5, <2>6, OnlyTheCall, ZenonT(30)
<1> QED
  BY <1>1, <1>2, <1>3, Zenon DEF Replay, Lookup

LEMMA CallUpdated ==
  ASSUME NEW r \in Calls, NEW i \in Ids
  PROVE  LET new == [r EXCEPT !.at = "claim", !.job = i]
         IN  /\ new \in Calls
             /\ new.at = "claim" /\ new.key = r.key /\ new.intent = r.intent /\ new.job = i
BY Zenon DEF Calls

\* A new id is bound to no key and named by no record and no call.
LEMMA WriteSpecKeeps ==
  ASSUME Inv, NEW c \in Clients, WriteSpec(c)
  PROVE  Inv'
<1> USE NamesDistinct DEF Inv, TypeOK
<1> DEFINE k == call[c].key
           n == call[c].intent
<1>0. PICK i \in Ids \ used :
         /\ spec' = [spec EXCEPT ![i] = [life |-> "pending", key |-> k, intent |-> n]]
         /\ used' = used \cup {i}
         /\ origin' = [origin EXCEPT ![i] = <<k, n>>]
         /\ call' = [call EXCEPT ![c].at = "claim", ![c].job = i]
  BY ZenonT(30) DEF WriteSpec
<1>1. /\ k \in Keys /\ n \in Intents /\ lock[k] = c /\ record[k] = NoRecord
      /\ \A j \in Ids : spec[j].key # k
      /\ spec[i] = NoSpec
      /\ UNCHANGED <<record, lock, answers>>
  BY Zenon DEF WriteSpec, CallsHold, SpecsAreBound
<1>2. /\ spec' \in [Ids -> Specs]
      /\ spec'[i] = [life |-> "pending", key |-> k, intent |-> n]
      /\ \A j \in Ids \ {i} : spec'[j] = spec[j]
  BY <1>0, <1>1, Zenon DEF Specs
<1>3. /\ origin' \in [Ids -> (Keys \cup {NoKey}) \X (Intents \cup {NoIntent})]
      /\ origin'[i] = <<k, n>>
      /\ \A j \in Ids \ {i} : origin'[j] = origin[j]
  BY <1>0, <1>1, Zenon
<1>4. /\ call' \in [Clients -> Calls]
      /\ call'[c].at = "claim" /\ call'[c].key = k /\ call'[c].intent = n /\ call'[c].job = i
      /\ \A d \in Clients \ {c} : call'[d] = call[d]
  <2> DEFINE new == [call[c] EXCEPT !.at = "claim", !.job = i]
  <2>1. /\ new \in Calls
        /\ new.at = "claim" /\ new.key = k /\ new.intent = n /\ new.job = i
    BY CallUpdated, Zenon
  <2>2. call' = [call EXCEPT ![c] = new]
    BY <1>0, Zenon
  <2> HIDE DEF new
  <2> QED
    BY <2>1, <2>2, Zenon
<1>5. TypeOK'
  BY <1>0, <1>1, <1>2, <1>3, <1>4, Zenon
<1>6. SpecsAreBound'
  BY <1>0, <1>1, <1>2, <1>3, SMTT(30) DEF SpecsAreBound
<1>7. RecordsHold'
  BY <1>0, <1>1, <1>2, <1>3, SMTT(30) DEF RecordsHold, NoRecord
<1>8. CallsHold'
  <2>1. ASSUME NEW d \in Clients \ {c}
        PROVE  CallsHold!(d)'
    <3>1. CallsHold!(d) /\ call'[d] = call[d]
      BY <1>4, Zenon DEF CallsHold
    <3>2. call[d].at \in {"commit", "claim", "withdraw"} => call[d].key \in Keys \ {k}
      BY <1>1, <3>1, Zenon
    <3>3. call[d].at \in {"claim", "withdraw"} => call[d].job \in Ids \ {i}
      BY <1>1, <3>1, <3>2 DEF NoSpec
    <3> QED
      BY <1>1, <1>2, <3>1, <3>2, <3>3
  <2>2. CallsHold!(c)'
    BY <1>1, <1>2, <1>4
  <2> QED
    BY <2>1, <2>2 DEF CallsHold
<1>9. AnswersHold'
  BY <1>1, Zenon DEF AnswersHold
<1> QED
  BY <1>5, <1>6, <1>7, <1>8, <1>9, Zenon

\* The lock goes free, and so nobody else was at work on the key.
LEMMA Releases ==
  ASSUME Inv, NEW c \in Clients, NEW k \in Keys, lock[k] = c, Return(c),
         lock' = [lock EXCEPT ![k] = NoOne],
         \A l \in Keys \ {k} : record'[l] = record[l],
         \A i \in Ids : spec[i].key # k => spec'[i] = spec[i],
         \A i \in Ids : spec[i].key = k => spec'[i].key \in {k, NoKey}
  PROVE  /\ call' \in [Clients -> Calls]
         /\ lock' \in [Keys -> Clients \cup {NoOne}]
         /\ CallsHold'
<1> USE NamesDistinct DEF Inv, TypeOK
<1>1. /\ call' \in [Clients -> Calls]
      /\ call'[c] = Idle
      /\ \A d \in Clients \ {c} : call'[d] = call[d]
  BY Zenon DEF Return, Idle, Calls
<1>2. /\ lock' \in [Keys -> Clients \cup {NoOne}]
      /\ \A l \in Keys \ {k} : lock'[l] = lock[l]
  BY Zenon
<1>3. ASSUME NEW d \in Clients \ {c}
      PROVE  CallsHold!(d)'
  BY <1>1, <1>2 DEF CallsHold
<1> QED
  BY <1>1, <1>2, <1>3 DEF CallsHold, Idle

LEMMA WriteClaimKeeps ==
  ASSUME Inv, NEW c \in Clients, WriteClaim(c)
  PROVE  Inv'
<1> DEFINE k == call[c].key
           n == call[c].intent
           i == call[c].job
<1>1. /\ k \in Keys /\ n \in Intents /\ i \in Ids /\ lock[k] = c /\ Agrees(k, i, n)
      /\ record' = [record EXCEPT ![k] = Claim(i, n)]
      /\ answers' = answers \cup {<<k, n, i>>}
      /\ lock' = [lock EXCEPT ![k] = NoOne]
      /\ Return(c)
      /\ UNCHANGED <<spec, used, origin>>
  BY Zenon DEF WriteClaim, Inv, CallsHold, Agrees
<1>2. \A l \in Keys \ {k} : record'[l] = record[l]
  BY <1>1, Zenon DEF Inv, TypeOK
<1> HIDE DEF k, n, i
<1>3. \A j \in Ids : spec'[j].key \in {spec[j].key, NoKey}
  BY <1>1, Zenon
<1>4. /\ record' \in [Keys -> Records]
      /\ RecordsHold'
      /\ AnswersHold'
      /\ answers' \subseteq Keys \X (Intents \cup {NoIntent}) \X (Ids \cup {NoId})
  BY <1>1, <1>3, TakesRecord, Zenon
<1>5. /\ call' \in [Clients -> Calls]
      /\ lock' \in [Keys -> Clients \cup {NoOne}]
      /\ CallsHold'
  BY <1>1, <1>2, Releases, Zenon
<1> QED
  BY <1>1, <1>4, <1>5, Zenon DEF Inv, TypeOK, SpecsAreBound

LEMMA WithdrawUnlinksKeeps ==
  ASSUME Inv, NEW c \in Clients, WithdrawUnlinks(c)
  PROVE  Inv'
<1> DEFINE k == call[c].key
           i == call[c].job
<1>1. /\ k \in Keys /\ i \in Ids /\ lock[k] = c /\ spec[i].key = k /\ record[k] = NoRecord
      /\ spec' = [spec EXCEPT ![i] = NoSpec]
      /\ lock' = [lock EXCEPT ![k] = NoOne]
      /\ Return(c)
      /\ UNCHANGED <<record, used, origin, answers>>
  BY Zenon DEF WithdrawUnlinks, Inv, CallsHold
<1> HIDE DEF k, i
<1>2. NoSpec \in Specs /\ NoSpec.life = "absent" /\ NoSpec.key = NoKey
  BY Zenon DEF NoSpec, Specs
<1>3. /\ spec' \in [Ids -> Specs]
      /\ SpecsAreBound'
      /\ spec'[i] = NoSpec
      /\ \A j \in Ids : spec'[j].key \in {spec[j].key, NoKey}
      /\ \A j \in Ids : j # i => spec'[j] = spec[j]
  BY <1>1, <1>2, DropsBinding, Zenon
<1>4. /\ call' \in [Clients -> Calls]
      /\ lock' \in [Keys -> Clients \cup {NoOne}]
      /\ CallsHold'
  BY <1>1, <1>3, Releases, Zenon
<1>5. RecordsHold'
  BY <1>1, <1>3, RecordsStand, Zenon
<1> QED
  BY <1>1, <1>3, <1>4, <1>5, Zenon DEF Inv, TypeOK, AnswersHold

-----------------------------------------------------------------------------
(* The fence, and the daemon. *)

\* A step on a key whose lock is free disturbs no client.
LEMMA Undisturbed ==
  ASSUME Inv, NEW k \in Keys, lock[k] = NoOne, lock' = lock, call' = call,
         \A l \in Keys \ {k} : record'[l] = record[l],
         \A i \in Ids : spec[i].key # k =>
             spec'[i].key = spec[i].key /\ spec'[i].intent = spec[i].intent,
         \A i \in Ids : spec[i].key = k => spec'[i].key \in {k, NoKey}
  PROVE  CallsHold'
<1> SUFFICES ASSUME NEW c \in Clients
             PROVE  CallsHold!(c)'
  BY Zenon DEF CallsHold
<1>1. CallsHold!(c)
  BY Zenon DEF Inv, CallsHold
<1>2. call[c].at \in {"commit", "claim", "withdraw"} => call[c].key \in Keys \ {k}
  BY <1>1, FreeIsQuiet, Zenon
<1> QED
  BY <1>1, <1>2, NamesDistinct, ZenonT(30)

LEMMA FenceKeyKeeps ==
  ASSUME Inv, NEW k \in Keys, FenceKey(k)
  PROVE  Inv'
<1> USE DEF Inv, TypeOK
<1>0. lock[k] = NoOne /\ UNCHANGED <<spec, lock, call, used, origin>>
  BY Zenon DEF FenceKey
<1>1. ASSUME NEW i \in Ids, NEW n \in Intents, Agrees(k, i, n),
             record' = [record EXCEPT ![k] = Claim(i, n)],
             answers' = answers \cup {<<k, NoIntent, i>>}
      PROVE  Inv'
  <2>1. \A j \in Ids : spec'[j].key \in {spec[j].key, NoKey}
    BY <1>0, Zenon
  <2>2. /\ record' \in [Keys -> Records]
        /\ RecordsHold'
        /\ AnswersHold'
        /\ answers' \subseteq Keys \X (Intents \cup {NoIntent}) \X (Ids \cup {NoId})
    BY <1>0, <1>1, <2>1, TakesRecord, Zenon
  <2>3. CallsHold'
    BY <1>0, <1>1, Undisturbed, Zenon
  <2> QED
    BY <1>0, <2>2, <2>3, Zenon DEF SpecsAreBound
<1>2. CASE /\ record[k].kind = "claim"
           /\ answers' = answers \cup {<<k, NoIntent, record[k].job>>}
           /\ UNCHANGED record
  <2> DEFINE i == record[k].job
             n == record[k].intent
  <2>1. i \in Ids /\ n \in Intents
    BY <1>2, Zenon DEF RecordsHold
  <2>2. record[k] = Claim(i, n)
    BY <1>2, Zenon DEF Claim, Records
  <2>3. record' = [record EXCEPT ![k] = Claim(i, n)]
    BY <1>2, <2>2, Zenon
  <2> HIDE DEF i, n
  <2>4. answers' = answers \cup {<<k, NoIntent, i>>}
    BY <1>2, Zenon DEF i
  <2> QED
    BY <1>1, <2>1, <2>2, <2>3, <2>4, Zenon DEF Agrees
<1>3. ASSUME record[k] = NoRecord, NEW i \in Ids, SpecMatches(k) = {i},
             record' = [record EXCEPT ![k] = Claim(i, spec[i].intent)],
             answers' = answers \cup {<<k, NoIntent, i>>}
      PROVE  Inv'
  <2>1. spec[i].key = k
    BY <1>3, Matches, Zenon
  <2>2. spec[i].intent \in Intents
    BY <2>1, NamesDistinct, Zenon DEF SpecsAreBound
  <2> QED
    BY <1>1, <1>3, <2>1, <2>2, Zenon DEF Agrees
<1>4. CASE /\ record[k] = FenceRecord \/ NothingFound(k)
           /\ record' = [record EXCEPT ![k] = FenceRecord]
           /\ answers' = answers \cup {<<k, NoIntent, NoId>>}
  <2>1. /\ record' \in [Keys -> Records]
        /\ record'[k] = FenceRecord
        /\ \A l \in Keys \ {k} : record'[l] = record[l]
    BY <1>4, Zenon DEF FenceRecord, Records
  <2>2. \A i \in Ids : spec[i].key # k
    BY <1>4, Matches, SMTT(30) DEF NothingFound, RecordsHold, FenceRecord
  <2>3. RecordsHold'
    BY <1>0, <2>1, <2>2 DEF RecordsHold, FenceRecord
  <2>4. CallsHold'
    BY <1>0, <2>1, Undisturbed, Zenon
  <2>5. record[k].kind # "claim"
    BY <1>4 DEF FenceRecord, NoRecord, NothingFound
  <2>6. AnswersHold'
    BY <1>4, <2>1, <2>5 DEF AnswersHold, FenceRecord
  <2> QED
    BY <1>0, <1>4, <2>1, <2>3, <2>4, <2>6 DEF SpecsAreBound
<1> QED
  BY <1>2, <1>3, <1>4, Zenon DEF FenceKey

\* The daemon's own writes keep the binding.
LEMMA DaemonRuns ==
  ASSUME Inv, NEW i \in Ids, DaemonStarts(i) \/ DaemonFinishes(i)
  PROVE  Inv'
<1> USE DEF Inv, TypeOK
<1>1. PICK life \in {"running", "terminal"} : spec' = [spec EXCEPT ![i].life = life]
  BY Zenon DEF DaemonStarts, DaemonFinishes
<1>2. /\ spec[i].life # "absent"
      /\ UNCHANGED <<record, lock, call, used, origin, answers>>
  BY Zenon DEF DaemonStarts, DaemonFinishes
<1> DEFINE new == [spec[i] EXCEPT !.life = life]
<1>3. /\ new \in Specs /\ new.life = life
      /\ new.key = spec[i].key /\ new.intent = spec[i].intent
      /\ spec' = [spec EXCEPT ![i] = new]
  BY <1>1, SMTT(30) DEF Specs
<1> HIDE DEF new
<1>4. i \in used
  BY <1>2, Zenon DEF SpecsAreBound
<1>5. /\ spec' \in [Ids -> Specs]
      /\ SpecsAreBound'
      /\ spec'[i] = new
      /\ \A j \in Ids : j # i => spec'[j] = spec[j]
  BY <1>2, <1>3, <1>4, DropsBinding, Zenon
<1>6. \A j \in Ids : spec'[j].key = spec[j].key /\ spec'[j].intent = spec[j].intent
  BY <1>3, <1>5, Zenon
<1>7. RecordsHold'
  BY <1>2, <1>6, RecordsStand, Zenon
<1>8. CallsHold'
  BY <1>2, <1>6 DEF CallsHold
<1>9. AnswersHold'
  BY <1>2, Zenon DEF AnswersHold
<1> QED
  BY <1>2, <1>5, <1>7, <1>8, <1>9, Zenon

\* The claim is secured before the binding goes.
LEMMA DaemonDrops ==
  ASSUME Inv, NEW i \in Ids, DaemonRetries(i) \/ Cleanup(i)
  PROVE  Inv'
<1> USE DEF Inv, TypeOK
<1> DEFINE k == spec[i].key
           n == spec[i].intent
<1>1. /\ spec[i].life # "absent"
      /\ ClaimEnsured(i)
      /\ UNCHANGED <<lock, call, used, origin, answers>>
  BY Zenon DEF DaemonRetries, Cleanup
<1>2. PICK new \in Specs :
         /\ new.key = NoKey
         /\ new.life = "absent" => new = NoSpec
         /\ spec' = [spec EXCEPT ![i] = new]
  <2>1. NoSpec \in Specs /\ NoSpec.key = NoKey
    BY Zenon DEF NoSpec, Specs
  <2>2. /\ [life |-> "pending", key |-> NoKey, intent |-> NoIntent] \in Specs
    BY Zenon DEF Specs
  <2> QED
    BY <2>1, <2>2, Zenon DEF DaemonRetries, Cleanup
<1>3. i \in used
  BY <1>1, Zenon DEF SpecsAreBound
<1>4. /\ spec' \in [Ids -> Specs]
      /\ SpecsAreBound'
      /\ spec'[i] = new
      /\ \A j \in Ids : spec'[j].key \in {spec[j].key, NoKey}
      /\ \A j \in Ids : j # i => spec'[j] = spec[j]
  BY <1>1, <1>2, <1>3, DropsBinding, Zenon
<1>5. CASE k = NoKey
  <2>1. record' = record
    BY <1>1, <1>5, Zenon DEF ClaimEnsured
  <2>2. RecordsHold'
    BY <1>1, <1>4, <2>1, RecordsStand, ZenonT(30)
  <2>3. CallsHold'
    BY <1>1, <1>2, <1>4, <1>5, <2>1, NamesDistinct DEF CallsHold
  <2> QED
    BY <1>1, <1>4, <2>1, <2>2, <2>3, Zenon DEF AnswersHold
<1>6. CASE k # NoKey
  <2>1. k \in Keys /\ n \in Intents
    BY <1>6, Zenon DEF SpecsAreBound, Specs
  <2>2. /\ lock[k] = NoOne
        /\ Agrees(k, i, n)
        /\ record' = [record EXCEPT ![k] = Claim(i, n)]
    BY <1>1, <1>6, Zenon DEF ClaimEnsured, Agrees
  <2>3. spec[i].key = k
    BY Zenon
  <2> HIDE DEF k, n
  <2>4. /\ record' \in [Keys -> Records] /\ RecordsHold' /\ AnswersHold'
    BY <1>1, <1>4, <2>1, <2>2, TakesRecord, Zenon
  <2>5. \A l \in Keys \ {k} : record'[l] = record[l]
    BY <2>2, Zenon
  <2>6. CallsHold'
    BY <1>1, <1>2, <1>4, <2>1, <2>2, <2>3, <2>5, Undisturbed, Zenon
  <2> QED
    BY <1>1, <1>4, <2>4, <2>6, Zenon
<1> QED
  BY <1>5, <1>6, Zenon

-----------------------------------------------------------------------------

LEMMA InvStep == Inv /\ [Next]_vars => Inv'
<1> SUFFICES ASSUME Inv, [Next]_vars
             PROVE  Inv'
  BY Zenon
<1>1. ASSUME NEW c \in Clients, NEW k \in Keys, NEW n \in Intents, Submit(c, k, n)
      PROVE  Inv'
  BY <1>1, QuietSteps, Zenon
<1>2. ASSUME NEW c \in Clients, ReplaysUnlocked(c) \/ Gates(c) \/ WithdrawChecks(c) \/ Dies(c)
      PROVE  Inv'
  BY <1>2, QuietSteps, Zenon
<1>3. ASSUME NEW c \in Clients, Replay(c) \/ Lookup(c)
      PROVE  Inv'
  BY <1>3, LookupSteps, Zenon
<1>4. ASSUME NEW c \in Clients, WriteSpec(c) \/ WriteClaim(c) \/ WithdrawUnlinks(c)
      PROVE  Inv'
  BY <1>4, WriteSpecKeeps, WriteClaimKeeps, WithdrawUnlinksKeeps, Zenon
<1>5. ASSUME NEW k \in Keys, FenceKey(k)
      PROVE  Inv'
  BY <1>5, FenceKeyKeeps, Zenon
<1>6. ASSUME NEW i \in Ids,
             DaemonStarts(i) \/ DaemonFinishes(i) \/ DaemonRetries(i) \/ Cleanup(i)
      PROVE  Inv'
  BY <1>6, DaemonRuns, DaemonDrops, ZenonT(30)
<1>7. CASE UNCHANGED vars
  BY <1>7 DEF vars, Inv, TypeOK, SpecsAreBound, RecordsHold, CallsHold, AnswersHold
<1> QED
  BY <1>1, <1>2, <1>3, <1>4, <1>5, <1>6, <1>7, Zenon DEF Next

LEMMA InvHolds == Spec => []Inv
<1>1. Init => Inv
  BY NamesDistinct DEF Init, Inv, TypeOK, SpecsAreBound, RecordsHold, CallsHold, AnswersHold,
     NoSpec, NoRecord, Idle, Specs, Records, Calls
<1> QED
  BY <1>1, InvStep, PTL DEF Spec

\* ReceiptMatchesIntent for any keys, ids, intents and clients: submit_local and
\* fence_idempotency_key name a job to a caller only if it was published under
\* the caller's key and, if the caller brought one, intent.
THEOREM ReceiptsMatch == Spec => []ReceiptMatchesIntent
<1>1. Inv => ReceiptMatchesIntent
  BY DEF Inv, TypeOK, AnswersHold, RecordsHold, ReceiptMatchesIntent
<1> QED
  BY <1>1, InvHolds, PTL

-----------------------------------------------------------------------------
(* The refinement of OneShotKey.  A key is taken by its claim, fenced by its *)
(* fence, held by its one bound spec, and open without any of the three.     *)

PhasesTell ==
    \A k \in Keys :
        /\ record[k].kind = "claim" => KeyPhase(k) = Promise!Taken(record[k].job)
        /\ record[k].kind = "fence" => KeyPhase(k) = Promise!Fenced
        /\ record[k] = NoRecord /\ (\A i \in Ids : spec[i].key # k) =>
             KeyPhase(k) = Promise!Open
        /\ \A i \in Ids : record[k] = NoRecord /\ spec[i].key = k =>
             KeyPhase(k) = Promise!Held(i)

LEMMA Phases == Inv => PhasesTell
<1> SUFFICES ASSUME Inv, NEW k \in Keys
             PROVE  PhasesTell!(k)
  BY Zenon DEF PhasesTell
<1>1. SpecMatches(k) = {i \in Ids : spec[i].key = k}
  BY Matches, Zenon
<1>2. \A i \in Ids : spec[i].key = k => SpecMatches(k) = {i}
  BY Matches, Zenon
<1>3. ASSUME NEW i \in Ids, SpecMatches(k) = {i}
      PROVE  (CHOOSE j \in SpecMatches(k) : TRUE) = i
  BY <1>3, Zenon
<1>4. record[k] = NoRecord => record[k].kind = "none"
  BY DEF NoRecord
<1> QED
  BY <1>1, <1>2, <1>3, <1>4, Zenon
     DEF KeyPhase, Promise!Taken, Promise!Fenced, Promise!Open, Promise!Held

\* The two variables of OneShotKey.
KeyBar == [k \in Keys |-> KeyPhase(k)]
AnswersBar == {<<a[1], a[3]>> : a \in answers}

\* A key that a step leaves alone has the same phase after it.
LEMMA SamePhase ==
  ASSUME Inv, Inv', NEW k \in Keys, record'[k] = record[k],
         \A i \in Ids : (spec'[i].key = k) <=> (spec[i].key = k)
  PROVE  KeyPhase(k)' = KeyPhase(k)
<1>1. SpecMatches(k) = {i \in Ids : spec[i].key = k}
  BY Matches, Zenon
<1>2. SpecMatches(k)' = {i \in Ids : spec'[i].key = k}
  BY NamesDistinct, Zenon DEF Inv, SpecsAreBound, SpecMatches
<1>3. SpecMatches(k)' = SpecMatches(k)
  BY <1>1, <1>2, Zenon
<1> QED
  BY <1>3, Zenon DEF KeyPhase

\* The phases, when a step concerns one key.
LEMMA OneKey ==
  ASSUME Inv, Inv', NEW k \in Keys,
         \A l \in Keys \ {k} : record'[l] = record[l],
         \A l \in Keys \ {k}, i \in Ids : (spec'[i].key = l) <=> (spec[i].key = l)
  PROVE  KeyBar' = [KeyBar EXCEPT ![k] = KeyPhase(k)']
<1>1. \A l \in Keys \ {k} : KeyPhase(l)' = KeyPhase(l)
  BY SamePhase, Zenon
<1> QED
  BY <1>1, Zenon DEF KeyBar

\* Nothing that the promise speaks of changes.
LEMMA Stutters ==
  ASSUME Inv, Inv', record' = record, answers' = answers,
         \A i \in Ids : spec'[i].key = spec[i].key
  PROVE  UNCHANGED Promise!vars
<1>1. \A k \in Keys : KeyPhase(k)' = KeyPhase(k)
  BY SamePhase, Zenon
<1> QED
  BY <1>1, Zenon DEF Promise!vars

LEMMA OneMoreAnswer ==
  ASSUME NEW k, NEW m, NEW i, answers' = answers \cup {<<k, m, i>>}
  PROVE  AnswersBar' = AnswersBar \cup {<<k, i>>}
<1> DEFINE new == <<k, m, i>>
<1>1. new[1] = k /\ new[3] = i
  BY Zenon
<1> HIDE DEF new
<1>2. AnswersBar' = {<<a[1], a[3]>> : a \in answers \cup {new}}
  BY Zenon DEF AnswersBar, new
<1>3. {<<a[1], a[3]>> : a \in answers \cup {new}}
        = {<<a[1], a[3]>> : a \in answers} \cup {<<new[1], new[3]>>}
  BY Zenon
<1> QED
  BY <1>1, <1>2, <1>3, Zenon DEF AnswersBar

\* The key is bound to the job of its evidence, and the answer names that job.
LEMMA Takes ==
  ASSUME Inv, Inv', NEW k \in Keys, NEW i \in Ids, NEW n \in Intents, Agrees(k, i, n),
         record' = [record EXCEPT ![k] = Claim(i, n)],
         \/ answers' = answers
         \/ \E m : answers' = answers \cup {<<k, m, i>>},
         \A l \in Keys \ {k}, j \in Ids : (spec'[j].key = l) <=> (spec[j].key = l)
  PROVE  Promise!Next
<1>1. /\ record'[k] = Claim(i, n)
      /\ \A l \in Keys \ {k} : record'[l] = record[l]
  BY Zenon DEF Inv, TypeOK
<1>2. PhasesTell'
  BY Phases, PTL
<1>3. KeyPhase(k)' = Promise!Taken(i)
  BY <1>1, <1>2, SMTT(30) DEF PhasesTell, Claim
<1>4. KeyPhase(k) \in {Promise!Taken(i), Promise!Held(i)}
  BY Phases DEF PhasesTell, Agrees, Claim, NoRecord
<1>5. KeyBar[k].phase \in {"held", "taken"} /\ KeyBar[k].job = i
  BY <1>4 DEF KeyBar, Promise!Taken, Promise!Held
<1>6. KeyBar' = [KeyBar EXCEPT ![k] = Promise!Taken(KeyBar[k].job)]
  BY <1>1, <1>3, <1>5, OneKey, Zenon
<1>7. \E told \in BOOLEAN :
          AnswersBar' = IF told THEN AnswersBar \cup {<<k, KeyBar[k].job>>} ELSE AnswersBar
  <2>1. CASE answers' = answers
    BY <2>1, Zenon DEF AnswersBar
  <2>2. ASSUME NEW m, answers' = answers \cup {<<k, m, i>>}
        PROVE  AnswersBar' = AnswersBar \cup {<<k, KeyBar[k].job>>}
    BY <1>5, <2>2, OneMoreAnswer, Zenon
  <2> QED
    BY <2>1, <2>2, Zenon
<1> QED
  BY <1>5, <1>6, <1>7, Zenon DEF KeyBar, AnswersBar, Promise!Next, Promise!Take

\* The key is closed, or found closed, and the caller is told.
LEMMA Fences ==
  ASSUME Inv, Inv', NEW k \in Keys, record[k] = FenceRecord \/ NothingFound(k),
         record' = [record EXCEPT ![k] = FenceRecord],
         NEW m, answers' = answers \cup {<<k, m, NoId>>},
         spec' = spec
  PROVE  Promise!Next
<1>1. /\ record'[k] = FenceRecord
      /\ \A l \in Keys \ {k} : record'[l] = record[l]
  BY Zenon DEF Inv, TypeOK
<1>2. PhasesTell'
  BY Phases, PTL
<1>3. KeyPhase(k)' = Promise!Fenced
  BY <1>1, <1>2 DEF PhasesTell, FenceRecord
<1>4. KeyPhase(k) \in {Promise!Open, Promise!Fenced}
  BY Phases, Matches DEF PhasesTell, NothingFound, FenceRecord
<1>5. KeyBar[k] \in {Promise!Open, Promise!Fenced}
  BY <1>4, Zenon DEF KeyBar
<1>6. KeyBar' = [KeyBar EXCEPT ![k] = Promise!Fenced]
  BY <1>1, <1>3, OneKey, Zenon
<1>7. AnswersBar' = AnswersBar \cup {<<k, NoId>>}
  BY OneMoreAnswer, Zenon
<1> QED
  BY <1>5, <1>6, <1>7, Zenon DEF KeyBar, AnswersBar, Promise!Next, Promise!Fence

\* _write_spec_exclusive publishes under an open key, with an id no key names.
LEMMA Publishes ==
  ASSUME Inv, Inv', NEW c \in Clients, WriteSpec(c)
  PROVE  Promise!Next
<1> USE NamesDistinct
<1>1. PICK k \in Keys :
         /\ k = call[c].key /\ record[k] = NoRecord /\ (\A j \in Ids : spec[j].key # k)
         /\ record' = record /\ answers' = answers
  BY DEF WriteSpec, Inv, CallsHold
<1>2. PICK i \in Ids \ used :
         spec' = [spec EXCEPT ![i] = [life |-> "pending", key |-> k, intent |-> call[c].intent]]
  BY <1>1, Zenon DEF WriteSpec
<1>3. spec'[i].key = k /\ \A j \in Ids \ {i} : spec'[j] = spec[j]
  BY <1>2, Zenon DEF Inv, TypeOK
<1>4. spec[i].key = NoKey
  BY Zenon DEF Inv, SpecsAreBound, NoSpec
<1>5. KeyPhase(k) = Promise!Open
  BY <1>1, Phases, Zenon DEF PhasesTell
<1>6. PhasesTell'
  BY Phases, PTL
<1>7. KeyPhase(k)' = Promise!Held(i)
  BY <1>1, <1>3, <1>6, Zenon DEF PhasesTell
<1>8. KeyBar' = [KeyBar EXCEPT ![k] = Promise!Held(i)]
  BY <1>1, <1>3, <1>4, <1>7, OneKey, Zenon
<1>9. ASSUME NEW l \in Keys
      PROVE  KeyBar[l].job # i
  <2>1. CASE record[l].kind = "claim"
    BY <2>1, Phases DEF Inv, RecordsHold, PhasesTell, KeyBar, Promise!Taken
  <2>2. CASE record[l].kind = "fence"
    BY <2>2, Phases DEF PhasesTell, KeyBar, Promise!Fenced
  <2>3. CASE record[l] = NoRecord /\ \A j \in Ids : spec[j].key # l
    BY <2>3, Phases DEF PhasesTell, KeyBar, Promise!Open
  <2>4. ASSUME record[l] = NoRecord, NEW j \in Ids, spec[j].key = l
        PROVE  KeyBar[l].job # i
    BY <1>4, <2>4, Phases, SMTT(30) DEF PhasesTell, KeyBar, Promise!Held
  <2>5. record[l].kind \in {"claim", "fence"} \/ record[l] = NoRecord
    BY DEF Inv, TypeOK, Records, RecordsHold
  <2> QED
    BY <2>1, <2>2, <2>3, <2>4, <2>5, ZenonT(30)
<1>10. KeyBar[k] = Promise!Open /\ AnswersBar' = AnswersBar
  BY <1>1, <1>5, Zenon DEF KeyBar, AnswersBar
<1> QED
  BY <1>1, <1>8, <1>9, <1>10, Zenon DEF KeyBar, AnswersBar, Promise!Next, Promise!Publish

\* The workspace check unlinks a spec that nobody was told of.
LEMMA Withdraws ==
  ASSUME Inv, Inv', NEW c \in Clients, WithdrawUnlinks(c)
  PROVE  Promise!Next
<1> USE NamesDistinct
<1>1. PICK k \in Keys, i \in Ids :
         /\ record[k] = NoRecord /\ spec[i].key = k
         /\ spec' = [spec EXCEPT ![i] = NoSpec]
         /\ record' = record /\ answers' = answers
  <2>1. /\ call[c].key \in Keys /\ call[c].job \in Ids
        /\ record[call[c].key] = NoRecord
        /\ spec[call[c].job].key = call[c].key
    BY ZenonT(30) DEF WithdrawUnlinks, Inv, CallsHold
  <2> QED
    BY <2>1, Zenon DEF WithdrawUnlinks
<1>2. spec'[i].key = NoKey /\ \A j \in Ids \ {i} : spec'[j] = spec[j] /\ spec[j].key # k
  BY <1>1 DEF Inv, TypeOK, NoSpec, SpecsAreBound
<1>3. KeyPhase(k) = Promise!Held(i)
  BY <1>1, Phases, Zenon DEF PhasesTell
<1>4. PhasesTell'
  BY Phases, PTL
<1>5. KeyPhase(k)' = Promise!Open
  BY <1>1, <1>2, <1>4 DEF PhasesTell
<1>6. KeyBar' = [KeyBar EXCEPT ![k] = Promise!Open]
  BY <1>1, <1>2, <1>5, OneKey, Zenon
<1>7. KeyBar[k].phase = "held" /\ AnswersBar' = AnswersBar
  BY <1>1, <1>3 DEF KeyBar, AnswersBar, Promise!Held
<1> QED
  BY <1>1, <1>6, <1>7, Zenon DEF KeyBar, AnswersBar, Promise!Next, Promise!Withdraw

LEMMA StepRefines == Inv /\ Inv' /\ [Next]_vars => [Promise!Next]_(Promise!vars)
<1> SUFFICES ASSUME Inv, Inv', [Next]_vars
             PROVE  [Promise!Next]_(Promise!vars)
  BY Zenon
<1>1. ASSUME NEW c \in Clients,
             \/ \E k \in Keys, n \in Intents : Submit(c, k, n)
             \/ ReplaysUnlocked(c) \/ Gates(c) \/ WithdrawChecks(c) \/ Dies(c)
      PROVE  UNCHANGED Promise!vars
  BY <1>1, Stutters, Zenon DEF Submit, ReplaysUnlocked, Gates, WithdrawChecks, Dies
<1>2. ASSUME NEW c \in Clients, Replay(c) \/ Lookup(c)
      PROVE  [Promise!Next]_(Promise!vars)
  <2>1. PICK k \in Keys, n \in Intents : k = call[c].key /\ n = call[c].intent
    BY <1>2, Zenon DEF Replay, Lookup, Inv, CallsHold
  <2>2. ASSUME NEW i \in Ids, Found(k, n, i),
               record' = [record EXCEPT ![k] = Claim(i, n)],
               answers' = answers \cup {<<k, n, i>>}
        PROVE  Promise!Next
    <3>1. Agrees(k, i, n)
      BY <2>2, Matches, Zenon DEF Found, Agrees
    <3>2. spec' = spec
      BY <1>2, Zenon DEF Replay, Lookup
    <3> QED
      BY <2>2, <3>1, <3>2, Takes, Zenon
  <2>3. CASE record[k] = FenceRecord /\ answers' = answers \cup {<<k, n, NoId>>} /\ record' = record
    <3>1. spec' = spec /\ record' = [record EXCEPT ![k] = FenceRecord]
      BY <1>2, <2>3, Zenon DEF Replay, Lookup, Inv, TypeOK
    <3> QED
      BY <2>3, <3>1, Fences, Zenon
  <2>4. CASE UNCHANGED <<record, answers>>
    BY <1>2, <2>4, Stutters, Zenon DEF Replay, Lookup
  <2> QED
    BY <1>2, <2>1, <2>2, <2>3, <2>4, Zenon DEF Replay, Lookup, Classified
<1>3. ASSUME NEW c \in Clients, WriteSpec(c) \/ WithdrawUnlinks(c)
      PROVE  Promise!Next
  BY <1>3, Publishes, Withdraws, Zenon
<1>4. ASSUME NEW c \in Clients, WriteClaim(c)
      PROVE  Promise!Next
  <2>1. PICK k \in Keys, n \in Intents, i \in Ids :
           k = call[c].key /\ n = call[c].intent /\ i = call[c].job
    BY <1>4, Zenon DEF WriteClaim, Inv, CallsHold
  <2>2. /\ Agrees(k, i, n) /\ spec' = spec
        /\ record' = [record EXCEPT ![k] = Claim(i, n)]
        /\ answers' = answers \cup {<<k, n, i>>}
    BY <1>4, <2>1, Zenon DEF WriteClaim, Inv, CallsHold, Agrees
  <2> QED
    BY <2>2, Takes, Zenon
<1>5. ASSUME NEW k \in Keys, FenceKey(k)
      PROVE  Promise!Next
  <2>0. spec' = spec
    BY <1>5, Zenon DEF FenceKey
  <2>1. CASE /\ record[k].kind = "claim"
             /\ answers' = answers \cup {<<k, NoIntent, record[k].job>>}
             /\ UNCHANGED record
    <3>1. PICK i \in Ids, n \in Intents : i = record[k].job /\ n = record[k].intent
      BY <2>1, Zenon DEF Inv, TypeOK, RecordsHold
    <3>2. record[k] = Claim(i, n)
      BY <2>1, <3>1, Zenon DEF Claim, Records, Inv, TypeOK
    <3>3. record' = [record EXCEPT ![k] = Claim(i, n)]
      BY <2>1, <3>2, Zenon DEF Inv, TypeOK
    <3> QED
      BY <2>0, <2>1, <3>1, <3>2, <3>3, Takes, Zenon DEF Agrees
  <2>2. ASSUME record[k] = NoRecord, NEW i \in Ids, SpecMatches(k) = {i},
               record' = [record EXCEPT ![k] = Claim(i, spec[i].intent)],
               answers' = answers \cup {<<k, NoIntent, i>>}
        PROVE  Promise!Next
    <3>1. spec[i].key = k
      BY <2>2, Matches, Zenon
    <3>2. PICK n \in Intents : n = spec[i].intent
      BY <3>1, NamesDistinct, Zenon DEF Inv, SpecsAreBound
    <3> QED
      BY <2>0, <2>2, <3>1, <3>2, Takes, Zenon DEF Agrees
  <2>3. CASE /\ record[k] = FenceRecord \/ NothingFound(k)
             /\ record' = [record EXCEPT ![k] = FenceRecord]
             /\ answers' = answers \cup {<<k, NoIntent, NoId>>}
    BY <2>0, <2>3, Fences, Zenon
  <2> QED
    BY <1>5, <2>1, <2>2, <2>3, Zenon DEF FenceKey
<1>6. ASSUME NEW i \in Ids, DaemonStarts(i) \/ DaemonFinishes(i)
      PROVE  UNCHANGED Promise!vars
  <2>1. \A j \in Ids : spec'[j].key = spec[j].key
    BY <1>6, SMTT(30) DEF DaemonStarts, DaemonFinishes, Inv, TypeOK, Specs
  <2> QED
    BY <1>6, <2>1, Stutters, Zenon DEF DaemonStarts, DaemonFinishes
<1>7. ASSUME NEW i \in Ids, DaemonRetries(i) \/ Cleanup(i)
      PROVE  [Promise!Next]_(Promise!vars)
  <2>1. /\ ClaimEnsured(i)
        /\ answers' = answers
        /\ spec'[i].key = NoKey
        /\ \A j \in Ids \ {i} : spec'[j] = spec[j]
    BY <1>7 DEF DaemonRetries, Cleanup, NoSpec, Inv, TypeOK
  <2>2. CASE spec[i].key = NoKey
    BY <2>1, <2>2, Stutters, Zenon DEF ClaimEnsured
  <2>3. CASE spec[i].key # NoKey
    <3>1. PICK k \in Keys, n \in Intents : k = spec[i].key /\ n = spec[i].intent
      BY <2>3, Zenon DEF Inv, TypeOK, Specs, SpecsAreBound
    <3>2. Agrees(k, i, n) /\ record' = [record EXCEPT ![k] = Claim(i, n)]
      BY <2>1, <2>3, <3>1, Zenon DEF ClaimEnsured, Agrees
    <3>3. \A l \in Keys \ {k}, j \in Ids : (spec'[j].key = l) <=> (spec[j].key = l)
      BY <2>1, <3>1, NamesDistinct, Zenon
    <3> QED
      BY <2>1, <3>2, <3>3, Takes, Zenon
  <2> QED
    BY <2>2, <2>3, Zenon
<1>8. CASE UNCHANGED vars
  BY <1>8, Stutters, Zenon DEF vars
<1> QED
  BY <1>1, <1>2, <1>3, <1>4, <1>5, <1>6, <1>7, <1>8, Zenon DEF Next

\* The host implements OneShotKey, for any keys, ids, intents and clients:
\* whatever crashes, repairs, retries and cleanups come between, a key names one
\* job for ever or none, and all answers about it agree.
THEOREM HostKeepsPromise == Spec => KeepsPromise
<1>1. Init => Promise!Init
  BY DEF Init, Promise!Init, Promise!Open, KeyPhase, SpecMatches, NoRecord, NoSpec
<1> QED
  BY <1>1, InvHolds, StepRefines, PTL DEF Spec, KeepsPromise, Promise!Spec

-----------------------------------------------------------------------------
(* Drains.  HeldGetsNothing: a pass decides on drain.json and leases that it  *)
(* read some steps ago; CoverInv says that a target which was held throughout *)
(* is held in what the pass has read.  NoLaneLeaks: the update's requests may *)
(* be handled when it no longer waits for them; LaneInv follows them through  *)
(* the backlog.                                                               *)

LeaseIds == Nat \X Hosts
LeaseClaims == [id : LeaseIds, host : Hosts, owner : Owners]
Requests ==
    [op : {"acquire"}, lease : LeaseClaims] \cup [op : {"release id"}, id : LeaseIds]
      \cup [op : {"release host", "release lane"}, host : Hosts] \cup {ReleaseAll}
      \cup [op : {"set drain"}, drain : DrainStates]
Envelopes == [from : Callers \cup {Gone}, request : Requests]
Replies == {"none", "error", "changed", "same"}
Commands ==
    [at : {"idle", "read", "write", "written", "acquire", "acquired", "roll back", "rolled back",
           "release", "released", "unlaned"},
     n : Nat, cmd : {"none", "full", "caps", "hold", "handoff", "release", "release host"},
     plan : SUBSET Hosts, asked : SUBSET LeaseIds, mine : SUBSET LeaseIds,
     drain : DrainStates, reply : Replies]
Updates ==
    [at : {"none", "lane", "census", "stage", "command", "end", "release", "clear", "over", "dead"},
     lane : BOOLEAN, failed : BOOLEAN, started : BOOLEAN,
     unreleased : BOOLEAN, reply : Replies]
Passes ==
    [at : {"idle", "drain", "leases", "dispatch"}, held : SUBSET Targets, drain : DrainStates]

DrainTypes ==
    /\ drain \in DrainStates
    /\ leases \subseteq LeaseClaims
    /\ backlog \in Seq(Envelopes)
    /\ pass \in Passes
    /\ cli \in [Operators -> Commands]
    /\ update \in Updates
    /\ commands \in Nat

\* A target that was held throughout is held by what the pass has read.
CoverInv ==
    /\ cover.drain \cup cover.lease \subseteq Targets
    /\ \A t \in cover.drain : HeldByDrain(t)
    /\ \A t \in cover.lease : HeldByLease(t)
    /\ pass.at = "leases" => \A t \in cover.drain : HeldBy(pass.drain, t)
    /\ pass.at = "dispatch" => cover.drain \cup cover.lease \subseteq pass.held

\* The update has no lane, and no request for one is on its way.
Asked(q) == \E i \in DOMAIN q : q[i].request = Acquire(UpdateLease)
NoLane == UpdateLease \notin leases /\ ~Asked(backlog)

\* The update waits for at most one request.  What it waits for at its end is
\* its release, with no request for the lane behind it.
Awaited(q) ==
    /\ \A i, k \in DOMAIN q : q[i].from = "update" /\ q[k].from = "update" => i = k
    /\ \A i \in DOMAIN q : q[i].from = "update" =>
         /\ update.reply = "none" /\ update.at \in {"lane", "release"}
         /\ update.at = "release" =>
              /\ q[i].request = ReleaseId(UpdateLease.id)
              /\ \A k \in DOMAIN q : i <= k => q[k].request # Acquire(UpdateLease)

\* Where the update can be sure that it has no lane.
LaneInv ==
    /\ Awaited(backlog)
    /\ update.reply # "none" => update.at \in {"lane", "release"}
    /\ update.at = "none" => update = NoUpdate
    /\ update.at \notin {"over", "dead"} /\ ~update.lane => NoLane
    /\ update.at = "release" /\ update.reply \in {"changed", "same"} => NoLane
    /\ update.at \in {"clear", "over"} => update.unreleased \/ NoLane

DrainInv == DrainTypes /\ CoverInv /\ LaneInv

-----------------------------------------------------------------------------
(* The two files and the backlog. *)

\* A request joins the backlog at its end.
LEMMA QueueAppend ==
  ASSUME NEW q \in Seq(Envelopes), NEW e \in Envelopes
  PROVE  /\ Append(q, e) \in Seq(Envelopes)
         /\ DOMAIN Append(q, e) = 1 .. (Len(q) + 1)
         /\ DOMAIN q = 1 .. Len(q) /\ Len(q) \in Nat
         /\ \A i \in DOMAIN q : Append(q, e)[i] = q[i]
         /\ Append(q, e)[Len(q) + 1] = e
OBVIOUS

\* The daemon takes the first one.
LEMMA QueueTail ==
  ASSUME NEW q \in Seq(Envelopes), q # <<>>
  PROVE  /\ Tail(q) \in Seq(Envelopes)
         /\ Head(q) = q[1] /\ Head(q) \in Envelopes /\ 1 \in DOMAIN q
         /\ DOMAIN q = 1 .. Len(q) /\ Len(q) \in Nat
         /\ \A i \in DOMAIN Tail(q) : /\ i \in Nat \ {0} /\ i + 1 \in DOMAIN q
                                      /\ Tail(q)[i] = q[i + 1]
OBVIOUS

LEMMA NextNumber == \A n \in Nat : n + 1 \in Nat
OBVIOUS

\* What a request carries.
LEMMA RequestIs ==
  ASSUME NEW r \in Requests
  PROVE  /\ r.op = "acquire" => r.lease \in LeaseClaims /\ r = Acquire(r.lease)
         /\ r.op = "set drain" => r.drain \in DrainStates
         /\ r.op \in {"release host", "release lane"} => r.host \in Hosts
         /\ r.op \in LeaseOps \cup {"set drain", "release lane"}
<1>1. CASE r \in [op : {"acquire"}, lease : LeaseClaims]
  <2>1. r.op = "acquire" /\ r.lease \in LeaseClaims /\ r = [op |-> "acquire", lease |-> r.lease]
    BY <1>1
  <2> QED
    BY <2>1, Zenon DEF Acquire, LeaseOps
<1>2. CASE r \in [op : {"release id"}, id : LeaseIds]
  <2>1. r.op = "release id"
    BY <1>2, Zenon
  <2> QED
    BY <2>1, Zenon DEF LeaseOps
<1>3. CASE r \in [op : {"release host", "release lane"}, host : Hosts]
  <2>1. r.op \in {"release host", "release lane"} /\ r.host \in Hosts
    BY <1>3, Zenon
  <2> QED
    BY <2>1, Zenon DEF LeaseOps
<1>4. CASE r = ReleaseAll
  <2>1. r.op = "release all"
    BY <1>4, Zenon DEF ReleaseAll
  <2> QED
    BY <2>1, Zenon DEF LeaseOps
<1>5. CASE r \in [op : {"set drain"}, drain : DrainStates]
  <2>1. r.op = "set drain" /\ r.drain \in DrainStates
    BY <1>5, Zenon
  <2> QED
    BY <2>1, Zenon
<1> QED
  BY <1>1, <1>2, <1>3, <1>4, <1>5, Zenon DEF Requests

LEMMA MakeRequest ==
  /\ \A l \in LeaseClaims : Acquire(l) \in Requests
  /\ \A i \in LeaseIds : ReleaseId(i) \in Requests
  /\ \A h \in Hosts : ReleaseHost(h) \in Requests /\ ReleaseLane(h) \in Requests
  /\ ReleaseAll \in Requests
  /\ \A d \in DrainStates : SetDrain(d) \in Requests
BY Zenon DEF Requests, Acquire, ReleaseId, ReleaseHost, ReleaseLane, ReleaseAll, SetDrain

LEMMA ReleaseIdIs ==
  ASSUME NEW i
  PROVE  ReleaseId(i).op = "release id" /\ ReleaseId(i).id = i
BY DEF ReleaseId

\* The request for the update's lane is none of these.
LEMMA OtherRequests ==
  /\ \A l : l.owner = "operator" => Acquire(l) # Acquire(UpdateLease)
  /\ \A i : ReleaseId(i) # Acquire(UpdateLease)
  /\ \A h : ReleaseHost(h) # Acquire(UpdateLease) /\ ReleaseLane(h) # Acquire(UpdateLease)
  /\ ReleaseAll # Acquire(UpdateLease)
  /\ \A d : SetDrain(d) # Acquire(UpdateLease)
<1>1. UpdateLease.owner = "update"
  BY DEF UpdateLease, Lease
<1>2. \A l : Acquire(l).lease = l /\ Acquire(l).op = "acquire"
  BY DEF Acquire
<1>3. /\ \A i : ReleaseId(i).op = "release id"
      /\ \A h : ReleaseHost(h).op = "release host" /\ ReleaseLane(h).op = "release lane"
      /\ ReleaseAll.op = "release all"
      /\ \A d : SetDrain(d).op = "set drain"
  BY Zenon DEF ReleaseId, ReleaseHost, ReleaseLane, ReleaseAll, SetDrain
<1>4. ASSUME NEW l, l.owner = "operator" PROVE Acquire(l) # Acquire(UpdateLease)
  BY <1>1, <1>2, <1>4, ZenonT(30)
<1>5. ASSUME NEW r, r.op # "acquire" PROVE r # Acquire(UpdateLease)
  BY <1>2, <1>5, Zenon
<1> QED
  BY <1>3, <1>4, <1>5, Zenon

\* drain.json stays one, and what has expired has no more to expire.
LEMMA ExpiredIs ==
  ASSUME NEW d \in DrainStates
  PROVE  Expired(d) \in DrainStates /\ Expired(Expired(d)) = Expired(d)
<1>1. NoDrain \in DrainStates /\ ~NoDrain.ripe
  BY DEF NoDrain, DrainStates
<1>2. [d EXCEPT !.full = FALSE, !.timed = FALSE, !.ripe = FALSE] \in DrainStates
  BY Zenon DEF DrainStates
<1>3. ~[d EXCEPT !.full = FALSE, !.timed = FALSE, !.ripe = FALSE].ripe
  BY DEF DrainStates
<1> QED
  BY <1>1, <1>2, <1>3 DEF Expired

LEMMA LiftedIs ==
  ASSUME NEW d \in DrainStates
  PROVE  WithoutFull(d) \in DrainStates /\ \A h \in Hosts : WithoutLane(d, h) \in DrainStates
<1>1. NoDrain \in DrainStates
  BY DEF NoDrain, DrainStates
<1>2. [d EXCEPT !.full = FALSE, !.timed = FALSE, !.ripe = FALSE] \in DrainStates
  BY Zenon DEF DrainStates
<1>3. ASSUME NEW h \in Hosts PROVE [d EXCEPT !.hosts = @ \ {h}] \in DrainStates
  BY DEF DrainStates
<1> QED
  BY <1>1, <1>2, <1>3 DEF WithoutFull, WithoutLane

\* Leases that join a hold leave it a hold, of their own hosts too.
LEMMA ComposedIs ==
  ASSUME NEW d \in DrainStates, NEW S, S \subseteq LeaseClaims
  PROVE  /\ Composed(d, S) \in DrainStates
         /\ \A t : HeldBy(d, t) => HeldBy(Composed(d, S), t)
         /\ \A l \in S : HeldBy(Composed(d, S), l.host)
<1> DEFINE e == [d EXCEPT !.set = TRUE, !.full = is_full_drain(d),
                          !.hosts = @ \cup {l.host : l \in S}]
<1>1. is_full_drain(d) \in BOOLEAN
  BY Zenon DEF is_full_drain, DrainStates
<1>2. e \in DrainStates /\ e.set = TRUE /\ e.full = is_full_drain(d)
      /\ e.hosts = d.hosts \cup {l.host : l \in S}
  <2> HIDE DEF is_full_drain
  <2> QED
    BY <1>1, Zenon DEF DrainStates, LeaseClaims
<1>3. CASE S = {}
  BY <1>3, Zenon DEF Composed
<1>4. CASE S # {}
  <2>1. Composed(d, S) = e
    BY <1>4, Zenon DEF Composed
  <2> HIDE DEF e
  <2>2. ASSUME NEW t, HeldBy(d, t) PROVE HeldBy(e, t)
    BY <1>2, <2>2, Zenon DEF HeldBy, is_full_drain
  <2>3. ASSUME NEW l \in S PROVE HeldBy(e, l.host)
    BY <1>2, <2>3, Zenon DEF HeldBy
  <2> QED
    BY <1>2, <2>1, <2>2, <2>3, Zenon
<1> QED
  BY <1>3, <1>4

\* So does what a command writes.
LEMMA WrittenIs ==
  ASSUME NEW c, c.drain \in DrainStates, NEW d \in Written(c)
  PROVE  d \in DrainStates
<1>1. CASE c.cmd = "handoff"
  BY <1>1, LiftedIs, Zenon DEF Written
<1>2. CASE c.cmd # "handoff"
  <2>1. PICK t \in BOOLEAN :
          d = [NoDrain EXCEPT !.set = TRUE, !.full = c.cmd = "full", !.caps = c.cmd = "caps",
                              !.hosts = c.drain.hosts, !.timed = t]
    BY <1>2, Zenon DEF Written
  <2> DEFINE f == c.cmd = "full"
             g == c.cmd = "caps"
  <2>2. f \in BOOLEAN /\ g \in BOOLEAN /\ c.drain.hosts \in SUBSET Hosts
    BY Zenon DEF DrainStates
  <2>3. d = [set |-> TRUE, full |-> f, hosts |-> c.drain.hosts, caps |-> g, timed |-> t,
             ripe |-> FALSE]
    BY <2>1, Zenon DEF NoDrain
  <2> HIDE DEF f, g
  <2> QED
    BY <2>2, <2>3, Zenon DEF DrainStates
<1> QED
  BY <1>1, <1>2

-----------------------------------------------------------------------------
(* vq drain. *)

\* A request that is not the update's for its lane comes from p.
Sends(p) ==
    \E r \in Requests : /\ r # Acquire(UpdateLease)
                        /\ backlog' = Append(backlog, [from |-> p, request |-> r])

\* A command changes drain.json, or sends such a request.
Operated(p) ==
    /\ DrainTypes'
    /\ UNCHANGED <<leases, pass, update>>
    /\ backlog' = backlog \/ Sends(p)

LEMMA MakeOperated ==
  ASSUME DrainTypes, NEW p \in Operators, NEW c \in Commands, cli' = [cli EXCEPT ![p] = c],
         drain' \in DrainStates, commands' \in Nat, UNCHANGED <<leases, pass, update>>,
         backlog' = backlog \/ Sends(p)
  PROVE  Operated(p)
<1>1. cli' \in [Operators -> Commands]
  BY Zenon DEF DrainTypes
<1>2. backlog' \in Seq(Envelopes)
  <2>1. CASE backlog' = backlog
    BY <2>1, Zenon DEF DrainTypes
  <2>2. CASE Sends(p)
    <3>1. PICK r \in Requests : backlog' = Append(backlog, [from |-> p, request |-> r])
      BY <2>2, Zenon DEF Sends
    <3>2. [from |-> p, request |-> r] \in Envelopes
      BY DEF Envelopes, Callers
    <3> QED
      BY <3>1, <3>2, QueueAppend, Zenon DEF DrainTypes
  <2> QED
    BY <2>1, <2>2, Zenon
<1> QED
  BY <1>1, <1>2, Zenon DEF DrainTypes, Operated

LEMMA NoCommandIs == NoCommand \in Commands
BY DEF NoCommand, Commands, NoDrain, DrainStates, Replies

\* What Sent sends.
LEMMA SentIs ==
  ASSUME NEW p, NEW r \in Requests, r # Acquire(UpdateLease), Sent(p, r)
  PROVE  Sends(p)
BY Zenon DEF Sent, Sends

\* Reads and writes of drain.json.
LEMMA OperatorDrains ==
  ASSUME DrainTypes, NEW p \in Operators,
         Begin(p) \/ CliReads(p) \/ CliWrites(p) \/ CliWritten(p)
  PROVE  Operated(p)
<1> USE DEF CliUnchanged
<1>0. cli[p] \in Commands /\ cli[p].drain \in DrainStates
  BY Zenon DEF DrainTypes, Commands
<1>1. CASE Begin(p)
  <2>1. PICK cmd \in {"full", "caps", "hold", "handoff", "release", "release host"},
             plan \in SUBSET Hosts :
          cli' = [cli EXCEPT ![p] = [NoCommand EXCEPT !.at = FirstStep(cmd), !.n = commands + 1,
                                                      !.cmd = cmd, !.plan = plan]]
    BY <1>1, Zenon DEF Begin
  <2>2. FirstStep(cmd) \in {"read", "acquire", "release"}
    BY Zenon DEF FirstStep
  <2>3. commands' \in Nat /\ commands + 1 \in Nat
    <3>1. commands \in Nat /\ commands' = commands + 1
      BY <1>1, Zenon DEF Begin, DrainTypes
    <3> QED
      BY <3>1, NextNumber, Zenon
  <2> DEFINE c == [NoCommand EXCEPT !.at = FirstStep(cmd), !.n = commands + 1,
                                    !.cmd = cmd, !.plan = plan]
  <2>4. c \in Commands
    BY <2>2, <2>3, NoCommandIs, ZenonT(30) DEF Commands
  <2>5. /\ drain' \in DrainStates /\ backlog' = backlog
        /\ UNCHANGED <<leases, pass, update>>
    BY <1>1, Zenon DEF Begin, DrainTypes
  <2> HIDE DEF c
  <2> QED
    BY <2>1, <2>3, <2>4, <2>5, MakeOperated, Zenon DEF c
<1>2. CASE CliReads(p)
  <2> DEFINE c == [cli[p] EXCEPT !.drain = drain', !.at = "write"]
  <2>1. drain' \in DrainStates
    BY <1>2, ExpiredIs, Zenon DEF CliReads, DrainTypes
  <2>2. c \in Commands
    BY <1>0, <2>1, Zenon DEF Commands
  <2>3. cli' = [cli EXCEPT ![p] = c]
    BY <1>2, Zenon DEF CliReads, DrainTypes
  <2>4. /\ commands' \in Nat /\ backlog' = backlog
        /\ UNCHANGED <<leases, pass, update>>
    BY <1>2, Zenon DEF CliReads, DrainTypes
  <2> HIDE DEF c
  <2> QED
    BY <2>1, <2>2, <2>3, <2>4, MakeOperated, Zenon
<1>3. CASE CliWrites(p)
  <2>1. /\ commands' \in Nat /\ drain' \in DrainStates
        /\ UNCHANGED <<leases, pass, update>>
    BY <1>3, Zenon DEF CliWrites, DrainTypes
  <2>2. CASE cli' = [cli EXCEPT ![p] = NoCommand] /\ UNCHANGED backlog
    BY <2>1, <2>2, NoCommandIs, MakeOperated, Zenon
  <2>3. CASE \E d \in Written(cli[p]) :
               /\ Sent(p, SetDrain(d))
               /\ cli' = [cli EXCEPT ![p].at = "written", ![p].drain = d]
    <3>1. PICK d \in Written(cli[p]) :
               /\ Sent(p, SetDrain(d))
               /\ cli' = [cli EXCEPT ![p].at = "written", ![p].drain = d]
      BY <2>3, Zenon
    <3>2. d \in DrainStates
      BY <1>0, WrittenIs
    <3> DEFINE c == [cli[p] EXCEPT !.at = "written", !.drain = d]
    <3>3. c \in Commands
      BY <1>0, <3>2, Zenon DEF Commands
    <3>4. cli' = [cli EXCEPT ![p] = c]
      BY <3>1, Zenon DEF DrainTypes
    <3>5. Sends(p)
      BY <3>1, <3>2, SentIs, MakeRequest, OtherRequests, Zenon
    <3> HIDE DEF c
    <3> QED
      BY <2>1, <3>3, <3>4, <3>5, MakeOperated, Zenon
  <2> QED
    BY <1>3, <2>2, <2>3, Zenon DEF CliWrites
<1>4. CASE CliWritten(p)
  <2>1. /\ commands' \in Nat /\ drain' \in DrainStates /\ backlog' = backlog
        /\ UNCHANGED <<leases, pass, update>>
    BY <1>0, <1>4, Zenon DEF CliWritten, DrainTypes
  <2> QED
    BY <1>4, <2>1, NoCommandIs, MakeOperated, Zenon DEF CliWritten
<1> QED
  BY <1>1, <1>2, <1>3, <1>4

\* Leases taken, and rolled back.
LEMMA OperatorAcquires ==
  ASSUME DrainTypes, NEW p \in Operators,
         CliAcquires(p) \/ CliAcquired(p) \/ CliRollsBack(p) \/ CliRolledBack(p)
  PROVE  Operated(p)
<1> USE DEF CliUnchanged
<1>0. /\ cli[p] \in Commands /\ cli[p].plan \subseteq Hosts /\ cli[p].n \in Nat
      /\ cli[p].asked \subseteq LeaseIds /\ cli[p].mine \subseteq LeaseIds
  BY Zenon DEF DrainTypes, Commands
<1>1. /\ commands' \in Nat /\ drain' \in DrainStates
      /\ UNCHANGED <<leases, pass, update>>
  BY Zenon DEF CliAcquires, CliAcquired, CliRollsBack, CliRolledBack, DrainTypes
<1>2. CASE CliAcquires(p)
  <2>1. CASE cli' = [cli EXCEPT ![p] = NoCommand] /\ UNCHANGED backlog
    BY <1>1, <2>1, NoCommandIs, MakeOperated, Zenon
  <2>2. CASE cli' = [cli EXCEPT ![p].at = "read"] /\ UNCHANGED backlog
    <3>1. [cli[p] EXCEPT !.at = "read"] \in Commands
      BY <1>0, Zenon DEF Commands
    <3>2. cli' = [cli EXCEPT ![p] = [cli[p] EXCEPT !.at = "read"]]
      BY <2>2, Zenon DEF DrainTypes
    <3> QED
      BY <1>1, <2>2, <3>1, <3>2, MakeOperated, Zenon
  <2>3. CASE \E h \in cli[p].plan :
               /\ Sent(p, Acquire(Lease(cli[p].n, h, "operator")))
               /\ cli' = [cli EXCEPT ![p].at = "acquired", ![p].plan = @ \ {h},
                                     ![p].asked = {<<cli[p].n, h>>}]
    <3>1. PICK h \in cli[p].plan :
               /\ Sent(p, Acquire(Lease(cli[p].n, h, "operator")))
               /\ cli' = [cli EXCEPT ![p].at = "acquired", ![p].plan = @ \ {h},
                                     ![p].asked = {<<cli[p].n, h>>}]
      BY <2>3, Zenon
    <3> DEFINE c == [cli[p] EXCEPT !.at = "acquired", !.plan = @ \ {h},
                                   !.asked = {<<cli[p].n, h>>}]
               l == Lease(cli[p].n, h, "operator")
    <3>2. c \in Commands
      <4>1. {<<cli[p].n, h>>} \in SUBSET LeaseIds /\ cli[p].plan \ {h} \in SUBSET Hosts
        BY <1>0 DEF LeaseIds
      <4> QED
        BY <1>0, <4>1, Zenon DEF Commands
    <3>3. cli' = [cli EXCEPT ![p] = c]
      BY <3>1, Zenon DEF DrainTypes
    <3>4. l \in LeaseClaims /\ l.owner = "operator"
      BY <1>0 DEF Lease, LeaseClaims, LeaseIds, Owners
    <3> HIDE DEF c, l
    <3>5. Sends(p)
      BY <3>1, <3>4, SentIs, MakeRequest, OtherRequests, Zenon DEF l
    <3> QED
      BY <1>1, <3>2, <3>3, <3>5, MakeOperated, Zenon
  <2> QED
    BY <1>2, <2>1, <2>2, <2>3, Zenon DEF CliAcquires
<1>3. CASE CliAcquired(p)
  <2> DEFINE c == [cli[p] EXCEPT !.at = IF cli[p].reply = "error" THEN "roll back" ELSE "acquire",
                                 !.mine = IF cli[p].reply = "same" THEN @
                                          ELSE @ \cup cli[p].asked,
                                 !.asked = {}, !.reply = "none"]
  <2>1. c \in Commands
    BY <1>0, Zenon DEF Commands, Replies
  <2>2. cli' = [cli EXCEPT ![p] = c]
    BY <1>3, Zenon DEF CliAcquired, DrainTypes
  <2> HIDE DEF c
  <2> QED
    BY <1>1, <1>3, <2>1, <2>2, MakeOperated, Zenon DEF CliAcquired
<1>4. CASE CliRollsBack(p)
  <2>1. CASE cli' = [cli EXCEPT ![p] = NoCommand] /\ UNCHANGED backlog
    BY <1>1, <2>1, NoCommandIs, MakeOperated, Zenon
  <2>2. CASE \E id \in cli[p].mine :
               /\ Sent(p, ReleaseId(id))
               /\ cli' = [cli EXCEPT ![p].at = "rolled back", ![p].mine = @ \ {id}]
    <3>1. PICK id \in cli[p].mine :
               /\ Sent(p, ReleaseId(id))
               /\ cli' = [cli EXCEPT ![p].at = "rolled back", ![p].mine = @ \ {id}]
      BY <2>2, Zenon
    <3> DEFINE c == [cli[p] EXCEPT !.at = "rolled back", !.mine = @ \ {id}]
    <3>2. c \in Commands
      BY <1>0, Zenon DEF Commands
    <3>3. cli' = [cli EXCEPT ![p] = c]
      BY <3>1, Zenon DEF DrainTypes
    <3>4. Sends(p)
      BY <1>0, <3>1, SentIs, MakeRequest, OtherRequests, Zenon
    <3> HIDE DEF c
    <3> QED
      BY <1>1, <3>2, <3>3, <3>4, MakeOperated, Zenon
  <2> QED
    BY <1>4, <2>1, <2>2, Zenon DEF CliRollsBack
<1>5. CASE CliRolledBack(p)
  <2>1. [cli[p] EXCEPT !.at = "roll back", !.reply = "none"] \in Commands
    BY <1>0, Zenon DEF Commands, Replies
  <2>2. cli' = [cli EXCEPT ![p] = [cli[p] EXCEPT !.at = "roll back", !.reply = "none"]]
    BY <1>5, Zenon DEF CliRolledBack, DrainTypes
  <2> QED
    BY <1>1, <1>5, <2>1, <2>2, MakeOperated, Zenon DEF CliRolledBack
<1> QED
  BY <1>2, <1>3, <1>4, <1>5

\* Leases released, and then drain.json or its lane.
LEMMA OperatorReleases ==
  ASSUME DrainTypes, NEW p \in Operators, CliReleases(p) \/ CliReleased(p) \/ CliUnlaned(p)
  PROVE  Operated(p)
<1> USE DEF CliUnchanged
<1>0. cli[p] \in Commands /\ cli[p].plan \subseteq Hosts
  BY Zenon DEF DrainTypes, Commands
<1>1. /\ commands' \in Nat /\ drain' \in DrainStates
      /\ UNCHANGED <<leases, pass, update>>
  BY Zenon DEF CliReleases, CliReleased, CliUnlaned, DrainTypes
<1>2. CASE CliReleases(p)
  <2>1. [cli[p] EXCEPT !.at = "released"] \in Commands
    BY <1>0, Zenon DEF Commands
  <2>2. cli' = [cli EXCEPT ![p] = [cli[p] EXCEPT !.at = "released"]]
    BY <1>2, Zenon DEF CliReleases, DrainTypes
  <2>3. Sends(p)
    BY <1>0, <1>2, SentIs, MakeRequest, OtherRequests, Zenon DEF CliReleases
  <2> QED
    BY <1>1, <2>1, <2>2, <2>3, MakeOperated, Zenon
<1>3. CASE CliReleased(p)
  <2>1. CASE cli' = [cli EXCEPT ![p] = NoCommand] /\ UNCHANGED backlog
    BY <1>1, <2>1, NoCommandIs, MakeOperated, Zenon
  <2>2. CASE /\ Sent(p, SetDrain(NoDrain))
             /\ cli' = [cli EXCEPT ![p].at = "written", ![p].drain = NoDrain, ![p].reply = "none"]
    <3> DEFINE c == [cli[p] EXCEPT !.at = "written", !.drain = NoDrain, !.reply = "none"]
    <3>1. NoDrain \in DrainStates
      BY DEF NoDrain, DrainStates
    <3>2. c \in Commands
      BY <1>0, <3>1, Zenon DEF Commands, Replies
    <3>3. cli' = [cli EXCEPT ![p] = c]
      BY <2>2, Zenon DEF DrainTypes
    <3>4. Sends(p)
      BY <2>2, <3>1, SentIs, MakeRequest, OtherRequests, Zenon
    <3> HIDE DEF c
    <3> QED
      BY <1>1, <3>2, <3>3, <3>4, MakeOperated, Zenon
  <2>3. CASE /\ \E h \in cli[p].plan : Sent(p, ReleaseLane(h))
             /\ cli' = [cli EXCEPT ![p].at = "unlaned", ![p].reply = "none"]
    <3>1. [cli[p] EXCEPT !.at = "unlaned", !.reply = "none"] \in Commands
      BY <1>0, Zenon DEF Commands, Replies
    <3>2. cli' = [cli EXCEPT ![p] = [cli[p] EXCEPT !.at = "unlaned", !.reply = "none"]]
      BY <2>3, Zenon DEF DrainTypes
    <3>3. Sends(p)
      BY <1>0, <2>3, SentIs, MakeRequest, OtherRequests, Zenon
    <3> QED
      BY <1>1, <3>1, <3>2, <3>3, MakeOperated, Zenon
  <2> QED
    BY <1>3, <2>1, <2>2, <2>3, Zenon DEF CliReleased
<1>4. CASE CliUnlaned(p)
  BY <1>1, <1>4, NoCommandIs, MakeOperated, Zenon DEF CliUnlaned
<1> QED
  BY <1>2, <1>3, <1>4

-----------------------------------------------------------------------------
(* The lane of the update. *)

\* A request that is not for the lane, and not the update's, joins the backlog.
LEMMA SendsLane ==
  ASSUME DrainTypes, LaneInv, NEW p, p # "update", Sends(p), p \in Callers,
         UNCHANGED <<leases, update>>
  PROVE  LaneInv'
<1>1. PICK r \in Requests : /\ r # Acquire(UpdateLease)
                            /\ backlog' = Append(backlog, [from |-> p, request |-> r])
  BY Zenon DEF Sends
<1> DEFINE e == [from |-> p, request |-> r]
<1>2. e \in Envelopes /\ e.from = p /\ e.request = r
  BY DEF Envelopes
<1> HIDE DEF e
<1>3. /\ DOMAIN backlog' = 1 .. (Len(backlog) + 1)
      /\ DOMAIN backlog = 1 .. Len(backlog) /\ Len(backlog) \in Nat
      /\ \A i \in DOMAIN backlog : backlog'[i] = backlog[i]
      /\ backlog'[Len(backlog) + 1] = e
  BY <1>1, <1>2, QueueAppend DEF DrainTypes, e
<1>4. ASSUME NEW i \in DOMAIN backlog'
      PROVE  \/ i \in DOMAIN backlog /\ backlog'[i] = backlog[i]
             \/ backlog'[i].from # "update" /\ backlog'[i].request # Acquire(UpdateLease)
  BY <1>1, <1>2, <1>3
<1>5. ~Asked(backlog) => ~Asked(backlog')
  BY <1>4, Zenon DEF Asked
<1>6. Awaited(backlog)'
  BY <1>4, Zenon DEF Awaited, LaneInv
<1> QED
  BY <1>5, <1>6, Zenon DEF LaneInv, NoLane

\* The backlog, the leases and the update stay as they are.
LEMMA SameLane ==
  ASSUME LaneInv, UNCHANGED <<leases, update, backlog>>
  PROVE  LaneInv'
BY Zenon DEF LaneInv, NoLane, Awaited, Asked

\* A request taken from the backlog.
LEMMA TailLane ==
  ASSUME DrainTypes, LaneInv, backlog # <<>>, backlog' = Tail(backlog)
  PROVE  /\ \A i \in DOMAIN backlog' :
              \E k \in DOMAIN backlog : k # 1 /\ backlog'[i] = backlog[k]
         /\ Asked(backlog') => Asked(backlog)
         /\ update' = update => Awaited(backlog)'
         /\ backlog[1].from = "update" => \A i \in DOMAIN backlog' : backlog'[i].from # "update"
<1>1. /\ \A i \in DOMAIN backlog' : /\ i \in Nat \ {0} /\ i + 1 \in DOMAIN backlog
                                    /\ backlog'[i] = backlog[i + 1]
      /\ 1 \in DOMAIN backlog
  BY QueueTail DEF DrainTypes
<1>2. ASSUME NEW i \in DOMAIN backlog'
      PROVE  \E k \in DOMAIN backlog : k # 1 /\ backlog'[i] = backlog[k]
  <2>1. i + 1 # 1 /\ i + 1 \in DOMAIN backlog /\ backlog'[i] = backlog[i + 1]
    BY <1>1
  <2> QED
    BY <2>1
<1>3. Asked(backlog') => Asked(backlog)
  BY <1>2, Zenon DEF Asked
<1>4. backlog[1].from = "update" => \A i \in DOMAIN backlog' : backlog'[i].from # "update"
  BY <1>1, <1>2, Zenon DEF LaneInv, Awaited
<1>5. ASSUME update' = update PROVE Awaited(backlog)'
  <2>1. ASSUME NEW i \in DOMAIN backlog', NEW k \in DOMAIN backlog',
               backlog'[i].from = "update", backlog'[k].from = "update"
        PROVE  i = k
    <3>1. i + 1 = k + 1
      BY <1>1, <2>1 DEF LaneInv, Awaited
    <3> QED
      BY <1>1, <3>1
  <2>2. ASSUME NEW i \in DOMAIN backlog', backlog'[i].from = "update"
        PROVE  /\ update.reply = "none" /\ update.at \in {"lane", "release"}
               /\ update.at = "release" =>
                    /\ backlog'[i].request = ReleaseId(UpdateLease.id)
                    /\ \A k \in DOMAIN backlog' : i <= k => backlog'[k].request # Acquire(UpdateLease)
    <3>1. /\ update.reply = "none" /\ update.at \in {"lane", "release"}
          /\ update.at = "release" =>
               /\ backlog[i + 1].request = ReleaseId(UpdateLease.id)
               /\ \A k \in DOMAIN backlog : i + 1 <= k => backlog[k].request # Acquire(UpdateLease)
      BY <1>1, <2>2, Zenon DEF LaneInv, Awaited
    <3>2. ASSUME update.at = "release", NEW k \in DOMAIN backlog', i <= k
          PROVE  backlog'[k].request # Acquire(UpdateLease)
      <4>1. k + 1 \in DOMAIN backlog /\ i + 1 <= k + 1 /\ backlog'[k] = backlog[k + 1]
        BY <1>1, <3>2
      <4> QED
        BY <3>1, <3>2, <4>1, Zenon
    <3> QED
      BY <1>1, <2>2, <3>1, <3>2, Zenon
  <2> QED
    BY <1>5, <2>1, <2>2, Zenon DEF Awaited
<1> QED
  BY <1>2, <1>3, <1>4, <1>5

-----------------------------------------------------------------------------
(* The daemon's answers. *)

\* The answer to an operator, to the update, or to nobody.
LEMMA AnswerIs ==
  ASSUME DrainTypes, NEW p \in Callers \cup {Gone}, NEW reply \in Replies, Answer(p, reply)
  PROVE  /\ cli' \in [Operators -> Commands] /\ update' \in Updates
         /\ p # "update" => update' = update
         /\ p = "update" => update' = [update EXCEPT !.reply = reply]
<1>1. "update" \notin Operators /\ Gone \notin Operators /\ Gone # "update"
  BY DrainAssumption DEF DrainAssumption, Gone
<1>2. ASSUME p \in Operators PROVE cli' \in [Operators -> Commands]
  <2>1. [cli[p] EXCEPT !.reply = reply] \in Commands
    BY <1>2, ZenonT(30) DEF DrainTypes, Commands
  <2>2. cli' = [cli EXCEPT ![p] = [cli[p] EXCEPT !.reply = reply]]
    BY <1>2, Zenon DEF Answer, DrainTypes
  <2> QED
    BY <1>2, <2>1, <2>2, Zenon DEF DrainTypes
<1>3. [update EXCEPT !.reply = reply] \in Updates
  BY DEF DrainTypes, Updates
<1> QED
  BY <1>1, <1>2, <1>3, Zenon DEF Answer, DrainTypes

\* A change of the leases makes claims only, and the update's only on request.
LEMMA MutatedIs ==
  ASSUME DrainTypes, NEW r \in Requests, r.op \in LeaseOps
  PROVE  /\ Mutated(r) \subseteq LeaseClaims
         /\ UpdateLease \in Mutated(r) => UpdateLease \in leases \/ r = Acquire(UpdateLease)
         /\ r = ReleaseId(UpdateLease.id) => UpdateLease \notin Mutated(r)
<1>0. leases \subseteq LeaseClaims
  BY Zenon DEF DrainTypes
<1>1. CASE r.op = "acquire"
  <2>1. r.lease \in LeaseClaims /\ r = Acquire(r.lease)
    BY <1>1, RequestIs, Zenon
  <2>2. Mutated(r) \subseteq leases \cup {r.lease}
    BY <1>1, Zenon DEF Mutated
  <2>3. r # ReleaseId(UpdateLease.id)
    BY <1>1, ReleaseIdIs, Zenon
  <2> QED
    BY <1>0, <2>1, <2>2, <2>3, Zenon
<1>2. CASE r.op = "release id"
  <2>1. Mutated(r) = {l \in leases : l.id # r.id}
    BY <1>2, Zenon DEF Mutated
  <2>2. r = ReleaseId(UpdateLease.id) => r.id = UpdateLease.id
    BY ReleaseIdIs, Zenon
  <2> QED
    BY <1>0, <2>1, <2>2, Zenon
<1>3. CASE r.op = "release host"
  <2>1. Mutated(r) = {l \in leases : l.host # r.host}
    BY <1>3, Zenon DEF Mutated
  <2>2. r # ReleaseId(UpdateLease.id)
    BY <1>3, ReleaseIdIs, Zenon
  <2> QED
    BY <1>0, <2>1, <2>2, Zenon
<1>4. CASE r.op = "release all"
  <2>1. Mutated(r) = {}
    BY <1>4, Zenon DEF Mutated
  <2> QED
    BY <2>1, Zenon
<1> QED
  BY <1>1, <1>2, <1>3, <1>4, Zenon DEF LeaseOps

\* A request is handled.
LEMMA HandleKeeps ==
  ASSUME DrainTypes, LaneInv, Handle
  PROVE  DrainTypes' /\ LaneInv'
<1> DEFINE r == backlog[1].request
           p == backlog[1].from
<1>0. /\ backlog # <<>> /\ backlog' = Tail(backlog) /\ Head(backlog) = backlog[1]
      /\ r \in Requests /\ p \in Callers \cup {Gone} /\ backlog' \in Seq(Envelopes)
      /\ 1 \in DOMAIN backlog
      /\ UNCHANGED <<readable, pass, commands>>
  <2>1. backlog # <<>> /\ backlog' = Tail(backlog) /\ UNCHANGED <<readable, pass, commands>>
    BY Zenon DEF Handle
  <2>2. /\ Tail(backlog) \in Seq(Envelopes) /\ 1 \in DOMAIN backlog
        /\ Head(backlog) = backlog[1] /\ backlog[1] \in Envelopes
    BY <2>1, QueueTail DEF DrainTypes
  <2> QED
    BY <2>1, <2>2 DEF Envelopes
<1> HIDE DEF r, p
<1>1. /\ drain' \in DrainStates /\ leases' \subseteq LeaseClaims
      /\ \E reply \in Replies \ {"none"} :
           /\ Answer(p, reply)
           /\ r.op \in LeaseOps /\ reply # "error" => leases' = Mutated(r)
      /\ UpdateLease \in leases' => UpdateLease \in leases \/ r = Acquire(UpdateLease)
  <2>1. CASE r.op \in LeaseOps
    <3>1. /\ leases' = IF readable THEN Mutated(r) ELSE leases
          /\ Answer(p, IF ~readable THEN "error"
                       ELSE IF leases' # leases THEN "changed" ELSE "same")
          /\ drain' = drain
      BY <1>0, <2>1, Zenon DEF Handle, r, p
    <3>2. leases' \subseteq LeaseClaims
      BY <1>0, <2>1, <3>1, MutatedIs, Zenon DEF DrainTypes
    <3>3. UpdateLease \in leases' => UpdateLease \in leases \/ r = Acquire(UpdateLease)
      BY <1>0, <2>1, <3>1, MutatedIs, Zenon
    <3>4. CASE readable
      <4>1. \E reply \in {"changed", "same"} : Answer(p, reply)
        BY <3>1, <3>4, Zenon
      <4> QED
        BY <3>1, <3>2, <3>3, <3>4, <4>1, Zenon DEF DrainTypes, Replies
    <3>5. CASE ~readable
      <4>1. Answer(p, "error")
        BY <3>1, <3>5, Zenon
      <4> QED
        BY <3>1, <3>2, <3>3, <4>1, Zenon DEF DrainTypes, Replies
    <3> QED
      BY <3>4, <3>5, Zenon
  <2>2. CASE r.op \notin LeaseOps
    <3>1. /\ drain' = IF r.op = "set drain" THEN r.drain ELSE WithoutLane(Expired(drain), r.host)
          /\ Answer(p, "changed")
          /\ leases' = leases
      BY <1>0, <2>2, Zenon DEF Handle, r, p
    <3>2. r.op \in {"set drain", "release lane"}
      BY <1>0, <2>2, RequestIs, Zenon
    <3>3. drain' \in DrainStates
      BY <1>0, <3>1, <3>2, RequestIs, ExpiredIs, LiftedIs, Zenon DEF DrainTypes
    <3> QED
      BY <2>2, <3>1, <3>3, Zenon DEF DrainTypes, Replies
  <2> QED
    BY <2>1, <2>2
<1>2. PICK reply \in Replies \ {"none"} :
           /\ Answer(p, reply)
           /\ r.op \in LeaseOps /\ reply # "error" => leases' = Mutated(r)
  BY <1>1, Zenon
<1>3. /\ cli' \in [Operators -> Commands] /\ update' \in Updates
      /\ p # "update" => update' = update
      /\ p = "update" => update' = [update EXCEPT !.reply = reply]
  BY <1>0, <1>2, AnswerIs, Zenon
<1>4. DrainTypes'
  BY <1>0, <1>1, <1>3, Zenon DEF DrainTypes
<1>5. NoLane => NoLane'
  <2> SUFFICES ASSUME NoLane PROVE NoLane'
    BY Zenon
  <2>1. r # Acquire(UpdateLease)
    BY <1>0, Zenon DEF NoLane, Asked, r
  <2>2. ~Asked(backlog')
    BY <1>0, TailLane, Zenon DEF NoLane
  <2> QED
    BY <1>1, <2>1, <2>2, Zenon DEF NoLane
<1>6. CASE p # "update"
  <2>1. update' = update /\ Awaited(backlog)'
    BY <1>0, <1>3, <1>6, TailLane, Zenon
  <2> QED
    BY <1>4, <1>5, <2>1, Zenon DEF LaneInv
<1>7. CASE p = "update"
  <2>1. /\ update.reply = "none" /\ update.at \in {"lane", "release"}
        /\ update.at = "release" =>
             /\ r = ReleaseId(UpdateLease.id)
             /\ \A k \in DOMAIN backlog : 1 <= k => backlog[k].request # Acquire(UpdateLease)
    BY <1>0, <1>7, Zenon DEF LaneInv, Awaited, r, p
  <2>2. /\ update'.at = update.at /\ update'.lane = update.lane
        /\ update'.unreleased = update.unreleased /\ update'.reply = reply
    BY <1>3, <1>7 DEF DrainTypes, Updates
  <2>3. Awaited(backlog)'
    BY <1>0, <1>7, TailLane, Zenon DEF Awaited, p
  <2>4. ASSUME update.at = "release", reply # "error" PROVE NoLane'
    <3>1. r.op \in LeaseOps /\ leases' = Mutated(r)
      BY <1>2, <2>1, <2>4, ReleaseIdIs, ZenonT(30) DEF LeaseOps
    <3>2. UpdateLease \notin leases'
      BY <1>0, <2>1, <2>4, <3>1, MutatedIs, Zenon
    <3>3. ~Asked(backlog)
      BY <2>1, <2>4, QueueTail, <1>0 DEF Asked, DrainTypes
    <3>4. ~Asked(backlog')
      BY <1>0, <3>3, TailLane, Zenon
    <3> QED
      BY <3>2, <3>4, Zenon DEF NoLane
  <2>5. update.at # "none" /\ update.at \notin {"clear", "over"}
    BY <2>1
  <2> QED
    BY <1>4, <1>5, <2>1, <2>2, <2>3, <2>4, <2>5, Zenon DEF LaneInv
<1> QED
  BY <1>4, <1>6, <1>7

-----------------------------------------------------------------------------
(* The update of the scheduler host. *)

\* A step of the update that sends nothing.
LEMMA UpdateLane ==
  ASSUME DrainTypes, LaneInv, UNCHANGED <<drain, leases, backlog, pass, cli>>, commands' \in Nat,
         update' \in Updates, update'.reply = "none",
         \A i \in DOMAIN backlog : backlog[i].from # "update",
         update'.at \notin {"none", "lane", "release"},
         update'.at \notin {"over", "dead"} /\ ~update'.lane =>
           update.at \notin {"over", "dead"} /\ ~update.lane,
         update'.at \in {"clear", "over"} => update'.unreleased \/ NoLane
  PROVE  DrainTypes' /\ LaneInv'
<1>1. DrainTypes'
  BY Zenon DEF DrainTypes
<1>2. NoLane' <=> NoLane
  BY Zenon DEF NoLane
<1>3. Awaited(backlog)'
  BY Zenon DEF Awaited
<1> QED
  BY <1>1, <1>2, <1>3, Zenon DEF LaneInv

\* The update is not waited for where it has its answer, or asked for nothing.
LEMMA NotWaiting ==
  ASSUME LaneInv, update.reply # "none" \/ update.at \notin {"lane", "release"}
  PROVE  /\ \A i \in DOMAIN backlog : backlog[i].from # "update"
         /\ update.at \notin {"lane", "release"} => update.reply = "none"
BY Zenon DEF LaneInv, Awaited

\* The first steps, of which the first may ask for the lane.
LEMMA UpdateStartsKeeps ==
  ASSUME DrainTypes, LaneInv, UpdateStarts
  PROVE  DrainTypes' /\ LaneInv'
<1>0. /\ UNCHANGED <<drain, leases, pass, cli>> /\ update.at = "none" /\ commands' \in Nat
      /\ update = NoUpdate /\ ~update.lane /\ NoLane
  <2>1. /\ UNCHANGED <<drain, leases, pass, cli>> /\ update.at = "none"
        /\ commands' = commands + 1
    BY Zenon DEF UpdateStarts
  <2>2. update = NoUpdate /\ update.lane = FALSE
    BY <2>1 DEF LaneInv, NoUpdate
  <2>3. commands' \in Nat
    BY <2>1 DEF DrainTypes
  <2> QED
    BY <2>1, <2>2, <2>3, Zenon DEF LaneInv
<1>1. \A i \in DOMAIN backlog : backlog[i].from # "update"
  BY <1>0, NotWaiting
<1>2. CASE /\ update' = [NoUpdate EXCEPT !.at = "lane", !.lane = TRUE]
           /\ Sent("update", Acquire(UpdateLease))
  <2> DEFINE e == [from |-> "update", request |-> Acquire(UpdateLease)]
  <2>1. e \in Envelopes
    <3>1. UpdateLease \in LeaseClaims
      BY DrainAssumption DEF DrainAssumption, UpdateLease, Lease, LeaseClaims, LeaseIds, Owners
    <3>2. Acquire(UpdateLease) \in Requests
      BY <3>1, MakeRequest, Zenon
    <3> QED
      BY <3>2 DEF Envelopes, Callers
  <2>2. backlog' = Append(backlog, e)
    BY <1>2, Zenon DEF Sent
  <2> HIDE DEF e
  <2>3. /\ backlog' \in Seq(Envelopes)
        /\ \A i \in DOMAIN backlog' :
             (i \in DOMAIN backlog /\ backlog'[i] = backlog[i]) \/ i = Len(backlog) + 1
    BY <2>1, <2>2, QueueAppend DEF DrainTypes
  <2>4. /\ update' \in Updates /\ update'.at = "lane" /\ update'.lane = TRUE
        /\ update'.reply = "none"
    BY <1>2, Zenon DEF NoUpdate, Updates, Replies
  <2>5. Awaited(backlog)'
    BY <1>1, <2>3, <2>4, Zenon DEF Awaited
  <2> QED
    BY <1>0, <2>3, <2>4, <2>5, Zenon DEF LaneInv, DrainTypes
<1>3. CASE /\ \/ update' = [NoUpdate EXCEPT !.at = "census"]
              \/ update' = [NoUpdate EXCEPT !.at = "stage"]
           /\ UNCHANGED backlog
  <2>1. /\ update' \in Updates /\ update'.at \in {"census", "stage"}
        /\ update'.reply = "none"
    BY <1>3, Zenon DEF NoUpdate, Updates, Replies
  <2> QED
    BY <1>0, <1>1, <1>3, <2>1, UpdateLane, Zenon
<1> QED
  BY <1>2, <1>3, Zenon DEF UpdateStarts

\* The steps up to the finally block.
LEMMA UpdateStepsKeep ==
  ASSUME DrainTypes, LaneInv,
         UpdateHasLane \/ UpdateCounts \/ UpdateStages \/ UpdateRuns \/ UpdateReleased \/ UpdateEnds
  PROVE  DrainTypes' /\ LaneInv'
<1> USE DEF UpdateUnchanged
<1>0. /\ UNCHANGED <<drain, leases, backlog, pass, cli>> /\ commands' \in Nat
      /\ update \in Updates
  BY Zenon DEF UpdateHasLane, UpdateCounts, UpdateStages, UpdateRuns, UpdateReleased, UpdateEnds,
               DrainTypes
<1>1. CASE UpdateHasLane
  <2> DEFINE a == IF update.reply = "error" THEN "end" ELSE "census"
             f == update.reply = "error"
  <2>1. update.at = "lane" /\ update.reply # "none"
    BY <1>1, Zenon DEF UpdateHasLane
  <2>2. /\ update' \in Updates /\ update'.at \in {"end", "census"} /\ update'.reply = "none"
        /\ update'.lane = update.lane
    BY <1>0, <1>1, Zenon DEF UpdateHasLane, Updates, Replies
  <2> QED
    BY <1>0, <2>1, <2>2, NotWaiting, UpdateLane, Zenon
<1>2. CASE UpdateCounts
  <2>1. update.at = "census" /\ update.reply = "none"
    BY <1>2, NotWaiting, Zenon DEF UpdateCounts
  <2>2. /\ update' \in Updates /\ update'.at \in {"end", "stage"} /\ update'.reply = "none"
        /\ update'.lane = update.lane
    BY <1>0, <1>2, <2>1, Zenon DEF UpdateCounts, Updates
  <2> QED
    BY <1>0, <2>1, <2>2, NotWaiting, UpdateLane, Zenon
<1>3. CASE UpdateStages
  <2>1. update.at = "stage" /\ update.reply = "none"
    BY <1>3, NotWaiting, Zenon DEF UpdateStages
  <2>2. /\ update' \in Updates /\ update'.at \in {"end", "command"} /\ update'.reply = "none"
        /\ update'.lane = update.lane
    BY <1>0, <1>3, <2>1, Zenon DEF UpdateStages, Updates
  <2> QED
    BY <1>0, <2>1, <2>2, NotWaiting, UpdateLane, Zenon
<1>4. CASE UpdateRuns
  <2>1. update.at = "command" /\ update.reply = "none"
    BY <1>4, NotWaiting, Zenon DEF UpdateRuns
  <2>2. /\ update' \in Updates /\ update'.at = "end" /\ update'.reply = "none"
        /\ update'.lane = update.lane
    BY <1>0, <1>4, <2>1, Zenon DEF UpdateRuns, Updates
  <2> QED
    BY <1>0, <2>1, <2>2, NotWaiting, UpdateLane, Zenon
<1>5. CASE UpdateReleased
  <2>1. update.at = "release" /\ update.reply # "none"
    BY <1>5, Zenon DEF UpdateReleased
  <2>2. /\ update' \in Updates /\ update'.at = "clear" /\ update'.reply = "none"
        /\ update'.lane = update.lane
        /\ update'.unreleased = (update.reply = "error")
    BY <1>0, <1>5, Zenon DEF UpdateReleased, Updates, Replies
  <2>3. update'.unreleased \/ NoLane
    BY <1>0, <2>1, <2>2, Zenon DEF LaneInv, Updates, Replies
  <2> QED
    BY <1>0, <2>1, <2>2, <2>3, NotWaiting, UpdateLane, Zenon
<1>6. CASE UpdateEnds
  <2>1. update.at = "clear" /\ update.reply = "none"
    BY <1>6, NotWaiting, Zenon DEF UpdateEnds
  <2>2. /\ update' \in Updates /\ update'.at = "over" /\ update'.reply = "none"
        /\ update'.unreleased = update.unreleased
    BY <1>0, <1>6, Zenon DEF UpdateEnds, Updates, NoUpdate, Replies
  <2>3. update'.unreleased \/ NoLane
    BY <2>1, <2>2, Zenon DEF LaneInv
  <2> QED
    BY <1>0, <2>1, <2>2, <2>3, NotWaiting, UpdateLane, Zenon
<1> QED
  BY <1>1, <1>2, <1>3, <1>4, <1>5, <1>6

\* The release joins the backlog behind every request for the lane.
LEMMA UpdateReleasesKeeps ==
  ASSUME DrainTypes, LaneInv, UpdateReleases
  PROVE  DrainTypes' /\ LaneInv'
<1> USE DEF UpdateUnchanged
<1>0. /\ UNCHANGED <<drain, leases, pass, cli>> /\ commands' \in Nat /\ update \in Updates
      /\ update.at = "end"
  BY Zenon DEF UpdateReleases, DrainTypes
<1>1. update.reply = "none" /\ \A i \in DOMAIN backlog : backlog[i].from # "update"
  BY <1>0, NotWaiting
<1>2. CASE ~update.lane
  <2>1. backlog' = backlog /\ update' = [update EXCEPT !.at = "clear"]
    BY <1>2, Zenon DEF UpdateReleases
  <2>2. /\ update' \in Updates /\ update'.at = "clear" /\ update'.reply = "none"
        /\ update'.lane = update.lane
    BY <1>0, <1>1, <2>1 DEF Updates
  <2>3. NoLane
    BY <1>0, <1>2 DEF LaneInv
  <2> QED
    BY <1>0, <1>1, <1>2, <2>1, <2>2, <2>3, UpdateLane, Zenon
<1>3. CASE update.lane
  <2> DEFINE e == [from |-> "update", request |-> ReleaseId(UpdateLease.id)]
  <2>1. e \in Envelopes /\ e.from = "update" /\ e.request = ReleaseId(UpdateLease.id)
    <3>1. UpdateLease.id \in LeaseIds
      BY DrainAssumption DEF DrainAssumption, UpdateLease, Lease, LeaseIds
    <3>2. ReleaseId(UpdateLease.id) \in Requests
      BY <3>1, MakeRequest, Zenon
    <3> QED
      BY <3>2 DEF Envelopes, Callers
  <2>2. backlog' = Append(backlog, e) /\ update' = [update EXCEPT !.at = "release"]
    BY <1>3, Zenon DEF UpdateReleases, Sent
  <2> HIDE DEF e
  <2>3. /\ backlog' \in Seq(Envelopes) /\ Len(backlog) \in Nat
        /\ backlog'[Len(backlog) + 1] = e
        /\ \A i \in DOMAIN backlog' :
             \/ i \in DOMAIN backlog /\ i \in Nat /\ ~(Len(backlog) + 1 <= i) /\ backlog'[i] = backlog[i]
             \/ i = Len(backlog) + 1
    BY <2>1, <2>2, QueueAppend DEF DrainTypes
  <2>4. /\ update' \in Updates /\ update'.at = "release" /\ update'.reply = "none"
        /\ update'.lane = update.lane
    BY <1>0, <1>1, <2>2 DEF Updates
  <2>5. ReleaseId(UpdateLease.id) # Acquire(UpdateLease)
    BY OtherRequests, Zenon
  <2>6. Awaited(backlog)'
    <3> DEFINE last == Len(backlog) + 1
    <3> HIDE DEF last
    <3>1. /\ backlog'[last] = e
          /\ \A i \in DOMAIN backlog' :
               \/ i \in DOMAIN backlog /\ ~(last <= i) /\ backlog'[i] = backlog[i]
               \/ i = last
      BY <2>3, Zenon DEF last
    <3> QED
      BY <1>1, <2>1, <2>4, <2>5, <3>1, Zenon DEF Awaited
  <2>7. update'.at \notin {"over", "dead"} /\ ~update'.lane => NoLane'
    BY <1>3, <2>4, Zenon
  <2> QED
    BY <1>0, <2>3, <2>4, <2>6, <2>7, Zenon DEF LaneInv, DrainTypes
<1> QED
  BY <1>2, <1>3

-----------------------------------------------------------------------------
(* Faults. *)

\* Requests that nobody waits for any more are still handled.
LEMMA AbandonedIs ==
  ASSUME DrainTypes, NEW ps, ps \subseteq Callers, backlog' = Abandoned(backlog, ps)
  PROVE  /\ backlog' \in Seq(Envelopes) /\ DOMAIN backlog' = DOMAIN backlog
         /\ \A i \in DOMAIN backlog :
              /\ backlog'[i].request = backlog[i].request
              /\ backlog'[i].from = IF backlog[i].from \in ps THEN Gone ELSE backlog[i].from
<1>1. backlog \in Seq(Envelopes) /\ DOMAIN backlog = 1 .. Len(backlog) /\ Len(backlog) \in Nat
  BY DEF DrainTypes
<1>2. ASSUME NEW i \in DOMAIN backlog
      PROVE  /\ backlog[i] \in Envelopes
             /\ [backlog[i] EXCEPT !.from = Gone] \in Envelopes
             /\ [backlog[i] EXCEPT !.from = Gone].request = backlog[i].request
             /\ [backlog[i] EXCEPT !.from = Gone].from = Gone
  <2>1. backlog[i] \in Envelopes
    BY <1>1, <1>2
  <2>2. Gone \in Callers \cup {Gone}
    BY Zenon
  <2> HIDE DEF Gone
  <2> QED
    BY <2>1, <2>2 DEF Envelopes
<1>3. /\ DOMAIN backlog' = DOMAIN backlog
      /\ \A i \in DOMAIN backlog :
           backlog'[i] = IF backlog[i].from \in ps THEN [backlog[i] EXCEPT !.from = Gone]
                         ELSE backlog[i]
  BY Zenon DEF Abandoned
<1>4. backlog' = [i \in 1 .. Len(backlog) |-> backlog'[i]]
  BY <1>1, Zenon DEF Abandoned
<1>5. backlog' \in [1 .. Len(backlog) -> Envelopes]
  BY <1>1, <1>2, <1>3, <1>4, Zenon
<1>6. backlog' \in Seq(Envelopes)
  BY <1>1, <1>5
<1> QED
  BY <1>2, <1>3, <1>6, Zenon

LEMMA GivesUpKeeps ==
  ASSUME DrainTypes, LaneInv, NEW p \in Callers, GivesUp(p)
  PROVE  DrainTypes' /\ LaneInv'
<1>0. /\ UNCHANGED <<drain, leases, pass, commands>> /\ Waiting(p)
      /\ backlog' = Abandoned(backlog, {p}) /\ Answer(p, "error")
  BY Zenon DEF GivesUp
<1>1. /\ backlog' \in Seq(Envelopes) /\ DOMAIN backlog' = DOMAIN backlog
      /\ \A i \in DOMAIN backlog :
           /\ backlog'[i].request = backlog[i].request
           /\ backlog'[i].from = IF backlog[i].from = p THEN Gone ELSE backlog[i].from
  <2>1. {p} \subseteq Callers /\ \A q : q \in {p} <=> q = p
    BY Zenon
  <2> QED
    BY <1>0, <2>1, AbandonedIs, Zenon
<1>2. /\ cli' \in [Operators -> Commands] /\ update' \in Updates
      /\ p # "update" => update' = update
      /\ p = "update" => update' = [update EXCEPT !.reply = "error"]
  BY <1>0, AnswerIs, Zenon DEF Replies
<1>3. DrainTypes'
  BY <1>0, <1>1, <1>2, Zenon DEF DrainTypes
<1>4. NoLane' <=> NoLane
  BY <1>0, <1>1, Zenon DEF NoLane, Asked
<1>5. Gone # "update"
  BY DEF Gone
<1>6. CASE p # "update"
  <2>1. Awaited(backlog)'
    BY <1>1, <1>2, <1>5, <1>6, Zenon DEF Awaited, LaneInv
  <2> QED
    BY <1>2, <1>3, <1>4, <1>6, <2>1, Zenon DEF LaneInv
<1>7. CASE p = "update"
  <2>1. \A i \in DOMAIN backlog' : backlog'[i].from # "update"
    BY <1>1, <1>5, <1>7, Zenon
  <2>2. update.at \in {"lane", "release"}
    <3>1. PICK i \in 1 .. Len(backlog) : backlog[i].from = "update"
      BY <1>0, <1>7, Zenon DEF Waiting
    <3>2. i \in DOMAIN backlog
      BY DEF DrainTypes
    <3> QED
      BY <3>1, <3>2, Zenon DEF LaneInv, Awaited
  <2>3. /\ update'.at = update.at /\ update'.lane = update.lane
        /\ update'.unreleased = update.unreleased /\ update'.reply = "error"
    BY <1>2, <1>7 DEF DrainTypes, Updates
  <2>4. Awaited(backlog)'
    BY <2>1, Zenon DEF Awaited
  <2> QED
    BY <1>3, <1>4, <2>2, <2>3, <2>4, Zenon DEF LaneInv
<1> QED
  BY <1>6, <1>7

LEMMA RestartsKeep ==
  ASSUME DrainTypes, LaneInv, Restarts
  PROVE  DrainTypes' /\ LaneInv'
<1>0. /\ UNCHANGED <<drain, leases, commands>> /\ backlog' = <<>> /\ pass' = IdlePass
      /\ cli' = [p \in Operators |-> IF Waiting(p) THEN [cli[p] EXCEPT !.reply = "error"]
                                     ELSE cli[p]]
      /\ update' = IF Waiting("update") THEN [update EXCEPT !.reply = "error"] ELSE update
  BY Zenon DEF Restarts
<1>1. cli' \in [Operators -> Commands]
  <2>1. ASSUME NEW p \in Operators
        PROVE  cli[p] \in Commands /\ [cli[p] EXCEPT !.reply = "error"] \in Commands
    BY ZenonT(30) DEF DrainTypes, Commands, Replies
  <2> QED
    BY <1>0, <2>1, Zenon
<1>2. pass' \in Passes
  BY <1>0 DEF IdlePass, Passes, NoDrain, DrainStates
<1>3. backlog' \in Seq(Envelopes) /\ DOMAIN backlog' = {}
  BY <1>0
<1>4. Awaited(backlog)' /\ ~Asked(backlog')
  BY <1>3, Zenon DEF Awaited, Asked
<1>5. NoLane => NoLane'
  BY <1>0, <1>4, Zenon DEF NoLane
<1>6. CASE ~Waiting("update")
  <2>1. update' = update
    BY <1>0, <1>6, Zenon
  <2> QED
    BY <1>0, <1>1, <1>2, <1>3, <1>4, <1>5, <2>1, Zenon DEF LaneInv, DrainTypes
<1>7. CASE Waiting("update")
  <2>1. update.at \in {"lane", "release"}
    <3>1. PICK i \in 1 .. Len(backlog) : backlog[i].from = "update"
      BY <1>7, Zenon DEF Waiting
    <3>2. i \in DOMAIN backlog
      BY DEF DrainTypes
    <3> QED
      BY <3>1, <3>2, Zenon DEF LaneInv, Awaited
  <2>2. /\ update' \in Updates /\ update'.at = update.at /\ update'.lane = update.lane
        /\ update'.unreleased = update.unreleased /\ update'.reply = "error"
    BY <1>0, <1>7 DEF DrainTypes, Updates, Replies
  <2> QED
    BY <1>0, <1>1, <1>2, <1>3, <1>4, <1>5, <2>1, <2>2, Zenon DEF LaneInv, DrainTypes
<1> QED
  BY <1>6, <1>7

LEMMA UpdateDiesKeeps ==
  ASSUME DrainTypes, LaneInv, UpdateDies
  PROVE  DrainTypes' /\ LaneInv'
<1>0. /\ UNCHANGED <<drain, leases, pass, cli, commands>>
      /\ backlog' = Abandoned(backlog, {"update"}) /\ update' = [NoUpdate EXCEPT !.at = "dead"]
  BY Zenon DEF UpdateDies
<1>1. /\ backlog' \in Seq(Envelopes) /\ DOMAIN backlog' = DOMAIN backlog
      /\ \A i \in DOMAIN backlog :
           backlog'[i].from = IF backlog[i].from = "update" THEN Gone ELSE backlog[i].from
  <2>1. {"update"} \subseteq Callers /\ \A q : q \in {"update"} <=> q = "update"
    BY Zenon DEF Callers
  <2> QED
    BY <1>0, <2>1, AbandonedIs, Zenon
<1>2. \A i \in DOMAIN backlog' : backlog'[i].from # "update"
  BY <1>1 DEF Gone
<1>3. update' \in Updates /\ update'.at = "dead" /\ update'.reply = "none"
  BY <1>0, Zenon DEF NoUpdate, Updates, Replies
<1> QED
  BY <1>0, <1>1, <1>2, <1>3, Zenon DEF LaneInv, Awaited, DrainTypes

-----------------------------------------------------------------------------
(* The dispatch pass. *)

\* The history of what was held, in one step.
Covering ==
    /\ \A t \in cover'.drain : t \in Targets \cup cover.drain /\ HeldByDrain(t)'
    /\ \A t \in cover'.lease : t \in Targets \cup cover.drain \cup cover.lease /\ HeldByLease(t)'
    /\ pass.at # "idle" => /\ cover'.drain \subseteq cover.drain
                           /\ cover'.lease \subseteq cover.drain \cup cover.lease

LEMMA NextCovers == ASSUME DrainNext PROVE Covering
<1> DEFINE over(s) == IF pass.at = "idle" THEN Targets ELSE s
<1>1. CASE pass'.at = "idle"
  <2>1. cover' = NoCover
    BY <1>1, Zenon DEF DrainNext
  <2>2. cover'.drain = {} /\ cover'.lease = {}
    BY <2>1, Zenon DEF NoCover
  <2> QED
    BY <2>2, Zenon DEF Covering
<1>2. CASE pass'.at # "idle"
  <2>1. cover' = [any   |-> {t \in over(cover.any) : TargetHeld(t)'},
                  drain |-> {t \in over(cover.drain) : HeldByDrain(t)'},
                  lease |-> {t \in over(cover.drain \cup cover.lease) : HeldByLease(t)'}]
    BY <1>2, Zenon DEF DrainNext
  <2>2. /\ cover'.drain = {t \in over(cover.drain) : HeldByDrain(t)'}
        /\ cover'.lease = {t \in over(cover.drain \cup cover.lease) : HeldByLease(t)'}
    BY <2>1, Zenon
  <2> QED
    BY <2>2, Zenon DEF Covering
<1> QED
  BY <1>1, <1>2

\* The pass does nothing, or ends, or starts.
LEMMA SameCover ==
  ASSUME CoverInv, Covering, pass' = pass \/ pass'.at \in {"idle", "drain"}
  PROVE  CoverInv'
<1>1. CASE pass'.at \in {"idle", "drain"}
  BY <1>1, Zenon DEF CoverInv, Covering
<1>2. CASE pass' = pass
  BY <1>2, Zenon DEF CoverInv, Covering
<1> QED
  BY <1>1, <1>2

\* What the pass reads: drain.json first, the leases then.
LEMMA PassKeeps ==
  ASSUME DrainTypes, CoverInv, Covering,
         PassStarts \/ PassReadsDrain \/ PassReadsLeases \/ PassEnds
  PROVE  DrainTypes' /\ CoverInv' /\ UNCHANGED <<backlog, leases, update>>
<1>0. /\ UNCHANGED <<leases, backlog, cli, update, commands>>
      /\ pass \in Passes /\ NoDrain \in DrainStates
  <2>1. NoDrain \in DrainStates
    BY DEF NoDrain, DrainStates
  <2> QED
    BY <2>1, Zenon DEF PassStarts, PassReadsDrain, PassReadsLeases, PassEnds, DrainTypes
<1>1. IdlePass \in Passes /\ IdlePass.at = "idle"
  BY <1>0 DEF IdlePass, Passes
<1>2. CASE PassStarts
  <2>1. pass' \in Passes /\ pass'.at = "drain"
    BY <1>1, <1>2, DrainAssumption, Zenon DEF PassStarts, Passes, Targets, DrainAssumption
  <2> QED
    BY <1>0, <1>2, <2>1, SameCover, Zenon DEF PassStarts, DrainTypes
<1>3. CASE PassReadsDrain
  <2>1. drain' = Expired(drain) /\ drain' \in DrainStates /\ Expired(drain') = drain'
    BY <1>3, ExpiredIs, Zenon DEF PassReadsDrain, DrainTypes
  <2>2. pass' \in Passes /\ pass'.at = "leases" /\ pass'.drain = drain'
    BY <1>0, <1>3, <2>1, Zenon DEF PassReadsDrain, Passes
  <2>3. \A t \in cover'.drain : HeldBy(pass'.drain, t)
    BY <2>1, <2>2, Zenon DEF Covering, HeldByDrain
  <2> QED
    BY <1>0, <2>1, <2>2, <2>3, Zenon DEF DrainTypes, CoverInv, Covering
<1>4. CASE PassReadsLeases
  <2> DEFINE e == Composed(pass.drain, leases)
             h == {t \in Targets : HeldBy(e, t)}
             p == [pass EXCEPT !.at = "dispatch", !.drain = NoDrain, !.held = @ \cup h]
  <2>1. /\ e \in DrainStates
        /\ \A t : HeldBy(pass.drain, t) => HeldBy(e, t)
        /\ \A l \in leases : HeldBy(e, l.host)
    <3>1. pass.drain \in DrainStates
      BY <1>0 DEF Passes
    <3> QED
      BY <3>1, ComposedIs, Zenon DEF DrainTypes
  <2>2. /\ pass.at = "leases" /\ drain' = drain
        /\ pass' = IdlePass \/ pass' = p
    BY <1>4, Zenon DEF PassReadsLeases
  <2>0. h \subseteq Targets /\ \A t \in Targets : HeldBy(e, t) => t \in h
    BY Zenon
  <2> HIDE DEF e, h
  <2>3. CASE pass' = IdlePass
    BY <1>0, <1>1, <2>2, <2>3, SameCover, Zenon DEF DrainTypes
  <2>4. CASE pass' = p
    <3>1. pass' \in Passes /\ pass'.at = "dispatch" /\ h \subseteq pass'.held
      BY <1>0, <2>4, <2>0, Zenon DEF Passes
    <3>0. cover'.drain \cup cover'.lease \subseteq Targets
      BY Zenon DEF Covering, CoverInv
    <3>2. ASSUME NEW t \in cover'.drain PROVE HeldBy(e, t)
      BY <2>1, <2>2, <3>2, Zenon DEF Covering, CoverInv
    <3>3. ASSUME NEW t \in cover'.lease PROVE HeldBy(e, t)
      <4>1. PICK l \in leases : l.host = t
        BY <1>0, <3>3, Zenon DEF Covering, HeldByLease
      <4> QED
        BY <2>1, <4>1, Zenon
    <3> QED
      BY <1>0, <2>2, <2>0, <3>0, <3>1, <3>2, <3>3, Zenon DEF DrainTypes, CoverInv, Covering
  <2> QED
    BY <2>2, <2>3, <2>4
<1>5. CASE PassEnds
  BY <1>0, <1>1, <1>5, SameCover, Zenon DEF PassEnds, DrainTypes
<1> QED
  BY <1>2, <1>3, <1>4, <1>5

-----------------------------------------------------------------------------

\* Only a claim and an end change a job.
JobTypes == job \in [Jobs -> {"pending", "claimed", "ended"}]

LEMMA JobSteps ==
  ASSUME Step
  PROVE  UNCHANGED job \/ \E j \in Jobs : PassClaims(j) \/ JobEnds(j)
<1>1. CASE \/ Handle \/ PassStarts \/ PassReadsDrain \/ PassReadsLeases \/ PassEnds
           \/ ReapMarker \/ Ripens \/ (\E p \in Callers : GivesUp(p))
           \/ Restarts \/ Breaks \/ UpdateDies
  BY <1>1, Zenon DEF Handle, PassStarts, PassReadsDrain, PassReadsLeases, PassEnds, ReapMarker,
                     Ripens, GivesUp, Restarts, Breaks, UpdateDies
<1>2. CASE \E p \in Operators :
             \/ Begin(p) \/ CliReads(p) \/ CliWrites(p) \/ CliWritten(p)
             \/ CliAcquires(p) \/ CliAcquired(p) \/ CliRollsBack(p) \/ CliRolledBack(p)
             \/ CliReleases(p) \/ CliReleased(p) \/ CliUnlaned(p)
  BY <1>2, ZenonT(30) DEF Begin, CliReads, CliWrites, CliWritten, CliAcquires, CliAcquired,
                     CliRollsBack, CliRolledBack, CliReleases, CliReleased, CliUnlaned, CliUnchanged
<1>3. CASE \/ UpdateStarts \/ UpdateHasLane \/ UpdateCounts \/ UpdateStages \/ UpdateRuns
           \/ UpdateReleases \/ UpdateReleased \/ UpdateEnds
  BY <1>3, Zenon DEF UpdateStarts, UpdateHasLane, UpdateCounts, UpdateStages, UpdateRuns,
                     UpdateReleases, UpdateReleased, UpdateEnds, UpdateUnchanged
<1> QED
  BY <1>1, <1>2, <1>3, Zenon DEF Step

LEMMA JobsHold == DrainSpec => []JobTypes
<1>1. DrainInit => JobTypes
  BY Zenon DEF DrainInit, JobTypes
<1>2. JobTypes /\ [DrainNext]_dvars => JobTypes'
  BY JobSteps, Zenon DEF JobTypes, DrainNext, dvars, PassClaims, JobEnds
<1> QED
  BY <1>1, <1>2, PTL DEF DrainSpec

LEMMA DrainStarts == DrainInit => DrainInv
<1> SUFFICES ASSUME DrainInit PROVE DrainInv
  OBVIOUS
<1>1. drain \in DrainStates
  <2>1. Updated \in Hosts
    BY DrainAssumption, Zenon DEF DrainAssumption
  <2>2. /\ NoDrain \in DrainStates
        /\ [NoDrain EXCEPT !.set = TRUE] \in DrainStates
        /\ [NoDrain EXCEPT !.set = TRUE, !.hosts = {Updated}] \in DrainStates
    BY <2>1, Zenon DEF NoDrain, DrainStates
  <2> QED
    BY <2>2, Zenon DEF DrainInit
<1>2. pass \in Passes /\ pass.at = "idle"
  BY DEF DrainInit, IdlePass, Passes, NoDrain, DrainStates
<1>3. cli \in [Operators -> Commands]
  BY NoCommandIs, Zenon DEF DrainInit
<1>4. update \in Updates /\ update.at = "none" /\ update.reply = "none" /\ update = NoUpdate
  BY DEF DrainInit, NoUpdate, Updates, Replies
<1>5. backlog \in Seq(Envelopes) /\ DOMAIN backlog = {} /\ leases = {} /\ commands \in Nat
  BY DEF DrainInit
<1>6. DrainTypes
  BY <1>1, <1>2, <1>3, <1>4, <1>5, Zenon DEF DrainTypes
<1>7. cover.drain = {} /\ cover.lease = {}
  BY DEF DrainInit, NoCover
<1>8. CoverInv
  BY <1>2, <1>7 DEF CoverInv
<1>9. LaneInv
  BY <1>4, <1>5, Zenon DEF LaneInv, NoLane, Awaited, Asked
<1> QED
  BY <1>6, <1>8, <1>9, Zenon DEF DrainInv

\* What is left: jobs, the marker, the clock and the lease store.
LEMMA AsideKeeps ==
  ASSUME DrainTypes, LaneInv,
         \/ \E j \in Jobs : PassClaims(j) \/ JobEnds(j)
         \/ ReapMarker \/ Ripens \/ Breaks
  PROVE  DrainTypes' /\ LaneInv' /\ pass' = pass
<1>1. /\ UNCHANGED <<leases, backlog, pass, cli, update, commands>>
      /\ drain' = drain \/ drain' = [drain EXCEPT !.ripe = TRUE]
  BY Zenon DEF PassClaims, JobEnds, ReapMarker, Ripens, Breaks
<1>2. drain' \in DrainStates
  BY <1>1, ZenonT(30) DEF DrainTypes, DrainStates
<1> QED
  BY <1>1, <1>2, SameLane, Zenon DEF DrainTypes

LEMMA DrainStep == DrainInv /\ [DrainNext]_dvars => DrainInv'
<1> SUFFICES ASSUME DrainInv, [DrainNext]_dvars PROVE DrainInv'
  OBVIOUS
<1>0. DrainTypes /\ CoverInv /\ LaneInv
  BY Zenon DEF DrainInv
<1>1. CASE UNCHANGED dvars
  <2>1. LaneInv'
    BY <1>0, <1>1, SameLane, Zenon DEF dvars
  <2> QED
    BY <1>0, <1>1, <2>1, Zenon
       DEF dvars, DrainInv, DrainTypes, CoverInv, HeldByDrain, HeldByLease
<1>2. CASE DrainNext
  <2>0. Covering
    BY <1>2, NextCovers, Zenon
  <2>1. CASE Handle
    <3>1. pass' = pass
      BY <2>1, Zenon DEF Handle
    <3> QED
      BY <1>0, <2>0, <2>1, <3>1, HandleKeeps, SameCover, Zenon DEF DrainInv
  <2>2. CASE PassStarts \/ PassReadsDrain \/ PassReadsLeases \/ PassEnds
    BY <1>0, <2>0, <2>2, PassKeeps, SameLane, Zenon DEF DrainInv
  <2>3. CASE \/ \E j \in Jobs : PassClaims(j) \/ JobEnds(j)
             \/ ReapMarker \/ Ripens \/ Breaks
    BY <1>0, <2>0, <2>3, AsideKeeps, SameCover, Zenon DEF DrainInv
  <2>4. ASSUME NEW p \in Operators,
               \/ Begin(p) \/ CliReads(p) \/ CliWrites(p) \/ CliWritten(p)
               \/ CliAcquires(p) \/ CliAcquired(p) \/ CliRollsBack(p) \/ CliRolledBack(p)
               \/ CliReleases(p) \/ CliReleased(p) \/ CliUnlaned(p)
        PROVE  DrainInv'
    <3>1. Operated(p)
      BY <1>0, <2>4, OperatorDrains, OperatorAcquires, OperatorReleases, Zenon
    <3>2. p \in Callers /\ p # "update"
      BY DrainAssumption, Zenon DEF DrainAssumption, Callers
    <3>3. LaneInv'
      BY <1>0, <3>1, <3>2, SendsLane, SameLane, ZenonT(30) DEF Operated
    <3> QED
      BY <1>0, <2>0, <3>1, <3>3, SameCover, Zenon DEF Operated, DrainInv
  <2>5. CASE UpdateStarts
    <3>1. pass' = pass
      BY <2>5, Zenon DEF UpdateStarts
    <3> QED
      BY <1>0, <2>0, <2>5, <3>1, UpdateStartsKeeps, SameCover, Zenon DEF DrainInv
  <2>6. CASE UpdateHasLane \/ UpdateCounts \/ UpdateStages \/ UpdateRuns \/ UpdateReleased
               \/ UpdateEnds
    <3>1. pass' = pass
      BY <2>6, Zenon DEF UpdateHasLane, UpdateCounts, UpdateStages, UpdateRuns, UpdateReleased,
                         UpdateEnds, UpdateUnchanged
    <3> QED
      BY <1>0, <2>0, <2>6, <3>1, UpdateStepsKeep, SameCover, Zenon DEF DrainInv
  <2>7. CASE UpdateReleases
    <3>1. pass' = pass
      BY <2>7, Zenon DEF UpdateReleases, UpdateUnchanged
    <3> QED
      BY <1>0, <2>0, <2>7, <3>1, UpdateReleasesKeeps, SameCover, Zenon DEF DrainInv
  <2>8. ASSUME NEW p \in Callers, GivesUp(p) PROVE DrainInv'
    <3>1. pass' = pass
      BY <2>8, Zenon DEF GivesUp
    <3> QED
      BY <1>0, <2>0, <2>8, <3>1, GivesUpKeeps, SameCover, Zenon DEF DrainInv
  <2>9. CASE Restarts
    <3>1. pass'.at = "idle"
      BY <2>9 DEF Restarts, IdlePass
    <3> QED
      BY <1>0, <2>0, <2>9, <3>1, RestartsKeep, SameCover, Zenon DEF DrainInv
  <2>10. CASE UpdateDies
    <3>1. pass' = pass
      BY <2>10, Zenon DEF UpdateDies
    <3> QED
      BY <1>0, <2>0, <2>10, <3>1, UpdateDiesKeeps, SameCover, Zenon DEF DrainInv
  <2>11. Step
    BY <1>2, Zenon DEF DrainNext
  <2> QED
    BY <2>1, <2>2, <2>3, <2>4, <2>5, <2>6, <2>7, <2>8, <2>9, <2>10, <2>11, Zenon DEF Step
<1> QED
  BY <1>1, <1>2

LEMMA DrainHolds == DrainSpec => []DrainInv
<1> QED
  BY DrainStarts, DrainStep, PTL DEF DrainSpec

\* An update of a scheduler host that ends leaves no lane behind once the daemon
\* has caught up, or says so, also when it gave up on the request that took it.
THEOREM LanesAreReturned == DrainSpec => []NoLaneLeaks
<1>1. DrainInv => NoLaneLeaks
  BY Zenon DEF DrainInv, LaneInv, NoLane, NoLaneLeaks
<1> QED
  BY DrainHolds, <1>1, PTL

\* A dispatch pass sends no job to a target that was held since the pass began,
\* by drain.json, a lease, or one after the other.
THEOREM HeldTargetsGetNothing == DrainSpec => HeldGetsNothing
<1> DEFINE A == \A j \in Jobs : Claimed(j) => Target[j] \notin cover.drain \cup cover.lease
<1>1. DrainInv /\ JobTypes /\ [DrainNext]_dvars => [A]_dvars
  <2> SUFFICES ASSUME DrainInv, JobTypes, DrainNext, NEW j \in Jobs, Claimed(j)
               PROVE  Target[j] \notin cover.drain \cup cover.lease
    BY Zenon
  <2>1. job[j] = "pending" /\ job'[j] = "claimed"
    BY Zenon DEF Claimed
  <2>2. PICK i \in Jobs : PassClaims(i) \/ JobEnds(i)
    BY <2>1, JobSteps, SMTT(30) DEF DrainNext
  <2>3. i = j
    BY <2>1, <2>2, Zenon DEF PassClaims, JobEnds, JobTypes
  <2>4. PassClaims(j)
    BY <2>1, <2>2, <2>3, Zenon DEF JobEnds
  <2> QED
    BY <2>4, Zenon DEF PassClaims, DrainInv, CoverInv
<1> QED
  BY DrainHolds, JobsHold, <1>1, PTL DEF DrainSpec, HeldGetsNothing
=============================================================================
