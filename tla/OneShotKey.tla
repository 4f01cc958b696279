----------------------------- MODULE OneShotKey -----------------------------
(***************************************************************************)
(* What an idempotency key promises to whoever submits under it: the key   *)
(* names at most one job for ever, or is fenced for ever, and every answer *)
(* anybody is given about it agrees with that.                             *)
(*                                                                         *)
(* A job that was published but not claimed yet is "held".  The host may   *)
(* still withdraw it, and nobody has been told of it.                      *)
(***************************************************************************)
CONSTANTS Keys, Ids, NoId

VARIABLES
    key,      \* for each key, its phase and the job it names
    answers   \* the pairs <<key, job>> given out; <<key, NoId>> says "fenced"

vars == <<key, answers>>

Open == [phase |-> "open", job |-> NoId]
Fenced == [phase |-> "fenced", job |-> NoId]
Held(i) == [phase |-> "held", job |-> i]
Taken(i) == [phase |-> "taken", job |-> i]

Init ==
    /\ key = [k \in Keys |-> Open]
    /\ answers = {}

\* A job is published under an open key.
Publish(k, i) ==
    /\ key[k] = Open
    /\ \A other \in Keys : key[other].job # i
    /\ key' = [key EXCEPT ![k] = Held(i)]
    /\ UNCHANGED answers

\* The host takes an unclaimed job back.
Withdraw(k) ==
    /\ key[k].phase = "held"
    /\ key' = [key EXCEPT ![k] = Open]
    /\ UNCHANGED answers

\* The key is bound to its job, and the job may be named to a caller.
Take(k, told) ==
    /\ key[k].phase \in {"held", "taken"}
    /\ key' = [key EXCEPT ![k] = Taken(key[k].job)]
    /\ answers' = IF told THEN answers \cup {<<k, key[k].job>>} ELSE answers

\* The key is closed, or found closed, and the caller is told.
Fence(k) ==
    /\ key[k] \in {Open, Fenced}
    /\ key' = [key EXCEPT ![k] = Fenced]
    /\ answers' = answers \cup {<<k, NoId>>}

Next ==
    \E k \in Keys :
        \/ \E i \in Ids : Publish(k, i)
        \/ Withdraw(k)
        \/ \E told \in BOOLEAN : Take(k, told)
        \/ Fence(k)

Spec == Init /\ [][Next]_vars
=============================================================================
