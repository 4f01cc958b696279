--------------------------- MODULE MCKeyedSubmit ---------------------------
(* Instances of KeyedSubmit for TLC. *)
EXTENDS KeyedSubmit, TLC

\* Ids, intents and clients are interchangeable.
Symmetry == Permutations(Ids) \cup Permutations(Intents) \cup Permutations(Clients)

=============================================================================
