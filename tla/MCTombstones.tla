---------------------------- MODULE MCTombstones ----------------------------
(* Small instances of Tombstones for TLC. *)
EXTENDS Tombstones, TLC

Ids == Permutations(User) \cup Permutations(Account) \cup Permutations(Login)
         \cup Permutations(Web)
=============================================================================
