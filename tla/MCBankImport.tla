---------------------------- MODULE MCBankImport ----------------------------
(* Small instances of BankImport for TLC. *)
EXTENDS BankImport, TLC

Symmetry == Permutations(Session)
=============================================================================
