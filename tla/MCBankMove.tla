----------------------------- MODULE MCBankMove ------------------------------
(* Small instances of BankMove. *)
EXTENDS BankMove, TLC

MonSymmetry == Permutations(Mons)

=============================================================================
