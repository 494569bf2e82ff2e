----------------------------- MODULE MCBankMeta -----------------------------
(* Small instances of BankMeta: one rolling backup name, as the Bank has. *)
EXTENDS BankMeta, TLC

MCShelf == <<"bak">>

\* Which Pokemon is which makes no difference.
MonSymmetry == Permutations(Mons)
=============================================================================
