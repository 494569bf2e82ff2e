------------------------------ MODULE MCBankBox ------------------------------
(* Small instances of BankBox: one rolling backup name, as the Bank has.  *)
EXTENDS BankBox

MCShelf == <<"bak">>
=============================================================================
