----------------------------- MODULE MCGen3Slots -----------------------------
(* Small instances of Gen3Slots. *)
EXTENDS Gen3Slots
=============================================================================
