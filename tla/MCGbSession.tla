---------------------------- MODULE MCGbSession ----------------------------
(* GbSession on a party of two, a sound box and a damaged one.              *)
EXTENDS GbSession, TLC
CONSTANTS m1, m2, m3
Alike   == Permutations(Mons)
RoomOf  == [b \in Boxes |-> IF b = Party THEN 2 ELSE 1]
=============================================================================
