----------------------------- MODULE MCSaveFile -----------------------------
(***************************************************************************)
(* Small instances of SaveFile: two images, and a shelf of two backup      *)
(* names, so that a full shelf, a free name behind a taken one and a hole  *)
(* in front of one all occur.                                              *)
(***************************************************************************)
EXTENDS SaveFile, TLC

MCShelf == <<"bak", "bak1">>
ImageSymmetry == Permutations(Images)
=============================================================================
