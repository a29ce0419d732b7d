------------------------- MODULE MCProfilePictures -------------------------
(* Small instances of ProfilePictures for TLC. *)
EXTENDS ProfilePictures, TLC

(* Requests are interchangeable, and so are picture formats.                 *)
Symmetry == Permutations(Request) \cup Permutations(Ext)
=============================================================================
