-------------------------- MODULE MCLoginSessions --------------------------
(* Small instances of LoginSessions for TLC. *)
EXTENDS LoginSessions, TLC

(* Browsers are interchangeable, requests too: no definition tells them apart. *)
Symmetry == Permutations(Browser) \cup Permutations(Request)
=============================================================================
