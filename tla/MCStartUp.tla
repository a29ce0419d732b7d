------------------------------ MODULE MCStartUp ------------------------------
(***************************************************************************)
(* Model values for StartUp: two web containers, which one host's compose  *)
(* file does not give but two hosts on one database do, and one worker.    *)
(***************************************************************************)
EXTENDS StartUp
=============================================================================
