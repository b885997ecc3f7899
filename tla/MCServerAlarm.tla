---------------------------- MODULE MCServerAlarm ---------------------------
(***************************************************************************)
(* ServerAlarm for TLC; its connections are interchangeable.               *)
(***************************************************************************)
EXTENDS ServerAlarm, TLC

Symmetry == Permutations(Clients)
=============================================================================
