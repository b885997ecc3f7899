---------------------------- MODULE MCServerTCP ----------------------------
(***************************************************************************)
(* ServerTCP for TLC.  Connections are interchangeable, which the runs     *)
(* that check safety only use (liveness checking does not allow it).       *)
(***************************************************************************)
EXTENDS ServerTCP, TLC

Symmetry == Permutations(Clients)
=============================================================================
