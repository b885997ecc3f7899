---------------------------- MODULE MCClientTCP -----------------------------
(***************************************************************************)
(* One connection, of either server; the others are Elsewhere.             *)
(***************************************************************************)
EXTENDS ClientTCP

CONSTANT conn

\* A bound: of the three other threads, two are at work at once.
TwoAtWork == Cardinality({t \in Others : thread[t].pc # "idle"}) <= 2
=============================================================================
