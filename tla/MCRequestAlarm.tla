--------------------------- MODULE MCRequestAlarm ---------------------------
(***************************************************************************)
(* RequestAlarm for TLC: a server without a file, a word of ten values.    *)
(***************************************************************************)
EXTENDS RequestAlarm

CONSTANTS c1, c2

NoFile == {<<>>}
Times == BASE .. MaxTime
=============================================================================
