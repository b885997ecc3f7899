--------------------------- MODULE MCServerSensors --------------------------
(***************************************************************************)
(* ServerSensors for TLC.  The files a run starts from are sequences, which *)
(* a configuration cannot write: it names one of the definitions below.    *)
(***************************************************************************)
EXTENDS ServerSensors, TLC

Symmetry == Permutations(Clients)

NoFile == {<<>>}               \* the first start of the server
EitherFile == {<<>>, <<1>>}
SharedFile == {<<>>, <<1>>, <<1, 1>>}   \* or with a sensor and an alarm
=============================================================================
