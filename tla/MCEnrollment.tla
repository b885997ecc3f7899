---------------------------- MODULE MCEnrollment ----------------------------
(***************************************************************************)
(* Enrollment for TLC.  The devices are interchangeable, which a run of a  *)
(* liveness property may not use.                                          *)
(***************************************************************************)
EXTENDS Enrollment, TLC

Symmetry == Permutations(Devices)

BothServers == {"sensors", "alarms"}
SensorsOnly == {"sensors"}
=============================================================================
