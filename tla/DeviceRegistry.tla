--------------------------- MODULE DeviceRegistry ---------------------------
(***************************************************************************)
(* What enrolling devices amounts to, with no connection, no message, no   *)
(* file and no list in memory: a device without an identification stores   *)
(* one that is in no register, and the register of a stored identification *)
(* is added, once, or never will be.  Only an identification that did not  *)
(* get its register, or that the server forgot, is ever stored by a second *)
(* device, and a server that keeps its registers forgets none.  Enrollment *)
(* implements it.                                                          *)
(***************************************************************************)
EXTENDS Integers, SequencesExt

CONSTANT Devices

VARIABLES
    persistent,    \* whether the registers outlive the server; never changes
    stored,        \* the identification in each device
    enrolled,      \* the registers, in the order in which they were added
    lost           \* identifications that never got theirs or were forgotten

Init ==
    /\ persistent \in BOOLEAN
    /\ stored = [d \in Devices |-> -1]
    /\ enrolled = <<>>
    /\ lost = {}

Free(id) == id \in Nat \ {0} /\ id \notin Range(enrolled)

\* A device stores an identification ...
Store(d, id) ==
    /\ stored[d] <= 0
    /\ Free(id)
    /\ (\E e \in Devices : stored[e] = id) => id \in lost
    /\ stored' = [stored EXCEPT ![d] = id]
    /\ UNCHANGED <<enrolled, lost>>

\* ... and gets a register for it ...
Enrol(id) ==
    /\ Free(id)
    /\ enrolled' = Append(enrolled, id)
    /\ UNCHANGED <<stored, lost>>

\* ... or never will.
Lose(ids) ==
    /\ \A id \in ids : Free(id)
    /\ lost' = lost \cup ids
    /\ UNCHANGED <<stored, enrolled>>

\* A server that ends without having kept its registers.
Forget(ids) ==
    /\ ~persistent
    /\ \A id \in ids : Free(id)
    /\ lost' = lost \cup ids \cup Range(enrolled)
    /\ enrolled' = <<>>
    /\ UNCHANGED stored

Next ==
    /\ UNCHANGED persistent
    /\ \/ \E d \in Devices : Store(d, stored'[d]) \/ Enrol(stored[d])
       \/ \E ids \in SUBSET {stored[d] : d \in Devices} : Lose(ids) \/ Forget(ids)

Spec == Init /\ [][Next]_<<persistent, stored, enrolled, lost>>
=============================================================================
