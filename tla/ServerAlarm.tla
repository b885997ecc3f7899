---------------------------- MODULE ServerAlarm ----------------------------
(***************************************************************************)
(* The server of the alarms: ServerAlarm (server/ServerAlarm.cpp) on top   *)
(* of ServerTCP, and the thread of its RequestAlarm                        *)
(* (server/RequestAlarm.cpp), which sends an alert to every connection.    *)
(*                                                                         *)
(* sendAlert walks the queue of connections with no lock of its own:       *)
(* size() is one critical section, each at(i) another, and at(i) returns a *)
(* reference into the vector that is read after the mutex was given up,    *)
(* while connections come (push_back, which may move the vector) and go    *)
(* (erase, which shifts what follows).  The request thread walks           *)
(*   loop -> decide [-> at -> deref -> send -> at ...] -> loop ... exit    *)
(* and is "undefined" once it has read through a reference or a pointer    *)
(* that is no longer valid.  The process may end there (every behaviour    *)
(* may end at any state), or its other threads go on.                      *)
(*                                                                         *)
(* RequestAlarm::run's decision to alert is left open.  m_nextID is left   *)
(* out: it is never negative, so getNextLocalID always gives a valid id,   *)
(* and the local ids of alarms are only ever copied back into it.          *)
(*                                                                         *)
(* ServerAlarm::stop hides ServerTCP::stop: it stops the request thread    *)
(* and then the accept thread, and closes no connection.  "closing" is     *)
(* here the time the main thread spends in m_requestAlarm.stop().          *)
(***************************************************************************)
EXTENDS ServerTCP, FiniteSets

VARIABLES
    addPc,          \* where addClient is: "handshake" or "bind"
    entry,          \* index of the register it found, 0 if none
    registers,      \* m_listRemoteClientData
    alarmsFile,     \* RemotesAlarmIDs.dat, read by the constructor
    sensorsFile,    \* what this server appended to RemotesIDs.dat
    requestPc,      \* where the request thread is
    requestStop,    \* its m_stop
    size,           \* locals of sendAlert: the number it read ...
    index,          \* ... how far the loop is ...
    target,         \* ... and the connection it is sending to
    moved,          \* a push_back since the last at()
    alerted,        \* history: the connections this broadcast was sent to,
    departed        \* and how many left the queue since size()

registryVars == <<addPc, entry, registers, alarmsFile, sensorsFile>>
sendVars == <<size, index, target, alerted>>
churnVars == <<moved, departed>>
requestVars == <<requestPc, requestStop, sendVars>>
alarmVars == <<tcpVars, registryVars, requestVars, churnVars>>

RequestPcs == {"loop", "decide", "at", "deref", "send", "exit", "undefined"}
Registers == [id : Nat, client : Clients]

RegistryTypeOK ==
    /\ addPc \in {"handshake", "bind"}
    /\ registers \in Seq(Registers)
    /\ entry \in 0 .. Len(registers)
    /\ alarmsFile \in Seq(Nat)
    /\ sensorsFile \in Seq(Nat)

RequestTypeOK ==
    /\ requestPc \in RequestPcs
    /\ requestStop \in BOOLEAN
    /\ size \in Nat
    /\ index \in 0 .. size
    /\ target \in Clients \cup {NoClient}
    /\ moved \in BOOLEAN
    /\ alerted \in Seq(Clients)
    /\ departed \in Nat

AlarmTypeOK == TCPTypeOK /\ RegistryTypeOK /\ RequestTypeOK

\* The file of the alarms does not exist on a first start, and no code of
\* the program ever writes it: the list always starts empty.
AlarmInit ==
    /\ TCPInit
    /\ addPc = "handshake"
    /\ entry = 0
    /\ registers = <<>>
    /\ alarmsFile = <<>>
    /\ sensorsFile = <<>>
    /\ requestPc = "loop"
    /\ requestStop = FALSE
    /\ size = 0
    /\ index = 0
    /\ target = NoClient
    /\ moved = FALSE
    /\ alerted = <<>>
    /\ departed = 0

-----------------------------------------------------------------------------
(* ServerAlarm::addClient, in the accept thread.  The list of registers    *)
(* belongs to that thread.                                                 *)

RegisteredIDs == {registers[i].id : i \in DOMAIN registers}

\* getNewRemoteID: 1 for an empty list, otherwise the least free one from 2 on.
IsNewRemoteID(id) ==
    IF registers = <<>>
    THEN id = 1
    ELSE /\ id \in 2 .. Len(registers) + 2
         /\ id \notin RegisteredIDs
         /\ \A j \in 2 .. (id - 1) : j \in RegisteredIDs

\* A device without an identification was given one and confirmed it.  The
\* register goes to the file of the sensors (ServerAlarm.cpp:193).
Enroll(id) ==
    /\ addPc = "handshake"
    /\ IsNewRemoteID(id)
    /\ AddSucceeds
    /\ registers' = Append(registers, [id |-> id, client |-> current])
    /\ sensorsFile' = Append(sensorsFile, id)
    /\ UNCHANGED <<addPc, entry, alarmsFile, requestVars, churnVars>>

\* A device claims the identification of register i: lastClient->stop().
\* (A register always names a connection, as the list starts empty.)
StopLastClient(i) ==
    /\ serverPc = "adding"
    /\ addPc = "handshake"
    /\ StopClient(registers[i].client)
    /\ entry' = i
    /\ addPc' = "bind"
    /\ UNCHANGED <<registers, alarmsFile, sensorsFile, thread, acceptVars,
                   queueVars, mainVars, requestVars, churnVars>>

\* The register now belongs to the new connection.
BindRegister ==
    /\ addPc = "bind"
    /\ AddSucceeds
    /\ registers' = [registers EXCEPT ![entry].client = current]
    /\ entry' = 0
    /\ addPc' = "handshake"
    /\ UNCHANGED <<alarmsFile, sensorsFile, requestVars, churnVars>>

\* A device claims an identification the list does not hold: it is admitted
\* without a register.
AdmitUnregistered ==
    /\ addPc = "handshake"
    /\ AddSucceeds
    /\ UNCHANGED <<registryVars, requestVars, churnVars>>

\* The handshake failed: lpClient->stop(); return nullptr
Refuse ==
    /\ addPc = "handshake"
    /\ AddFails
    /\ UNCHANGED <<registryVars, requestVars, churnVars>>

AddClient ==
    \/ \E id \in 1 .. Len(registers) + 2 : Enroll(id)
    \/ \E i \in DOMAIN registers : StopLastClient(i)
    \/ BindRegister
    \/ AdmitUnregistered
    \/ Refuse

-----------------------------------------------------------------------------
(* RequestAlarm::run and sendAlert. *)

\* while (!m_stop)
RequestLoop ==
    /\ requestPc = "loop"
    /\ requestPc' = IF requestStop THEN "exit" ELSE "decide"
    /\ UNCHANGED <<requestStop, sendVars, churnVars, registryVars, tcpVars>>

NoAlert ==
    /\ requestPc = "decide"
    /\ requestPc' = "loop"
    /\ UNCHANGED <<requestStop, sendVars, churnVars, registryVars, tcpVars>>

\* Mutated form of StartAlert: the loop runs while i <= size.
StartAlertOneMore ==
    /\ requestPc = "decide"
    /\ requestPc' = "at"
    /\ size' = Len(m_queueClients) + 1
    /\ UNCHANGED <<requestStop, index, target, alerted, churnVars,
                   registryVars, tcpVars>>

\* int size = m_queueClients.size()
StartAlert ==
    /\ requestPc = "decide"
    /\ requestPc' = "at"
    /\ size' = Len(m_queueClients)
    /\ UNCHANGED <<requestStop, index, target, alerted, churnVars,
                   registryVars, tcpVars>>

\* i < size, and at(i): a reference to the slot, whatever is there.
AlertAt ==
    /\ requestPc = "at"
    /\ index < size
    /\ requestPc' = "deref"
    /\ moved' = FALSE
    /\ UNCHANGED <<requestStop, sendVars, departed, registryVars, tcpVars>>

\* .get(): the slot is read, outside of the mutex.
AlertDeref ==
    /\ requestPc = "deref"
    /\ index < Len(m_queueClients)
    /\ target' = m_queueClients[index + 1]
    /\ requestPc' = "send"
    /\ UNCHANGED <<requestStop, size, index, alerted, churnVars, registryVars,
                   tcpVars>>

\* The slot is past the end, or the vector is elsewhere.
DerefUndefined ==
    /\ requestPc = "deref"
    /\ moved \/ index >= Len(m_queueClients)
    /\ requestPc' = "undefined"
    /\ UNCHANGED <<requestStop, sendVars, churnVars, registryVars, tcpVars>>

\* Mutated form of AlertSend: the counter of the loop is not advanced.
AlertSendAgain ==
    /\ requestPc = "send"
    /\ alerted' = Append(alerted, target)
    /\ target' = NoClient
    /\ requestPc' = "at"
    /\ UNCHANGED <<index, requestStop, size, churnVars, registryVars, tcpVars>>

\* Mutated form of AlertSend: the loop advances by two.
AlertSendSkips ==
    /\ requestPc = "send"
    /\ alerted' = Append(alerted, target)
    /\ target' = NoClient
    /\ index' = index + 2
    /\ requestPc' = "at"
    /\ UNCHANGED <<requestStop, size, churnVars, registryVars, tcpVars>>

\* sendMessage(...), ++i
AlertSend ==
    /\ requestPc = "send"
    /\ alerted' = Append(alerted, target)
    /\ target' = NoClient
    /\ index' = index + 1
    /\ requestPc' = "at"
    /\ UNCHANGED <<requestStop, size, churnVars, registryVars, tcpVars>>

\* get() does not keep the connection alive: once its thread has ended, only
\* a register still owns it.
SendUndefined ==
    /\ requestPc = "send"
    /\ thread[target] = "done"
    /\ \A i \in DOMAIN registers : registers[i].client # target
    /\ requestPc' = "undefined"
    /\ UNCHANGED <<requestStop, sendVars, churnVars, registryVars, tcpVars>>

\* i = size, and return.
EndAlert ==
    /\ requestPc = "at"
    /\ index = size
    /\ requestPc' = "loop"
    /\ size' = 0
    /\ index' = 0
    /\ alerted' = <<>>
    /\ departed' = 0
    /\ UNCHANGED <<requestStop, target, moved, registryVars, tcpVars>>

Request ==
    \/ RequestLoop
    \/ NoAlert
    \/ StartAlert
    \/ AlertAt
    \/ AlertDeref
    \/ DerefUndefined
    \/ AlertSend
    \/ SendUndefined
    \/ EndAlert

-----------------------------------------------------------------------------
(* ServerAlarm::stop, in the main thread. *)

\* m_requestAlarm.stop(): m_stop = true ...
StopRequest ==
    /\ Quit
    /\ requestStop' = TRUE
    /\ UNCHANGED <<requestPc, sendVars, churnVars, registryVars>>

\* ... and join().
JoinRequest ==
    /\ mainPc = "closing"
    /\ requestPc = "exit"
    /\ mainPc' = "flag"
    /\ UNCHANGED <<popped, serverStop, queueVars, acceptVars, clientVars,
                   registryVars, requestVars, churnVars>>

-----------------------------------------------------------------------------
Alerting == requestPc \in {"at", "deref", "send"}

\* What a step of another thread means for a reference into the vector and
\* for the broadcast: push_back may move the vector, erase shifts it.
Churn ==
    /\ moved' = (moved \/ Len(m_queueClients') > Len(m_queueClients))
    /\ departed' = IF Alerting /\ Len(m_queueClients') < Len(m_queueClients)
                   THEN departed + 1 ELSE departed

\* The steps of ServerTCP in which ServerAlarm overrides nothing.  (Wakeup
\* has no thread to wake: see NeverWaits.)
Inherited ==
    /\ \/ RunLoop
       \/ \E c \in Clients : AcceptClient(c)
       \/ AcceptFails
       \/ StartClient
       \/ \E c \in Clients : ClientStep(c) \/ ClientEnds(c)
       \/ SetServerStop
       \/ JoinServer
    /\ Churn
    /\ UNCHANGED <<registryVars, requestVars>>

AlarmNext ==
    \/ Inherited
    \/ AddClient
    \/ Request
    \/ StopRequest
    \/ JoinRequest

AlarmSpec == AlarmInit /\ [][AlarmNext]_alarmVars

-----------------------------------------------------------------------------
(* Safety. *)

\* A broadcast reaches no connection twice, although connections leave and
\* come while sendAlert walks the queue by index (RequestAlarm.cpp:62).
AlertAtMostOnce == IsInjective(alerted)

\* Of the connections in the part of the queue that the loop has passed, at
\* most as many were missed as connections left during the broadcast: with
\* no departure, everybody who was there at size() is reached.
MissedAtMostDepartures ==
    requestPc = "at" =>
        Cardinality({j \in DOMAIN m_queueClients :
                        j <= index /\ m_queueClients[j] \notin Range(alerted)})
            <= departed

\* The unlocked reads of sendAlert go wrong only if a connection came or
\* left during them: the loop itself never goes past the end of the queue.
UndefinedNeedsChurn == requestPc = "undefined" => moved \/ departed > 0

\* No thread of this server ever blocks in Queue::remove, also while it is
\* being stopped.
NeverWaits == waiting = {}

\* ServerAlarm::stop closes no connection, so the accept thread returns only
\* when all of them have left by themselves.
NobodyLeftAtExit ==
    serverPc = "exit" =>
        /\ mainPc \in {"join", "done"}
        /\ \A c \in Clients : thread[c] \in {"none", "callback", "done"}

(* The inductive invariant behind AlertAtMostOnce, UndefinedNeedsChurn,    *)
(* NeverWaits and NobodyLeftAtExit.  It contains the one of ServerTCP,     *)
(* which the steps of this server preserve too.                            *)

InQueue(c) == thread[c] \in {"created", "run", "recv", "remove"}

\* Nobody but its own thread takes a connection out of this queue.
StaysQueued ==
    /\ \A c \in Clients : InQueue(c) => Queued(c)
    /\ mainPc \notin {"pop", "popped"}

\* A register names a connection only once that was admitted.
RegistersAdmitted ==
    \A i \in DOMAIN registers :
        \/ thread[registers[i].client] \notin {"none", "created"}
        \/ serverPc = "start" /\ registers[i].client = current

\* The part of the queue the loop still has in front of it has not been
\* sent to ...
AheadUnsent ==
    /\ \A j \in 1 .. Len(m_queueClients) :
          /\ j > index => m_queueClients[j] \notin Range(alerted)
          /\ j > index + 1 => m_queueClients[j] # target
    /\ target \notin Range(alerted)
    /\ \A c \in Clients : c \in Range(alerted) \cup {target} => thread[c] # "none"

\* ... and the queue is shorter than the loop assumes only by departures.
SizeIsCurrent ==
    /\ Alerting => Len(m_queueClients) + departed >= size
    /\ requestPc \in {"deref", "send"} => index < size
    /\ requestPc = "send" => target # NoClient /\ (InQueue(target) \/ departed > 0)
    /\ requestPc \notin {"send", "undefined"} => target = NoClient
    /\ requestPc \in {"loop", "decide", "exit"} =>
          size = 0 /\ index = 0 /\ alerted = <<>> /\ departed = 0

BroadcastInv ==
    /\ AheadUnsent
    /\ SizeIsCurrent
    /\ AlertAtMostOnce
    /\ UndefinedNeedsChurn

AlarmInv ==
    /\ TCPInv
    /\ RegistryTypeOK
    /\ RequestTypeOK
    /\ NeverWaits
    /\ StaysQueued
    /\ RegistersAdmitted
    /\ BroadcastInv
=============================================================================
