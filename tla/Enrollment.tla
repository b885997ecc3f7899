----------------------------- MODULE Enrollment -----------------------------
(***************************************************************************)
(* How a device gets its identification: the sketches of the devices       *)
(* (both of arduino/TerremotoDevice, and arduino/AlarmDevice, which share  *)
(* this code) with ServerComm on one side, addClient of ServerSensors or   *)
(* of ServerAlarm with the registers on the other, and a network and two   *)
(* computers that may fail.                                                *)
(*                                                                         *)
(*   device                              server (one accept thread)        *)
(*   connect  ------ connection ------>  accept                            *)
(*   ack      <----- ACKNOWLEDGE ------  hello                             *)
(*            ------ hello(id) ------->        id >= 0: admitted           *)
(*   renew    <----- renew(id) --------  renew                             *)
(*   EEPROM.put                                                            *)
(*   confirm  ------ confirm(id) ----->        register in the file        *)
(*                                       push  ... in the list, admitted   *)
(*                                                                         *)
(* A device never waits for an answer longer than WAIT_RESPONSE: it then   *)
(* closes the connection and starts again.  The server waits for ever, for *)
(* one device at a time.  The device's copy of the identification in RAM   *)
(* is the one in the EEPROM whenever it matters.  What an admitted         *)
(* connection does is ServerSensors and ServerAlarm.                       *)
(*                                                                         *)
(* Both servers append their registers to RemotesIDs.dat.  That of the     *)
(* sensors reads it when it starts; that of the alarms reads               *)
(* RemotesAlarmIDs.dat, which nothing writes.                              *)
(***************************************************************************)
EXTENDS Integers, SequencesExt

CONSTANTS
    Devices,
    NoDevice,      \* the accept thread talks to nobody
    Servers,       \* the servers considered, of "sensors" and "alarms"
    MaxFileLength, \* the other server writes no register into a longer file
    MaxOtherID     \* bound on the identifications in its registers

ASSUME EnrollmentAssumption ==
    /\ NoDevice \notin Devices
    /\ Servers \subseteq {"sensors", "alarms"}
    /\ MaxFileLength \in Nat /\ MaxOtherID \in Nat

VARIABLES
    server,        \* the server the devices connect to; it never changes
    pc,            \* where each device is
    idDevice,      \* its identification, in the EEPROM
    link,          \* its connection, as far as the device has one
    serverPc,      \* where the accept thread is
    peer,          \* the device at the other end of the socket it reads
    remoteID,      \* the identification it sent with RENEW_DEVICE_ID
    toDevice,      \* what is on the way on that connection, to the device
    toServer,      \* ... and to the server
    halfOpen,      \* the device is gone and the server was never told
    registered,    \* identifications in m_listRemoteClientData
    file,          \* identifications in RemotesIDs.dat
    enrolled,      \* history: those this server wrote, as far as it knows them
    forgotten,     \* history: those it wrote and knows no more
    unregistered   \* history: those a device stored and the server did not
                   \* write, for the confirmation did not come or was refused

deviceVars == <<pc, idDevice, link>>
handshakeVars == <<serverPc, peer, remoteID, toDevice, toServer, halfOpen>>
registryVars == <<registered, file>>
historyVars == <<enrolled, forgotten>>
vars == <<server, deviceVars, handshakeVars, registryVars, historyVars, unregistered>>

\* ServerComm::Command, and what a packet says of an identification.
Nothing == [command |-> "none", id |-> 0]
Ack == [command |-> "ack", id |-> 0]
Renew(id) == [command |-> "renew", id |-> id]
Hello(id) == [command |-> "hello", id |-> id]
Confirm(id) == [command |-> "confirm", id |-> id]

BlankID == -1       \* an EEPROM that was never written

IsValidID(id) == id > 0

IDs == Nat \cup {BlankID}

TypeOK ==
    /\ server \in {"sensors", "alarms"}
    /\ pc \in [Devices -> {"off", "connect", "ack", "renew", "confirm", "connected"}]
    /\ idDevice \in [Devices -> IDs]
    /\ link \in [Devices -> {"none", "pending", "handshake", "served"}]
    /\ serverPc \in {"accept", "hello", "renew", "push"}
    /\ peer \in Devices \cup {NoDevice}
    /\ remoteID \in IDs
    /\ toDevice \in [command : {"none", "ack", "renew"}, id : Nat]
    /\ toServer \in [command : {"none", "hello", "confirm"}, id : IDs]
    /\ halfOpen \in BOOLEAN
    /\ registered \in Seq(Nat)
    /\ file \in Seq(Nat)
    /\ enrolled \in Seq(Nat)
    /\ forgotten \subseteq Nat
    /\ unregistered \subseteq Nat

\* The accept thread is back at accept().
Idle ==
    /\ serverPc' = "accept"
    /\ peer' = NoDevice
    /\ remoteID' = BlankID
    /\ toDevice' = Nothing
    /\ toServer' = Nothing
    /\ halfOpen' = FALSE

Init ==
    /\ server \in Servers
    /\ pc = [d \in Devices |-> "off"]
    /\ idDevice = [d \in Devices |-> BlankID]
    /\ link = [d \in Devices |-> "none"]
    /\ serverPc = "accept"
    /\ peer = NoDevice
    /\ remoteID = BlankID
    /\ toDevice = Nothing
    /\ toServer = Nothing
    /\ halfOpen = FALSE
    /\ registered = <<>>
    /\ file = <<>>
    /\ enrolled = <<>>
    /\ forgotten = {}
    /\ unregistered = {}

-----------------------------------------------------------------------------
(* The device. *)

\* setup(): reads the EEPROM and calls connectToServer.
PowerOn(d) ==
    /\ pc[d] = "off"
    /\ pc' = [pc EXCEPT ![d] = "connect"]
    /\ UNCHANGED <<server, idDevice, link, handshakeVars, registryVars,
                   historyVars, unregistered>>

\* while (!comm.StartComm(...)): the server's system takes the connection,
\* whatever the accept thread is doing.
StartComm(d) ==
    /\ pc[d] = "connect"
    /\ pc' = [pc EXCEPT ![d] = "ack"]
    /\ link' = [link EXCEPT ![d] = "pending"]
    /\ UNCHANGED <<server, idDevice, handshakeVars, registryVars, historyVars,
                   unregistered>>

\* What the accept thread sent has arrived within WAIT_RESPONSE.
Arrived(d, command) ==
    /\ link[d] = "handshake"
    /\ toDevice.command = command
    /\ toDevice' = Nothing

\* ackServer: ACKNOWLEDGE_CLIENT came and is answered with setID(idDevice).
RecvAck(d) ==
    /\ pc[d] = "ack"
    /\ Arrived(d, "ack")
    /\ toServer' = Hello(idDevice[d])
    /\ pc' = [pc EXCEPT ![d] = IF IsValidID(idDevice[d]) THEN "connected" ELSE "renew"]
    /\ UNCHANGED <<server, idDevice, link, serverPc, peer, remoteID, halfOpen,
                   registryVars, historyVars, unregistered>>

\* Mutated form of RecvRenew: the confirmation is sent first.
RecvRenewConfirms(d) ==
    /\ pc[d] = "renew"
    /\ link[d] = "handshake"
    /\ \/ /\ toDevice.command = "renew"
          /\ toDevice' = Nothing
          /\ toServer' = Confirm(toDevice.id)
          /\ UNCHANGED <<pc, idDevice>>
       \/ /\ toServer.command = "confirm"
          /\ idDevice' = [idDevice EXCEPT ![d] = toServer.id]
          /\ pc' = [pc EXCEPT ![d] = "connected"]
          /\ UNCHANGED <<toDevice, toServer>>
    /\ UNCHANGED <<server, link, serverPc, peer, remoteID, halfOpen,
                   registryVars, historyVars, unregistered>>

\* RENEW_DEVICE_ID came: EEPROM.put ...
RecvRenew(d) ==
    /\ pc[d] = "renew"
    /\ Arrived(d, "renew")
    /\ idDevice' = [idDevice EXCEPT ![d] = toDevice.id]
    /\ pc' = [pc EXCEPT ![d] = "confirm"]
    /\ UNCHANGED <<server, link, serverPc, peer, remoteID, toServer, halfOpen,
                   registryVars, historyVars, unregistered>>

\* ... and then return comm.SendMessage(ACKNOWLEDGE_CLIENT) ...
SendConfirm(d) ==
    /\ pc[d] = "confirm"
    /\ link[d] = "handshake"
    /\ toServer' = Confirm(idDevice[d])
    /\ pc' = [pc EXCEPT ![d] = "connected"]
    /\ UNCHANGED <<server, idDevice, link, serverPc, peer, remoteID, toDevice,
                   halfOpen, registryVars, historyVars, unregistered>>

\* The confirmation that is on its way, and lost when the connection is.
LostConfirmation == IF toServer.command = "confirm" THEN {toServer.id} ELSE {}

\* The identification that d has stored, while the server waits for d to
\* confirm it.
Unconfirmed(d) ==
    IF pc[d] = "confirm" /\ link[d] = "handshake" THEN {idDevice[d]} ELSE {}

\* ... which fails: StopClient, try again.
ConfirmFails(d) ==
    /\ pc[d] = "confirm"
    /\ pc' = [pc EXCEPT ![d] = "connect"]
    /\ link' = [link EXCEPT ![d] = "none"]
    /\ unregistered' = unregistered \cup Unconfirmed(d)
    /\ UNCHANGED <<server, idDevice, handshakeVars, registryVars, historyVars>>

\* ReceiveMessage found no packet, or another one: StopClient, try again.
GiveUp(d) ==
    /\ pc[d] \in {"ack", "renew"}
    /\ pc' = [pc EXCEPT ![d] = "connect"]
    /\ link' = [link EXCEPT ![d] = "none"]
    /\ UNCHANGED <<server, idDevice, handshakeVars, registryVars, historyVars,
                   unregistered>>

\* loop(): if (!comm.Connected())
Reconnect(d) ==
    /\ pc[d] = "connected"
    /\ link[d] = "none"
    /\ pc' = [pc EXCEPT ![d] = "connect"]
    /\ UNCHANGED <<server, idDevice, link, handshakeVars, registryVars,
                   historyVars, unregistered>>

-----------------------------------------------------------------------------
(* The server: addClient, in the accept thread. *)

\* accept() and the ACKNOWLEDGE packet.  A connection the device has closed
\* before is accepted too, and fails at once with no effect.
Accept(d) ==
    /\ serverPc = "accept"
    /\ link[d] = "pending"
    /\ link' = [link EXCEPT ![d] = "handshake"]
    /\ serverPc' = "hello"
    /\ peer' = d
    /\ toDevice' = Ack
    /\ UNCHANGED <<server, pc, idDevice, remoteID, toServer, halfOpen,
                   registryVars, historyVars, unregistered>>

\* Mutated form of NewRemoteID: the loop stops at the last register.
NewRemoteIDLast(id) ==
    IF registered = <<>> THEN id = 1 ELSE id = Last(registered) + 1

\* getNewRemoteID
NewRemoteID(id) ==
    IF registered = <<>>
    THEN id = 1
    ELSE /\ id \in 2 .. Len(registered) + 2
         /\ id \notin Range(registered)
         /\ \A j \in 2 .. (id - 1) : j \in Range(registered)

\* lpClient is returned: a device that is still there is served.
Admit ==
    /\ Idle
    /\ link' = [link EXCEPT ![peer] = IF @ = "handshake" THEN "served" ELSE @]

\* Whatever is not negative is taken for an identification.
RecvHello ==
    /\ serverPc = "hello"
    /\ toServer.command = "hello"
    /\ toServer.id >= 0
    /\ Admit
    /\ UNCHANGED <<server, pc, idDevice, registryVars, historyVars,
                   unregistered>>

\* Mutated form of SendRenew: the packet is filled in before the new
\* identification is there.
SendRenewStale(id) ==
    /\ serverPc = "hello"
    /\ toServer.command = "hello"
    /\ toServer.id < 0
    /\ NewRemoteID(id)
    /\ remoteID' = id
    /\ toDevice' = Renew(remoteID)
    /\ toServer' = Nothing
    /\ serverPc' = "renew"
    /\ UNCHANGED <<server, deviceVars, peer, halfOpen, registryVars,
                   historyVars, unregistered>>

\* A negative one is answered with RENEW_DEVICE_ID.
SendRenew(id) ==
    /\ serverPc = "hello"
    /\ toServer.command = "hello"
    /\ toServer.id < 0
    /\ NewRemoteID(id)
    /\ remoteID' = id
    /\ toDevice' = Renew(id)
    /\ toServer' = Nothing
    /\ serverPc' = "renew"
    /\ UNCHANGED <<server, deviceVars, peer, halfOpen, registryVars,
                   historyVars, unregistered>>

\* A new device: its register is written to the file ...
RecvConfirm ==
    /\ serverPc = "renew"
    /\ toServer = Confirm(remoteID)
    /\ file' = Append(file, remoteID)
    /\ enrolled' = Append(enrolled, remoteID)
    /\ toServer' = Nothing
    /\ serverPc' = "push"
    /\ UNCHANGED <<server, deviceVars, peer, remoteID, toDevice, halfOpen,
                   registered, forgotten, unregistered>>

\* ... and added to the list.
PushRegister ==
    /\ serverPc = "push"
    /\ registered' = Append(registered, remoteID)
    /\ Admit
    /\ UNCHANGED <<server, pc, idDevice, file, historyVars, unregistered>>

\* The list of measurements of ServerSensors is full: a device without a
\* register is refused, also one that has just stored its identification.
RefuseFull ==
    /\ server = "sensors"
    /\ toServer.command \in {"hello", "confirm"} /\ toServer.id >= 0
    /\ toServer.id \notin Range(registered)
    /\ unregistered' = unregistered \cup LostConfirmation
    /\ link' = [link EXCEPT ![peer] = IF @ = "handshake" THEN "none" ELSE @]
    /\ Idle
    /\ UNCHANGED <<server, pc, idDevice, registryVars, historyVars>>

\* Mutated form of RecvFails: only the first answer is checked.
RecvFailsInHello ==
    /\ serverPc = "hello"
    /\ link[peer] # "handshake"
    /\ toServer = Nothing
    /\ ~halfOpen
    /\ Idle
    /\ UNCHANGED <<server, deviceVars, registryVars, historyVars, unregistered>>

\* recvMessage returns false on a connection that was closed: refused.
RecvFails ==
    /\ serverPc \in {"hello", "renew"}
    /\ link[peer] # "handshake"
    /\ toServer = Nothing
    /\ ~halfOpen
    /\ Idle
    /\ UNCHANGED <<server, deviceVars, registryVars, historyVars, unregistered>>

-----------------------------------------------------------------------------
(* Failures. *)

\* The connection of d breaks: what the device sent is lost, and the server
\* is told, or not.
Break(d) ==
    /\ link[d] # "none"
    /\ link' = [link EXCEPT ![d] = "none"]
    /\ IF link[d] = "handshake"
       THEN /\ toServer' = Nothing
            /\ unregistered' = unregistered \cup LostConfirmation \cup Unconfirmed(d)
            /\ halfOpen' \in BOOLEAN
       ELSE UNCHANGED <<toServer, unregistered, halfOpen>>
    /\ UNCHANGED <<server, pc, idDevice, serverPc, peer, remoteID, toDevice,
                   registryVars, historyVars>>

\* The device loses power; what it has sent may still arrive.
PowerOff(d) ==
    /\ pc[d] # "off"
    /\ pc' = [pc EXCEPT ![d] = "off"]
    /\ link' = [link EXCEPT ![d] = "none"]
    /\ halfOpen' = (halfOpen \/ link[d] = "handshake")
    /\ unregistered' = unregistered \cup Unconfirmed(d)
    /\ UNCHANGED <<server, idDevice, serverPc, peer, remoteID, toDevice,
                   toServer, registryVars, historyVars>>

\* Mutated form of Reload: the file is not read.
ReloadNothing(f) == <<>>

\* The constructor of ServerSensors reads the file until eof(), one register
\* too many; that of ServerAlarm finds no file.
Reload(f) == IF server = "alarms" \/ f = <<>> THEN <<>> ELSE Append(f, 0)

\* The server process ends and is started again.  One that does not know all
\* the identifications it gave begins anew.
RestartServer ==
    /\ registered' = Reload(file)
    /\ IF Range(enrolled) \subseteq Range(registered')
       THEN UNCHANGED historyVars
       ELSE enrolled' = <<>> /\ forgotten' = forgotten \cup Range(enrolled)
    /\ unregistered' = unregistered \cup LostConfirmation
                                    \cup UNION {Unconfirmed(d) : d \in Devices}
    /\ link' = [d \in Devices |-> "none"]
    /\ Idle
    /\ UNCHANGED <<server, pc, idDevice, file>>

\* The server of the alarms enrolls a device of its own, and appends it to the
\* file that the server of the sensors reads.
OtherServerRegisters(id) ==
    /\ server = "sensors"
    /\ Len(file) < MaxFileLength
    /\ file' = Append(file, id)
    /\ UNCHANGED <<server, deviceVars, handshakeVars, registered, historyVars,
                   unregistered>>

-----------------------------------------------------------------------------
DeviceStep(d) ==
    \/ PowerOn(d)
    \/ StartComm(d)
    \/ RecvAck(d)
    \/ RecvRenew(d)
    \/ SendConfirm(d)
    \/ ConfirmFails(d)
    \/ GiveUp(d)
    \/ Reconnect(d)

ServerStep ==
    \/ RecvHello
    \/ \E id \in 1 .. Len(registered) + 2 : SendRenew(id)
    \/ RecvConfirm
    \/ PushRegister
    \/ RefuseFull
    \/ RecvFails

Failure ==
    \/ \E d \in Devices : Break(d) \/ PowerOff(d)
    \/ RestartServer

Next ==
    \/ \E d \in Devices : DeviceStep(d) \/ Accept(d)
    \/ ServerStep
    \/ \E id \in 1 .. MaxOtherID : OtherServerRegisters(id)
    \/ Failure

Spec == Init /\ [][Next]_vars

\* Fairness.  A device that waits for an answer gets it or gives up, and the
\* server's recv returns when something has arrived or the connection was
\* closed.  Nobody has to connect, and no failure has to happen or to end.
Fairness ==
    /\ WF_vars(ServerStep)
    /\ \A d \in Devices : WF_vars(\/ RecvAck(d) \/ RecvRenew(d) \/ GiveUp(d)
                                 \/ SendConfirm(d) \/ ConfirmFails(d))

FairSpec == Spec /\ Fairness

-----------------------------------------------------------------------------
(* Properties. *)

\* Every identification this server has written is stored in a device:
\* EEPROM.put comes before the confirmation (TerremotoDevice.ino:265 and :270),
\* so no failure, also between the two, leaves a register that no device can
\* claim.
RegisteredIDsStored ==
    \A i \in DOMAIN enrolled : \E d \in Devices : idDevice[d] = enrolled[i]

\* No server gives a register to an identification twice while it can know it,
\* whatever is lost and restarted and whatever the other one writes to the
\* file: the server of the sensors never, not even when it ends between the
\* write to the file and the one to the list; that of the alarms until it is
\* started again.
EnrolledOnce == IsInjective(enrolled)

\* Two devices have one identification only if the first that stored it never
\* got a register for it (the confirmation was lost, or never sent, or refused
\* for lack of space), or if the server of the alarms had it and was started
\* again: restarts alone do not lead there for the server of the sensors, nor
\* does any failure after the register is in the file.
SharedOnlyIfUnregistered ==
    \A d, e \in Devices :
        d # e /\ IsValidID(idDevice[d]) /\ idDevice[d] = idDevice[e]
            => \/ idDevice[d] \in unregistered
               \/ server = "alarms" /\ idDevice[d] \in forgotten

\* To the devices and the registers, all of this is DeviceRegistry: an
\* identification is in no register at the moment at which a device stores it,
\* although it was chosen before two messages went over the network; no device
\* ever gives up one it has; and no failure adds a register or, for the server
\* of the sensors, removes one.
Registry == INSTANCE DeviceRegistry
    WITH stored <- idDevice, lost <- unregistered \cup forgotten,
         persistent <- (server = "sensors")

ImplementsRegistry == Registry!Spec

\* The accept thread, which has no timeout, always gets back to accept(): the
\* device it reads from answers or gives up, and neither waits for the other,
\* unless that device disappeared without a word.
AcceptThreadReturns == (serverPc # "accept") ~> (serverPc = "accept" \/ halfOpen)

\* ServerComm.h:48 and :97, "The unique id of this device.": refuted.
UniqueDeviceIDs ==
    \A d, e \in Devices : IsValidID(idDevice[d]) /\ idDevice[d] = idDevice[e] => d = e
=============================================================================
