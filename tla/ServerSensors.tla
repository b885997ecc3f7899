--------------------------- MODULE ServerSensors ---------------------------
(***************************************************************************)
(* The server of the sensors: what ServerSensors::addClient and            *)
(* ServerSensors::remove_client_from_queue (server/ServerSensors.cpp) do   *)
(* inside the life of a connection that ServerTCP describes, with the list *)
(* of measurements they hand positions out of (ListSensors).               *)
(*                                                                         *)
(* The accept thread, while serverPc = "adding", walks through             *)
(*   getID -> hello [-> renew] -> stopLast -> takeOver -> bind             *)
(*                             -> grow -> clamp -> loadPos -> storePos ->  *)
(*                                test -> loadActive -> storeActive        *)
(*                                     -> loadBack   -> storeBack          *)
(*                                -> bind | register [-> push] | reject    *)
(* and a connection thread, while in its "callback", through               *)
(*   check [-> load -> store -> free].                                     *)
(*                                                                         *)
(* The list of registers is a sequence of records [id, client]; client is  *)
(* m_lpClientTCP, which nothing ever sets back to null.  The file of       *)
(* registers is the sequence of the identifications in it; the server of   *)
(* the alarms appends its own to the same file (ServerAlarm.cpp:193).      *)
(***************************************************************************)
EXTENDS ServerTCP, ListSensors, FiniteSets

CONSTANTS
    Accept,            \* the accept thread, as the owner of a register
    Measures,          \* the measurements a sensor may send
    MaxRemoteID,       \* bound on the identifications a device may claim
                       \* and the server of the alarms may give out
    MaxFileLength,     \* the alarms write no register into a longer file
    StrangersAllowed,  \* whether a device may claim an identification that
                       \* the list of this server does not hold
    InitialFiles       \* the contents RemotesIDs.dat may have at the start

ASSUME ServerSensorsAssumption ==
    /\ Accept \notin Clients
    /\ NoMeasure \notin Measures
    /\ MaxRemoteID \in Nat
    /\ MaxFileLength \in Nat
    /\ StrangersAllowed \in BOOLEAN
    /\ InitialFiles \subseteq Seq(Nat)

VARIABLES
    addPc,           \* where addClient is
    newID,           \* its locals
    remoteID,
    isNewRemoteClient,
    entry,           \* index of the register it found, 0 if none
    m_listRemoteClientData,
    file,            \* RemotesIDs.dat
    m_localID,       \* m_clientID of each connection: its position ...
    m_remoteID,      \* ... and the identification of its device
    m_wasReplaced,
    strangers,       \* history: the connections admitted without a register
    freePc           \* where each remove_client_from_queue is

localVars == <<addPc, newID, remoteID, isNewRemoteClient, entry>>
registryVars == <<m_listRemoteClientData, file>>
idVars == <<m_localID, m_remoteID, m_wasReplaced, strangers>>
vars == <<tcpVars, listVars, localVars, registryVars, idVars, freePc>>

Threads == Clients \cup {Accept}
Registers == [id : Nat, client : Clients \cup {NoClient}]

AddPcs ==
    {"getID", "hello", "renew", "stopLast", "takeOver", "grow", "clamp",
     "loadPos", "storePos", "test", "loadActive", "storeActive",
     "loadBack", "storeBack", "bind", "register", "push", "reject"}
FreePcs == {"check", "load", "store", "free"}

SensorsTypeOK ==
    /\ TCPTypeOK
    /\ ListTypeOK(Threads, Measures)
    /\ addPc \in AddPcs
    /\ newID \in -1 .. MAX_SIZE_SENSORS
    /\ remoteID \in Nat \cup {-1}
    /\ isNewRemoteClient \in BOOLEAN
    /\ m_listRemoteClientData \in Seq(Registers)
    /\ entry \in 0 .. Len(m_listRemoteClientData)
    /\ file \in Seq(Nat)
    /\ m_localID \in [Clients -> -1 .. MAX_SIZE_SENSORS]
    /\ m_remoteID \in [Clients -> Nat \cup {-1}]
    /\ m_wasReplaced \in [Clients -> BOOLEAN]
    /\ strangers \subseteq Clients
    /\ freePc \in [Clients -> FreePcs]

\* The constructor.  A file that can be opened is read until eof() holds,
\* which is only after a read has failed: the list gets one register more
\* than the file has, with the zeros of a new RemoteClientData.
NullRegister == [id |-> 0, client |-> NoClient]

LoadRegisters(f) ==
    IF f = <<>> THEN <<>>
    ELSE Append([i \in 1 .. Len(f) |-> [id |-> f[i], client |-> NoClient]],
                NullRegister)

SensorsInit ==
    /\ TCPInit
    /\ ListInit(Threads)
    /\ addPc = "getID"
    /\ newID = -1
    /\ remoteID = -1
    /\ isNewRemoteClient = FALSE
    /\ entry = 0
    /\ file \in InitialFiles
    /\ m_listRemoteClientData = LoadRegisters(file)
    /\ m_localID = [c \in Clients |-> -1]
    /\ m_remoteID = [c \in Clients |-> -1]
    /\ m_wasReplaced = [c \in Clients |-> FALSE]
    /\ strangers = {}
    /\ freePc = [c \in Clients |-> "check"]

-----------------------------------------------------------------------------
(* Operators on the list of registers. *)

RegisteredIDs == {m_listRemoteClientData[i].id : i \in DOMAIN m_listRemoteClientData}

\* Mutated form of the next definition: the candidate is never compared.
IsNewRemoteIDUnchecked(id) ==
    IF m_listRemoteClientData = <<>> THEN id = 1 ELSE id = 2

\* getNewRemoteID: 1 for an empty list, otherwise the least free one from 2 on.
IsNewRemoteID(id) ==
    IF m_listRemoteClientData = <<>>
    THEN id = 1
    ELSE /\ id \in 2 .. Len(m_listRemoteClientData) + 2
         /\ id \notin RegisteredIDs
         /\ \A j \in 2 .. (id - 1) : j \in RegisteredIDs

\* The loop over the list stops at the first register with the identification.
IsFirstRegister(i, id) ==
    /\ m_listRemoteClientData[i].id = id
    /\ \A j \in 1 .. (i - 1) : m_listRemoteClientData[j].id # id

-----------------------------------------------------------------------------
(* ServerSensors::addClient, in the accept thread. *)

AddStep(from, to) ==
    /\ serverPc = "adding"
    /\ addPc = from
    /\ addPc' = to

\* LocalID newID = m_listSensors.getNextLocalID()
GetNextLocalID ==
    /\ newID' = m_nextPos
    /\ AddStep("getID", IF m_nextPos >= 0 THEN "hello" ELSE "reject")
    /\ UNCHANGED <<remoteID, isNewRemoteClient, entry, registryVars, idVars,
                   freePc, listVars, tcpVars>>

\* Mutated form of HandshakeFails: the message is asked for again.
HandshakeRetries ==
    /\ \E pc \in {"hello", "renew"} : AddStep(pc, pc)
    /\ UNCHANGED <<newID, remoteID, isNewRemoteClient, entry, registryVars,
                   idVars, freePc, listVars, tcpVars>>

\* No answer, a socket that was closed, or a packet that is not the expected
\* one: validRemoteID stays false, nothing is reserved.
HandshakeFails ==
    /\ \E pc \in {"hello", "renew"} : AddStep(pc, "reject")
    /\ UNCHANGED <<newID, remoteID, isNewRemoteClient, entry, registryVars,
                   idVars, freePc, listVars, tcpVars>>

\* "Validate if the remoteid is already in server", with an identification
\* that is valid.  The list belongs to this thread, so the search is one
\* step with the message that made the identification valid.
LookUp(id, from) ==
    /\ remoteID' = id
    /\ \/ \E i \in DOMAIN m_listRemoteClientData :
            /\ IsFirstRegister(i, id)
            /\ entry' = i
            /\ AddStep(from, IF m_listRemoteClientData[i].client # NoClient
                             THEN "stopLast" ELSE "grow")
       \/ /\ id \notin RegisteredIDs
          /\ entry' = 0
          /\ AddStep(from, "grow")

ClaimedIDs ==
    IF StrangersAllowed THEN 0 .. MaxRemoteID
                        ELSE (0 .. MaxRemoteID) \cap RegisteredIDs

\* The device acknowledges with the identification it has.
RecvAcknowledge(id) ==
    /\ LookUp(id, "hello")
    /\ UNCHANGED <<newID, isNewRemoteClient, registryVars, idVars, freePc,
                   listVars, tcpVars>>

\* The device acknowledges with a negative one and is sent a new one.
SendRenew(id) ==
    /\ AddStep("hello", "renew")
    /\ IsNewRemoteID(id)
    /\ remoteID' = id
    /\ UNCHANGED <<newID, isNewRemoteClient, entry, registryVars, idVars,
                   freePc, listVars, tcpVars>>

\* The device confirms the new identification.
RecvRenewed ==
    /\ LookUp(remoteID, "renew")
    /\ isNewRemoteClient' = TRUE
    /\ UNCHANGED <<newID, registryVars, idVars, freePc, listVars, tcpVars>>

LastClient == m_listRemoteClientData[entry].client

\* Mutated form of StopLastClient: the old connection goes on.
StopLastClientRunning ==
    /\ AddStep("stopLast", "takeOver")
    /\ UNCHANGED <<newID, remoteID, isNewRemoteClient, entry, registryVars,
                   idVars, freePc, listVars, tcpVars>>

\* lastClient->stop()
StopLastClient ==
    /\ AddStep("stopLast", "takeOver")
    /\ StopClient(LastClient)
    /\ UNCHANGED <<newID, remoteID, isNewRemoteClient, entry, registryVars,
                   idVars, freePc, listVars, thread, queueVars, acceptVars,
                   mainVars>>

\* Mutated form of TakeOver: setwasReplace is not called.
TakeOverUnmarked ==
    /\ AddStep("takeOver", "bind")
    /\ newID' = m_localID[LastClient]
    /\ UNCHANGED <<remoteID, isNewRemoteClient, entry, registryVars, idVars,
                   freePc, listVars, tcpVars>>

\* Mutated form of TakeOver: the new connection keeps the position it read.
TakeOverOwnSlot ==
    /\ AddStep("takeOver", "bind")
    /\ m_wasReplaced' = [m_wasReplaced EXCEPT ![LastClient] = TRUE]
    /\ UNCHANGED <<newID, remoteID, isNewRemoteClient, entry, registryVars,
                   m_localID, m_remoteID, strangers, freePc, listVars, tcpVars>>

\* newID = lastClient's local id; lastClient->setwasReplace(true)
TakeOver ==
    /\ AddStep("takeOver", "bind")
    /\ newID' = m_localID[LastClient]
    /\ m_wasReplaced' = [m_wasReplaced EXCEPT ![LastClient] = TRUE]
    /\ UNCHANGED <<remoteID, isNewRemoteClient, entry, registryVars,
                   m_localID, m_remoteID, strangers, freePc, listVars, tcpVars>>

-----------------------------------------------------------------------------
(* m_listSensors.reserveSpaceNewSensor(), called from addClient. *)

ReserveUnchanged ==
    UNCHANGED <<newID, remoteID, isNewRemoteClient, entry, registryVars,
                idVars, freePc, tcpVars>>

\* A register without a connection ignores whether the reservation
\* succeeded; the other caller goes on to "register" only if it did.
AfterReserve(reserved) ==
    IF entry # 0 THEN "bind" ELSE IF reserved THEN "register" ELSE "reject"

\* Mutated form of the next definition: m_maxSize does not grow.
ReserveGrowForgotten ==
    /\ AddStep("grow", "clamp")
    /\ ReserveUnchanged
    /\ UNCHANGED listVars

ReserveGrow ==
    /\ AddStep("grow", "clamp")
    /\ GrowMaxSize
    /\ ReserveUnchanged

ReserveClamp ==
    /\ AddStep("clamp", "loadPos")
    /\ ClampMaxSize
    /\ ReserveUnchanged

ReserveLoadPos ==
    /\ AddStep("loadPos", "storePos")
    /\ LoadPos(Accept)
    /\ ReserveUnchanged

ReserveStorePos ==
    /\ AddStep("storePos", "test")
    /\ StorePos(Accept, 1)
    /\ ReserveUnchanged

ReserveTest ==
    /\ AddStep("test", IF PosFits THEN "loadActive" ELSE "loadBack")
    /\ ReserveUnchanged
    /\ UNCHANGED listVars

ReserveLoadActive ==
    /\ AddStep("loadActive", "storeActive")
    /\ LoadActive(Accept)
    /\ ReserveUnchanged

ReserveStoreActive ==
    /\ AddStep("storeActive", AfterReserve(TRUE))
    /\ StoreActive(Accept, 1)
    /\ ReserveUnchanged

ReserveLoadBack ==
    /\ AddStep("loadBack", "storeBack")
    /\ LoadPos(Accept)
    /\ ReserveUnchanged

ReserveStoreBack ==
    /\ AddStep("storeBack", AfterReserve(FALSE))
    /\ StorePos(Accept, -1)
    /\ ReserveUnchanged

Reserve ==
    \/ ReserveGrow
    \/ ReserveClamp
    \/ ReserveLoadPos
    \/ ReserveStorePos
    \/ ReserveTest
    \/ ReserveLoadActive
    \/ ReserveStoreActive
    \/ ReserveLoadBack
    \/ ReserveStoreBack

-----------------------------------------------------------------------------
(* The ends of addClient. *)

\* The next call starts with new locals.
ResetLocals ==
    /\ addPc' = "getID"
    /\ newID' = -1
    /\ remoteID' = -1
    /\ isNewRemoteClient' = FALSE
    /\ entry' = 0

\* lpClient->setClientID(ClientID(newID, remoteID))
SetClientID ==
    /\ m_localID' = [m_localID EXCEPT ![current] = newID]
    /\ m_remoteID' = [m_remoteID EXCEPT ![current] = remoteID]

\* The device has a register: it now belongs to this connection.
BindRegister ==
    /\ addPc = "bind"
    /\ AddSucceeds
    /\ SetClientID
    /\ m_listRemoteClientData' =
          [m_listRemoteClientData EXCEPT ![entry].client = current]
    /\ ResetLocals
    /\ UNCHANGED <<file, m_wasReplaced, strangers, freePc, listVars>>

\* Mutated form of WriteRegister: the file is not opened to append to it.
WriteRegisterTruncates ==
    /\ isNewRemoteClient
    /\ AddStep("register", "push")
    /\ SetClientID
    /\ file' = <<remoteID>>
    /\ UNCHANGED <<newID, remoteID, isNewRemoteClient, entry,
                   m_listRemoteClientData, m_wasReplaced, strangers, freePc,
                   listVars, tcpVars>>

\* It has none: a device that was renewed gets one, first in the file ...
WriteRegister ==
    /\ isNewRemoteClient
    /\ AddStep("register", "push")
    /\ SetClientID
    /\ file' = Append(file, remoteID)
    /\ UNCHANGED <<newID, remoteID, isNewRemoteClient, entry,
                   m_listRemoteClientData, m_wasReplaced, strangers, freePc,
                   listVars, tcpVars>>

\* ... and then in the list.
PushRegister ==
    /\ addPc = "push"
    /\ AddSucceeds
    /\ m_listRemoteClientData' =
          Append(m_listRemoteClientData, [id |-> remoteID, client |-> current])
    /\ ResetLocals
    /\ UNCHANGED <<file, idVars, freePc, listVars>>

\* Any other device is admitted all the same, with no register.
AdmitStranger ==
    /\ addPc = "register"
    /\ ~isNewRemoteClient
    /\ AddSucceeds
    /\ SetClientID
    /\ strangers' = strangers \cup {current}
    /\ ResetLocals
    /\ UNCHANGED <<registryVars, m_wasReplaced, freePc, listVars>>

\* The ends of addClient for a device that had no register.
AddRegister == PushRegister \/ AdmitStranger

\* lpClient->stop(); return nullptr
Reject ==
    /\ addPc = "reject"
    /\ AddFails
    /\ ResetLocals
    /\ UNCHANGED <<registryVars, idVars, freePc, listVars>>

-----------------------------------------------------------------------------
(* The thread of connection c. *)

\* ResponseSensors::process_packet, EARTHQUAKE: updateListSensor writes the
\* measurement at the connection's position.
ClientMeasures(c, data) ==
    /\ ClientReceive(c)
    /\ AppendMeasure(m_localID[c], data)
    /\ UNCHANGED <<localVars, registryVars, idVars, freePc>>

\* remove_client_from_queue after the queue: if (!getWasReplaced())
CheckReplaced(c) ==
    /\ thread[c] = "callback"
    /\ freePc[c] = "check"
    /\ IF m_wasReplaced[c]
       THEN /\ ClientEnds(c)
            /\ UNCHANGED freePc
       ELSE /\ freePc' = [freePc EXCEPT ![c] = "load"]
            /\ UNCHANGED tcpVars
    /\ UNCHANGED <<listVars, localVars, registryVars, idVars>>

\* deleteSpaceSensor(localID): --m_activeSensors ...
FreeLoad(c) ==
    /\ freePc[c] = "load"
    /\ LoadActive(c)
    /\ freePc' = [freePc EXCEPT ![c] = "store"]
    /\ UNCHANGED <<tcpVars, localVars, registryVars, idVars>>

FreeStore(c) ==
    /\ freePc[c] = "store"
    /\ StoreActive(c, -1)
    /\ freePc' = [freePc EXCEPT ![c] = "free"]
    /\ UNCHANGED <<tcpVars, localVars, registryVars, idVars>>

\* ... and m_nextPos = id.
FreeSlot(c) ==
    /\ freePc[c] = "free"
    /\ FreePos(m_localID[c])
    /\ ClientEnds(c)
    /\ freePc' = [freePc EXCEPT ![c] = "check"]
    /\ UNCHANGED <<localVars, registryVars, idVars>>

Callback(c) ==
    \/ CheckReplaced(c)
    \/ FreeLoad(c)
    \/ FreeStore(c)
    \/ FreeSlot(c)

-----------------------------------------------------------------------------
\* The server of the alarms enrolls a device: ServerAlarm::addClient appends
\* the register to the file of this server.  It numbers its devices itself.
AlarmRegisters(id) ==
    /\ Len(file) < MaxFileLength
    /\ file' = Append(file, id)
    /\ UNCHANGED <<m_listRemoteClientData, tcpVars, listVars, localVars, idVars,
                   freePc>>

\* The steps of ServerTCP in which ServerSensors overrides nothing.
Inherited ==
    /\ \/ RunLoop
       \/ \E c \in Clients : AcceptClient(c)
       \/ AcceptFails
       \/ StartClient
       \/ \E c \in Clients : ClientStep(c)
       \/ Quit
       \/ MainStep
       \/ Wakeup
    /\ UNCHANGED <<listVars, localVars, registryVars, idVars, freePc>>

\* The steps of addClient that wait for nobody.
AddAlone ==
    \/ GetNextLocalID
    \/ StopLastClient
    \/ TakeOver
    \/ Reserve
    \/ BindRegister
    \/ WriteRegister
    \/ AddRegister
    \/ Reject

AddClient ==
    \/ AddAlone
    \/ HandshakeFails
    \/ \E id \in ClaimedIDs : RecvAcknowledge(id)
    \/ \E id \in 1 .. Len(m_listRemoteClientData) + 2 : SendRenew(id)
    \/ RecvRenewed

SensorsNext ==
    \/ Inherited
    \/ AddClient
    \/ \E c \in Clients, data \in Measures : ClientMeasures(c, data)
    \/ \E c \in Clients : Callback(c)
    \/ \E id \in 1 .. MaxRemoteID : AlarmRegisters(id)

SensorsSpec == SensorsInit /\ [][SensorsNext]_vars

\* Fairness, as in ServerTCP: threads that can run do, recv() returns on a
\* closed socket, and nobody else's turn is promised.
SensorsFairness ==
    /\ WF_vars(RunLoop /\ Inherited)
    /\ WF_vars(AddAlone)
    /\ WF_vars(CurrentStopped /\ HandshakeFails)
    /\ WF_vars(StartClient /\ Inherited)
    /\ \A c \in Clients :
          /\ WF_vars(ClientLoop(c) /\ Inherited)
          /\ WF_vars(m_stop[c] /\ (ClientReceive(c) \/ ClientGivesUp(c)) /\ Inherited)
          /\ WF_vars((ClientWaits(c) \/ ClientLeaves(c)) /\ Inherited)
          /\ WF_vars(Callback(c))
    /\ WF_vars(MainStep /\ Inherited)

SensorsFairSpec == SensorsSpec /\ SensorsFairness

-----------------------------------------------------------------------------
(* Safety. *)

Started(c) == thread[c] \notin {"none", "created"}

Serving(c) == thread[c] \in {"run", "recv"} /\ ~m_stop[c]

\* Every connection that was admitted has a position of the array, and one
\* that m_maxSize counts, whatever the races between the unlocked
\* reserveSpaceNewSensor and deleteSpaceSensor do to m_nextPos: no
\* measurement is written outside m_queue or silently dropped by
\* appendMeassure (ListSensors.cpp:14).
SlotsInBounds ==
    \A c \in Clients : Started(c) =>
        /\ m_localID[c] \in Positions
        /\ m_localID[c] < m_maxSize

\* The alarm looks at positions 0 .. m_maxSize - 1 (RequestAlarm.cpp:27):
\* no measurement lies beyond, although appendMeassure's own test accepts
\* id = m_maxSize.
ScanCoversMeasures ==
    \A p \in Positions : m_queue[p] # NoMeasure => p < m_maxSize

\* A device that was given a new identification takes nobody's register:
\* what getNewRemoteID chose before the exchange is still free after it.
NewDeviceTakesNoRegister == isNewRemoteClient => entry = 0

\* Whenever the server stops, also between the write to the file and the one
\* to the list, and whatever the server of the alarms wrote in between, a
\* server started from the file knows every identification that the list of
\* this one holds.  (One that was sent to a device and not confirmed is in
\* neither: see Enrollment.)
ReloadKeepsIDs ==
    LET reloaded == LoadRegisters(file)
    IN  RegisteredIDs \subseteq {reloaded[i].id : i \in DOMAIN reloaded}

\* Of the connections of one registered device only the last one admitted is
\* served: the others have been stopped and know that they were replaced.
\* The register of an identification is the first one in the list, for the
\* file may hold it twice; and a connection that was admitted before there was
\* a register for what it claims belongs to none.
OnlyLatestServes ==
    \A i \in DOMAIN m_listRemoteClientData, c \in Clients \ strangers :
        Started(c) /\ IsFirstRegister(i, m_remoteID[c])
                   /\ c # m_listRemoteClientData[i].client
            => m_stop[c] /\ m_wasReplaced[c]

\* A position passes from connection to connection with the register of its
\* device, and a fresh one to every other device: two connections that are
\* served share one only after a connection has left, for it is the store of
\* m_nextPos in deleteSpaceSensor that gives a position out twice
\* (ListSensors.cpp:51), or the last one, which a device with a register gets
\* when the list is full, whether the reservation succeeds or not
\* (ServerSensors.cpp:155).
PositionsSharedAfterDeparture ==
    \A c, d \in Clients :
        c # d /\ Serving(c) /\ Serving(d) /\ m_localID[c] = m_localID[d] =>
            \/ m_localID[c] = MAX_SIZE_SENSORS - 1
            \/ \E e \in Clients : thread[e] = "done"

(* The inductive invariant behind SlotsInBounds and ScanCoversMeasures:    *)
(* what m_nextPos and m_maxSize can be at each point of addClient, although *)
(* any number of connections overwrite m_nextPos at any time.              *)

ValidSlot(id) == id \in Positions /\ id < m_maxSize

PositionsInv ==
    /\ m_maxSize <= (IF addPc = "clamp" THEN MAX_SIZE_SENSORS + 1 ELSE MAX_SIZE_SENSORS)
    /\ m_nextPos <= m_maxSize
    /\ m_nextPos = MAX_SIZE_SENSORS => addPc \in {"test", "loadBack", "storeBack"}
    /\ addPc \in {"clamp", "loadPos"} => m_nextPos < m_maxSize
    /\ addPc = "storePos" => /\ reg[Accept] \in -1 .. MAX_SIZE_SENSORS - 1
                             /\ reg[Accept] < m_maxSize
    /\ addPc \in {"test", "loadBack"} => m_nextPos >= 0
    /\ addPc = "storeBack" => /\ reg[Accept] \in 0 .. MAX_SIZE_SENSORS
                              /\ reg[Accept] <= m_maxSize

AddClientInv ==
    /\ serverPc # "adding" => addPc = "getID"
    /\ addPc \in {"hello", "renew", "stopLast", "takeOver", "grow"} =>
         newID \in Positions /\ newID <= m_maxSize
    /\ addPc \in {"clamp", "loadPos", "storePos", "test", "loadActive",
                  "storeActive", "loadBack", "storeBack", "bind", "register",
                  "push"} =>
         ValidSlot(newID)
    /\ addPc \in {"stopLast", "takeOver"} => entry # 0 /\ LastClient # NoClient
    /\ addPc = "bind" => entry # 0
    /\ addPc = "push" => /\ isNewRemoteClient
                         /\ m_localID[current] = newID
                         /\ m_remoteID[current] = remoteID
    /\ addPc \notin {"getID", "hello", "reject"} => remoteID \in Nat

\* A register names a connection only once that was admitted; its thread runs
\* (or has run) unless it is the one about to be started.
RegistersInv ==
    /\ \A i \in DOMAIN m_listRemoteClientData, c \in Clients :
          m_listRemoteClientData[i].client = c =>
              Started(c) \/ (c = current /\ serverPc = "start")
    /\ serverPc = "start" => ValidSlot(m_localID[current])
    /\ \A c \in Clients : freePc[c] # "check" => thread[c] = "callback"

SensorsInv ==
    /\ SensorsTypeOK
    /\ PositionsInv
    /\ AddClientInv
    /\ RegistersInv
    /\ SlotsInBounds
    /\ ScanCoversMeasures

(* Action properties. *)

\* When a register passes from one connection to another, the old one has
\* been stopped and marked, and the new one goes on with its position.
TakeOverComplete ==
    [][\A i \in DOMAIN m_listRemoteClientData :
          LET old == m_listRemoteClientData[i].client
              new == m_listRemoteClientData'[i].client
          IN  old # NoClient /\ new # old =>
                 /\ m_stop[old]
                 /\ m_wasReplaced[old]
                 /\ m_localID'[new] = m_localID[old]]_vars

-----------------------------------------------------------------------------
(* What a comment of the code says and the code does not do: a run of its  *)
(* own that TLC refutes.                                                   *)

\* ListSensors.h:63, "Reserving space for new sensor meassurement.": two
\* connections that are served do not share a position.
SlotsDistinct ==
    \A c, d \in Clients :
        Serving(c) /\ Serving(d) /\ m_localID[c] = m_localID[d] => c = d
=============================================================================
