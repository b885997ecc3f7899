------------------------ MODULE ServerSensorsProofs ------------------------
(***************************************************************************)
(* ServerSensors implements ServerTCP, and every admitted connection keeps *)
(* a position inside the array, for any number of connections, any         *)
(* MAX_SIZE_SENSORS and any contents of the file.                          *)
(***************************************************************************)
EXTENDS ServerSensors, ServerTCPProofs

\* Elements of the list of registers are registers.
LEMMA RegisterTypes ==
    ASSUME SensorsTypeOK
    PROVE  /\ DOMAIN m_listRemoteClientData = 1 .. Len(m_listRemoteClientData)
           /\ Len(m_listRemoteClientData) \in Nat
           /\ \A i \in DOMAIN m_listRemoteClientData :
                 /\ m_listRemoteClientData[i] \in Registers
                 /\ m_listRemoteClientData[i].client \in Clients \cup {NoClient}
  <1>1. m_listRemoteClientData \in Seq(Registers)
    BY DEF SensorsTypeOK
  <1>2. \A i \in DOMAIN m_listRemoteClientData : m_listRemoteClientData[i] \in Registers
    BY <1>1
  <1>3. \A r \in Registers : r.client \in Clients \cup {NoClient}
    BY DEF Registers
  <1> QED BY <1>1, <1>2, <1>3

-----------------------------------------------------------------------------
(* Every step of the sensor server is one of ServerTCP or leaves all of    *)
(* ServerTCP's variables alone.                                            *)

\* The connection addClient takes over is one that was admitted.
LEMMA LastClientStarted ==
    ASSUME SensorsInv, serverPc = "adding", addPc \in {"stopLast", "takeOver"}
    PROVE  LastClient \in Clients /\ Started(LastClient)
  <1>1. entry \in 0 .. Len(m_listRemoteClientData)
    BY DEF SensorsInv, SensorsTypeOK
  <1>2. entry # 0 /\ LastClient # NoClient
    BY DEF SensorsInv, AddClientInv
  <1>3. entry \in DOMAIN m_listRemoteClientData
    BY <1>1, <1>2, RegisterTypes DEF SensorsInv
  <1>4. LastClient \in Clients
    BY <1>2, <1>3, RegisterTypes DEF SensorsInv, LastClient
  <1> QED BY <1>3, <1>4 DEF SensorsInv, RegistersInv, LastClient

\* lastClient->stop() is a step of ServerTCP because a register never names
\* the connection that is being added.
LEMMA StopLastClientMaps ==
    ASSUME SensorsInv, TCPInv, StopLastClient
    PROVE  TCPNext
  <1>1. serverPc = "adding" /\ addPc = "stopLast"
    BY DEF StopLastClient, AddStep
  <1>2. LastClient \in Clients /\ Started(LastClient)
    BY <1>1, LastClientStarted
  <1>3. AddStopsAnother(LastClient)
    BY <1>1, <1>2 DEF StopLastClient, AddStopsAnother, Started
  <1> QED BY <1>2, <1>3 DEF TCPNext

LEMMA StepMaps ==
    ASSUME SensorsInv, TCPInv, SensorsNext
    PROVE  TCPNext \/ UNCHANGED tcpVars
  <1>1. CASE Inherited
    BY <1>1 DEF Inherited, TCPNext
  <1>2. CASE AddClient
    <2>1. CASE GetNextLocalID \/ TakeOver
      BY <2>1 DEF GetNextLocalID, TakeOver
    <2>2. CASE StopLastClient
      BY <2>2, StopLastClientMaps
    <2>3. CASE Reserve
      BY <2>3 DEF Reserve, ReserveGrow, ReserveClamp, ReserveLoadPos,
         ReserveStorePos, ReserveTest, ReserveLoadActive, ReserveStoreActive,
         ReserveLoadBack, ReserveStoreBack, ReserveUnchanged
    <2>4. CASE BindRegister \/ WriteRegister \/ AddRegister
      BY <2>4 DEF BindRegister, WriteRegister, AddRegister, PushRegister, AdmitStranger,
         TCPNext
    <2>5. CASE Reject
      BY <2>5 DEF Reject, TCPNext
    <2>6. CASE HandshakeFails
      BY <2>6 DEF HandshakeFails
    <2>7. ASSUME NEW id, RecvAcknowledge(id) \/ SendRenew(id)
          PROVE  UNCHANGED tcpVars
      BY <2>7 DEF RecvAcknowledge, SendRenew
    <2>8. CASE RecvRenewed
      BY <2>8 DEF RecvRenewed
    <2> QED BY <1>2, <2>1, <2>2, <2>3, <2>4, <2>5, <2>6, <2>7, <2>8 DEF AddClient, AddAlone
  <1>3. ASSUME NEW c \in Clients, NEW data \in Measures, ClientMeasures(c, data)
        PROVE  TCPNext
    BY <1>3 DEF ClientMeasures, ClientStep, TCPNext
  <1>4. ASSUME NEW c \in Clients, Callback(c)
        PROVE  TCPNext \/ UNCHANGED tcpVars
    BY <1>4 DEF Callback, CheckReplaced, FreeLoad, FreeStore, FreeSlot, TCPNext
  <1>5. ASSUME NEW id, AlarmRegisters(id)
        PROVE  UNCHANGED tcpVars
    BY <1>5 DEF AlarmRegisters
  <1> QED BY <1>1, <1>2, <1>3, <1>4, <1>5 DEF SensorsNext

-----------------------------------------------------------------------------
(* The invariant of the positions. *)

LEMMA SensorsInitInv == SensorsInit => SensorsInv
  <1> SUFFICES ASSUME SensorsInit PROVE SensorsInv
    OBVIOUS
  <1> USE ServerTCPAssumption, ListSensorsAssumption, ServerSensorsAssumption
      DEF SensorsInit, ListInit
  <1>1. \A c \in Clients : thread[c] = "none" /\ serverPc = "check"
    BY DEF TCPInit
  <1>2. m_listRemoteClientData \in Seq(Registers)
    <2>1. file \in Seq(Nat)
      OBVIOUS
    <2>2. CASE file = <<>>
      BY <2>2, EmptySeq DEF LoadRegisters
    <2>3. CASE file # <<>>
      <3> DEFINE loaded == [i \in 1 .. Len(file) |-> [id |-> file[i], client |-> NoClient]]
      <3>1. loaded \in Seq(Registers)
        BY <2>1, IsASeq DEF Registers
      <3>2. NullRegister \in Registers
        BY DEF NullRegister, Registers
      <3>3. Append(loaded, NullRegister) \in Seq(Registers)
        BY <3>1, <3>2, AppendProperties
      <3> QED BY <2>3, <3>3 DEF LoadRegisters
    <2> QED BY <2>2, <2>3
  <1>3. \A i \in DOMAIN m_listRemoteClientData : m_listRemoteClientData[i].client = NoClient
    <2>1. CASE file = <<>>
      BY <2>1, EmptySeq DEF LoadRegisters
    <2>2. CASE file # <<>>
      <3> DEFINE loaded == [i \in 1 .. Len(file) |-> [id |-> file[i], client |-> NoClient]]
      <3>1. Len(file) \in Nat
        OBVIOUS
      <3>2. /\ DOMAIN loaded = 1 .. Len(file)
            /\ \A i \in 1 .. Len(file) : loaded[i].client = NoClient
        OBVIOUS
      <3>3. loaded \in Seq(Registers)
        BY IsASeq DEF Registers
      <3>4. Len(loaded) = Len(file)
        BY <3>1, <3>2, <3>3, LenProperties
      <3>5. NullRegister \in Registers /\ NullRegister.client = NoClient
        BY DEF NullRegister, Registers
      <3>6. m_listRemoteClientData = Append(loaded, NullRegister)
        BY <2>2 DEF LoadRegisters
      <3> HIDE DEF loaded
      <3>7. /\ Len(m_listRemoteClientData) = Len(file) + 1
            /\ \A i \in 1 .. Len(file) : m_listRemoteClientData[i] = loaded[i]
            /\ m_listRemoteClientData[Len(file) + 1] = NullRegister
        BY <3>3, <3>4, <3>5, <3>6, AppendProperties
      <3>8. DOMAIN m_listRemoteClientData = 1 .. Len(file) + 1
        BY <1>2, <3>7, LenProperties
      <3> QED BY <3>1, <3>2, <3>5, <3>7, <3>8
    <2> QED BY <2>1, <2>2
  <1>4. SensorsTypeOK
    <2>1. TCPTypeOK
      BY TCPInitInv DEF TCPInv
    <2>2. ListTypeOK(Threads, Measures)
      BY DEF ListTypeOK, Threads, Positions
    <2>3. Len(m_listRemoteClientData) \in Nat
      BY <1>2, LenProperties
    <2>4. /\ entry \in 0 .. Len(m_listRemoteClientData)
          /\ file \in Seq(Nat)
          /\ newID \in -1 .. MAX_SIZE_SENSORS
          /\ remoteID \in Nat \cup {-1}
      BY <2>3
    <2>5. /\ m_localID \in [Clients -> -1 .. MAX_SIZE_SENSORS]
          /\ m_remoteID \in [Clients -> Nat \cup {-1}]
      OBVIOUS
    <2>6. /\ m_wasReplaced \in [Clients -> BOOLEAN]
          /\ strangers \subseteq Clients
          /\ freePc \in [Clients -> FreePcs]
          /\ addPc \in AddPcs
          /\ isNewRemoteClient \in BOOLEAN
      BY DEF FreePcs, AddPcs
    <2> QED BY <1>2, <2>1, <2>2, <2>4, <2>5, <2>6 DEF SensorsTypeOK
  <1>5. PositionsInv /\ AddClientInv
    BY DEF PositionsInv, AddClientInv
  <1>6. RegistersInv
    <2>1. \A c \in Clients : freePc[c] = "check"
      OBVIOUS
    <2>2. serverPc = "check"
      BY DEF TCPInit
    <2> QED BY <1>3, <2>1, <2>2 DEF RegistersInv
  <1>7. SlotsInBounds /\ ScanCoversMeasures
    BY <1>1 DEF SlotsInBounds, ScanCoversMeasures, Started
  <1> QED BY <1>4, <1>5, <1>6, <1>7 DEF SensorsInv

\* What the steps of ServerTCP do to the threads: an admitted connection stays
\* admitted, and only StartClient admits one.
LEMMA InheritedThreads ==
    ASSUME TCPInv, Inherited
    PROVE  /\ \A c \in Clients : Started(c) => Started(c)'
           /\ \A c \in Clients : thread[c] = "callback" => thread'[c] = "callback"
           /\ \/ /\ serverPc = "start"
                 /\ serverPc' = "check"
                 /\ current \in Clients
                 /\ thread'[current] = "run"
                 /\ \A c \in Clients : Started(c)' => Started(c) \/ c = current
              \/ /\ serverPc' = "start" <=> serverPc = "start"
                 /\ serverPc = "start" => current' = current
                 /\ serverPc' # "adding" => serverPc # "adding"
                 /\ serverPc = "adding" => current' = current
                 /\ \A c \in Clients : Started(c)' => Started(c)
  <1> USE DEF TCPInv, TCPTypeOK, AcceptThreadInv, Started
  <1> DEFINE Callbacks == \A c \in Clients : thread[c] = "callback" => thread'[c] = "callback"
             Same == \A c \in Clients : Started(c)' <=> Started(c)
  <1>1. CASE RunLoop \/ AcceptFails
    BY <1>1 DEF RunLoop, AcceptFails, clientVars
  <1>2. ASSUME NEW c \in Clients, AcceptClient(c)
        PROVE  Same /\ Callbacks /\ serverPc' = "adding" /\ serverPc = "accept"
    BY <1>2 DEF AcceptClient
  <1>3. CASE StartClient
    <2>1. current \in Clients /\ thread[current] = "created" /\ serverPc = "start"
      BY <1>3 DEF StartClient
    <2>2. serverPc' = "check" /\ thread' = [thread EXCEPT ![current] = "run"]
      BY <1>3 DEF StartClient
    <2>3. /\ thread'[current] = "run"
          /\ \A c \in Clients : c # current => thread'[c] = thread[c]
      <3>1. thread \in [Clients -> ThreadPcs]
        OBVIOUS
      <3>2. thread'[current] = "run"
        BY <2>1, <2>2, <3>1
      <3>3. \A c \in Clients : c # current => thread'[c] = thread[c]
        BY <2>1, <2>2, <3>1
      <3> QED BY <3>2, <3>3
    <2> QED BY <2>1, <2>2, <2>3
  <1>4. ASSUME NEW c \in Clients, ClientStep(c)
        PROVE  Same /\ Callbacks /\ UNCHANGED <<serverPc, current>>
    BY <1>4 DEF ClientStep, ClientLoop, ClientReceive, ClientGivesUp, ClientWaits,
       ClientLeaves, clientVars, acceptVars
  <1>5. CASE Quit \/ MainStep \/ Wakeup
    <2>1. UNCHANGED <<thread, serverPc, current>>
      BY <1>5 DEF Quit, MainStep, CloseAllLoop, CloseAllWaits, CloseAllPops,
         CloseAllStops, SetServerStop, JoinServer, Wakeup, clientVars, acceptVars
    <2> QED BY <2>1
  <1> QED BY <1>1, <1>2, <1>3, <1>4, <1>5 DEF Inherited

LEMMA InheritedStep ==
    ASSUME SensorsInv, TCPInv, TCPInv', Inherited
    PROVE  SensorsInv'
  <1>1. UNCHANGED <<listVars, localVars, registryVars, idVars, freePc>>
    BY DEF Inherited
  <1>2. SensorsTypeOK'
    BY <1>1 DEF SensorsInv, SensorsTypeOK, TCPInv, ListTypeOK, listVars,
       localVars, registryVars, idVars
  <1>3. PositionsInv' /\ ScanCoversMeasures'
    BY <1>1 DEF SensorsInv, PositionsInv, ScanCoversMeasures, listVars, localVars
  <1>4. AddClientInv'
    <2>1. serverPc' # "adding" => addPc = "getID"
      BY InheritedThreads DEF SensorsInv, AddClientInv
    <2>2. addPc = "push" => current' = current
      BY InheritedThreads DEF SensorsInv, AddClientInv
    <2> QED BY <1>1, <2>1, <2>2 DEF SensorsInv, AddClientInv, ValidSlot, LastClient,
            listVars, localVars, registryVars, idVars
  <1>5. SlotsInBounds'
    BY <1>1, InheritedThreads
    DEF SensorsInv, SlotsInBounds, RegistersInv, ValidSlot, listVars, idVars
  <1>6. RegistersInv'
    <2>1. \A i \in DOMAIN m_listRemoteClientData', c \in Clients :
            m_listRemoteClientData'[i].client = c =>
                Started(c)' \/ (c = current' /\ serverPc' = "start")
      <3>1. \A i \in DOMAIN m_listRemoteClientData, c \in Clients :
              m_listRemoteClientData[i].client = c =>
                  Started(c) \/ (c = current /\ serverPc = "start")
        BY DEF SensorsInv, RegistersInv
      <3>2. \A c \in Clients : Started(c) \/ (c = current /\ serverPc = "start") =>
                Started(c)' \/ (c = current' /\ serverPc' = "start")
        <4>1. CASE /\ serverPc = "start"
                   /\ thread'[current] = "run"
          BY <4>1, InheritedThreads DEF Started
        <4>2. CASE /\ serverPc' = "start" <=> serverPc = "start"
                   /\ serverPc = "start" => current' = current
          BY <4>2, InheritedThreads
        <4> QED BY <4>1, <4>2, InheritedThreads
      <3> QED BY <1>1, <3>1, <3>2 DEF registryVars
    <2>2. serverPc' = "start" => ValidSlot(m_localID[current])'
      BY <1>1, InheritedThreads DEF SensorsInv, RegistersInv, ValidSlot, listVars, idVars
    <2>3. \A c \in Clients : freePc'[c] # "check" => thread'[c] = "callback"
      BY <1>1, InheritedThreads DEF SensorsInv, RegistersInv
    <2> QED BY <2>1, <2>2, <2>3 DEF RegistersInv
  <1> QED BY <1>2, <1>3, <1>4, <1>5, <1>6 DEF SensorsInv

-----------------------------------------------------------------------------
(* Steps that leave ServerTCP, the registers and the identifications alone. *)

\* An admitted connection's position stays valid when m_maxSize grows, and
\* also when it is clamped.
LEMMA Frame ==
    ASSUME SensorsInv,
           UNCHANGED <<tcpVars, m_listRemoteClientData, m_localID, m_queue>>,
           m_maxSize' \in Nat,
           m_maxSize' >= m_maxSize \/ m_maxSize' >= MAX_SIZE_SENSORS,
           \A c \in Clients : freePc'[c] # "check" => thread[c] = "callback"
    PROVE  RegistersInv' /\ SlotsInBounds' /\ ScanCoversMeasures'
  <1>1. UNCHANGED <<thread, serverPc, current>>
    BY DEF tcpVars, acceptVars, clientVars
  <1>2. m_maxSize \in Nat /\ MAX_SIZE_SENSORS \in Nat
    BY ListSensorsAssumption DEF SensorsInv, SensorsTypeOK, ListTypeOK
  <1>3. \A p \in Positions : p < m_maxSize => p < m_maxSize'
    BY <1>2 DEF Positions
  <1>4. SlotsInBounds'
    BY <1>1, <1>3 DEF SensorsInv, SlotsInBounds, Started, Positions
  <1>5. ScanCoversMeasures'
    BY <1>3 DEF SensorsInv, ScanCoversMeasures, Positions
  <1>6. RegistersInv'
    BY <1>1, <1>3 DEF SensorsInv, RegistersInv, ValidSlot, Started, Positions
  <1> QED BY <1>4, <1>5, <1>6

\* What a step of addClient owes, when it only moves the accept thread and
\* its locals and m_nextPos, m_maxSize and m_activeSensors.
LEMMA LocalStep ==
    ASSUME SensorsInv, TCPInv', serverPc = "adding",
           UNCHANGED <<tcpVars, m_listRemoteClientData, m_localID, m_remoteID,
                       m_queue, file, freePc>>,
           addPc' \in AddPcs,
           newID' \in -1 .. MAX_SIZE_SENSORS,
           remoteID' \in Nat \cup {-1},
           isNewRemoteClient' \in BOOLEAN,
           entry' \in 0 .. Len(m_listRemoteClientData),
           m_wasReplaced' \in [Clients -> BOOLEAN],
           strangers' \subseteq Clients,
           m_nextPos' \in -1 .. MAX_SIZE_SENSORS,
           m_activeSensors' \in Int,
           m_maxSize' \in 0 .. MAX_SIZE_SENSORS + 1,
           m_maxSize' >= m_maxSize \/ m_maxSize' >= MAX_SIZE_SENSORS,
           reg' \in [Threads -> Int],
           PositionsInv', AddClientInv'
    PROVE  SensorsInv'
  <1>1. UNCHANGED <<thread, serverPc, current>>
    BY DEF tcpVars, acceptVars, clientVars
  <1>2. m_maxSize \in Nat /\ m_maxSize' \in Nat /\ MAX_SIZE_SENSORS \in Nat
    BY ListSensorsAssumption DEF SensorsInv, SensorsTypeOK, ListTypeOK
  <1>3. SensorsTypeOK'
    <2>1. ListTypeOK(Threads, Measures)'
      BY DEF SensorsInv, SensorsTypeOK, ListTypeOK
    <2> QED BY <2>1 DEF SensorsInv, SensorsTypeOK, TCPInv
  <1>4. \A c \in Clients : freePc'[c] # "check" => thread[c] = "callback"
    BY DEF SensorsInv, RegistersInv
  <1>5. RegistersInv' /\ SlotsInBounds' /\ ScanCoversMeasures'
    BY <1>2, <1>4, Frame
  <1> QED BY <1>3, <1>5 DEF SensorsInv

\* The steps before a position is reserved.
LEMMA HandshakeSteps ==
    ASSUME SensorsInv, TCPInv, TCPInv',
           GetNextLocalID \/ HandshakeFails \/ (\E id \in Nat : SendRenew(id))
    PROVE  SensorsInv'
  <1> USE ListSensorsAssumption
  <1>1. /\ UNCHANGED <<tcpVars, registryVars, listVars, freePc, idVars,
                        isNewRemoteClient, entry>>
        /\ remoteID' \in Nat \cup {-1}
    BY DEF GetNextLocalID, HandshakeFails, SendRenew, SensorsInv, SensorsTypeOK
  <1>2. serverPc = "adding" /\ serverPc' = "adding"
    BY <1>1 DEF GetNextLocalID, HandshakeFails, SendRenew, AddStep, tcpVars, acceptVars
  <1>3. /\ m_nextPos \in -1 .. MAX_SIZE_SENSORS
        /\ m_maxSize \in 0 .. MAX_SIZE_SENSORS + 1
        /\ newID \in -1 .. MAX_SIZE_SENSORS
    BY DEF SensorsInv, SensorsTypeOK, ListTypeOK
  <1>4. \/ /\ addPc = "getID" /\ newID' = m_nextPos
           /\ addPc' = IF m_nextPos >= 0 THEN "hello" ELSE "reject"
        \/ /\ addPc \in {"hello", "renew"} /\ newID' = newID
           /\ addPc' = "reject" \/ (addPc' = "renew" /\ remoteID' \in Nat)
    BY DEF GetNextLocalID, HandshakeFails, SendRenew, AddStep
  <1>5. PositionsInv'
    BY <1>1, <1>3, <1>4 DEF SensorsInv, PositionsInv, listVars
  <1>6. AddClientInv'
    BY <1>1, <1>2, <1>3, <1>4
    DEF SensorsInv, PositionsInv, AddClientInv, Positions, listVars
  <1>7. newID' \in -1 .. MAX_SIZE_SENSORS /\ addPc' \in AddPcs
    BY <1>3, <1>4 DEF AddPcs
  <1> QED BY <1>1, <1>2, <1>3, <1>5, <1>6, <1>7, LocalStep
          DEF listVars, registryVars, idVars, SensorsInv, SensorsTypeOK, ListTypeOK

\* The search for the register of the device.
LEMMA LookUpSteps ==
    ASSUME SensorsInv, TCPInv, TCPInv', NEW id, NEW from \in {"hello", "renew"},
           LookUp(id, from), id \in Nat,
           isNewRemoteClient' \in BOOLEAN,
           UNCHANGED <<tcpVars, registryVars, listVars, freePc, idVars, newID>>
    PROVE  SensorsInv'
  <1> USE ListSensorsAssumption
  <1>1. serverPc = "adding" /\ serverPc' = "adding" /\ addPc = from
    BY DEF LookUp, AddStep, tcpVars, acceptVars
  <1>2. remoteID' \in Nat
    BY DEF LookUp
  <1>3. /\ entry' \in 0 .. Len(m_listRemoteClientData)
        /\ addPc' \in {"stopLast", "grow"}
        /\ addPc' = "stopLast" => entry' # 0 /\ LastClient' # NoClient
    <2>1. ASSUME NEW i \in DOMAIN m_listRemoteClientData, entry' = i,
                 AddStep(from, IF m_listRemoteClientData[i].client # NoClient
                               THEN "stopLast" ELSE "grow")
          PROVE  <1>3!:
      BY <2>1, RegisterTypes DEF AddStep, LastClient, SensorsInv, registryVars
    <2>2. ASSUME entry' = 0, AddStep(from, "grow")
          PROVE  <1>3!:
      BY <2>2, RegisterTypes DEF AddStep, SensorsInv
    <2> QED BY <2>1, <2>2 DEF LookUp
  <1>4. PositionsInv'
    BY <1>1, <1>3 DEF SensorsInv, PositionsInv, listVars
  <1>5. AddClientInv'
    BY <1>1, <1>2, <1>3 DEF SensorsInv, AddClientInv, listVars
  <1>6. addPc' \in AddPcs
    BY <1>3 DEF AddPcs
  <1> QED BY <1>1, <1>2, <1>3, <1>4, <1>5, <1>6, LocalStep
          DEF listVars, registryVars, idVars, SensorsInv, SensorsTypeOK, ListTypeOK

\* lastClient->stop() changes m_stop only.
LEMMA StopLastClientStep ==
    ASSUME SensorsInv, TCPInv', StopLastClient
    PROVE  SensorsInv'
  <1>1. /\ UNCHANGED <<listVars, registryVars, idVars, freePc, newID, remoteID,
                        isNewRemoteClient, entry, thread, acceptVars>>
        /\ serverPc = "adding" /\ addPc = "stopLast" /\ addPc' = "takeOver"
    BY DEF StopLastClient, AddStep
  <1>2. SensorsTypeOK'
    BY <1>1 DEF SensorsInv, SensorsTypeOK, TCPInv, ListTypeOK, listVars,
       registryVars, idVars, AddPcs
  <1>3. PositionsInv' /\ AddClientInv' /\ ScanCoversMeasures'
    BY <1>1 DEF SensorsInv, PositionsInv, AddClientInv, ScanCoversMeasures, LastClient,
       listVars, registryVars, acceptVars
  <1>4. RegistersInv' /\ SlotsInBounds'
    BY <1>1 DEF SensorsInv, RegistersInv, SlotsInBounds, Started, ValidSlot, listVars,
       registryVars, idVars, acceptVars
  <1> QED BY <1>2, <1>3, <1>4 DEF SensorsInv

\* The new connection takes a position that was valid for the old one.
LEMMA TakeOverStep ==
    ASSUME SensorsInv, TCPInv', TakeOver
    PROVE  SensorsInv'
  <1> USE ListSensorsAssumption
  <1>1. /\ UNCHANGED <<tcpVars, registryVars, listVars, freePc, m_localID,
                        m_remoteID, strangers, remoteID, isNewRemoteClient, entry>>
        /\ m_wasReplaced' \in [Clients -> BOOLEAN]
    BY DEF TakeOver, SensorsInv, SensorsTypeOK
  <1>2. /\ serverPc = "adding" /\ serverPc' = "adding"
        /\ addPc = "takeOver" /\ addPc' = "bind"
        /\ newID' = m_localID[LastClient]
    BY <1>1 DEF TakeOver, AddStep, tcpVars, acceptVars
  <1>3. ValidSlot(newID')
    BY <1>2, LastClientStarted DEF SensorsInv, SlotsInBounds, ValidSlot
  <1>4. PositionsInv'
    BY <1>1, <1>2 DEF SensorsInv, PositionsInv, listVars
  <1>5. AddClientInv'
    BY <1>1, <1>2, <1>3 DEF SensorsInv, AddClientInv, ValidSlot, listVars
  <1>6. newID' \in -1 .. MAX_SIZE_SENSORS /\ addPc' \in AddPcs
    BY <1>2, <1>3 DEF AddPcs, ValidSlot, Positions
  <1> QED BY <1>1, <1>2, <1>4, <1>5, <1>6, LocalStep
          DEF listVars, registryVars, idVars, SensorsInv, SensorsTypeOK, ListTypeOK

-----------------------------------------------------------------------------
(* reserveSpaceNewSensor, one access to shared memory at a time. *)

LEMMA ReserveStep ==
    ASSUME SensorsInv, TCPInv', Reserve
    PROVE  SensorsInv'
  <1> USE ListSensorsAssumption
  <1>1. /\ UNCHANGED <<tcpVars, registryVars, freePc, idVars, newID, remoteID,
                        isNewRemoteClient, entry>>
        /\ serverPc = "adding" /\ serverPc' = "adding"
        /\ m_queue' = m_queue
    BY DEF Reserve, ReserveGrow, ReserveClamp, ReserveLoadPos,
         ReserveStorePos, ReserveTest, ReserveLoadActive, ReserveStoreActive,
         ReserveLoadBack, ReserveStoreBack, ReserveUnchanged, AddStep, GrowMaxSize,
         ClampMaxSize, LoadPos, StorePos, LoadActive, StoreActive, tcpVars, acceptVars,
         listVars
  <1>2. /\ m_nextPos \in -1 .. MAX_SIZE_SENSORS
        /\ m_maxSize \in 0 .. MAX_SIZE_SENSORS + 1
        /\ m_activeSensors \in Int
        /\ reg \in [Threads -> Int]
        /\ newID \in -1 .. MAX_SIZE_SENSORS
        /\ Accept \in Threads
    BY DEF SensorsInv, SensorsTypeOK, ListTypeOK, Threads
  <1>3. /\ m_nextPos' \in -1 .. MAX_SIZE_SENSORS
        /\ m_activeSensors' \in Int
        /\ m_maxSize' \in 0 .. MAX_SIZE_SENSORS + 1
        /\ m_maxSize' >= m_maxSize \/ m_maxSize' >= MAX_SIZE_SENSORS
        /\ reg' \in [Threads -> Int]
        /\ PositionsInv'
        /\ AddClientInv'
        /\ addPc' \in AddPcs
    <2> USE <1>1, <1>2
        DEF SensorsInv, PositionsInv, AddClientInv, AddStep, AddPcs, ValidSlot, Positions
    <2>1. CASE ReserveGrow
      BY <2>1 DEF ReserveGrow, GrowMaxSize
    <2>2. CASE ReserveClamp
      BY <2>2 DEF ReserveClamp, ClampMaxSize
    <2>3. CASE ReserveLoadPos
      BY <2>3 DEF ReserveLoadPos, LoadPos
    <2>4. CASE ReserveStorePos
      BY <2>4 DEF ReserveStorePos, StorePos
    <2>5. CASE ReserveTest
      BY <2>5 DEF ReserveTest, PosFits, listVars
    <2>6. CASE ReserveLoadActive
      BY <2>6 DEF ReserveLoadActive, LoadActive
    <2>7. CASE ReserveStoreActive
      BY <2>7 DEF ReserveStoreActive, StoreActive, AfterReserve
    <2>8. CASE ReserveLoadBack
      BY <2>8 DEF ReserveLoadBack, LoadPos
    <2>9. CASE ReserveStoreBack
      BY <2>9 DEF ReserveStoreBack, StorePos, AfterReserve
    <2> QED BY <2>1, <2>2, <2>3, <2>4, <2>5, <2>6, <2>7, <2>8, <2>9 DEF Reserve
  <1> QED BY <1>1, <1>2, <1>3, LocalStep DEF registryVars, idVars, SensorsInv, SensorsTypeOK

-----------------------------------------------------------------------------
(* The ends of addClient. *)

LEMMA ResetLocalsTypes ==
    ASSUME ResetLocals, m_listRemoteClientData' \in Seq(Registers)
    PROVE  /\ entry' \in 0 .. Len(m_listRemoteClientData')
           /\ newID' \in -1 .. MAX_SIZE_SENSORS
           /\ remoteID' \in Nat \cup {-1}
           /\ isNewRemoteClient' \in BOOLEAN
           /\ addPc' \in AddPcs
  <1>1. PICK n \in Nat : n = Len(m_listRemoteClientData')
    BY LenProperties
  <1>2. entry' \in 0 .. n
    BY <1>1 DEF ResetLocals
  <1>3. newID' \in -1 .. MAX_SIZE_SENSORS
    BY ListSensorsAssumption DEF ResetLocals
  <1> QED BY <1>1, <1>2, <1>3 DEF ResetLocals, AddPcs

\* The register of a device passes to the connection being added.
LEMMA BindRegisterStep ==
    ASSUME SensorsInv, TCPInv, TCPInv', BindRegister
    PROVE  SensorsInv'
  <1> USE ServerTCPAssumption
  <1>1. /\ UNCHANGED <<listVars, file, m_wasReplaced, strangers, freePc, thread, current>>
        /\ serverPc = "adding" /\ serverPc' = "start" /\ addPc = "bind"
        /\ addPc' = "getID" /\ newID' = -1 /\ remoteID' = -1
        /\ isNewRemoteClient' = FALSE /\ entry' = 0
        /\ m_localID' = [m_localID EXCEPT ![current] = newID]
        /\ m_remoteID' = [m_remoteID EXCEPT ![current] = remoteID]
        /\ m_listRemoteClientData' =
              [m_listRemoteClientData EXCEPT ![entry].client = current]
    BY DEF BindRegister, AddSucceeds, SetClientID, ResetLocals, clientVars
  <1>2. current \in Clients /\ thread[current] = "created"
    BY <1>1 DEF TCPInv, TCPTypeOK, AcceptThreadInv
  <1>3. ValidSlot(newID) /\ newID \in -1 .. MAX_SIZE_SENSORS
    BY <1>1 DEF SensorsInv, AddClientInv, SensorsTypeOK
  <1>4. entry \in DOMAIN m_listRemoteClientData
    BY <1>1, RegisterTypes DEF SensorsInv, AddClientInv, SensorsTypeOK
  <1>5. /\ m_listRemoteClientData' \in Seq(Registers)
        /\ DOMAIN m_listRemoteClientData' = DOMAIN m_listRemoteClientData
        /\ m_listRemoteClientData'[entry].client = current
        /\ \A i \in DOMAIN m_listRemoteClientData :
              i # entry => m_listRemoteClientData'[i] = m_listRemoteClientData[i]
    <2> DEFINE r == [m_listRemoteClientData[entry] EXCEPT !.client = current]
    <2>1. m_listRemoteClientData' = [m_listRemoteClientData EXCEPT ![entry] = r]
      BY <1>1
    <2>2. r \in Registers /\ r.client = current
      BY <1>2, <1>4, RegisterTypes DEF Registers, SensorsInv
    <2> HIDE DEF r
    <2>3. m_listRemoteClientData \in Seq(Registers)
      BY DEF SensorsInv, SensorsTypeOK
    <2> QED BY <1>4, <2>1, <2>2, <2>3
  <1>6. SensorsTypeOK'
    <2>1. /\ m_localID' \in [Clients -> -1 .. MAX_SIZE_SENSORS]
          /\ m_remoteID' \in [Clients -> Nat \cup {-1}]
      BY <1>1, <1>2, <1>3 DEF SensorsInv, SensorsTypeOK
    <2>3. /\ entry' \in 0 .. Len(m_listRemoteClientData')
          /\ newID' \in -1 .. MAX_SIZE_SENSORS
          /\ remoteID' \in Nat \cup {-1}
          /\ isNewRemoteClient' \in BOOLEAN
          /\ addPc' \in AddPcs
      BY <1>5, ResetLocalsTypes DEF BindRegister
    <2>4. ListTypeOK(Threads, Measures)'
      BY <1>1 DEF SensorsInv, SensorsTypeOK, ListTypeOK, listVars
    <2> QED BY <1>1, <1>5, <2>1, <2>3, <2>4 DEF SensorsInv, SensorsTypeOK, TCPInv
  <1>7. PositionsInv' /\ AddClientInv' /\ ScanCoversMeasures'
    BY <1>1 DEF SensorsInv, PositionsInv, AddClientInv, ScanCoversMeasures, listVars
  <1>8. SlotsInBounds'
    BY <1>1, <1>2, <1>3
    DEF SensorsInv, SensorsTypeOK, SlotsInBounds, ValidSlot, Started, listVars
  <1>9. RegistersInv'
    <2>1. ASSUME NEW i \in DOMAIN m_listRemoteClientData', NEW c \in Clients,
                 m_listRemoteClientData'[i].client = c
          PROVE  Started(c)' \/ (c = current' /\ serverPc' = "start")
      <3>1. CASE i = entry
        BY <1>1, <1>5, <2>1, <3>1
      <3>2. CASE i # entry
        BY <1>1, <1>5, <2>1, <3>2 DEF SensorsInv, RegistersInv, Started
      <3> QED BY <3>1, <3>2
    <2>2. ValidSlot(m_localID[current])'
      BY <1>1, <1>2, <1>3 DEF ValidSlot, listVars, SensorsInv, SensorsTypeOK
    <2>3. \A c \in Clients : freePc'[c] # "check" => thread'[c] = "callback"
      BY <1>1 DEF SensorsInv, RegistersInv
    <2> QED BY <2>1, <2>2, <2>3 DEF RegistersInv
  <1> QED BY <1>6, <1>7, <1>8, <1>9 DEF SensorsInv

\* The device's identification goes to the connection, then to the file.
LEMMA WriteRegisterStep ==
    ASSUME SensorsInv, TCPInv, TCPInv', WriteRegister
    PROVE  SensorsInv'
  <1>1. /\ UNCHANGED <<listVars, m_listRemoteClientData, m_wasReplaced, strangers, freePc,
                       tcpVars, thread, serverPc, current, newID, remoteID,
                       isNewRemoteClient, entry>>
        /\ serverPc = "adding" /\ addPc = "register" /\ addPc' = "push"
        /\ isNewRemoteClient /\ file' = Append(file, remoteID)
        /\ m_localID' = [m_localID EXCEPT ![current] = newID]
        /\ m_remoteID' = [m_remoteID EXCEPT ![current] = remoteID]
    BY DEF WriteRegister, AddStep, SetClientID, tcpVars, clientVars, acceptVars
  <1>2. current \in Clients /\ thread[current] = "created"
    BY <1>1 DEF TCPInv, TCPTypeOK, AcceptThreadInv
  <1>3. ValidSlot(newID) /\ newID \in -1 .. MAX_SIZE_SENSORS /\ remoteID \in Nat
    BY <1>1 DEF SensorsInv, AddClientInv, SensorsTypeOK
  <1>4. /\ m_localID' \in [Clients -> -1 .. MAX_SIZE_SENSORS]
        /\ m_remoteID' \in [Clients -> Nat \cup {-1}]
        /\ m_localID'[current] = newID /\ m_remoteID'[current] = remoteID
        /\ \A c \in Clients : c # current => m_localID'[c] = m_localID[c]
    BY <1>1, <1>2, <1>3 DEF SensorsInv, SensorsTypeOK
  <1>5. SensorsTypeOK'
    <2>1. file' \in Seq(Nat)
      BY <1>1, <1>3, AppendProperties DEF SensorsInv, SensorsTypeOK
    <2>2. ListTypeOK(Threads, Measures)'
      BY <1>1 DEF SensorsInv, SensorsTypeOK, ListTypeOK, listVars
    <2>3. entry' \in 0 .. Len(m_listRemoteClientData')
      BY <1>1 DEF SensorsInv, SensorsTypeOK
    <2> QED BY <1>1, <1>4, <2>1, <2>2, <2>3 DEF SensorsInv, SensorsTypeOK, TCPInv, AddPcs
  <1>6. PositionsInv' /\ ScanCoversMeasures'
    BY <1>1 DEF SensorsInv, PositionsInv, ScanCoversMeasures, listVars
  <1>7. AddClientInv'
    BY <1>1, <1>3, <1>4 DEF AddClientInv, ValidSlot, listVars
  <1>8. \A c \in Clients : Started(c)' = Started(c) /\ (Started(c) => c # current)
    BY <1>1, <1>2 DEF Started
  <1>9. SlotsInBounds' /\ RegistersInv'
    BY <1>1, <1>4, <1>8 DEF SensorsInv, SlotsInBounds, RegistersInv, listVars
  <1> QED BY <1>5, <1>6, <1>7, <1>9 DEF SensorsInv

\* What the two ends of addClient without a register have in common.
LEMMA AddRegisterEffect ==
    ASSUME SensorsInv, TCPInv, AddRegister
    PROVE  /\ UNCHANGED <<listVars, file, m_wasReplaced, freePc, thread, current>>
           /\ serverPc = "adding" /\ serverPc' = "start" /\ addPc \in {"push", "register"}
           /\ addPc' = "getID" /\ newID' = -1 /\ remoteID' = -1
           /\ isNewRemoteClient' = FALSE /\ entry' = 0
           /\ current \in Clients /\ thread[current] = "created"
           /\ m_localID' = [m_localID EXCEPT ![current] = newID]
           /\ m_remoteID' = [m_remoteID EXCEPT ![current] = remoteID]
           /\ strangers' = strangers \/ strangers' = strangers \cup {current}
           /\ \/ /\ addPc = "push" /\ isNewRemoteClient
                 /\ strangers' = strangers
                 /\ m_listRemoteClientData' = Append(m_listRemoteClientData,
                                                     [id |-> remoteID, client |-> current])
              \/ /\ addPc = "register" /\ ~isNewRemoteClient
                 /\ strangers' = strangers \cup {current}
                 /\ m_listRemoteClientData' = m_listRemoteClientData
  <1>1. /\ UNCHANGED <<listVars, file, m_wasReplaced, freePc, thread, current>>
        /\ serverPc = "adding" /\ serverPc' = "start"
        /\ addPc' = "getID" /\ newID' = -1 /\ remoteID' = -1
        /\ isNewRemoteClient' = FALSE /\ entry' = 0
    BY DEF AddRegister, PushRegister, AdmitStranger, AddSucceeds, ResetLocals, clientVars,
       idVars, registryVars
  <1>2. current \in Clients /\ thread[current] = "created"
    BY <1>1 DEF TCPInv, TCPTypeOK, AcceptThreadInv
  <1>3. CASE PushRegister
    <2>1. /\ addPc = "push"
          /\ UNCHANGED <<m_localID, m_remoteID, strangers>>
          /\ m_listRemoteClientData' = Append(m_listRemoteClientData,
                                              [id |-> remoteID, client |-> current])
      BY <1>3 DEF PushRegister, idVars
    <2>2. isNewRemoteClient /\ m_localID[current] = newID /\ m_remoteID[current] = remoteID
      BY <2>1 DEF SensorsInv, AddClientInv
    <2>3. /\ m_localID \in [Clients -> -1 .. MAX_SIZE_SENSORS]
          /\ m_remoteID \in [Clients -> Nat \cup {-1}]
      BY DEF SensorsInv, SensorsTypeOK
    <2>4. /\ m_localID' = [m_localID EXCEPT ![current] = newID]
          /\ m_remoteID' = [m_remoteID EXCEPT ![current] = remoteID]
      BY <1>2, <2>1, <2>2, <2>3
    <2> QED BY <1>1, <1>2, <2>1, <2>2, <2>4
  <1>4. CASE AdmitStranger
    <2>1. /\ addPc = "register" /\ ~isNewRemoteClient
          /\ strangers' = strangers \cup {current}
          /\ m_listRemoteClientData' = m_listRemoteClientData
          /\ m_localID' = [m_localID EXCEPT ![current] = newID]
          /\ m_remoteID' = [m_remoteID EXCEPT ![current] = remoteID]
      BY <1>4 DEF AdmitStranger, SetClientID, registryVars
    <2> QED BY <1>1, <1>2, <2>1
  <1> QED BY <1>3, <1>4 DEF AddRegister

\* A device without a register; a renewed one gets a new register.
LEMMA AddRegisterStep ==
    ASSUME SensorsInv, TCPInv, TCPInv', AddRegister
    PROVE  SensorsInv'
  <1> USE ServerTCPAssumption
  <1>1. /\ UNCHANGED <<listVars, file, m_wasReplaced, freePc, thread, current>>
        /\ serverPc = "adding" /\ serverPc' = "start" /\ addPc \in {"push", "register"}
        /\ addPc' = "getID" /\ newID' = -1 /\ remoteID' = -1
        /\ isNewRemoteClient' = FALSE /\ entry' = 0
        /\ m_localID' = [m_localID EXCEPT ![current] = newID]
        /\ m_remoteID' = [m_remoteID EXCEPT ![current] = remoteID]
    BY AddRegisterEffect
  <1>2. current \in Clients /\ thread[current] = "created"
    BY AddRegisterEffect
  <1>3. ValidSlot(newID) /\ newID \in -1 .. MAX_SIZE_SENSORS
    BY <1>1 DEF SensorsInv, AddClientInv, SensorsTypeOK
  <1>4. /\ m_listRemoteClientData' \in Seq(Registers)
        /\ \A i \in DOMAIN m_listRemoteClientData', c \in Clients :
              m_listRemoteClientData'[i].client = c => Started(c) \/ c = current
    <2>1. /\ m_listRemoteClientData \in Seq(Registers)
          /\ \A i \in DOMAIN m_listRemoteClientData, c \in Clients :
                m_listRemoteClientData[i].client = c => Started(c) \/ c = current
      BY DEF SensorsInv, SensorsTypeOK, RegistersInv
    <2>2. CASE addPc = "push"
      <3> DEFINE r == [id |-> remoteID, client |-> current]
      <3>1. m_listRemoteClientData' = Append(m_listRemoteClientData, r)
        BY <2>2, AddRegisterEffect
      <3>2. r \in Registers /\ r.client = current
        BY <1>1, <1>2 DEF Registers, SensorsInv, AddClientInv
      <3> HIDE DEF r
      <3>3. /\ DOMAIN m_listRemoteClientData = 1 .. Len(m_listRemoteClientData)
            /\ Len(m_listRemoteClientData) \in Nat
        BY RegisterTypes DEF SensorsInv
      <3>4. /\ m_listRemoteClientData' \in Seq(Registers)
            /\ Len(m_listRemoteClientData') = Len(m_listRemoteClientData) + 1
            /\ \A i \in 1 .. Len(m_listRemoteClientData) :
                  m_listRemoteClientData'[i] = m_listRemoteClientData[i]
            /\ m_listRemoteClientData'[Len(m_listRemoteClientData) + 1] = r
        BY <2>1, <3>1, <3>2, AppendProperties
      <3>5. DOMAIN m_listRemoteClientData' = 1 .. Len(m_listRemoteClientData) + 1
        BY <3>4, LenProperties
      <3>7. ASSUME NEW i \in DOMAIN m_listRemoteClientData', NEW c \in Clients,
                   m_listRemoteClientData'[i].client = c
            PROVE  Started(c) \/ c = current
        <4>1. CASE i = Len(m_listRemoteClientData) + 1
          BY <3>2, <3>4, <3>7, <4>1
        <4>2. CASE i # Len(m_listRemoteClientData) + 1
          <5>1. i \in DOMAIN m_listRemoteClientData
            BY <3>3, <3>5, <4>2
          <5> QED BY <2>1, <3>3, <3>4, <3>7, <5>1
        <4> QED BY <4>1, <4>2
      <3> QED BY <3>4, <3>7
    <2>3. CASE addPc = "register"
      BY <2>1, <2>3, AddRegisterEffect
    <2> QED BY <1>1, <2>2, <2>3
  <1>5. SensorsTypeOK'
    <2>1. /\ m_localID' \in [Clients -> -1 .. MAX_SIZE_SENSORS]
          /\ m_remoteID' \in [Clients -> Nat \cup {-1}]
      BY <1>1, <1>2, <1>3 DEF SensorsInv, SensorsTypeOK
    <2>2. strangers' \subseteq Clients
      BY AddRegisterEffect DEF SensorsInv, SensorsTypeOK
    <2>3. /\ entry' \in 0 .. Len(m_listRemoteClientData')
          /\ newID' \in -1 .. MAX_SIZE_SENSORS
          /\ remoteID' \in Nat \cup {-1}
          /\ isNewRemoteClient' \in BOOLEAN
          /\ addPc' \in AddPcs
      BY <1>4, ResetLocalsTypes DEF AddRegister, PushRegister, AdmitStranger
    <2>4. ListTypeOK(Threads, Measures)'
      BY <1>1 DEF SensorsInv, SensorsTypeOK, ListTypeOK, listVars
    <2> QED BY <1>1, <1>4, <2>1, <2>2, <2>3, <2>4 DEF SensorsInv, SensorsTypeOK, TCPInv
  <1>6. PositionsInv' /\ AddClientInv' /\ ScanCoversMeasures'
    BY <1>1 DEF SensorsInv, PositionsInv, AddClientInv, ScanCoversMeasures, listVars
  <1>7. SlotsInBounds'
    BY <1>1, <1>2, <1>3
    DEF SensorsInv, SensorsTypeOK, SlotsInBounds, ValidSlot, Started, listVars
  <1>8. RegistersInv'
    <2>1. \A i \in DOMAIN m_listRemoteClientData', c \in Clients :
            m_listRemoteClientData'[i].client = c =>
                Started(c)' \/ (c = current' /\ serverPc' = "start")
      BY <1>1, <1>4 DEF Started
    <2>2. ValidSlot(m_localID[current])'
      BY <1>1, <1>2, <1>3 DEF ValidSlot, listVars, SensorsInv, SensorsTypeOK
    <2>3. \A c \in Clients : freePc'[c] # "check" => thread'[c] = "callback"
      BY <1>1 DEF SensorsInv, RegistersInv
    <2> QED BY <2>1, <2>2, <2>3 DEF RegistersInv
  <1> QED BY <1>5, <1>6, <1>7, <1>8 DEF SensorsInv

\* lpClient->stop(); return nullptr.
LEMMA RejectStep ==
    ASSUME SensorsInv, TCPInv, TCPInv', Reject
    PROVE  SensorsInv'
  <1>1. /\ UNCHANGED <<listVars, registryVars, idVars, freePc, thread>>
        /\ serverPc = "adding" /\ serverPc' = "check" /\ addPc = "reject"
        /\ addPc' = "getID" /\ newID' = -1 /\ remoteID' = -1
        /\ isNewRemoteClient' = FALSE /\ entry' = 0
    BY DEF Reject, AddFails, ResetLocals
  <1>2. SensorsTypeOK'
    <2>1. /\ entry' \in 0 .. Len(m_listRemoteClientData')
          /\ newID' \in -1 .. MAX_SIZE_SENSORS
          /\ remoteID' \in Nat \cup {-1}
          /\ isNewRemoteClient' \in BOOLEAN
          /\ addPc' \in AddPcs
      BY <1>1, ResetLocalsTypes DEF Reject, SensorsInv, SensorsTypeOK, registryVars
    <2>2. ListTypeOK(Threads, Measures)'
      BY <1>1 DEF SensorsInv, SensorsTypeOK, ListTypeOK, listVars
    <2> QED BY <1>1, <2>1, <2>2
            DEF SensorsInv, SensorsTypeOK, TCPInv, registryVars, idVars
  <1>3. PositionsInv' /\ AddClientInv' /\ ScanCoversMeasures'
    BY <1>1 DEF SensorsInv, PositionsInv, AddClientInv, ScanCoversMeasures, listVars
  <1>4. RegistersInv' /\ SlotsInBounds'
    BY <1>1 DEF SensorsInv, RegistersInv, SlotsInBounds, Started, listVars,
       registryVars, idVars
  <1> QED BY <1>2, <1>3, <1>4 DEF SensorsInv

-----------------------------------------------------------------------------
(* The threads of the connections. *)

\* A measurement goes to a position that m_maxSize counts.
LEMMA ClientMeasuresStep ==
    ASSUME SensorsInv, TCPInv, TCPInv', NEW c \in Clients, NEW data \in Measures,
           ClientMeasures(c, data)
    PROVE  SensorsInv'
  <1>1. /\ UNCHANGED <<localVars, registryVars, idVars, freePc, acceptVars,
                        m_nextPos, m_activeSensors, m_maxSize, reg>>
        /\ thread[c] = "recv" /\ thread' = [thread EXCEPT ![c] = "run"]
    BY DEF ClientMeasures, ClientReceive, AppendMeasure
  <1>2. \A d \in Clients : Started(d)' <=> Started(d)
    BY <1>1 DEF Started, TCPInv, TCPTypeOK
  <1>3. ValidSlot(m_localID[c])
    BY <1>1 DEF SensorsInv, SlotsInBounds, Started, ValidSlot
  <1>4. /\ m_queue' \in [Positions -> Measures \cup {NoMeasure}]
        /\ ScanCoversMeasures'
    <2>1. m_queue \in [Positions -> Measures \cup {NoMeasure}]
      BY DEF SensorsInv, SensorsTypeOK, ListTypeOK
    <2>2. m_queue' = [m_queue EXCEPT ![m_localID[c]] = data] \/ m_queue' = m_queue
      BY DEF ClientMeasures, AppendMeasure
    <2> QED BY <1>1, <1>3, <2>1, <2>2 DEF SensorsInv, ScanCoversMeasures, ValidSlot
  <1>5. SensorsTypeOK'
    <2>1. ListTypeOK(Threads, Measures)'
      BY <1>1, <1>4 DEF SensorsInv, SensorsTypeOK, ListTypeOK
    <2> QED BY <1>1, <2>1
            DEF SensorsInv, SensorsTypeOK, TCPInv, localVars, registryVars, idVars
  <1>6. PositionsInv' /\ AddClientInv'
    BY <1>1 DEF SensorsInv, PositionsInv, AddClientInv, ValidSlot, LastClient,
       localVars, registryVars, idVars, acceptVars
  <1>7. SlotsInBounds'
    BY <1>1, <1>2 DEF SensorsInv, SlotsInBounds, idVars
  <1>8. RegistersInv'
    <2>1. \A d \in Clients : freePc'[d] # "check" => thread'[d] = "callback"
      <3>1. \A d \in Clients : freePc[d] # "check" => thread[d] = "callback"
        BY DEF SensorsInv, RegistersInv
      <3>2. DOMAIN thread = Clients
        BY DEF TCPInv, TCPTypeOK
      <3>3. freePc' = freePc /\ freePc[c] = "check"
        BY <1>1, <3>1
      <3> QED BY <1>1, <3>1, <3>2, <3>3
    <2> QED BY <1>1, <1>2, <2>1 DEF SensorsInv, RegistersInv, ValidSlot,
            registryVars, idVars, acceptVars
  <1> QED BY <1>4, <1>5, <1>6, <1>7, <1>8 DEF SensorsInv

\* remove_client_from_queue: it may set m_nextPos to the position of its
\* connection at any time, and the accept thread can live with that.
LEMMA CallbackStep ==
    ASSUME SensorsInv, TCPInv, TCPInv', NEW c \in Clients, Callback(c)
    PROVE  SensorsInv'
  <1> USE ListSensorsAssumption
  <1>1. /\ UNCHANGED <<localVars, registryVars, idVars, acceptVars, m_maxSize, m_queue>>
        /\ thread[c] = "callback"
        /\ \/ thread' = thread /\ freePc' \in [Clients -> FreePcs]
              /\ \A d \in Clients : d # c => freePc'[d] = freePc[d]
           \/ /\ thread' = [thread EXCEPT ![c] = "done"]
              /\ freePc' = [freePc EXCEPT ![c] = "check"]
    <2> USE DEF SensorsInv, SensorsTypeOK, RegistersInv, FreePcs
    <2>1. CASE CheckReplaced(c)
      BY <2>1 DEF CheckReplaced, ClientEnds, tcpVars, clientVars, listVars
    <2>2. CASE FreeLoad(c)
      BY <2>2 DEF FreeLoad, LoadActive, tcpVars, clientVars
    <2>3. CASE FreeStore(c)
      BY <2>3 DEF FreeStore, StoreActive, tcpVars, clientVars
    <2>4. CASE FreeSlot(c)
      BY <2>4 DEF FreeSlot, FreePos, ClientEnds
    <2> QED BY <2>1, <2>2, <2>3, <2>4 DEF Callback
  <1>2. ValidSlot(m_localID[c])
    BY <1>1 DEF SensorsInv, SlotsInBounds, Started, ValidSlot
  <1>3. /\ m_nextPos' = m_nextPos \/ m_nextPos' = m_localID[c]
        /\ reg'[Accept] = reg[Accept]
        /\ reg' \in [Threads -> Int]
        /\ m_activeSensors' \in Int
    <2>1. /\ reg \in [Threads -> Int] /\ m_activeSensors \in Int
          /\ c # Accept /\ c \in Threads
      BY ServerSensorsAssumption DEF SensorsInv, SensorsTypeOK, ListTypeOK, Threads
    <2>2. CASE CheckReplaced(c)
      BY <2>1, <2>2 DEF CheckReplaced, listVars
    <2>3. CASE FreeLoad(c)
      BY <2>1, <2>3 DEF FreeLoad, LoadActive
    <2>4. CASE FreeStore(c)
      <3>1. /\ m_activeSensors' = reg[c] - 1 /\ m_nextPos' = m_nextPos
            /\ reg' = [reg EXCEPT ![c] = 0]
        BY <2>4, <2>1 DEF FreeStore, StoreActive
      <3> QED BY <2>1, <3>1
    <2>5. CASE FreeSlot(c)
      BY <2>1, <2>5 DEF FreeSlot, FreePos
    <2> QED BY <2>2, <2>3, <2>4, <2>5 DEF Callback
  <1>4. SensorsTypeOK'
    <2>1. ListTypeOK(Threads, Measures)'
      BY <1>1, <1>2, <1>3 DEF SensorsInv, SensorsTypeOK, ListTypeOK, ValidSlot, Positions
    <2>2. freePc' \in [Clients -> FreePcs]
      BY <1>1 DEF SensorsInv, SensorsTypeOK, FreePcs
    <2> QED BY <1>1, <2>1, <2>2
            DEF SensorsInv, SensorsTypeOK, TCPInv, localVars, registryVars, idVars
  <1>5. PositionsInv'
    <2>1. m_maxSize \in Nat /\ m_nextPos \in Int
      BY DEF SensorsInv, SensorsTypeOK, ListTypeOK
    <2> QED BY <1>1, <1>2, <1>3, <2>1
            DEF SensorsInv, PositionsInv, ValidSlot, Positions, localVars
  <1>6. AddClientInv' /\ ScanCoversMeasures'
    BY <1>1 DEF SensorsInv, AddClientInv, ScanCoversMeasures, ValidSlot, LastClient,
       localVars, registryVars, idVars, acceptVars
  <1>7. \A d \in Clients : Started(d)' <=> Started(d)
    BY <1>1 DEF Started, TCPInv, TCPTypeOK
  <1>8. SlotsInBounds'
    BY <1>1, <1>7 DEF SensorsInv, SlotsInBounds, idVars
  <1>9. RegistersInv'
    <2>1. \A d \in Clients : freePc'[d] # "check" => thread'[d] = "callback"
      <3>1. \A d \in Clients : freePc[d] # "check" => thread[d] = "callback"
        BY DEF SensorsInv, RegistersInv
      <3>2. /\ DOMAIN thread = Clients
            /\ DOMAIN freePc = Clients
        BY DEF SensorsInv, SensorsTypeOK, TCPInv, TCPTypeOK
      <3>3. SUFFICES ASSUME NEW d \in Clients, freePc'[d] # "check"
                     PROVE  thread'[d] = "callback"
        OBVIOUS
      <3>4. CASE /\ thread' = thread
                 /\ \A e \in Clients : e # c => freePc'[e] = freePc[e]
        BY <3>1, <3>3, <3>4, <1>1
      <3>5. CASE /\ thread' = [thread EXCEPT ![c] = "done"]
                 /\ freePc' = [freePc EXCEPT ![c] = "check"]
        <4>1. d # c
          BY <3>2, <3>3, <3>5
        <4> QED BY <4>1, <3>1, <3>2, <3>3, <3>5
      <3> QED BY <1>1, <3>4, <3>5
    <2> QED BY <1>1, <1>7, <2>1 DEF SensorsInv, RegistersInv, ValidSlot,
            registryVars, idVars, acceptVars
  <1> QED BY <1>4, <1>5, <1>6, <1>8, <1>9 DEF SensorsInv

\* A register of the other server changes the file alone.
LEMMA AlarmRegistersStep ==
    ASSUME SensorsInv, TCPInv', NEW id \in Nat, AlarmRegisters(id)
    PROVE  SensorsInv'
  <1>1. /\ UNCHANGED <<m_listRemoteClientData, tcpVars, listVars, localVars, idVars, freePc>>
        /\ file' = Append(file, id)
    BY DEF AlarmRegisters
  <1>2. file' \in Seq(Nat)
    BY <1>1, AppendProperties DEF SensorsInv, SensorsTypeOK
  <1>3. SensorsTypeOK'
    BY <1>1, <1>2 DEF tcpVars, listVars, localVars, idVars, SensorsInv, SensorsTypeOK,
       TCPInv, ListTypeOK
  <1>4. PositionsInv' /\ AddClientInv'
    BY <1>1 DEF tcpVars, listVars, localVars, idVars, acceptVars, SensorsInv, PositionsInv,
       AddClientInv, ValidSlot, LastClient
  <1>5. RegistersInv' /\ SlotsInBounds' /\ ScanCoversMeasures'
    BY <1>1 DEF tcpVars, listVars, idVars, acceptVars, clientVars, SensorsInv, RegistersInv,
       SlotsInBounds, ScanCoversMeasures, ValidSlot, Started
  <1> QED BY <1>3, <1>4, <1>5 DEF SensorsInv

LEMMA SensorsStutter ==
    ASSUME SensorsInv, TCPInv', UNCHANGED vars
    PROVE  SensorsInv'
  BY DEF vars, tcpVars, listVars, localVars, registryVars, idVars, acceptVars,
     clientVars, SensorsInv, SensorsTypeOK, TCPInv, ListTypeOK, PositionsInv,
     AddClientInv, RegistersInv, SlotsInBounds, ScanCoversMeasures, ValidSlot,
     LastClient, Started

-----------------------------------------------------------------------------
(* Every step of addClient. *)

LEMMA AddClientStep ==
    ASSUME SensorsInv, TCPInv, TCPInv', AddClient
    PROVE  SensorsInv'
  <1>1. CASE AddAlone
    BY <1>1, HandshakeSteps, StopLastClientStep, TakeOverStep, ReserveStep,
       BindRegisterStep, WriteRegisterStep, AddRegisterStep, RejectStep DEF AddAlone
  <1>2. CASE HandshakeFails
    BY <1>2, HandshakeSteps
  <1>3. ASSUME NEW id \in ClaimedIDs, RecvAcknowledge(id)
        PROVE  SensorsInv'
    <2>1. id \in Nat
      BY ServerSensorsAssumption DEF ClaimedIDs
    <2>2. isNewRemoteClient \in BOOLEAN
      BY DEF SensorsInv, SensorsTypeOK
    <2> QED BY <1>3, <2>1, <2>2, LookUpSteps DEF RecvAcknowledge
  <1>4. ASSUME NEW id \in 1 .. Len(m_listRemoteClientData) + 2, SendRenew(id)
        PROVE  SensorsInv'
    <2>1. id \in Nat
      BY RegisterTypes DEF SensorsInv
    <2> QED BY <1>4, <2>1, HandshakeSteps
  <1>5. CASE RecvRenewed
    <2>1. remoteID \in Nat
      BY <1>5 DEF RecvRenewed, LookUp, AddStep, SensorsInv, AddClientInv
    <2> QED BY <1>5, <2>1, LookUpSteps DEF RecvRenewed
  <1> QED BY <1>1, <1>2, <1>3, <1>4, <1>5 DEF AddClient

\* The sensor server implements the server of ServerTCP, and its own
\* invariant holds in every reachable state.
THEOREM SensorsInvariant == SensorsSpec => [](SensorsInv /\ TCPInv)
  <1>1. SensorsInit => SensorsInv /\ TCPInv
    BY SensorsInitInv, TCPInitInv DEF SensorsInit
  <1>2. SensorsInv /\ TCPInv /\ [SensorsNext]_vars => TCPInv'
    BY StepMaps, TCPInvStep DEF vars
  <1>3. SensorsInv /\ TCPInv /\ [SensorsNext]_vars => SensorsInv'
    <2>1. \A id \in 1 .. MaxRemoteID : id \in Nat
      BY ServerSensorsAssumption
    <2> QED BY <1>2, <2>1, InheritedStep, AddClientStep, ClientMeasuresStep, CallbackStep,
            AlarmRegistersStep, SensorsStutter DEF SensorsNext
  <1> QED BY <1>1, <1>2, <1>3, PTL DEF SensorsSpec

\* Whatever addClient and remove_client_from_queue do in the sensor server,
\* the threads and the queue of connections behave as ServerTCP says.
THEOREM SensorsImplementTCP == SensorsSpec => TCPSpec
  <1>1. SensorsInit => TCPInit
    BY DEF SensorsInit
  <1>2. SensorsInv /\ TCPInv /\ [SensorsNext]_vars => [TCPNext]_tcpVars
    BY StepMaps DEF vars
  <1> QED BY <1>1, <1>2, SensorsInvariant, PTL DEF SensorsSpec, TCPSpec

\* Every variable of the sensor server keeps its type.
THEOREM SensorsTypeCorrect == SensorsSpec => []SensorsTypeOK
  BY SensorsInvariant, PTL DEF SensorsInv

\* The position of an admitted connection is one of the array and one that
\* the alarm scans (ListSensors.cpp:14, 41).
THEOREM PositionsAreValid == SensorsSpec => []SlotsInBounds
  BY SensorsInvariant, PTL DEF SensorsInv

\* No measurement lies beyond m_maxSize (RequestAlarm.cpp:27).
THEOREM MeasuresAreScanned == SensorsSpec => []ScanCoversMeasures
  BY SensorsInvariant, PTL DEF SensorsInv
=============================================================================
