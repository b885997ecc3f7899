--------------------------- MODULE RegistryProofs ---------------------------
(***************************************************************************)
(* The list of registers of the sensor server: no new register has an      *)
(* identification the list holds, a restart forgets none that it holds,    *)
(* and of the connections of one device only the latest is served; for any *)
(* number of connections and of identifications, and any contents of the   *)
(* file, which the server of the alarms writes to as well.                 *)
(***************************************************************************)
EXTENDS ServerSensorsProofs

\* What addClient knows of the list at each of its steps.
IDsInv ==
    /\ addPc \in {"getID", "hello", "renew"} => entry = 0 /\ ~isNewRemoteClient
    /\ addPc = "renew" => remoteID \notin RegisteredIDs
    /\ isNewRemoteClient => entry = 0 /\ remoteID \notin RegisteredIDs
    /\ entry # 0 => IsFirstRegister(entry, remoteID)

-----------------------------------------------------------------------------
(* The list and the file. *)

\* What the threads of connections, of the server and the other server leave
\* alone.
LEMMA OthersLeaveRegistry ==
    ASSUME SensorsNext, ~AddClient
    PROVE  UNCHANGED <<localVars, m_listRemoteClientData, idVars>>
  <1>1. CASE Inherited
    BY <1>1 DEF Inherited, registryVars
  <1>2. ASSUME NEW c \in Clients, NEW data \in Measures, ClientMeasures(c, data)
        PROVE  UNCHANGED <<localVars, registryVars, idVars>>
    BY <1>2 DEF ClientMeasures
  <1>3. ASSUME NEW c \in Clients, Callback(c)
        PROVE  UNCHANGED <<localVars, registryVars, idVars>>
    BY <1>3 DEF Callback, CheckReplaced, FreeLoad, FreeStore, FreeSlot
  <1>4. ASSUME NEW id, AlarmRegisters(id)
        PROVE  UNCHANGED <<localVars, m_listRemoteClientData, idVars>>
    BY <1>4 DEF AlarmRegisters
  <1> QED BY <1>1, <1>2, <1>3, <1>4 DEF SensorsNext, registryVars

\* Binding a register does not change any identification.
LEMMA BindKeepsIDs ==
    ASSUME SensorsInv, TCPInv, BindRegister
    PROVE  /\ DOMAIN m_listRemoteClientData' = DOMAIN m_listRemoteClientData
           /\ \A i \in DOMAIN m_listRemoteClientData :
                 /\ m_listRemoteClientData'[i].id = m_listRemoteClientData[i].id
                 /\ m_listRemoteClientData'[i].client =
                       IF i = entry THEN current ELSE m_listRemoteClientData[i].client
           /\ entry \in DOMAIN m_listRemoteClientData
           /\ RegisteredIDs' = RegisteredIDs
  <1>1. /\ addPc = "bind" /\ file' = file
        /\ m_listRemoteClientData' =
              [m_listRemoteClientData EXCEPT ![entry].client = current]
    BY DEF BindRegister
  <1>2. entry \in DOMAIN m_listRemoteClientData
    BY <1>1, RegisterTypes DEF SensorsInv, AddClientInv, SensorsTypeOK
  <1>3. \A i \in DOMAIN m_listRemoteClientData : m_listRemoteClientData[i] \in Registers
    BY RegisterTypes DEF SensorsInv
  <1>4. PICK r : /\ r = [m_listRemoteClientData[entry] EXCEPT !.client = current]
                 /\ m_listRemoteClientData' = [m_listRemoteClientData EXCEPT ![entry] = r]
    BY <1>1
  <1>5. r.id = m_listRemoteClientData[entry].id /\ r.client = current
    BY <1>2, <1>3, <1>4 DEF Registers
  <1>6. /\ DOMAIN m_listRemoteClientData' = DOMAIN m_listRemoteClientData
        /\ m_listRemoteClientData'[entry] = r
        /\ \A i \in DOMAIN m_listRemoteClientData :
              i # entry => m_listRemoteClientData'[i] = m_listRemoteClientData[i]
    BY <1>2, <1>4
  <1>7. \A i \in DOMAIN m_listRemoteClientData :
              /\ m_listRemoteClientData'[i].id = m_listRemoteClientData[i].id
              /\ m_listRemoteClientData'[i].client =
                    IF i = entry THEN current ELSE m_listRemoteClientData[i].client
    BY <1>5, <1>6
  <1> QED BY <1>2, <1>6, <1>7 DEF RegisteredIDs

\* A new register comes last.
LEMMA AddKeepsIDs ==
    ASSUME SensorsInv, TCPInv, AddRegister, addPc = "push"
    PROVE  /\ file' = file /\ remoteID \in Nat
           /\ DOMAIN m_listRemoteClientData = 1 .. Len(m_listRemoteClientData)
           /\ Len(m_listRemoteClientData) \in Nat
           /\ DOMAIN m_listRemoteClientData' = 1 .. Len(m_listRemoteClientData) + 1
           /\ \A i \in DOMAIN m_listRemoteClientData :
                 m_listRemoteClientData'[i] = m_listRemoteClientData[i]
           /\ m_listRemoteClientData'[Len(m_listRemoteClientData) + 1]
                 = [id |-> remoteID, client |-> current]
           /\ RegisteredIDs' = RegisteredIDs \cup {remoteID}
  <1>1. /\ file' = file
        /\ m_listRemoteClientData' =
              Append(m_listRemoteClientData, [id |-> remoteID, client |-> current])
    BY AddRegisterEffect
  <1>2. /\ remoteID \in Nat /\ current \in Clients \cup {NoClient}
        /\ m_listRemoteClientData \in Seq(Registers)
    BY <1>1 DEF SensorsInv, AddClientInv, SensorsTypeOK, TCPInv, TCPTypeOK
  <1>3. /\ DOMAIN m_listRemoteClientData = 1 .. Len(m_listRemoteClientData)
        /\ Len(m_listRemoteClientData) \in Nat
    BY RegisterTypes DEF SensorsInv
  <1>4. PICK r : r = [id |-> remoteID, client |-> current]
    OBVIOUS
  <1>5. r \in Registers /\ r.id = remoteID
    BY <1>2, <1>4 DEF Registers
  <1>6. m_listRemoteClientData' = Append(m_listRemoteClientData, r)
    BY <1>1, <1>4
  <1>7. /\ DOMAIN m_listRemoteClientData' = 1 .. Len(m_listRemoteClientData) + 1
        /\ \A i \in 1 .. Len(m_listRemoteClientData) :
              m_listRemoteClientData'[i] = m_listRemoteClientData[i]
        /\ m_listRemoteClientData'[Len(m_listRemoteClientData) + 1] = r
    BY <1>2, <1>3, <1>5, <1>6, AppendProperties, LenProperties
  <1>8. RegisteredIDs' = RegisteredIDs \cup {remoteID}
    BY <1>3, <1>5, <1>7 DEF RegisteredIDs
  <1> QED BY <1>1, <1>2, <1>3, <1>4, <1>7, <1>8

-----------------------------------------------------------------------------
(* The invariant of addClient and the list. *)

LEMMA IDsStep ==
    ASSUME SensorsInv, TCPInv, IDsInv, [SensorsNext]_vars
    PROVE  IDsInv'
  <1>1. CASE UNCHANGED <<localVars, m_listRemoteClientData>>
    BY <1>1 DEF localVars, IDsInv, RegisteredIDs, IsFirstRegister
  <1>2. CASE AddClient
    <2>1. CASE BindRegister \/ AddRegister \/ Reject
      BY <2>1 DEF BindRegister, AddRegister, PushRegister, AdmitStranger, Reject,
         ResetLocals, IDsInv
    <2>2. CASE \/ GetNextLocalID \/ StopLastClient \/ TakeOver \/ Reserve
               \/ HandshakeFails \/ WriteRegister
      <3>1. UNCHANGED <<m_listRemoteClientData, remoteID, isNewRemoteClient, entry>>
        BY <2>2 DEF GetNextLocalID, StopLastClient, TakeOver, HandshakeFails, Reserve,
           ReserveGrow, ReserveClamp, ReserveLoadPos, ReserveStorePos, ReserveTest,
           ReserveLoadActive, ReserveStoreActive, ReserveLoadBack, ReserveStoreBack,
           ReserveUnchanged, WriteRegister, registryVars
      <3>2. addPc' = addPc \/ addPc' \notin {"getID", "hello", "renew"}
               \/ (addPc = "getID" /\ addPc' = "hello")
        BY <2>2 DEF GetNextLocalID, StopLastClient, TakeOver, HandshakeFails, Reserve,
           ReserveGrow, ReserveClamp, ReserveLoadPos, ReserveStorePos, ReserveTest,
           ReserveLoadActive, ReserveStoreActive, ReserveLoadBack, ReserveStoreBack,
           WriteRegister, AddStep, AfterReserve
      <3> QED BY <3>1, <3>2 DEF IDsInv, RegisteredIDs, IsFirstRegister
    <2>3. ASSUME NEW id, SendRenew(id)
          PROVE  IDsInv'
      <3>1. /\ addPc = "hello" /\ addPc' = "renew" /\ remoteID' = id
            /\ UNCHANGED <<m_listRemoteClientData, isNewRemoteClient, entry>>
            /\ IsNewRemoteID(id)
        BY <2>3 DEF SendRenew, AddStep, registryVars
      <3>2. id \notin RegisteredIDs
        <4>1. CASE m_listRemoteClientData = <<>>
          BY <4>1 DEF RegisteredIDs
        <4>2. CASE m_listRemoteClientData # <<>>
          BY <3>1, <4>2 DEF IsNewRemoteID
        <4> QED BY <4>1, <4>2
      <3> QED BY <3>1, <3>2 DEF IDsInv, RegisteredIDs
    <2>4. ASSUME NEW id, RecvAcknowledge(id)
          PROVE  IDsInv'
      <3>1. /\ LookUp(id, "hello") /\ addPc = "hello"
            /\ UNCHANGED <<m_listRemoteClientData, isNewRemoteClient>>
        BY <2>4 DEF RecvAcknowledge, LookUp, AddStep, registryVars
      <3>2. /\ remoteID' = id /\ addPc' \in {"stopLast", "grow"}
            /\ entry' # 0 => IsFirstRegister(entry', id)
        BY <3>1 DEF LookUp, AddStep
      <3> QED BY <3>1, <3>2 DEF IDsInv, RegisteredIDs, IsFirstRegister
    <2>5. CASE RecvRenewed
      <3>1. /\ LookUp(remoteID, "renew") /\ addPc = "renew"
            /\ UNCHANGED m_listRemoteClientData
        BY <2>5 DEF RecvRenewed, LookUp, AddStep, registryVars
      <3>2. remoteID \notin RegisteredIDs
        BY <3>1 DEF IDsInv
      <3>3. /\ remoteID' = remoteID /\ addPc' \in {"stopLast", "grow"}
            /\ entry' = 0
        BY <3>1, <3>2 DEF LookUp, AddStep, IsFirstRegister, RegisteredIDs
      <3> QED BY <3>1, <3>2, <3>3 DEF IDsInv, RegisteredIDs
    <2> QED BY <1>2, <2>1, <2>2, <2>3, <2>4, <2>5 DEF AddClient, AddAlone
  <1> QED BY <1>1, <1>2, OthersLeaveRegistry DEF vars, registryVars

\* What addClient knows of the list stays true while it waits for the device.
THEOREM RegistryInvariant == SensorsSpec => [](SensorsInv /\ TCPInv /\ IDsInv)
  <1>1. SensorsInit => IDsInv
    BY DEF SensorsInit, IDsInv
  <1>2. SensorsInv /\ TCPInv /\ IDsInv /\ [SensorsNext]_vars => IDsInv'
    BY IDsStep
  <1> QED BY <1>1, <1>2, SensorsInvariant, PTL DEF SensorsSpec

\* The identification that getNewRemoteID chose is free until it is registered
\* (ServerSensors.cpp:94): a device that is new takes nobody's register.
THEOREM NewDevicesAreNew == SensorsSpec => []NewDeviceTakesNoRegister
  <1>1. IDsInv => NewDeviceTakesNoRegister
    BY DEF IDsInv, NewDeviceTakesNoRegister
  <1> QED BY <1>1, RegistryInvariant, PTL

-----------------------------------------------------------------------------
(* The file. *)

IDsOf(list) == {list[i].id : i \in DOMAIN list}

\* What the constructor makes of a file.
LEMMA LoadedIDs ==
    ASSUME NEW f \in Seq(Nat)
    PROVE  /\ f # <<>> => IDsOf(LoadRegisters(f)) = {f[i] : i \in 1 .. Len(f)} \cup {0}
           /\ f = <<>> => LoadRegisters(f) = <<>>
           /\ f # <<>> =>
                /\ DOMAIN LoadRegisters(f) = 1 .. Len(f) + 1
                /\ \A i \in 1 .. Len(f) : LoadRegisters(f)[i] = [id |-> f[i], client |-> NoClient]
                /\ LoadRegisters(f)[Len(f) + 1] = NullRegister
  <1>1. Len(f) \in Nat
    OBVIOUS
  <1>2. CASE f = <<>>
    BY <1>2 DEF LoadRegisters
  <1>3. CASE f # <<>>
    <2>1. PICK loaded : loaded = [i \in 1 .. Len(f) |-> [id |-> f[i], client |-> NoClient]]
      OBVIOUS
    <2>2. loaded \in Seq(Registers) /\ Len(loaded) = Len(f)
      <3>1. \A i \in 1 .. Len(f) : f[i] \in Nat
        OBVIOUS
      <3> QED BY <2>1, <3>1, <1>1, IsASeq DEF Registers
    <2>3. NullRegister \in Registers
      BY DEF NullRegister, Registers
    <2>4. LoadRegisters(f) = Append(loaded, NullRegister)
      BY <1>3, <2>1 DEF LoadRegisters
    <2>5. /\ DOMAIN LoadRegisters(f) = 1 .. Len(f) + 1
          /\ \A i \in 1 .. Len(f) : LoadRegisters(f)[i] = loaded[i]
          /\ LoadRegisters(f)[Len(f) + 1] = NullRegister
      BY <1>1, <2>2, <2>3, <2>4, AppendProperties, LenProperties
    <2>6. \A i \in 1 .. Len(f) : LoadRegisters(f)[i] = [id |-> f[i], client |-> NoClient]
      BY <2>1, <2>5
    <2>7. IDsOf(LoadRegisters(f)) = {f[i] : i \in 1 .. Len(f)} \cup {0}
      <3>1. /\ \A i \in 1 .. Len(f) : LoadRegisters(f)[i].id = f[i]
            /\ LoadRegisters(f)[Len(f) + 1].id = 0
        <4>1. ASSUME NEW i \in 1 .. Len(f)
              PROVE  LoadRegisters(f)[i].id = f[i]
          <5>1. PICK r : r = [id |-> f[i], client |-> NoClient]
            OBVIOUS
          <5>2. r.id = f[i] /\ LoadRegisters(f)[i] = r
            BY <2>6, <5>1
          <5> QED BY <5>2
        <4>2. NullRegister.id = 0
          BY DEF NullRegister
        <4> QED BY <2>5, <4>1, <4>2
      <3>2. 1 .. Len(f) + 1 = (1 .. Len(f)) \cup {Len(f) + 1}
        BY <1>1
      <3>3. \A i \in DOMAIN LoadRegisters(f) :
              LoadRegisters(f)[i].id \in {f[j] : j \in 1 .. Len(f)} \cup {0}
        BY <2>5, <3>1, <3>2
      <3>4. \A i \in 1 .. Len(f) : f[i] \in IDsOf(LoadRegisters(f))
        BY <2>5, <3>1, <3>2 DEF IDsOf
      <3>5. 0 \in IDsOf(LoadRegisters(f))
        BY <2>5, <3>1, <3>2 DEF IDsOf
      <3> QED BY <3>3, <3>4, <3>5 DEF IDsOf
    <2> QED BY <1>3, <2>5, <2>6, <2>7
  <1> QED BY <1>2, <1>3

\* A longer file gives a longer list.
LEMMA FileGrows ==
    ASSUME NEW f \in Seq(Nat), NEW id \in Nat
    PROVE  /\ IDsOf(LoadRegisters(f)) \subseteq IDsOf(LoadRegisters(Append(f, id)))
           /\ id \in IDsOf(LoadRegisters(Append(f, id)))
  <1>1. PICK g : g = Append(f, id)
    OBVIOUS
  <1>2. /\ g \in Seq(Nat) /\ g # <<>>
        /\ Len(g) = Len(f) + 1 /\ Len(f) \in Nat
        /\ \A i \in 1 .. Len(f) : g[i] = f[i]
        /\ g[Len(f) + 1] = id
    BY <1>1, AppendProperties
  <1>3. IDsOf(LoadRegisters(g)) = {g[i] : i \in 1 .. Len(g)} \cup {0}
    BY <1>2, LoadedIDs
  <1>4. IDsOf(LoadRegisters(f)) \subseteq IDsOf(LoadRegisters(g))
    <2>1. CASE f = <<>>
      <3>1. LoadRegisters(f) = <<>>
        BY <2>1, LoadedIDs
      <3> QED BY <3>1 DEF IDsOf
    <2>2. CASE f # <<>>
      <3>1. IDsOf(LoadRegisters(f)) = {f[i] : i \in 1 .. Len(f)} \cup {0}
        BY <2>2, LoadedIDs
      <3>2. {f[i] : i \in 1 .. Len(f)} \subseteq {g[i] : i \in 1 .. Len(g)}
        BY <1>2
      <3> QED BY <1>3, <3>1, <3>2
    <2> QED BY <2>1, <2>2
  <1>5. id \in IDsOf(LoadRegisters(g))
    BY <1>2, <1>3
  <1> QED BY <1>1, <1>4, <1>5

\* The register that is about to be pushed is in the file already.
WrittenInv == addPc = "push" => remoteID \in IDsOf(LoadRegisters(file))

\* Only the two servers write to the file, and both at its end.
LEMMA FileWriters ==
    ASSUME [SensorsNext]_vars
    PROVE  \/ file' = file /\ ~WriteRegister
           \/ WriteRegister
           \/ \E id \in 1 .. MaxRemoteID : AlarmRegisters(id)
  <1>1. CASE UNCHANGED vars
    <2>1. file' = file
      BY <1>1 DEF vars, registryVars
    <2> QED BY <2>1
  <1>2. CASE Inherited
    <2>1. file' = file
      BY <1>2 DEF Inherited, registryVars
    <2> QED BY <2>1
  <1>3. CASE AddClient
    BY <1>3 DEF AddClient, AddAlone, GetNextLocalID, StopLastClient, TakeOver, Reserve,
       ReserveGrow, ReserveClamp, ReserveLoadPos, ReserveStorePos, ReserveTest,
       ReserveLoadActive, ReserveStoreActive, ReserveLoadBack, ReserveStoreBack,
       ReserveUnchanged, BindRegister, AddRegister, PushRegister, AdmitStranger, Reject,
       HandshakeFails, RecvAcknowledge, SendRenew, RecvRenewed, registryVars
  <1>4. ASSUME NEW c \in Clients,
               (\E data \in Measures : ClientMeasures(c, data)) \/ Callback(c)
        PROVE  file' = file
    BY <1>4 DEF ClientMeasures, Callback, CheckReplaced, FreeLoad, FreeStore, FreeSlot,
       registryVars
  <1> QED BY <1>1, <1>2, <1>3, <1>4 DEF SensorsNext

LEMMA ReloadStep ==
    ASSUME SensorsInv, TCPInv, IDsInv, WrittenInv, ReloadKeepsIDs, [SensorsNext]_vars
    PROVE  WrittenInv' /\ ReloadKeepsIDs'
  <1>1. RegisteredIDs \subseteq IDsOf(LoadRegisters(file))
    BY DEF ReloadKeepsIDs, IDsOf
  <1>2. file \in Seq(Nat)
    BY DEF SensorsInv, SensorsTypeOK
  <1>3. IDsOf(LoadRegisters(file)) \subseteq IDsOf(LoadRegisters(file'))
    <2>1. file' = file \/ \E id \in Nat : file' = Append(file, id)
      <3>1. WriteRegister => remoteID \in Nat /\ file' = Append(file, remoteID)
        BY DEF WriteRegister, AddStep, SensorsInv, AddClientInv
      <3>2. \A id \in 1 .. MaxRemoteID :
               AlarmRegisters(id) => id \in Nat /\ file' = Append(file, id)
        BY ServerSensorsAssumption DEF AlarmRegisters
      <3> QED BY <3>1, <3>2, FileWriters
    <2> QED BY <1>2, <2>1, FileGrows
  <1>4. CASE WriteRegister
    <2>1. /\ remoteID' = remoteID /\ m_listRemoteClientData' = m_listRemoteClientData
          /\ remoteID \in Nat /\ file' = Append(file, remoteID)
      BY <1>4 DEF WriteRegister, AddStep, SensorsInv, AddClientInv
    <2>2. remoteID' \in IDsOf(LoadRegisters(file'))
      BY <1>2, <2>1, FileGrows
    <2>3. RegisteredIDs' = RegisteredIDs
      BY <2>1 DEF RegisteredIDs
    <2>4. RegisteredIDs' \subseteq IDsOf(LoadRegisters(file'))
      BY <1>1, <1>3, <2>3
    <2> QED BY <2>2, <2>4 DEF WrittenInv, ReloadKeepsIDs, IDsOf
  <1>5. CASE ~WriteRegister
    <2>1. addPc' = "push" => addPc = "push" /\ remoteID' = remoteID
      <3>1. CASE AddClient
        BY <1>5, <3>1 DEF AddClient, AddAlone, GetNextLocalID, StopLastClient, TakeOver,
           Reserve, ReserveGrow, ReserveClamp, ReserveLoadPos, ReserveStorePos, ReserveTest,
           ReserveLoadActive, ReserveStoreActive, ReserveLoadBack, ReserveStoreBack,
           AfterReserve, AddStep, LookUp, BindRegister, AddRegister, PushRegister,
           AdmitStranger, Reject, ResetLocals, HandshakeFails, RecvAcknowledge, SendRenew,
           RecvRenewed
      <3> QED BY <3>1, OthersLeaveRegistry DEF vars, localVars
    <2>2. RegisteredIDs' = RegisteredIDs
            \/ (addPc = "push" /\ RegisteredIDs' = RegisteredIDs \cup {remoteID})
      <3>1. CASE AddRegister
        <4>1. CASE addPc = "push"
          BY <3>1, <4>1, AddKeepsIDs
        <4>2. CASE addPc # "push"
          BY <3>1, <4>2, AddRegisterEffect DEF RegisteredIDs
        <4> QED BY <4>1, <4>2
      <3>2. CASE BindRegister
        BY <3>2, BindKeepsIDs
      <3>3. CASE AddClient /\ ~AddRegister /\ ~BindRegister
        <4>1. m_listRemoteClientData' = m_listRemoteClientData
          BY <3>3 DEF AddClient, AddAlone, GetNextLocalID, StopLastClient, TakeOver,
             Reserve, ReserveGrow, ReserveClamp, ReserveLoadPos, ReserveStorePos, ReserveTest,
             ReserveLoadActive, ReserveStoreActive, ReserveLoadBack, ReserveStoreBack,
             ReserveUnchanged, WriteRegister, Reject, HandshakeFails, RecvAcknowledge,
             SendRenew, RecvRenewed, registryVars
        <4> QED BY <4>1 DEF RegisteredIDs
      <3>4. CASE ~AddClient
        <4>1. m_listRemoteClientData' = m_listRemoteClientData
          BY <3>4, OthersLeaveRegistry DEF vars, registryVars
        <4> QED BY <4>1 DEF RegisteredIDs
      <3> QED BY <3>1, <3>2, <3>3, <3>4
    <2>3. RegisteredIDs' \subseteq IDsOf(LoadRegisters(file'))
      BY <1>1, <1>3, <2>2 DEF WrittenInv
    <2>4. addPc' = "push" => remoteID' \in IDsOf(LoadRegisters(file'))
      BY <1>3, <2>1 DEF WrittenInv
    <2> QED BY <2>3, <2>4 DEF WrittenInv, ReloadKeepsIDs, IDsOf
  <1> QED BY <1>4, <1>5

\* Whenever the server stops, a server that is started again from the file
\* knows every identification that the list of this one holds
\* (ServerSensors.cpp:22, 190-197), also in the middle of addClient and
\* whatever the server of the alarms wrote to the same file: the register is
\* in the file before it is in the list, and both servers write at its end.
THEOREM RestartForgetsNoRegister == SensorsSpec => []ReloadKeepsIDs
  <1>1. SensorsInit => WrittenInv /\ ReloadKeepsIDs
    BY DEF SensorsInit, WrittenInv, ReloadKeepsIDs, RegisteredIDs
  <1>2. SensorsInv /\ TCPInv /\ IDsInv /\ WrittenInv /\ ReloadKeepsIDs /\ [SensorsNext]_vars
          => WrittenInv' /\ ReloadKeepsIDs'
    BY ReloadStep
  <1> QED BY <1>1, <1>2, RegistryInvariant, PTL DEF SensorsSpec

-----------------------------------------------------------------------------
(* Of the connections of one device only the latest is served. *)

Admitted(c) == Started(c) \/ (c = current /\ serverPc = "start")

Reserving == {"grow", "clamp", "loadPos", "storePos", "test", "loadActive",
              "storeActive", "loadBack", "storeBack"}

Replaced(c) == m_stop[c] /\ m_wasReplaced[c]

\* Before a register passes to another connection, the one it names is
\* stopped and marked, and its position has been read.
HandOverInv ==
    /\ addPc = "takeOver" => m_stop[LastClient]
    /\ addPc = "bind" /\ LastClient # NoClient =>
         Replaced(LastClient) /\ newID = m_localID[LastClient]
    /\ addPc \in Reserving /\ entry # 0 => LastClient = NoClient
    /\ addPc \in {"register", "push"} => entry = 0

\* A connection that is no stranger has a register for its device, and is the
\* one the first such register names or has been replaced.
LatestInv ==
    /\ \A c \in Clients \ strangers : Admitted(c) => m_remoteID[c] \in RegisteredIDs
    /\ \A i \in DOMAIN m_listRemoteClientData, c \in Clients \ strangers :
          Admitted(c) /\ IsFirstRegister(i, m_remoteID[c])
                      /\ c # m_listRemoteClientData[i].client => Replaced(c)

\* Nothing clears m_stop.
LEMMA StopsLast ==
    ASSUME SensorsInv, TCPInv, SensorsNext
    PROVE  \A c \in Clients : m_stop[c] => m_stop'[c]
  <1> USE DEF TCPInv, TCPTypeOK
  <1>1. CASE Inherited
    BY <1>1 DEF Inherited, RunLoop, AcceptClient, AcceptFails, StartClient, ClientStep,
       ClientLoop, ClientReceive, ClientGivesUp, ClientWaits, ClientLeaves, Quit, MainStep,
       CloseAllLoop, CloseAllWaits, CloseAllPops, CloseAllStops, SetServerStop, JoinServer,
       Wakeup, StopClient, clientVars
  <1>2. CASE AddClient
    <2>1. m_stop' = m_stop \/ \E d : m_stop' = [m_stop EXCEPT ![d] = TRUE]
      BY <1>2 DEF AddClient, AddAlone, HandshakeFails, RecvAcknowledge, SendRenew,
         RecvRenewed, GetNextLocalID, StopLastClient, TakeOver, Reserve, ReserveGrow,
         ReserveClamp, ReserveLoadPos, ReserveStorePos, ReserveTest, ReserveLoadActive,
         ReserveStoreActive, ReserveLoadBack, ReserveStoreBack, ReserveUnchanged,
         BindRegister, WriteRegister, AddRegister, PushRegister, AdmitStranger, AddSucceeds,
         Reject, AddFails, StopClient, tcpVars, clientVars
    <2> QED BY <2>1
  <1>3. ASSUME NEW c \in Clients, NEW data \in Measures, ClientMeasures(c, data)
        PROVE  m_stop' = m_stop
    BY <1>3 DEF ClientMeasures, ClientReceive
  <1>4. ASSUME NEW c \in Clients, Callback(c)
        PROVE  m_stop' = m_stop
    BY <1>4 DEF Callback, CheckReplaced, FreeLoad, FreeStore, FreeSlot, ClientEnds,
       tcpVars, clientVars
  <1>5. ASSUME NEW id, AlarmRegisters(id)
        PROVE  m_stop' = m_stop
    BY <1>5 DEF AlarmRegisters, tcpVars, clientVars
  <1> QED BY <1>1, <1>2, <1>3, <1>4, <1>5 DEF SensorsNext

\* Nor m_wasReplaced.
LEMMA ReplacedLasts ==
    ASSUME SensorsInv, TCPInv, [SensorsNext]_vars, NEW c \in Clients, Replaced(c)
    PROVE  Replaced(c)'
  <1>1. m_stop'[c]
    BY StopsLast DEF vars, tcpVars, clientVars, Replaced
  <1>2. m_wasReplaced' = m_wasReplaced \/ TakeOver
    BY OthersLeaveRegistry DEF AddClient, AddAlone, HandshakeFails, RecvAcknowledge,
       SendRenew, RecvRenewed, GetNextLocalID, StopLastClient, Reserve, ReserveGrow,
       ReserveClamp, ReserveLoadPos, ReserveStorePos, ReserveTest, ReserveLoadActive,
       ReserveStoreActive, ReserveLoadBack, ReserveStoreBack, ReserveUnchanged,
       BindRegister, WriteRegister, AddRegister, PushRegister, AdmitStranger, Reject,
       idVars, vars
  <1>3. m_wasReplaced \in [Clients -> BOOLEAN]
    BY DEF SensorsInv, SensorsTypeOK
  <1>4. m_wasReplaced'[c]
    BY <1>2, <1>3 DEF TakeOver, Replaced
  <1> QED BY <1>1, <1>4 DEF Replaced

\* Only BindRegister and AddRegister admit a connection.
LEMMA AdmittedBefore ==
    ASSUME SensorsInv, TCPInv, SensorsNext, ~BindRegister, ~AddRegister,
           NEW c \in Clients, Admitted(c)'
    PROVE  Admitted(c)
  <1> USE DEF Admitted
  <1>1. CASE Inherited
    BY <1>1, InheritedThreads DEF Started
  <1>2. CASE AddClient
    <2>1. thread' = thread /\ serverPc' # "start"
      BY <1>2 DEF AddClient, AddAlone, HandshakeFails, RecvAcknowledge, SendRenew,
         RecvRenewed, LookUp, AddStep, GetNextLocalID, StopLastClient, TakeOver, Reserve,
         ReserveGrow, ReserveClamp, ReserveLoadPos, ReserveStorePos, ReserveTest,
         ReserveLoadActive, ReserveStoreActive, ReserveLoadBack, ReserveStoreBack,
         ReserveUnchanged, WriteRegister, Reject, AddFails, acceptVars, tcpVars, clientVars
    <2> QED BY <2>1 DEF Started
  <1>3. ASSUME NEW d \in Clients, NEW data \in Measures, ClientMeasures(d, data)
        PROVE  Admitted(c)
    <2>1. /\ thread[d] = "recv" /\ thread' = [thread EXCEPT ![d] = "run"]
          /\ serverPc' = serverPc /\ current' = current
      BY <1>3 DEF ClientMeasures, ClientReceive, acceptVars
    <2> QED BY <2>1 DEF Started, TCPInv, TCPTypeOK
  <1>4. ASSUME NEW d \in Clients, Callback(d)
        PROVE  Admitted(c)
    <2>1. /\ thread[d] = "callback" \/ thread' = thread
          /\ thread' = thread \/ thread' = [thread EXCEPT ![d] = "done"]
          /\ serverPc' = serverPc /\ current' = current
      BY <1>4 DEF Callback, CheckReplaced, FreeLoad, FreeStore, FreeSlot, ClientEnds,
         acceptVars, tcpVars, clientVars
    <2> QED BY <2>1 DEF Started, TCPInv, TCPTypeOK
  <1>5. ASSUME NEW id, AlarmRegisters(id)
        PROVE  Admitted(c)
    BY <1>5 DEF AlarmRegisters, Started, tcpVars, clientVars, acceptVars
  <1> QED BY <1>1, <1>2, <1>3, <1>4, <1>5 DEF SensorsNext

LEMMA HandOverStep ==
    ASSUME SensorsInv, TCPInv, IDsInv, HandOverInv, [SensorsNext]_vars
    PROVE  HandOverInv'
  <1>1. CASE UNCHANGED vars
    BY <1>1 DEF vars, tcpVars, clientVars, localVars, registryVars, idVars, HandOverInv,
       LastClient, Replaced
  <1>2. CASE SensorsNext /\ ~AddClient
    <2>1. UNCHANGED <<addPc, newID, remoteID, isNewRemoteClient, entry,
                      m_listRemoteClientData, m_wasReplaced, m_localID>>
      BY <1>2, OthersLeaveRegistry DEF localVars, idVars
    <2>2. LastClient' = LastClient
      BY <2>1 DEF LastClient
    <2>3. addPc \in {"takeOver", "bind"} /\ LastClient # NoClient => LastClient \in Clients
      <3>1. addPc \in {"takeOver", "bind"} => entry \in DOMAIN m_listRemoteClientData
        BY RegisterTypes DEF SensorsInv, AddClientInv, SensorsTypeOK
      <3> QED BY <3>1, RegisterTypes DEF SensorsInv, LastClient
    <2>4. addPc = "takeOver" => LastClient \in Clients
      BY <2>3 DEF SensorsInv, AddClientInv
    <2>5. addPc = "takeOver" => m_stop'[LastClient]
      BY <1>2, <2>4, StopsLast DEF HandOverInv
    <2>6. addPc = "bind" /\ LastClient # NoClient => Replaced(LastClient)'
      BY <1>2, <2>1, <2>2, <2>3, StopsLast DEF HandOverInv, Replaced
    <2>7. addPc' = "bind" /\ LastClient' # NoClient =>
             Replaced(LastClient)' /\ newID' = m_localID'[LastClient']
      BY <2>1, <2>2, <2>6 DEF Replaced, HandOverInv
    <2> QED BY <2>1, <2>2, <2>5, <2>7 DEF HandOverInv
  <1>3. CASE AddClient
    <2>1. CASE BindRegister \/ AddRegister \/ Reject
      BY <2>1 DEF BindRegister, AddRegister, PushRegister, AdmitStranger, Reject,
         ResetLocals, HandOverInv, Reserving
    <2>7. CASE WriteRegister
      BY <2>7 DEF WriteRegister, AddStep, HandOverInv, Reserving
    <2>2. CASE GetNextLocalID \/ HandshakeFails \/ (\E id : SendRenew(id))
      <3>1. addPc' \in {"hello", "renew", "reject"}
        BY <2>2 DEF GetNextLocalID, HandshakeFails, SendRenew, AddStep
      <3> QED BY <3>1 DEF HandOverInv, Reserving
    <2>3. CASE StopLastClient
      <3>1. /\ addPc' = "takeOver" /\ entry' = entry
            /\ m_listRemoteClientData' = m_listRemoteClientData
            /\ m_stop' = [m_stop EXCEPT ![LastClient] = TRUE]
            /\ LastClient \in Clients
        BY <2>3, LastClientStarted DEF StopLastClient, StopClient, AddStep, registryVars
      <3>2. LastClient' = LastClient /\ m_stop'[LastClient]
        BY <3>1 DEF LastClient, TCPInv, TCPTypeOK
      <3> QED BY <3>1, <3>2 DEF HandOverInv, Reserving
    <2>4. CASE TakeOver
      <3>1. /\ addPc = "takeOver" /\ addPc' = "bind" /\ entry' = entry
            /\ m_listRemoteClientData' = m_listRemoteClientData
            /\ m_wasReplaced' = [m_wasReplaced EXCEPT ![LastClient] = TRUE]
            /\ m_stop' = m_stop /\ LastClient \in Clients
            /\ newID' = m_localID[LastClient] /\ m_localID' = m_localID
        BY <2>4, LastClientStarted DEF TakeOver, AddStep, registryVars, tcpVars, clientVars
      <3>2. LastClient' = LastClient /\ m_wasReplaced'[LastClient] /\ m_stop'[LastClient]
        BY <3>1 DEF LastClient, SensorsInv, SensorsTypeOK, HandOverInv
      <3> QED BY <3>1, <3>2 DEF HandOverInv, Replaced, Reserving
    <2>5. CASE Reserve
      <3>1. /\ UNCHANGED <<m_listRemoteClientData, entry, isNewRemoteClient>>
            /\ addPc \in Reserving /\ addPc' \in Reserving \cup {"bind", "register", "reject"}
            /\ addPc' = "bind" => entry # 0
            /\ addPc' = "register" => entry = 0
        BY <2>5 DEF Reserve, ReserveGrow, ReserveClamp, ReserveLoadPos, ReserveStorePos,
           ReserveTest, ReserveLoadActive, ReserveStoreActive, ReserveLoadBack,
           ReserveStoreBack, ReserveUnchanged, AddStep, AfterReserve, Reserving, registryVars
      <3>2. LastClient' = LastClient
        BY <3>1 DEF LastClient
      <3> QED BY <3>1, <3>2 DEF HandOverInv, Reserving
    <2>6. CASE RecvRenewed \/ (\E id : RecvAcknowledge(id))
      <3>1. PICK id, from : LookUp(id, from) /\ m_listRemoteClientData' = m_listRemoteClientData
        BY <2>6 DEF RecvAcknowledge, RecvRenewed, registryVars
      <3>2. \/ entry' = 0 /\ addPc' = "grow"
            \/ \E i \in DOMAIN m_listRemoteClientData :
                  /\ entry' = i
                  /\ addPc' = IF m_listRemoteClientData[i].client # NoClient
                              THEN "stopLast" ELSE "grow"
        BY <3>1 DEF LookUp, AddStep
      <3> QED BY <3>1, <3>2 DEF HandOverInv, LastClient, Reserving
    <2> QED BY <1>3, <2>1, <2>2, <2>3, <2>4, <2>5, <2>6, <2>7
            DEF AddClient, AddAlone
  <1> QED BY <1>1, <1>2, <1>3

\* Who is admitted by the two steps that admit.
LEMMA AdmitsCurrent ==
    ASSUME SensorsInv, TCPInv, BindRegister \/ AddRegister
    PROVE  /\ current \in Clients
           /\ m_remoteID' = [m_remoteID EXCEPT ![current] = remoteID]
           /\ \A c \in Clients : Admitted(c)' => Admitted(c) \/ c = current
           /\ \A c \in Clients : Replaced(c)' = Replaced(c)
  <1>1. /\ thread' = thread /\ m_stop' = m_stop /\ m_wasReplaced' = m_wasReplaced
        /\ current' = current /\ serverPc = "adding"
        /\ m_remoteID' = [m_remoteID EXCEPT ![current] = remoteID]
    BY AddRegisterEffect
    DEF BindRegister, AddRegister, PushRegister, AdmitStranger, AddSucceeds, SetClientID,
        clientVars
  <1>2. current \in Clients
    BY <1>1 DEF TCPInv, AcceptThreadInv, TCPTypeOK
  <1> QED BY <1>1, <1>2 DEF Admitted, Started, Replaced

\* At every step of addClient the connection that loses its register has been
\* dealt with as far as the code has got.
THEOREM HandOverInvariant == SensorsSpec => [](SensorsInv /\ TCPInv /\ IDsInv /\ HandOverInv)
  <1>1. SensorsInit => HandOverInv
    BY DEF SensorsInit, HandOverInv, Reserving
  <1>2. SensorsInv /\ TCPInv /\ IDsInv /\ HandOverInv /\ [SensorsNext]_vars => HandOverInv'
    BY HandOverStep
  <1> QED BY <1>1, <1>2, RegistryInvariant, PTL DEF SensorsSpec

\* The hand-over of one register, as TakeOverComplete states it of a step.
HandOver ==
    \A i \in DOMAIN m_listRemoteClientData :
        LET old == m_listRemoteClientData[i].client
            new == m_listRemoteClientData'[i].client
        IN  old # NoClient /\ new # old =>
               /\ m_stop[old]
               /\ m_wasReplaced[old]
               /\ m_localID'[new] = m_localID[old]

LEMMA StepHandsOver ==
    ASSUME SensorsInv, TCPInv, HandOverInv, [SensorsNext]_vars
    PROVE  HandOver
  <1>1. CASE BindRegister
    <2>1. /\ addPc = "bind" /\ current \in Clients
          /\ m_localID' = [m_localID EXCEPT ![current] = newID]
      BY <1>1, AdmitsCurrent DEF BindRegister, SetClientID
    <2>2. m_localID'[current] = newID
      BY <2>1 DEF SensorsInv, SensorsTypeOK
    <2>3. ASSUME NEW i \in DOMAIN m_listRemoteClientData,
                 m_listRemoteClientData[i].client # NoClient,
                 m_listRemoteClientData'[i].client # m_listRemoteClientData[i].client
          PROVE  /\ i = entry /\ m_listRemoteClientData'[i].client = current
                 /\ m_listRemoteClientData[i].client = LastClient
                 /\ LastClient # NoClient
      BY <1>1, <2>3, BindKeepsIDs DEF LastClient
    <2> QED BY <2>1, <2>2, <2>3 DEF HandOver, HandOverInv, Replaced
  <1>2. CASE AddRegister
    <2>1. \A i \in DOMAIN m_listRemoteClientData :
             m_listRemoteClientData'[i] = m_listRemoteClientData[i]
      <3>1. CASE addPc = "push"
        BY <1>2, <3>1, AddKeepsIDs
      <3>2. CASE addPc # "push"
        BY <1>2, <3>2, AddRegisterEffect
      <3> QED BY <3>1, <3>2
    <2> QED BY <2>1 DEF HandOver
  <1>3. CASE ~BindRegister /\ ~AddRegister
    <2>1. m_listRemoteClientData' = m_listRemoteClientData
      BY <1>3, OthersLeaveRegistry DEF AddClient, AddAlone, HandshakeFails,
         RecvAcknowledge, SendRenew, RecvRenewed, GetNextLocalID, StopLastClient, TakeOver,
         Reserve, ReserveGrow, ReserveClamp, ReserveLoadPos, ReserveStorePos, ReserveTest,
         ReserveLoadActive, ReserveStoreActive, ReserveLoadBack, ReserveStoreBack,
         ReserveUnchanged, WriteRegister, Reject, registryVars, vars
    <2> QED BY <2>1 DEF HandOver
  <1> QED BY <1>1, <1>2, <1>3

\* When a register passes from one connection to another, the old one has been
\* stopped and marked, so that it will not free the position it shares with
\* the new one (ServerSensors.cpp:119-144, 157).
THEOREM TakeOversAreComplete == SensorsSpec => TakeOverComplete
  <1>1. SensorsInv /\ TCPInv /\ HandOverInv /\ [SensorsNext]_vars => [HandOver]_vars
    BY StepHandsOver
  <1>2. SensorsSpec => [][HandOver]_vars
    BY <1>1, HandOverInvariant, PTL DEF SensorsSpec
  <1>3. [][HandOver]_vars <=> TakeOverComplete
    BY DEF HandOver, TakeOverComplete
  <1> QED BY <1>2, <1>3

\* The steps that admit nobody.
LEMMA LatestKept ==
    ASSUME SensorsInv, TCPInv, LatestInv, [SensorsNext]_vars, ~BindRegister, ~AddRegister
    PROVE  LatestInv'
  <1>1. /\ m_listRemoteClientData' = m_listRemoteClientData
        /\ strangers' = strangers
        /\ \A c \in Clients : Admitted(c) => m_remoteID'[c] = m_remoteID[c]
    <2>1. CASE WriteRegister
      <3>1. current \in Clients /\ ~Admitted(current)
        BY <2>1 DEF WriteRegister, AddStep, TCPInv, TCPTypeOK, AcceptThreadInv, Admitted,
           Started
      <3>2. /\ m_listRemoteClientData' = m_listRemoteClientData
            /\ strangers' = strangers
            /\ m_remoteID' = [m_remoteID EXCEPT ![current] = remoteID]
        BY <2>1 DEF WriteRegister, SetClientID
      <3> QED BY <3>1, <3>2 DEF SensorsInv, SensorsTypeOK
    <2>2. CASE ~WriteRegister
      BY <2>2, OthersLeaveRegistry DEF AddClient, AddAlone, HandshakeFails, RecvAcknowledge,
         SendRenew, RecvRenewed, GetNextLocalID, StopLastClient, TakeOver, Reserve,
         ReserveGrow, ReserveClamp, ReserveLoadPos, ReserveStorePos, ReserveTest,
         ReserveLoadActive, ReserveStoreActive, ReserveLoadBack, ReserveStoreBack,
         ReserveUnchanged, Reject, registryVars, idVars, vars
    <2> QED BY <2>1, <2>2
  <1>2. \A c \in Clients : Admitted(c)' => Admitted(c)
    <2>1. CASE UNCHANGED vars
      BY <2>1 DEF vars, tcpVars, acceptVars, clientVars, Admitted, Started
    <2> QED BY <2>1, AdmittedBefore
  <1>3. \A c \in Clients : Replaced(c) => Replaced(c)'
    BY ReplacedLasts
  <1>4. RegisteredIDs' = RegisteredIDs
    BY <1>1 DEF RegisteredIDs
  <1> QED BY <1>1, <1>2, <1>3, <1>4 DEF LatestInv, IsFirstRegister

\* Only one register of an identification is the first.
LEMMA FirstIsUnique ==
    ASSUME NEW i \in DOMAIN m_listRemoteClientData, NEW j \in DOMAIN m_listRemoteClientData,
           NEW id, IsFirstRegister(i, id), IsFirstRegister(j, id), SensorsTypeOK
    PROVE  i = j
  <1>1. i \in Nat /\ j \in Nat /\ i >= 1 /\ j >= 1
    BY RegisterTypes
  <1>2. ~(i < j) /\ ~(j < i)
    BY <1>1 DEF IsFirstRegister
  <1> QED BY <1>1, <1>2

LEMMA LatestBind ==
    ASSUME SensorsInv, TCPInv, IDsInv, HandOverInv, LatestInv, BindRegister
    PROVE  LatestInv'
  <1>1. /\ entry \in DOMAIN m_listRemoteClientData /\ addPc = "bind"
        /\ IsFirstRegister(entry, remoteID)
    BY BindKeepsIDs DEF BindRegister, IDsInv, SensorsInv, AddClientInv
  <1>2. /\ current \in Clients /\ m_remoteID \in [Clients -> Nat \cup {-1}]
        /\ m_remoteID'[current] = remoteID
        /\ \A c \in Clients : c # current => m_remoteID'[c] = m_remoteID[c]
        /\ strangers' = strangers
    BY AdmitsCurrent DEF SensorsInv, SensorsTypeOK, BindRegister
  <1>3. ASSUME NEW c \in Clients \ strangers, Admitted(c)'
        PROVE  m_remoteID'[c] \in RegisteredIDs'
    <2>1. remoteID \in RegisteredIDs
      BY <1>1 DEF RegisteredIDs, IsFirstRegister
    <2> QED BY <1>2, <1>3, <2>1, AdmitsCurrent, BindKeepsIDs DEF LatestInv
  <1>4. \A i \in DOMAIN m_listRemoteClientData : \A id :
             IsFirstRegister(i, id)' => IsFirstRegister(i, id)
    <2>1. \A i \in DOMAIN m_listRemoteClientData : \A j \in 1 .. (i - 1) :
             j \in DOMAIN m_listRemoteClientData
      BY RegisterTypes DEF SensorsInv
    <2> QED BY <2>1, BindKeepsIDs DEF IsFirstRegister
  <1>5. ASSUME NEW i \in DOMAIN m_listRemoteClientData', NEW c \in Clients \ strangers,
               Admitted(c)', IsFirstRegister(i, m_remoteID[c])',
               c # m_listRemoteClientData'[i].client
        PROVE  Replaced(c)'
    <2>1. /\ i \in DOMAIN m_listRemoteClientData
          /\ IsFirstRegister(i, m_remoteID'[c])
          /\ c # (IF i = entry THEN current ELSE m_listRemoteClientData[i].client)
      <3>1. i \in DOMAIN m_listRemoteClientData
        BY <1>5, BindKeepsIDs
      <3>2. IsFirstRegister(i, m_remoteID'[c])
        BY <1>4, <1>5, <3>1 DEF IsFirstRegister
      <3> QED BY <1>5, <3>1, <3>2, BindKeepsIDs
    <2>2. c # current
      <3>1. ASSUME c = current PROVE FALSE
        <4>1. IsFirstRegister(i, remoteID)
          BY <1>2, <2>1, <3>1
        <4>2. i = entry
          BY <1>1, <2>1, <4>1, FirstIsUnique DEF SensorsInv
        <4> QED BY <2>1, <3>1, <4>2
      <3> QED BY <3>1
    <2>3. Admitted(c) /\ IsFirstRegister(i, m_remoteID[c])
      BY <1>2, <1>5, <2>1, <2>2, AdmitsCurrent
    <2>4. CASE c = m_listRemoteClientData[i].client
      <3>1. i = entry
        BY <2>1, <2>4
      <3>2. c = LastClient /\ LastClient # NoClient
        BY <2>4, <3>1, ServerTCPAssumption DEF LastClient
      <3> QED BY <1>1, <3>2, AdmitsCurrent DEF HandOverInv
    <2>5. CASE c # m_listRemoteClientData[i].client
      BY <2>1, <2>3, <2>5, AdmitsCurrent DEF LatestInv
    <2> QED BY <2>4, <2>5
  <1> QED BY <1>2, <1>3, <1>5 DEF LatestInv

LEMMA LatestAdd ==
    ASSUME SensorsInv, TCPInv, IDsInv, HandOverInv, LatestInv, AddRegister
    PROVE  LatestInv'
  <1>1. /\ current \in Clients /\ m_remoteID \in [Clients -> Nat \cup {-1}]
        /\ m_remoteID'[current] = remoteID
        /\ \A c \in Clients : c # current => m_remoteID'[c] = m_remoteID[c]
    BY AdmitsCurrent DEF SensorsInv, SensorsTypeOK
  <1>2. CASE addPc = "push"
    <2>1. /\ isNewRemoteClient /\ remoteID \notin RegisteredIDs
          /\ strangers' = strangers
      BY <1>2, AddRegisterEffect DEF IDsInv
    <2>2. PICK n \in Nat : n = Len(m_listRemoteClientData)
      BY <1>2, AddKeepsIDs
    <2>3. /\ DOMAIN m_listRemoteClientData = 1 .. n
          /\ DOMAIN m_listRemoteClientData' = 1 .. n + 1
          /\ \A i \in 1 .. n : m_listRemoteClientData'[i] = m_listRemoteClientData[i]
          /\ m_listRemoteClientData'[n + 1].id = remoteID
          /\ m_listRemoteClientData'[n + 1].client = current
          /\ RegisteredIDs' = RegisteredIDs \cup {remoteID}
      BY <1>2, <2>2, AddKeepsIDs
    <2>4. \A c \in Clients \ strangers : Admitted(c)' => m_remoteID'[c] \in RegisteredIDs'
      BY <1>1, <2>3, AdmitsCurrent DEF LatestInv
    <2>5. \A i \in 1 .. n : \A id : IsFirstRegister(i, id)' => IsFirstRegister(i, id)
      <3>1. \A i \in 1 .. n : \A j \in 1 .. (i - 1) : j \in 1 .. n
        OBVIOUS
      <3> QED BY <2>3, <3>1 DEF IsFirstRegister
    <2>6. ASSUME NEW i \in 1 .. n + 1, NEW c \in Clients \ strangers, Admitted(c)',
                 IsFirstRegister(i, m_remoteID[c])',
                 c # m_listRemoteClientData'[i].client
          PROVE  Replaced(c)'
      <3>1. i \in 1 .. n \/ i = n + 1
        OBVIOUS
      <3>2. m_listRemoteClientData'[i].id = m_remoteID'[c]
        BY <2>6 DEF IsFirstRegister
      <3>3. i \in 1 .. n => m_remoteID'[c] \in RegisteredIDs
        BY <2>3, <3>2 DEF RegisteredIDs
      <3>4. c # current
        BY <1>1, <2>1, <2>3, <2>6, <3>1, <3>3
      <3>5. Admitted(c) /\ m_remoteID'[c] = m_remoteID[c]
        BY <1>1, <2>6, <3>4, AdmitsCurrent
      <3>6. i \in 1 .. n
        BY <2>1, <2>3, <3>1, <3>2, <3>5 DEF LatestInv
      <3>7. IsFirstRegister(i, m_remoteID'[c])
        <4>1. \A id : id = m_remoteID'[c] => IsFirstRegister(i, id)'
          BY <2>6 DEF IsFirstRegister
        <4> QED BY <2>5, <3>6, <4>1
      <3> QED BY <2>3, <2>6, <3>5, <3>6, <3>7, AdmitsCurrent DEF LatestInv
    <2> QED BY <2>1, <2>3, <2>4, <2>6 DEF LatestInv
  <1>3. CASE addPc # "push"
    <2>1. /\ strangers' = strangers \cup {current}
          /\ m_listRemoteClientData' = m_listRemoteClientData
      BY <1>3, AddRegisterEffect
    <2>2. \A c \in Clients \ strangers' : c # current /\ c \in Clients \ strangers
      BY <2>1
    <2>3. \A i, id : IsFirstRegister(i, id)' <=> IsFirstRegister(i, id)
      BY <2>1 DEF IsFirstRegister
    <2>4. RegisteredIDs' = RegisteredIDs
      BY <2>1 DEF RegisteredIDs
    <2> QED BY <1>1, <2>1, <2>2, <2>3, <2>4, AdmitsCurrent DEF LatestInv, IsFirstRegister
  <1> QED BY <1>2, <1>3

\* Of the connections of one registered device only the latest is served: the
\* others have been stopped and know that they were replaced, whatever the file
\* held and whatever identifications devices claim (ServerSensors.cpp:137-164).
\* OnlyLatestServes is not inductive, for it is the hand-over from one
\* connection to the next that keeps it, and that new registers are of
\* identifications the list does not hold.
THEOREM OnlyTheLatestServes == SensorsSpec => []OnlyLatestServes
  <1>1. SensorsInit => LatestInv
    BY DEF SensorsInit, TCPInit, LatestInv, Admitted, Started
  <1>2. SensorsInv /\ TCPInv /\ IDsInv /\ HandOverInv /\ LatestInv /\ [SensorsNext]_vars
          => LatestInv'
    BY LatestKept, LatestBind, LatestAdd
  <1>3. LatestInv => OnlyLatestServes
    BY DEF LatestInv, OnlyLatestServes, Admitted, Replaced
  <1> QED BY <1>1, <1>2, <1>3, HandOverInvariant, PTL DEF SensorsSpec

-----------------------------------------------------------------------------
(* Which connections share a position. *)

\* A connection that is to free its position when it leaves.
Holds(c) == Started(c) /\ ~m_wasReplaced[c]

NobodyLeft == \A c \in Clients : thread[c] # "done"

LastPosition == MAX_SIZE_SENSORS - 1

\* A position no connection holds, and one that m_nextPos has passed, except
\* for the last one in both.
Fresh(p) == \A c \in Clients : Holds(c) /\ m_localID[c] = p => p = LastPosition
Passed(p) == p < m_nextPos \/ p = LastPosition

\* A connection that was replaced has lost its register, or is about to.
OwnersInv ==
    /\ \A i, j \in DOMAIN m_listRemoteClientData :
          m_listRemoteClientData[i].client = m_listRemoteClientData[j].client
              => i = j \/ m_listRemoteClientData[i].client = NoClient
    /\ \A c \in Clients : m_wasReplaced[c] => Started(c)
    /\ \A i \in DOMAIN m_listRemoteClientData, c \in Clients :
          m_listRemoteClientData[i].client = c /\ m_wasReplaced[c]
              => addPc = "bind" /\ i = entry

\* The position that addClient has read is the next one until it is reserved.
ReservationInv ==
    /\ m_nextPos >= 0
    /\ addPc \in {"hello", "renew", "stopLast", "takeOver", "grow", "clamp", "loadPos",
                  "storePos"} => newID = m_nextPos
    /\ addPc \in {"test", "loadActive", "storeActive", "loadBack", "storeBack", "register",
                  "push"} => m_nextPos = newID + 1
    /\ addPc \in {"storePos", "storeBack"} => reg[Accept] = m_nextPos
    /\ addPc \in {"loadBack", "storeBack"} => m_nextPos = MAX_SIZE_SENSORS
    /\ addPc = "bind" => Passed(newID)

\* Positions are given out one after another, and each to one connection.
HoldersInv ==
    /\ \A c, d \in Clients :
          c # d /\ Holds(c) /\ Holds(d) /\ m_localID[c] = m_localID[d]
              => m_localID[c] = LastPosition
    /\ \A c \in Clients : Holds(c) => Passed(m_localID[c])
    /\ addPc \in {"test", "loadActive", "storeActive", "loadBack", "storeBack", "register",
                  "push", "bind"} => Fresh(newID)
    /\ serverPc = "start" => Fresh(m_localID[current]) /\ Passed(m_localID[current])

SharingInv == NobodyLeft => ReservationInv /\ HoldersInv

\* A connection that was replaced was stopped first.
MarkedAreStopped == \A c \in Clients : m_wasReplaced[c] => m_stop[c]

\* What a step of the server or of a connection's thread does to the threads.
LEMMA OthersThreads ==
    ASSUME SensorsInv, TCPInv, SensorsNext, ~AddClient
    PROVE  /\ \A c \in Clients : thread[c] = "done" => thread'[c] = "done"
           /\ \A c \in Clients : Started(c) => Started(c)'
           /\ \A c \in Clients : Started(c)' =>
                 Started(c) \/ (c = current /\ serverPc = "start" /\ serverPc' # "start")
           /\ serverPc' = "start" => serverPc = "start" /\ current' = current
  <1>1. CASE Inherited
    <2>1. \A c \in Clients : thread[c] = "done" => thread'[c] = "done"
      <3> USE DEF TCPInv, TCPTypeOK, AcceptThreadInv
      <3>1. CASE RunLoop \/ AcceptFails \/ Quit \/ MainStep \/ Wakeup
        BY <3>1 DEF RunLoop, AcceptFails, Quit, MainStep, CloseAllLoop, CloseAllWaits,
           CloseAllPops, CloseAllStops, SetServerStop, JoinServer, Wakeup, clientVars
      <3>2. ASSUME NEW c \in Clients, AcceptClient(c) \/ ClientStep(c)
            PROVE  \A d \in Clients : thread[d] = "done" => thread'[d] = "done"
        BY <3>2 DEF AcceptClient, ClientStep, ClientLoop, ClientReceive, ClientGivesUp,
           ClientWaits, ClientLeaves, clientVars
      <3>3. CASE StartClient
        <4>1. current \in Clients /\ thread[current] = "created"
          BY <3>3 DEF StartClient
        <4>2. thread' = [thread EXCEPT ![current] = "run"]
          BY <3>3 DEF StartClient
        <4> QED BY <4>1, <4>2
      <3> QED BY <1>1, <3>1, <3>2, <3>3 DEF Inherited
    <2> QED BY <1>1, <2>1, InheritedThreads
  <1>2. ASSUME NEW c \in Clients, NEW data \in Measures, ClientMeasures(c, data)
        PROVE  /\ thread[c] = "recv" /\ thread' = [thread EXCEPT ![c] = "run"]
               /\ serverPc' = serverPc /\ current' = current
    BY <1>2 DEF ClientMeasures, ClientReceive, acceptVars
  <1>3. ASSUME NEW c \in Clients, Callback(c)
        PROVE  /\ thread[c] = "callback"
               /\ thread' = thread \/ thread' = [thread EXCEPT ![c] = "done"]
               /\ serverPc' = serverPc /\ current' = current
    BY <1>3 DEF Callback, CheckReplaced, FreeLoad, FreeStore, FreeSlot, ClientEnds,
       acceptVars, tcpVars, clientVars, SensorsInv, RegistersInv
  <1>5. CASE \E id \in 1 .. MaxRemoteID : AlarmRegisters(id)
    BY <1>5 DEF AlarmRegisters, Started, tcpVars, clientVars, acceptVars
  <1>4. CASE \E c \in Clients : (\E data \in Measures : ClientMeasures(c, data)) \/ Callback(c)
    BY <1>2, <1>3, <1>4 DEF Started, TCPInv, TCPTypeOK
  <1> QED BY <1>1, <1>4, <1>5 DEF SensorsNext

\* Nor does addClient touch a thread.
LEMMA AddClientThreads == AddClient => thread' = thread
  BY DEF AddClient, AddAlone, GetNextLocalID, StopLastClient, TakeOver, Reserve, ReserveGrow,
     ReserveClamp, ReserveLoadPos, ReserveStorePos, ReserveTest, ReserveLoadActive,
     ReserveStoreActive, ReserveLoadBack, ReserveStoreBack, ReserveUnchanged, BindRegister,
     WriteRegister, AddRegister, PushRegister, AdmitStranger, AddSucceeds, Reject, AddFails,
     HandshakeFails, RecvAcknowledge, SendRenew, RecvRenewed, tcpVars, clientVars

LEMMA LeftLasts ==
    ASSUME SensorsInv, TCPInv, [SensorsNext]_vars, NobodyLeft'
    PROVE  NobodyLeft
  <1>1. CASE UNCHANGED vars
    BY <1>1 DEF vars, tcpVars, clientVars, NobodyLeft
  <1> QED BY <1>1, OthersThreads, AddClientThreads DEF NobodyLeft

\* The steps of addClient before "bind", "register" and "reject".
LEMMA AddClientFrame ==
    ASSUME SensorsInv, TCPInv, AddClient, ~BindRegister, ~AddRegister, ~Reject
    PROVE  /\ UNCHANGED <<serverPc, current, thread, m_listRemoteClientData>>
           /\ m_localID' = m_localID \/ WriteRegister
           /\ serverPc = "adding"
           /\ m_wasReplaced' = m_wasReplaced \/ TakeOver
  BY DEF WriteRegister, AddClient, AddAlone, GetNextLocalID, StopLastClient, TakeOver, Reserve, ReserveGrow,
     ReserveClamp, ReserveLoadPos, ReserveStorePos, ReserveTest, ReserveLoadActive,
     ReserveStoreActive, ReserveLoadBack, ReserveStoreBack, ReserveUnchanged,
     HandshakeFails, RecvAcknowledge, SendRenew, LookUp, AddStep,
     RecvRenewed, tcpVars, clientVars, acceptVars, registryVars, idVars

LEMMA OwnersStep ==
    ASSUME SensorsInv, TCPInv, OwnersInv, [SensorsNext]_vars
    PROVE  OwnersInv'
  <1>1. CASE UNCHANGED vars
    BY <1>1 DEF vars, tcpVars, clientVars, localVars, registryVars, idVars, OwnersInv, Started
  <1>2. CASE SensorsNext /\ ~AddClient
    <2>1. UNCHANGED <<addPc, entry, m_listRemoteClientData, m_wasReplaced>>
      BY <1>2, OthersLeaveRegistry DEF localVars, idVars
    <2> QED BY <1>2, <2>1, OthersThreads DEF OwnersInv
  <1>3. CASE BindRegister
    <2>1. /\ addPc = "bind" /\ m_wasReplaced' = m_wasReplaced /\ serverPc = "adding"
          /\ thread' = thread
      BY <1>3, AddClientThreads DEF BindRegister, AddSucceeds, AddClient, AddAlone
    <2>2. current \in Clients /\ ~Started(current)
      BY <2>1 DEF TCPInv, TCPTypeOK, AcceptThreadInv, Started
    <2>3. \A i \in DOMAIN m_listRemoteClientData : m_listRemoteClientData[i].client # current
      BY <2>1, <2>2 DEF SensorsInv, RegistersInv
    <2>4. ~m_wasReplaced[current]
      BY <2>2 DEF OwnersInv
    <2>5. \A c \in Clients : Started(c)' = Started(c)
      BY <2>1 DEF Started
    <2> QED BY <2>1, <2>2, <2>3, <2>4, <2>5, <1>3, BindKeepsIDs DEF OwnersInv
  <1>4. CASE AddRegister
    <2>1. /\ addPc \in {"push", "register"} /\ m_wasReplaced' = m_wasReplaced
          /\ serverPc = "adding" /\ thread' = thread
      BY <1>4, AddRegisterEffect
    <2>2. current \in Clients /\ ~Started(current)
      BY <2>1 DEF TCPInv, TCPTypeOK, AcceptThreadInv, Started
    <2>3. \A i \in DOMAIN m_listRemoteClientData : m_listRemoteClientData[i].client # current
      BY <2>1, <2>2 DEF SensorsInv, RegistersInv
    <2>4. ~m_wasReplaced[current]
      BY <2>2 DEF OwnersInv
    <2>5. \A c \in Clients : Started(c)' = Started(c)
      BY <2>1 DEF Started
    <2>6. CASE addPc = "push"
      <3>1. PICK n \in Nat : n = Len(m_listRemoteClientData)
        BY <1>4, <2>6, AddKeepsIDs
      <3>2. /\ DOMAIN m_listRemoteClientData = 1 .. n
            /\ DOMAIN m_listRemoteClientData' = 1 .. n + 1
            /\ \A i \in 1 .. n : m_listRemoteClientData'[i] = m_listRemoteClientData[i]
            /\ m_listRemoteClientData'[n + 1].client = current
        BY <1>4, <2>6, <3>1, AddKeepsIDs
      <3>3. \A i \in 1 .. n + 1 : i \in 1 .. n \/ i = n + 1
        OBVIOUS
      <3> QED BY <2>1, <2>2, <2>3, <2>4, <2>5, <3>2, <3>3 DEF OwnersInv
    <2>7. CASE addPc # "push"
      <3>1. m_listRemoteClientData' = m_listRemoteClientData
        BY <1>4, <2>7, AddRegisterEffect
      <3> QED BY <2>1, <2>5, <3>1 DEF OwnersInv
    <2> QED BY <2>6, <2>7
  <1>5. CASE Reject
    <2>1. /\ addPc = "reject" /\ UNCHANGED <<m_wasReplaced, thread, m_listRemoteClientData>>
      BY <1>5, AddClientThreads DEF Reject, idVars, registryVars, AddClient, AddAlone
    <2> QED BY <2>1 DEF OwnersInv, Started
  <1>6. CASE TakeOver
    <2>1. /\ addPc = "takeOver" /\ serverPc = "adding" /\ addPc' = "bind"
          /\ UNCHANGED <<thread, m_listRemoteClientData, entry>>
          /\ m_wasReplaced' = [m_wasReplaced EXCEPT ![LastClient] = TRUE]
      BY <1>6 DEF TakeOver, AddStep, registryVars, tcpVars, clientVars
    <2>2. LastClient \in Clients /\ Started(LastClient)
      BY <2>1, LastClientStarted
    <2>3. \A c \in Clients : m_wasReplaced'[c] => m_wasReplaced[c] \/ c = LastClient
      BY <2>1, <2>2 DEF SensorsInv, SensorsTypeOK
    <2>4. entry \in DOMAIN m_listRemoteClientData
      BY <2>1, RegisterTypes DEF SensorsInv, AddClientInv, SensorsTypeOK
    <2>5. LastClient # NoClient
      BY <2>2, ServerTCPAssumption
    <2> QED BY <2>1, <2>2, <2>3, <2>4, <2>5 DEF OwnersInv, LastClient, Started
  <1>7. CASE AddClient /\ ~BindRegister /\ ~AddRegister /\ ~Reject /\ ~TakeOver
    <2>1. UNCHANGED <<thread, m_listRemoteClientData, m_wasReplaced>>
      BY <1>7, AddClientFrame
    <2>2. addPc # "bind"
      BY <1>7 DEF AddClient, AddAlone, GetNextLocalID, StopLastClient, Reserve, ReserveGrow,
         ReserveClamp, ReserveLoadPos, ReserveStorePos, ReserveTest, ReserveLoadActive,
         ReserveStoreActive, ReserveLoadBack, ReserveStoreBack, HandshakeFails,
         WriteRegister, RecvAcknowledge, SendRenew, RecvRenewed, LookUp, AddStep
    <2> QED BY <2>1, <2>2 DEF OwnersInv, Started
  <1> QED BY <1>1, <1>2, <1>3, <1>4, <1>5, <1>6, <1>7

\* The threads of connections, as long as none frees its position.
LEMMA SharingOthers ==
    ASSUME SensorsInv, TCPInv, NobodyLeft', ReservationInv, HoldersInv, SensorsNext, ~AddClient
    PROVE  ReservationInv' /\ HoldersInv'
  <1>1. UNCHANGED <<addPc, newID, m_localID, m_wasReplaced>>
    BY OthersLeaveRegistry DEF localVars, idVars
  <1>2. m_nextPos' = m_nextPos /\ reg'[Accept] = reg[Accept]
    <2>1. CASE Inherited
      BY <2>1 DEF Inherited, listVars
    <2>2. ASSUME NEW c \in Clients, NEW data \in Measures, ClientMeasures(c, data)
          PROVE  m_nextPos' = m_nextPos /\ reg' = reg
      BY <2>2 DEF ClientMeasures, AppendMeasure
    <2>3. ASSUME NEW c \in Clients, Callback(c)
          PROVE  m_nextPos' = m_nextPos /\ reg'[Accept] = reg[Accept]
      <3>1. c # Accept /\ Accept \in Threads /\ reg \in [Threads -> Int]
        BY ServerSensorsAssumption DEF SensorsInv, SensorsTypeOK, ListTypeOK, Threads
      <3>2. ~FreeSlot(c)
        BY DEF FreeSlot, ClientEnds, NobodyLeft, TCPInv, TCPTypeOK
      <3> QED BY <2>3, <3>1, <3>2 DEF Callback, CheckReplaced, FreeLoad, FreeStore,
                 LoadActive, StoreActive, listVars
    <2>4. ASSUME NEW id, AlarmRegisters(id)
          PROVE  m_nextPos' = m_nextPos /\ reg' = reg
      BY <2>4 DEF AlarmRegisters, listVars
    <2> QED BY <2>1, <2>2, <2>3, <2>4 DEF SensorsNext
  <1>3. \A c \in Clients : Holds(c)' =>
           Holds(c) \/ (c = current /\ serverPc = "start" /\ serverPc' # "start")
    BY <1>1, OthersThreads DEF Holds
  <1>4. serverPc' = "start" => serverPc = "start" /\ current' = current
    BY OthersThreads
  <1>5. \A p : Passed(p)' <=> Passed(p)
    BY <1>2 DEF Passed
  <1>6. ReservationInv'
    BY <1>1, <1>2, <1>5 DEF ReservationInv
  <1>7. serverPc = "start" => addPc = "getID"
    BY DEF SensorsInv, AddClientInv
  <1>8. HoldersInv'
    <2>1. \A c, d \in Clients :
             c # d /\ Holds(c)' /\ Holds(d)' /\ m_localID[c] = m_localID[d]
               => m_localID[c] = LastPosition
      BY <1>3 DEF HoldersInv, Fresh
    <2>2. \A c \in Clients : Holds(c)' => Passed(m_localID[c])
      BY <1>3 DEF HoldersInv
    <2>3. serverPc' = "start" => Fresh(m_localID[current])' /\ Passed(m_localID[current])'
      <3>1. SUFFICES ASSUME serverPc' = "start" PROVE Fresh(m_localID[current])'
        BY <1>1, <1>4, <1>5 DEF HoldersInv
      <3> QED BY <1>1, <1>3, <1>4, <3>1 DEF HoldersInv, Fresh, LastPosition
    <2>4. addPc \in {"test", "loadActive", "storeActive", "loadBack", "storeBack",
                     "register", "push", "bind"} => Fresh(newID)'
      BY <1>1, <1>3, <1>7 DEF HoldersInv, Fresh, LastPosition
    <2> QED BY <1>1, <1>5, <2>1, <2>2, <2>3, <2>4 DEF HoldersInv, LastPosition
  <1> QED BY <1>6, <1>8

\* While the accept thread reserves the position it has read, it is the next.
LEMMA SharingReserve ==
    ASSUME SensorsInv, TCPInv, ReservationInv, HoldersInv, Reserve
    PROVE  ReservationInv' /\ HoldersInv'
  <1> USE ListSensorsAssumption
  <1>1. /\ UNCHANGED <<thread, serverPc, current, m_localID, m_wasReplaced, newID>>
        /\ serverPc = "adding"
    BY DEF Reserve, ReserveGrow, ReserveClamp, ReserveLoadPos, ReserveStorePos,
       ReserveTest, ReserveLoadActive, ReserveStoreActive, ReserveLoadBack,
       ReserveStoreBack, ReserveUnchanged, AddStep, idVars, tcpVars, clientVars, acceptVars
  <1>2. /\ m_nextPos \in Int /\ reg \in [Threads -> Int] /\ Accept \in Threads
        /\ newID \in Int /\ MAX_SIZE_SENSORS \in Int
        /\ m_localID \in [Clients -> Int]
        /\ m_wasReplaced \in [Clients -> BOOLEAN]
        /\ m_nextPos <= MAX_SIZE_SENSORS
    BY DEF SensorsInv, SensorsTypeOK, ListTypeOK, Threads
  <1>3. m_nextPos = MAX_SIZE_SENSORS => addPc \in {"test", "loadBack", "storeBack"}
    BY DEF SensorsInv, PositionsInv
  <1>4. ReservationInv' /\ (\A p \in Int : Passed(p) => Passed(p)')
    <2>1. CASE ReserveGrow \/ ReserveClamp
      <3>1. /\ addPc \in {"grow", "clamp"} /\ addPc' \in {"clamp", "loadPos"}
            /\ m_nextPos' = m_nextPos
        BY <2>1 DEF ReserveGrow, ReserveClamp, GrowMaxSize, ClampMaxSize, AddStep
      <3> QED BY <1>1, <3>1 DEF ReservationInv, Passed, LastPosition
    <2>2. CASE ReserveLoadPos
      <3>1. /\ addPc = "loadPos" /\ addPc' = "storePos" /\ m_nextPos' = m_nextPos
            /\ reg' = [reg EXCEPT ![Accept] = m_nextPos]
        BY <2>2 DEF ReserveLoadPos, LoadPos, AddStep
      <3> QED BY <1>1, <1>2, <3>1 DEF ReservationInv, Passed, LastPosition
    <2>3. CASE ReserveStorePos
      <3>1. /\ addPc = "storePos" /\ addPc' = "test" /\ m_nextPos' = reg[Accept] + 1
        BY <2>3 DEF ReserveStorePos, StorePos, AddStep
      <3> QED BY <1>1, <1>2, <3>1 DEF ReservationInv, Passed, LastPosition
    <2>4. CASE ReserveTest
      <3>1. /\ addPc = "test" /\ m_nextPos' = m_nextPos
            /\ addPc' = IF m_nextPos < MAX_SIZE_SENSORS THEN "loadActive" ELSE "loadBack"
        BY <2>4 DEF ReserveTest, PosFits, AddStep, listVars
      <3> QED BY <1>1, <1>2, <3>1 DEF ReservationInv, Passed, LastPosition
    <2>5. CASE ReserveLoadActive
      <3>1. /\ addPc = "loadActive" /\ addPc' = "storeActive" /\ m_nextPos' = m_nextPos
        BY <2>5 DEF ReserveLoadActive, LoadActive, AddStep
      <3> QED BY <1>1, <1>2, <3>1 DEF ReservationInv, Passed, LastPosition
    <2>6. CASE ReserveStoreActive
      <3>1. /\ addPc = "storeActive" /\ addPc' \in {"bind", "register"}
            /\ m_nextPos' = m_nextPos
        BY <2>6 DEF ReserveStoreActive, StoreActive, AddStep, AfterReserve
      <3> QED BY <1>1, <1>2, <3>1 DEF ReservationInv, Passed, LastPosition
    <2>7. CASE ReserveLoadBack
      <3>1. /\ addPc = "loadBack" /\ addPc' = "storeBack" /\ m_nextPos' = m_nextPos
            /\ reg' = [reg EXCEPT ![Accept] = m_nextPos]
        BY <2>7 DEF ReserveLoadBack, LoadPos, AddStep
      <3> QED BY <1>1, <1>2, <3>1 DEF ReservationInv, Passed, LastPosition
    <2>8. CASE ReserveStoreBack
      <3>1. /\ addPc = "storeBack" /\ addPc' \in {"bind", "reject"}
            /\ m_nextPos' = reg[Accept] - 1
        BY <2>8 DEF ReserveStoreBack, StorePos, AddStep, AfterReserve
      <3>2. m_nextPos' = MAX_SIZE_SENSORS - 1 /\ newID = MAX_SIZE_SENSORS - 1
        BY <1>2, <3>1 DEF ReservationInv
      <3> QED BY <1>1, <1>2, <3>1, <3>2 DEF ReservationInv, Passed, LastPosition
    <2> QED BY <2>1, <2>2, <2>3, <2>4, <2>5, <2>6, <2>7, <2>8 DEF Reserve
  <1>5. addPc' \in {"test", "loadActive", "storeActive", "loadBack", "storeBack",
                    "register", "push", "bind"} => Fresh(newID)
    <2>1. CASE ReserveStorePos
      <3>1. newID = m_nextPos
        BY <2>1 DEF ReserveStorePos, AddStep, ReservationInv
      <3>2. \A c \in Clients : Holds(c) => Passed(m_localID[c])
        BY DEF HoldersInv
      <3> QED BY <1>2, <3>1, <3>2 DEF Fresh, Passed
    <2>2. CASE ~ReserveStorePos
      BY <2>2 DEF Reserve, ReserveGrow, ReserveClamp, ReserveLoadPos, ReserveTest,
         ReserveLoadActive, ReserveStoreActive, ReserveLoadBack, ReserveStoreBack, AddStep,
         HoldersInv
    <2> QED BY <2>1, <2>2
  <1>6. \A c \in Clients : Holds(c)' <=> Holds(c)
    BY <1>1 DEF Holds, Started
  <1>7. HoldersInv'
    BY <1>1, <1>2, <1>4, <1>5, <1>6 DEF HoldersInv, Fresh, LastPosition
  <1> QED BY <1>4, <1>7

\* The steps of addClient that reserve nothing and admit nobody.
LEMMA SharingHandshake ==
    ASSUME SensorsInv, TCPInv, IDsInv, OwnersInv, ReservationInv, HoldersInv, AddClient,
           ~Reserve, ~BindRegister, ~AddRegister, ~WriteRegister
    PROVE  ReservationInv' /\ HoldersInv'
  <1>1. m_nextPos' = m_nextPos /\ reg' = reg
    BY DEF AddClient, AddAlone, GetNextLocalID, StopLastClient, TakeOver, Reject,
       HandshakeFails, RecvAcknowledge, SendRenew, RecvRenewed, listVars
  <1>2. \A p : Passed(p)' <=> Passed(p)
    BY <1>1 DEF Passed, LastPosition
  <1>3. m_wasReplaced \in [Clients -> BOOLEAN]
    BY DEF SensorsInv, SensorsTypeOK
  <1>4. CASE Reject
    <2>1. /\ addPc' = "getID" /\ serverPc' = "check"
          /\ UNCHANGED <<m_localID, m_wasReplaced, thread>>
      BY <1>4, AddClientThreads DEF Reject, ResetLocals, AddFails, idVars, AddClient, AddAlone
    <2> QED BY <1>1, <1>2, <2>1 DEF ReservationInv, HoldersInv, Holds, Started, LastPosition
  <1>5. CASE TakeOver
    <2>1. /\ addPc = "takeOver" /\ serverPc = "adding" /\ addPc' = "bind"
          /\ UNCHANGED <<thread, serverPc, current, m_localID>>
          /\ m_wasReplaced' = [m_wasReplaced EXCEPT ![LastClient] = TRUE]
          /\ newID' = m_localID[LastClient]
      BY <1>5 DEF TakeOver, AddStep, tcpVars, clientVars, acceptVars
    <2>2. LastClient \in Clients /\ Started(LastClient)
      BY <2>1, LastClientStarted
    <2>3. entry \in DOMAIN m_listRemoteClientData
      BY <2>1, RegisterTypes DEF SensorsInv, AddClientInv, SensorsTypeOK
    <2>4. Holds(LastClient)
      BY <2>1, <2>2, <2>3 DEF OwnersInv, LastClient, Holds
    <2>5. Passed(newID')
      BY <2>1, <2>2, <2>4 DEF HoldersInv
    <2>6. \A c \in Clients : Holds(c)' => Holds(c) /\ c # LastClient
      BY <1>3, <2>1, <2>2 DEF Holds, Started
    <2>7. Fresh(newID)'
      BY <2>1, <2>2, <2>4, <2>6 DEF HoldersInv, Fresh, LastPosition
    <2> QED BY <1>1, <1>2, <2>1, <2>5, <2>6, <2>7 DEF HoldersInv, ReservationInv, LastPosition
  <1>6. CASE ~Reject /\ ~TakeOver
    <2>1. /\ UNCHANGED <<thread, serverPc, current, m_localID, m_wasReplaced>>
          /\ serverPc = "adding"
      BY <1>6, AddClientFrame
    <2>2. /\ addPc' \in {"hello", "renew", "stopLast", "takeOver", "grow", "reject"}
          /\ addPc' # "reject" => newID' = m_nextPos
      BY <1>6 DEF AddClient, AddAlone, GetNextLocalID, StopLastClient, HandshakeFails,
         RecvAcknowledge, SendRenew, RecvRenewed, LookUp, AddStep, ReservationInv
    <2>3. ReservationInv'
      BY <1>1, <2>2 DEF ReservationInv
    <2>4. \A c \in Clients : Holds(c)' <=> Holds(c)
      BY <2>1 DEF Holds, Started
    <2>5. HoldersInv'
      BY <1>2, <2>1, <2>2, <2>4 DEF HoldersInv, LastPosition
    <2> QED BY <2>3, <2>5
  <1> QED BY <1>4, <1>5, <1>6

\* The write of the register to the file touches no position that is held.
LEMMA SharingWrites ==
    ASSUME SensorsInv, TCPInv, ReservationInv, HoldersInv, WriteRegister
    PROVE  ReservationInv' /\ HoldersInv'
  <1>1. /\ addPc = "register" /\ addPc' = "push" /\ serverPc = "adding" /\ newID' = newID
        /\ UNCHANGED <<m_nextPos, reg, thread, serverPc, current, m_wasReplaced>>
        /\ m_localID' = [m_localID EXCEPT ![current] = newID]
    BY DEF WriteRegister, AddStep, SetClientID, listVars, tcpVars, clientVars, acceptVars
  <1>2. current \in Clients /\ ~Started(current) /\ m_localID \in [Clients -> Int]
    BY <1>1 DEF TCPInv, TCPTypeOK, AcceptThreadInv, Started, SensorsInv, SensorsTypeOK
  <1>3. \A c \in Clients : Holds(c)' <=> Holds(c)
    BY <1>1 DEF Holds, Started
  <1>4. \A c \in Clients : Holds(c) => m_localID'[c] = m_localID[c]
    BY <1>1, <1>2 DEF Holds
  <1>5. \A p : Passed(p)' <=> Passed(p)
    BY <1>1 DEF Passed, LastPosition
  <1>6. ReservationInv'
    BY <1>1 DEF ReservationInv
  <1>7. HoldersInv'
    BY <1>1, <1>3, <1>4, <1>5 DEF HoldersInv, Fresh, LastPosition
  <1> QED BY <1>6, <1>7

\* A connection is admitted at a position that no other holds.
LEMMA SharingAdmits ==
    ASSUME SensorsInv, TCPInv, ReservationInv, HoldersInv, BindRegister \/ AddRegister
    PROVE  ReservationInv' /\ HoldersInv'
  <1>1. /\ addPc \in {"bind", "register", "push"} /\ addPc' = "getID" /\ serverPc = "adding"
        /\ UNCHANGED <<thread, current, m_wasReplaced, m_nextPos>>
        /\ m_localID' = [m_localID EXCEPT ![current] = newID]
    BY AddRegisterEffect DEF BindRegister, AddSucceeds, SetClientID, ResetLocals, listVars,
       clientVars
  <1>2. /\ current \in Clients /\ ~Started(current) /\ m_localID \in [Clients -> Int]
        /\ newID \in Int
    BY <1>1 DEF TCPInv, TCPTypeOK, AcceptThreadInv, Started, SensorsInv, SensorsTypeOK
  <1>3. \A c \in Clients : Holds(c)' => Holds(c) /\ m_localID'[c] = m_localID[c]
    BY <1>1, <1>2 DEF Holds, Started
  <1>4. m_localID'[current] = newID /\ Fresh(newID)
    BY <1>1, <1>2 DEF HoldersInv
  <1>5. Passed(newID)
    BY <1>1, <1>2, ListSensorsAssumption DEF ReservationInv, Passed, SensorsInv, SensorsTypeOK,
       ListTypeOK
  <1>6. \A p : Passed(p)' <=> Passed(p)
    BY <1>1 DEF Passed, LastPosition
  <1>7. ReservationInv'
    BY <1>1 DEF ReservationInv
  <1>8. Fresh(newID) => (\A c \in Clients : Holds(c)' /\ m_localID'[c] = newID
                                             => newID = LastPosition)
    BY <1>3 DEF Fresh
  <1>9. HoldersInv'
    BY <1>1, <1>3, <1>4, <1>5, <1>6, <1>8 DEF HoldersInv, Fresh, LastPosition
  <1> QED BY <1>7, <1>9

LEMMA MarkedStep ==
    ASSUME SensorsInv, TCPInv, HandOverInv, MarkedAreStopped, [SensorsNext]_vars
    PROVE  MarkedAreStopped'
  <1>1. CASE UNCHANGED vars
    BY <1>1 DEF vars, tcpVars, clientVars, idVars, MarkedAreStopped
  <1>2. CASE TakeOver
    <2>1. /\ addPc = "takeOver" /\ serverPc = "adding" /\ m_stop' = m_stop
          /\ m_wasReplaced' = [m_wasReplaced EXCEPT ![LastClient] = TRUE]
      BY <1>2 DEF TakeOver, AddStep, tcpVars, clientVars
    <2>2. m_wasReplaced \in [Clients -> BOOLEAN]
      BY DEF SensorsInv, SensorsTypeOK
    <2> QED BY <2>1, <2>2 DEF MarkedAreStopped, HandOverInv
  <1>3. CASE SensorsNext /\ ~TakeOver
    <2>1. m_wasReplaced' = m_wasReplaced
      <3>1. CASE ~AddClient
        BY <1>3, <3>1, OthersLeaveRegistry DEF idVars
      <3>2. CASE AddClient
        BY <1>3, <3>2, AddClientFrame, AddRegisterEffect DEF BindRegister, Reject, idVars
      <3> QED BY <3>1, <3>2
    <2> QED BY <1>3, <2>1, StopsLast DEF MarkedAreStopped
  <1> QED BY <1>1, <1>2, <1>3

LEMMA SharingStep ==
    ASSUME SensorsInv, TCPInv, IDsInv, OwnersInv, SharingInv, [SensorsNext]_vars
    PROVE  SharingInv'
  <1> SUFFICES ASSUME NobodyLeft' PROVE ReservationInv' /\ HoldersInv'
    BY DEF SharingInv
  <1>1. ReservationInv /\ HoldersInv
    BY LeftLasts DEF SharingInv
  <1>2. CASE UNCHANGED vars
    BY <1>1, <1>2 DEF vars, tcpVars, clientVars, acceptVars, listVars, localVars, idVars,
       ReservationInv, HoldersInv, Fresh, Passed, LastPosition, Holds, Started
  <1>3. CASE AddClient
    BY <1>1, <1>3, SharingReserve, SharingHandshake, SharingWrites, SharingAdmits
  <1> QED BY <1>1, <1>2, <1>3, SharingOthers

\* Two connections that are served share a position only after a connection has
\* left, or the last position of a full list: it is deleteSpaceSensor, and the
\* reservation whose result addClient ignores, that give one out twice
\* (ListSensors.cpp:51, ServerSensors.cpp:155).  As long as nobody has left,
\* every position that is held has been passed by m_nextPos, and the one that
\* addClient has read but not yet reserved is m_nextPos itself.
THEOREM PositionsAreOwn == SensorsSpec => []PositionsSharedAfterDeparture
  <1>1. SensorsInit => MarkedAreStopped /\ OwnersInv /\ SharingInv
    <2> SUFFICES ASSUME SensorsInit PROVE MarkedAreStopped /\ OwnersInv /\ SharingInv
      OBVIOUS
    <2>1. SensorsInv
      BY SensorsInitInv
    <2>2. /\ \A c \in Clients : ~Started(c) /\ ~m_wasReplaced[c]
          /\ m_nextPos = 0 /\ addPc = "getID" /\ serverPc = "check"
      BY DEF SensorsInit, TCPInit, ListInit, Started
    <2>3. SharingInv
      BY <2>2 DEF SharingInv, ReservationInv, HoldersInv, Holds
    <2>4. \A i \in DOMAIN m_listRemoteClientData :
             m_listRemoteClientData[i].client \in Clients \cup {NoClient}
      BY <2>1, RegisterTypes DEF SensorsInv
    <2>5. \A i \in DOMAIN m_listRemoteClientData : m_listRemoteClientData[i].client = NoClient
      BY <2>1, <2>2, <2>4 DEF SensorsInv, RegistersInv
    <2> QED BY <2>2, <2>3, <2>5 DEF OwnersInv, MarkedAreStopped
  <1>2. SensorsInv /\ TCPInv /\ OwnersInv /\ [SensorsNext]_vars => OwnersInv'
    BY OwnersStep
  <1>3. SensorsInv /\ TCPInv /\ IDsInv /\ OwnersInv /\ SharingInv /\ [SensorsNext]_vars
          => SharingInv'
    BY SharingStep
  <1>4. SensorsInv /\ TCPInv /\ HandOverInv /\ MarkedAreStopped /\ [SensorsNext]_vars
          => MarkedAreStopped'
    BY MarkedStep
  <1>5. MarkedAreStopped /\ SharingInv => PositionsSharedAfterDeparture
    <2> SUFFICES ASSUME MarkedAreStopped, SharingInv, NobodyLeft,
                        NEW c \in Clients, NEW d \in Clients, c # d, Serving(c), Serving(d),
                        m_localID[c] = m_localID[d]
                 PROVE  m_localID[c] = LastPosition
      BY DEF PositionsSharedAfterDeparture, NobodyLeft, LastPosition
    <2>1. Holds(c) /\ Holds(d)
      BY DEF Holds, Started, Serving, MarkedAreStopped
    <2> QED BY <2>1 DEF SharingInv, HoldersInv
  <1> QED BY <1>1, <1>2, <1>3, <1>4, <1>5, HandOverInvariant, PTL DEF SensorsSpec
=============================================================================
