------------------------- MODULE ServerAlarmProofs -------------------------
(***************************************************************************)
(* The safety properties of the alert broadcast and of the end of the      *)
(* alarm server, for any set of connections.  The part of the invariant    *)
(* that is about ServerTCP is preserved because every step but JoinRequest *)
(* is one of ServerTCP's or leaves its variables alone.                    *)
(***************************************************************************)
EXTENDS ServerAlarm, ServerTCPProofs, FiniteSetTheorems

\* What is in a sequence that an item was appended to.
LEMMA AppendRange ==
    ASSUME NEW S, NEW q \in Seq(S), NEW x \in S
    PROVE  /\ Append(q, x) \in Seq(S)
           /\ Range(Append(q, x)) = Range(q) \cup {x}
  <1>1. /\ Append(q, x) \in Seq(S)
        /\ Len(Append(q, x)) = Len(q) + 1
        /\ \A i \in 1 .. Len(q) : Append(q, x)[i] = q[i]
        /\ Append(q, x)[Len(q) + 1] = x
        /\ Len(q) \in Nat
    BY AppendProperties
  <1>2. DOMAIN q = 1 .. Len(q) /\ DOMAIN Append(q, x) = 1 .. Len(q) + 1
    BY <1>1
  <1> QED BY <1>1, <1>2 DEF Range

LEMMA RangeContains ==
    ASSUME NEW S, NEW q \in Seq(S)
    PROVE  /\ Range(q) \subseteq S
           /\ \A x : Contains(q, x) <=> x \in Range(q)
  BY DEF Range, Contains

-----------------------------------------------------------------------------
LEMMA AlarmInitInv == AlarmInit => AlarmInv
  <1> SUFFICES ASSUME AlarmInit PROVE AlarmInv
    OBVIOUS
  <1>1. TCPInv
    BY TCPInitInv DEF AlarmInit
  <1>2. m_queueClients = <<>> /\ waiting = {} /\ mainPc = "serving"
        /\ thread = [c \in Clients |-> "none"]
    BY DEF AlarmInit, TCPInit, QueueInit
  <1>3. RegistryTypeOK /\ RequestTypeOK
    <2>1. /\ registers = <<>> /\ alarmsFile = <<>> /\ sensorsFile = <<>> /\ alerted = <<>>
          /\ addPc = "handshake" /\ entry = 0
          /\ requestPc = "loop" /\ requestStop = FALSE /\ size = 0 /\ index = 0
          /\ target = NoClient /\ moved = FALSE /\ departed = 0
      BY DEF AlarmInit
    <2>2. /\ registers \in Seq(Registers) /\ alarmsFile \in Seq(Nat) /\ sensorsFile \in Seq(Nat)
          /\ alerted \in Seq(Clients) /\ Len(registers) = 0
      BY <2>1, EmptySeq
    <2>3. entry \in 0 .. Len(registers)
      BY <2>1, <2>2
    <2> QED BY <2>1, <2>2, <2>3 DEF RegistryTypeOK, RequestTypeOK, RequestPcs
  <1>4. Range(alerted) = {} /\ IsInjective(alerted)
    BY DEF AlarmInit, Range, IsInjective
  <1>5. NeverWaits /\ StaysQueued /\ RegistersAdmitted
    BY <1>2 DEF AlarmInit, NeverWaits, StaysQueued, InQueue, RegistersAdmitted
  <1>6. Len(m_queueClients) = 0
    BY <1>2
  <1>7. AheadUnsent
    BY <1>4, <1>6, ServerTCPAssumption DEF AheadUnsent, AlarmInit
  <1>8. SizeIsCurrent /\ AlertAtMostOnce /\ UndefinedNeedsChurn
    BY <1>4, <1>6 DEF SizeIsCurrent, AlertAtMostOnce, UndefinedNeedsChurn, Alerting, AlarmInit
  <1> QED BY <1>1, <1>3, <1>5, <1>7, <1>8 DEF AlarmInv, BroadcastInv

-----------------------------------------------------------------------------
(* ServerTCP's invariant. *)

LEMMA RegisterTypes ==
    ASSUME RegistryTypeOK
    PROVE  /\ DOMAIN registers = 1 .. Len(registers)
           /\ Len(registers) \in Nat
           /\ \A i \in DOMAIN registers : registers[i] \in Registers /\ registers[i].client \in Clients
  <1>1. registers \in Seq(Registers)
    BY DEF RegistryTypeOK
  <1>2. \A i \in DOMAIN registers : registers[i] \in Registers
    BY <1>1
  <1>3. \A r \in Registers : r.client \in Clients
    BY DEF Registers
  <1> QED BY <1>1, <1>2, <1>3

LEMMA RequestStepMaps == Request => UNCHANGED <<tcpVars, registryVars>>
  BY DEF Request, RequestLoop, NoAlert, StartAlert, AlertAt, AlertDeref,
         DerefUndefined, AlertSend, SendUndefined, EndAlert

LEMMA InheritedMaps == Inherited => TCPNext
  BY DEF Inherited, TCPNext, MainStep

LEMMA AddClientMaps == AlarmInv /\ AddClient => TCPNext
  <1> SUFFICES ASSUME AlarmInv, AddClient PROVE TCPNext
    OBVIOUS
  <1>1. ASSUME NEW i \in DOMAIN registers, StopLastClient(i) PROVE TCPNext
    <2>1. registers[i].client \in Clients
      BY RegisterTypes DEF AlarmInv
    <2>2. serverPc = "adding" /\ thread[registers[i].client] \notin {"none", "created"}
      BY <1>1 DEF AlarmInv, RegistersAdmitted, StopLastClient
    <2>3. AddStopsAnother(registers[i].client)
      BY <1>1, <2>2 DEF AddStopsAnother, StopLastClient
    <2> QED BY <2>1, <2>3 DEF TCPNext
  <1>2. ASSUME NEW id, Enroll(id) PROVE TCPNext
    BY <1>2 DEF Enroll, TCPNext
  <1>3. CASE BindRegister \/ AdmitUnregistered \/ Refuse
    BY <1>3 DEF BindRegister, AdmitUnregistered, Refuse, TCPNext
  <1> QED BY <1>1, <1>2, <1>3 DEF AddClient

LEMMA JoinRequestTCP == TCPInv /\ JoinRequest => TCPInv'
  BY DEF TCPInv, TCPTypeOK, ServerPcs, ThreadPcs, MainPcs,
         AcceptThreadInv, MainThreadInv, QueueInv, Queued, JoinRequest,
         NoWaitBeforeQuit, LiveClientsReachable, ServerExitsLast,
         queueVars, clientVars, acceptVars

LEMMA StopRequestMaps == StopRequest => TCPNext
  BY DEF StopRequest, TCPNext

LEMMA AlarmKeepsTCPInv == AlarmInv /\ [AlarmNext]_alarmVars => TCPInv'
  <1> SUFFICES ASSUME AlarmInv, [AlarmNext]_alarmVars PROVE TCPInv'
    OBVIOUS
  <1>1. TCPInv
    BY DEF AlarmInv
  <1>2. CASE TCPNext \/ UNCHANGED tcpVars
    BY <1>1, <1>2, TCPInvStep
  <1>3. CASE JoinRequest
    BY <1>1, <1>3, JoinRequestTCP
  <1>4. CASE UNCHANGED alarmVars
    BY <1>2, <1>4 DEF alarmVars
  <1> QED BY <1>2, <1>3, <1>4, RequestStepMaps, InheritedMaps, AddClientMaps,
             StopRequestMaps DEF AlarmNext

-----------------------------------------------------------------------------
(* What a step of another thread does to the queue while alerts are sent.  *)

QueueUnmoved ==
    /\ m_queueClients' = m_queueClients
    /\ \A d \in Clients : InQueue(d)' <=> InQueue(d)

QueueGrew(c) ==
    /\ thread[c] = "none"
    /\ ~ Queued(c)
    /\ m_queueClients' = Append(m_queueClients, c)
    /\ \A d \in Clients : InQueue(d)' <=> InQueue(d) \/ d = c

QueueShrank(k) ==
    /\ m_queueClients' = RemoveAt(m_queueClients, k)
    /\ \A d \in Clients : InQueue(d)' <=> InQueue(d) /\ d # m_queueClients[k]

QueueStep ==
    \/ QueueUnmoved
    \/ \E c \in Clients : QueueGrew(c)
    \/ \E k \in 1 .. Len(m_queueClients) : QueueShrank(k)

LEMMA InheritedQueue ==
    ASSUME AlarmInv, Inherited
    PROVE  /\ QueueStep
           /\ waiting' = {}
           /\ mainPc' \notin {"pop", "popped"}
           /\ \A d \in Clients : thread[d] # "none" => thread'[d] # "none"
  <1> USE DEF AlarmInv, TCPInv, TCPTypeOK, ThreadPcs, NeverWaits, StaysQueued
  <1>1. CASE RunLoop \/ AcceptFails \/ SetServerStop \/ JoinServer
    BY <1>1 DEF RunLoop, AcceptFails, SetServerStop, JoinServer, QueueStep,
        QueueUnmoved, InQueue, queueVars, clientVars, mainVars
  <1>2. ASSUME NEW c \in Clients, AcceptClient(c)
        PROVE  /\ QueueGrew(c)
               /\ waiting' = {}
               /\ mainPc' = mainPc
               /\ \A d \in Clients : thread[d] # "none" => thread'[d] # "none"
    BY <1>2 DEF AcceptClient, QueueAdd, NotifyOne, QueueGrew, QueueInv, InQueue, mainVars
  <1>3. CASE StartClient
    <2>1. current \in Clients /\ thread[current] = "created"
      BY <1>3 DEF StartClient, AcceptThreadInv
    <2> QED BY <1>3, <2>1 DEF StartClient, QueueStep, QueueUnmoved, InQueue,
        queueVars, mainVars
  <1>4. ASSUME NEW c \in Clients,
               ClientLoop(c) \/ ClientReceive(c) \/ ClientGivesUp(c) \/ ClientEnds(c)
        PROVE  /\ QueueUnmoved
               /\ waiting' = {}
               /\ mainPc' = mainPc
               /\ \A d \in Clients : thread[d] # "none" => thread'[d] # "none"
    BY <1>4 DEF ClientLoop, ClientReceive, ClientGivesUp, ClientEnds,
        QueueUnmoved, InQueue, queueVars, mainVars
  <1>5. ASSUME NEW c \in Clients, ClientWaits(c) PROVE FALSE
    <2>1. Queued(c) /\ m_queueClients = <<>>
      BY <1>5 DEF ClientWaits, QueueWait, InQueue
    <2>2. Len(m_queueClients) = 0
      BY <2>1
    <2> QED BY <2>1, <2>2 DEF Queued, Contains
  <1>6. ASSUME NEW c \in Clients, ClientLeaves(c)
        PROVE  /\ \E k \in 1 .. Len(m_queueClients) : QueueShrank(k)
               /\ waiting' = {}
               /\ mainPc' = mainPc
               /\ \A d \in Clients : thread[d] # "none" => thread'[d] # "none"
    <2>1. Queued(c)
      BY <1>6 DEF ClientLeaves, InQueue
    <2>2. PICK k \in DOMAIN m_queueClients :
             /\ m_queueClients[k] = c
             /\ m_queueClients' = RemoveAt(m_queueClients, k)
      BY <1>6, <2>1 DEF ClientLeaves, QueueRemoveItem
    <2>3. thread' = [thread EXCEPT ![c] = "callback"]
          /\ waiting' = waiting /\ mainPc' = mainPc
      BY <1>6 DEF ClientLeaves, QueueRemoveItem, mainVars
    <2>4. \A d \in Clients : InQueue(d)' <=> InQueue(d) /\ d # c
      BY <1>6, <2>3 DEF InQueue, ClientLeaves
    <2>5. k \in 1 .. Len(m_queueClients)
      OBVIOUS
    <2> QED BY <2>2, <2>3, <2>4, <2>5 DEF QueueShrank
  <1> QED BY <1>1, <1>2, <1>3, <1>4, <1>5, <1>6 DEF Inherited, ClientStep, QueueStep

-----------------------------------------------------------------------------
(* The broadcast, while another thread takes a step.                       *)

LEMMA BroadcastTypes ==
    ASSUME AlarmInv
    PROVE  /\ m_queueClients \in Seq(Clients)
           /\ IsInjective(m_queueClients)
           /\ Len(m_queueClients) \in Nat
           /\ \A i \in 1 .. Len(m_queueClients) : m_queueClients[i] \in Clients
           /\ alerted \in Seq(Clients)
           /\ Range(alerted) \subseteq Clients
           /\ size \in Nat /\ index \in Nat /\ index <= size /\ departed \in Nat
           /\ target \in Clients \cup {NoClient}
  <1>1. m_queueClients \in Seq(Clients) /\ IsInjective(m_queueClients)
    BY DEF AlarmInv, TCPInv, TCPTypeOK, QueueInv
  <1>2. alerted \in Seq(Clients) /\ size \in Nat /\ index \in 0 .. size
        /\ departed \in Nat /\ target \in Clients \cup {NoClient}
    BY DEF AlarmInv, RequestTypeOK
  <1>3. Range(alerted) \subseteq Clients
    BY <1>2, RangeContains
  <1>4. Len(m_queueClients) \in Nat /\ \A i \in 1 .. Len(m_queueClients) : m_queueClients[i] \in Clients
    BY <1>1
  <1> QED BY <1>1, <1>2, <1>3, <1>4

LEMMA AheadUnsentChurn ==
    ASSUME AlarmInv, Inherited
    PROVE  AheadUnsent'
  <1>1. /\ QueueStep
        /\ \A d \in Clients : thread[d] # "none" => thread'[d] # "none"
    BY InheritedQueue
  <1>2. alerted' = alerted /\ target' = target /\ index' = index
    BY DEF Inherited, requestVars, sendVars
  <1>3. AheadUnsent
    BY DEF AlarmInv, BroadcastInv
  <1>4. Range(alerted)' = Range(alerted)
    BY <1>2 DEF Range
  <1>5. /\ target' \notin Range(alerted)'
        /\ \A c \in Clients : c \in Range(alerted)' \cup {target'} => thread'[c] # "none"
    BY <1>1, <1>2, <1>3, <1>4 DEF AheadUnsent
  <1>6. ASSUME NEW j \in 1 .. Len(m_queueClients')
        PROVE  /\ j > index => m_queueClients'[j] \notin Range(alerted)
               /\ j > index + 1 => m_queueClients'[j] # target
    <2> DEFINE q == m_queueClients
    <2>1. /\ q \in Seq(Clients) /\ Len(q) \in Nat /\ index \in Nat
      BY BroadcastTypes
    <2>2. \A i \in 1 .. Len(q) :
              /\ i > index => q[i] \notin Range(alerted)
              /\ i > index + 1 => q[i] # target
      BY <1>3 DEF AheadUnsent
    <2>3. CASE QueueUnmoved
      BY <1>6, <2>2, <2>3 DEF QueueUnmoved
    <2>4. ASSUME NEW c \in Clients, QueueGrew(c)
          PROVE  /\ j > index => m_queueClients'[j] \notin Range(alerted)
                 /\ j > index + 1 => m_queueClients'[j] # target
      <3>1. c \notin Range(alerted) /\ c # target
        BY <1>3, <2>4 DEF AheadUnsent, QueueGrew
      <3>2. /\ m_queueClients' = Append(q, c)
            /\ Len(Append(q, c)) = Len(q) + 1
            /\ \A i \in 1 .. Len(q) : Append(q, c)[i] = q[i]
            /\ Append(q, c)[Len(q) + 1] = c
        BY <2>1, <2>4, AppendProperties DEF QueueGrew
      <3>3. j \in 1 .. Len(q) \/ j = Len(q) + 1
        BY <2>1, <3>2
      <3> QED BY <2>2, <3>1, <3>2, <3>3
    <2>5. ASSUME NEW k \in 1 .. Len(q), QueueShrank(k)
          PROVE  /\ j > index => m_queueClients'[j] \notin Range(alerted)
                 /\ j > index + 1 => m_queueClients'[j] # target
      <3>1. /\ m_queueClients' = RemoveAt(q, k)
            /\ Len(RemoveAt(q, k)) = Len(q) - 1
            /\ \A i \in 1 .. Len(q) - 1 : RemoveAt(q, k)[i] = IF i < k THEN q[i] ELSE q[i + 1]
        BY <2>1, <2>5, RemoveAtIndices DEF QueueShrank
      <3>2. j \in 1 .. Len(q) - 1
        BY <3>1
      <3>3. m_queueClients'[j] = IF j < k THEN q[j] ELSE q[j + 1]
        BY <3>1, <3>2
      <3>4. j \in 1 .. Len(q) /\ j + 1 \in 1 .. Len(q) /\ j \in Nat
        BY <2>1, <3>2
      <3> HIDE DEF q
      <3> QED BY <2>1, <2>2, <3>3, <3>4
    <2> QED BY <1>1, <2>3, <2>4, <2>5 DEF QueueStep
  <1> QED BY <1>2, <1>4, <1>5, <1>6 DEF AheadUnsent

LEMMA SizeIsCurrentChurn ==
    ASSUME AlarmInv, Inherited
    PROVE  /\ SizeIsCurrent'
           /\ UndefinedNeedsChurn'
           /\ RequestTypeOK'
  <1>1. QueueStep
    BY InheritedQueue
  <1>2. /\ alerted' = alerted /\ target' = target /\ index' = index /\ size' = size
        /\ requestPc' = requestPc /\ requestStop' = requestStop
    BY DEF Inherited, requestVars, sendVars
  <1>3. SizeIsCurrent /\ UndefinedNeedsChurn /\ RequestTypeOK
    BY DEF AlarmInv, BroadcastInv
  <1>4. Alerting' <=> Alerting
    BY <1>2 DEF Alerting
  <1>5. /\ moved' \in BOOLEAN /\ departed' \in Nat /\ departed' >= departed
        /\ moved => moved'
        /\ ~ Alerting => departed' = departed
        /\ Alerting => Len(m_queueClients') + departed' >= Len(m_queueClients) + departed
        /\ \A d \in Clients : InQueue(d) /\ ~ InQueue(d)' /\ Alerting => departed' > 0
    <2>1. /\ m_queueClients \in Seq(Clients) /\ Len(m_queueClients) \in Nat /\ departed \in Nat
      BY BroadcastTypes
    <2>2. moved \in BOOLEAN
      BY <1>3 DEF RequestTypeOK
    <2>3. Churn
      BY DEF Inherited
    <2>4. CASE QueueUnmoved
      BY <2>1, <2>2, <2>3, <2>4 DEF QueueUnmoved, Churn
    <2>5. ASSUME NEW c \in Clients, QueueGrew(c)
          PROVE Len(m_queueClients') = Len(m_queueClients) + 1
      BY <2>1, <2>5, AppendProperties DEF QueueGrew
    <2>6. ASSUME NEW k \in 1 .. Len(m_queueClients), QueueShrank(k)
          PROVE Len(m_queueClients') = Len(m_queueClients) - 1
      BY <2>1, <2>6, RemoveAtIndices DEF QueueShrank
    <2>7. CASE \E c \in Clients : QueueGrew(c)
      <3>1. Len(m_queueClients') = Len(m_queueClients) + 1
        BY <2>5, <2>7
      <3>2. \A d \in Clients : InQueue(d) => InQueue(d)'
        BY <2>7 DEF QueueGrew
      <3> QED BY <2>1, <2>2, <2>3, <3>1, <3>2 DEF Churn
    <2>8. CASE \E k \in 1 .. Len(m_queueClients) : QueueShrank(k)
      <3>1. Len(m_queueClients') = Len(m_queueClients) - 1
        BY <2>6, <2>8
      <3> QED BY <2>1, <2>2, <2>3, <3>1 DEF Churn
    <2> QED BY <1>1, <2>4, <2>7, <2>8 DEF QueueStep
  <1>6. RequestTypeOK'
    BY <1>2, <1>3, <1>5 DEF RequestTypeOK
  <1>7. UndefinedNeedsChurn'
    BY <1>2, <1>3, <1>5, BroadcastTypes DEF UndefinedNeedsChurn
  <1>8. SizeIsCurrent'
    <2>1. /\ Len(m_queueClients) \in Nat /\ size \in Nat /\ departed \in Nat
          /\ Len(m_queueClients') \in Nat
          /\ target \in Clients \cup {NoClient}
      <3>1. m_queueClients' \in Seq(Clients)
        BY AlarmKeepsTCPInv DEF AlarmNext, TCPInv, TCPTypeOK
      <3> QED BY <3>1, BroadcastTypes
    <2>2. Alerting' => Len(m_queueClients)' + departed' >= size'
      BY <1>2, <1>3, <1>4, <1>5, <2>1 DEF SizeIsCurrent
    <2>3. requestPc' = "send" => target' # NoClient /\ (InQueue(target)' \/ departed' > 0)
      <3>1. ASSUME requestPc = "send"
            PROVE  target # NoClient /\ Alerting /\ (InQueue(target) \/ departed > 0)
        BY <1>3, <3>1 DEF SizeIsCurrent, Alerting
      <3>2. ASSUME requestPc = "send" PROVE InQueue(target)' \/ departed' > 0
        <4>1. target \in Clients
          BY <2>1, <3>1, <3>2
        <4>2. CASE departed > 0
          BY <1>5, <2>1, <4>2
        <4>3. CASE InQueue(target)
          <5>1. \A d \in Clients : d = target => InQueue(d)' \/ departed' > 0
            BY <1>5, <3>1, <3>2, <4>3
          <5>2. InQueue(target)' <=> thread'[target] \in {"created", "run", "recv", "remove"}
            BY <1>2 DEF InQueue
          <5> QED BY <4>1, <5>1, <5>2 DEF InQueue
        <4> QED BY <3>1, <3>2, <4>2, <4>3
      <3> QED BY <1>2, <3>1, <3>2
    <2> QED BY <1>2, <1>3, <1>4, <1>5, <2>2, <2>3 DEF SizeIsCurrent, Alerting
  <1> QED BY <1>6, <1>7, <1>8

-----------------------------------------------------------------------------
(* The registers and the queue.                                            *)

RegistryInv == RegistryTypeOK /\ NeverWaits /\ StaysQueued /\ RegistersAdmitted

LEMMA RegistryInherited ==
    ASSUME AlarmInv, Inherited
    PROVE  RegistryInv'
  <1>1. /\ QueueStep
        /\ waiting' = {}
        /\ mainPc' \notin {"pop", "popped"}
    BY InheritedQueue
  <1>2. /\ registers' = registers /\ entry' = entry /\ addPc' = addPc
        /\ alarmsFile' = alarmsFile /\ sensorsFile' = sensorsFile
    BY DEF Inherited, registryVars
  <1>3. RegistryTypeOK'
    BY <1>2 DEF AlarmInv, RegistryTypeOK
  <1>4. StaysQueued'
    <2> SUFFICES ASSUME NEW d \in Clients, InQueue(d)' PROVE Queued(d)'
      BY <1>1 DEF StaysQueued
    <2>1. m_queueClients \in Seq(Clients) /\ IsInjective(m_queueClients)
      BY BroadcastTypes
    <2>2. InQueue(d) => Queued(d)
      BY DEF AlarmInv, StaysQueued
    <2>3. CASE QueueUnmoved
      BY <2>2, <2>3 DEF QueueUnmoved, Queued
    <2>4. ASSUME NEW c \in Clients, QueueGrew(c) PROVE Queued(d)'
      BY <2>1, <2>2, <2>4, AppendContains DEF QueueGrew, Queued
    <2>5. ASSUME NEW k \in 1 .. Len(m_queueClients), QueueShrank(k) PROVE Queued(d)'
      BY <2>1, <2>2, <2>5, RemoveAtContains DEF QueueShrank, Queued
    <2> QED BY <1>1, <2>3, <2>4, <2>5 DEF QueueStep
  <1>5. RegistersAdmitted'
    <2> SUFFICES ASSUME NEW i \in DOMAIN registers
                 PROVE  \/ thread'[registers[i].client] \notin {"none", "created"}
                        \/ serverPc' = "start" /\ registers[i].client = current'
      BY <1>2 DEF RegistersAdmitted
    <2>1. PICK r \in Clients : r = registers[i].client
      BY RegisterTypes DEF AlarmInv
    <2>2. thread[r] \notin {"none", "created"} \/ (serverPc = "start" /\ r = current)
      BY <2>1 DEF AlarmInv, RegistersAdmitted
    <2>3. thread \in [Clients -> ThreadPcs] /\ (\A c \in Clients : current = c => thread[c] = "created")
      BY DEF AlarmInv, TCPInv, TCPTypeOK, AcceptThreadInv
    <2>4. ASSUME RunLoop \/ AcceptFails \/ SetServerStop \/ JoinServer
          PROVE  thread' = thread /\ (serverPc = "start" => serverPc' = "start" /\ current' = current)
      BY <2>2, <2>4 DEF RunLoop, AcceptFails, SetServerStop, JoinServer, clientVars, acceptVars
    <2>5. ASSUME StartClient PROVE thread'[r] \notin {"none", "created"}
      BY <2>1, <2>2, <2>3, <2>5 DEF StartClient
    <2>6. ASSUME NEW c \in Clients, AcceptClient(c) PROVE thread'[r] \notin {"none", "created"}
      BY <2>1, <2>2, <2>3, <2>6 DEF AcceptClient
    <2>7. ASSUME NEW c \in Clients, ClientStep(c) \/ ClientEnds(c)
          PROVE  \/ thread'[r] \notin {"none", "created"}
                 \/ serverPc' = "start" /\ r = current'
      BY <2>1, <2>2, <2>3, <2>7 DEF ClientStep, ClientEnds, ClientLoop, ClientReceive,
         ClientGivesUp, ClientWaits, ClientLeaves, clientVars, acceptVars
    <2>8. \/ thread'[r] \notin {"none", "created"}
          \/ serverPc' = "start" /\ r = current'
      BY <2>2, <2>4, <2>5, <2>6, <2>7 DEF Inherited
    <2> QED BY <2>1, <2>8
  <1> QED BY <1>1, <1>3, <1>4, <1>5 DEF RegistryInv, NeverWaits

LEMMA AddClientFrame ==
    AddClient => /\ UNCHANGED <<thread, queueVars, mainVars, requestVars, churnVars>>
                 /\ alarmsFile' = alarmsFile
  BY DEF AddClient, Enroll, StopLastClient, BindRegister, AdmitUnregistered, Refuse,
         AddSucceeds, AddFails, clientVars, registryVars

LEMMA RegistryAddClient ==
    ASSUME AlarmInv, AddClient
    PROVE  RegistryInv'
  <1>1. /\ thread' = thread /\ m_queueClients' = m_queueClients /\ waiting' = waiting
        /\ mainPc' = mainPc /\ alarmsFile' = alarmsFile
    BY AddClientFrame DEF queueVars, mainVars
  <1>2. NeverWaits' /\ StaysQueued'
    BY <1>1 DEF AlarmInv, NeverWaits, StaysQueued, InQueue, Queued
  <1>3. RegistryTypeOK /\ RegistersAdmitted
    BY DEF AlarmInv
  <1>4. \A i \in DOMAIN registers : registers[i] \in Registers /\ registers[i].client \in Clients
    BY <1>3, RegisterTypes
  <1>5. serverPc = "adding" => current \in Clients
    BY DEF AlarmInv, TCPInv, TCPTypeOK, AcceptThreadInv
  <1>6. serverPc = "adding" =>
           \A i \in DOMAIN registers : thread[registers[i].client] \notin {"none", "created"}
    BY <1>3 DEF RegistersAdmitted
  <1>7. ASSUME NEW id \in 1 .. Len(registers) + 2, Enroll(id)
        PROVE  RegistryTypeOK' /\ RegistersAdmitted'
    <2> DEFINE r == [id |-> id, client |-> current]
    <2>1. /\ registers \in Seq(Registers) /\ sensorsFile \in Seq(Nat)
          /\ Len(registers) \in Nat /\ id \in Nat
      BY <1>3 DEF RegistryTypeOK
    <2>2. serverPc = "adding" /\ serverPc' = "start" /\ current' = current
      BY <1>7 DEF Enroll, AddSucceeds
    <2>3. r \in Registers /\ r.client = current
      BY <1>5, <2>1, <2>2 DEF Registers
    <2>4. registers' = Append(registers, r) /\ sensorsFile' = Append(sensorsFile, id)
          /\ entry' = entry /\ addPc' = addPc
      BY <1>7 DEF Enroll
    <2> HIDE DEF r
    <2>5. /\ registers' \in Seq(Registers)
          /\ Len(registers') = Len(registers) + 1
          /\ \A i \in 1 .. Len(registers) : registers'[i] = registers[i]
          /\ registers'[Len(registers) + 1] = r
      BY <2>1, <2>3, <2>4, AppendProperties
    <2>6. sensorsFile' \in Seq(Nat)
      BY <2>1, <2>4, AppendProperties
    <2>7. entry' \in 0 .. Len(registers')
      BY <1>3, <2>1, <2>4, <2>5 DEF RegistryTypeOK
    <2>8. RegistryTypeOK'
      BY <1>1, <1>3, <2>4, <2>5, <2>6, <2>7 DEF RegistryTypeOK
    <2>9. ASSUME NEW i \in DOMAIN registers'
          PROVE  \/ thread'[registers'[i].client] \notin {"none", "created"}
                 \/ serverPc' = "start" /\ registers'[i].client = current'
      <3>1. i \in 1 .. Len(registers) \/ i = Len(registers) + 1
        BY <2>1, <2>5
      <3> QED BY <1>1, <1>6, <2>1, <2>2, <2>3, <2>5, <3>1
    <2> QED BY <2>8, <2>9 DEF RegistersAdmitted
  <1>8. ASSUME NEW i \in DOMAIN registers, StopLastClient(i)
        PROVE  RegistryTypeOK' /\ RegistersAdmitted'
    <2>1. i \in 0 .. Len(registers)
      BY <1>3, RegisterTypes
    <2> QED BY <1>1, <1>3, <1>8, <2>1 DEF StopLastClient, RegistryTypeOK,
            RegistersAdmitted, acceptVars
  <1>9. ASSUME BindRegister PROVE RegistryTypeOK' /\ RegistersAdmitted'
    <2>1. serverPc = "adding" /\ serverPc' = "start" /\ current' = current /\ current \in Clients
      BY <1>5, <1>9 DEF BindRegister, AddSucceeds
    <2>2. /\ registers' = [registers EXCEPT ![entry].client = current]
          /\ entry' = 0 /\ addPc' = "handshake" /\ sensorsFile' = sensorsFile
      BY <1>9 DEF BindRegister
    <2>3. registers \in Seq(Registers) /\ Len(registers) \in Nat
      BY <1>3 DEF RegistryTypeOK
    <2>4. ASSUME NEW i \in DOMAIN registers
          PROVE  /\ registers'[i] \in Registers
                 /\ registers'[i].client \in {registers[i].client, current}
      <3>1. registers'[i] = IF i = entry THEN [registers[i] EXCEPT !.client = current]
                                         ELSE registers[i]
        BY <2>2
      <3>2. registers[i] \in [id : Nat, client : Clients]
        BY <1>4 DEF Registers
      <3>3. /\ [registers[i] EXCEPT !.client = current] \in [id : Nat, client : Clients]
            /\ [registers[i] EXCEPT !.client = current].client = current
        BY <2>1, <3>2
      <3> QED BY <3>1, <3>2, <3>3 DEF Registers
    <2>5. DOMAIN registers' = 1 .. Len(registers) /\ DOMAIN registers = 1 .. Len(registers)
      BY <2>2, <2>3
    <2>6. registers' \in [1 .. Len(registers) -> Registers]
      BY <2>2, <2>4, <2>5
    <2>7. registers' \in Seq(Registers) /\ Len(registers') = Len(registers)
      BY <2>3, <2>6
    <2>8. RegistryTypeOK'
      BY <1>1, <1>3, <2>2, <2>3, <2>7 DEF RegistryTypeOK
    <2>9. RegistersAdmitted'
      BY <1>1, <1>6, <2>1, <2>4, <2>5 DEF RegistersAdmitted
    <2> QED BY <2>8, <2>9
  <1>10. ASSUME AdmitUnregistered \/ Refuse PROVE RegistryTypeOK' /\ RegistersAdmitted'
    <2>1. registers' = registers /\ sensorsFile' = sensorsFile /\ entry' = entry
          /\ addPc' = addPc /\ serverPc = "adding"
      BY <1>10 DEF AdmitUnregistered, Refuse, registryVars, AddSucceeds, AddFails
    <2>2. RegistryTypeOK'
      BY <1>1, <1>3, <2>1 DEF RegistryTypeOK
    <2>3. RegistersAdmitted'
      BY <1>1, <1>6, <2>1 DEF RegistersAdmitted
    <2> QED BY <2>2, <2>3
  <1> QED BY <1>2, <1>7, <1>8, <1>9, <1>10 DEF AddClient, RegistryInv

LEMMA RegistryOthers ==
    ASSUME AlarmInv, Request \/ StopRequest \/ JoinRequest \/ UNCHANGED alarmVars
    PROVE  RegistryInv'
  <1>1. /\ UNCHANGED <<thread, queueVars, acceptVars, registryVars>>
        /\ mainPc' \in {mainPc, "closing", "flag"}
    <2>1. CASE Request
      BY <2>1, RequestStepMaps DEF tcpVars, clientVars, mainVars
    <2>2. CASE StopRequest
      BY <2>2 DEF StopRequest, Quit, clientVars
    <2>3. CASE JoinRequest
      BY <2>3 DEF JoinRequest, clientVars
    <2>4. CASE UNCHANGED alarmVars
      BY <2>4 DEF alarmVars, tcpVars, clientVars, mainVars
    <2> QED BY <2>1, <2>2, <2>3, <2>4
  <1>2. RegistryTypeOK'
    BY <1>1 DEF AlarmInv, RegistryTypeOK, registryVars
  <1>3. NeverWaits' /\ StaysQueued' /\ RegistersAdmitted'
    BY <1>1 DEF AlarmInv, NeverWaits, StaysQueued, RegistersAdmitted, InQueue,
       Queued, registryVars, acceptVars, queueVars
  <1> QED BY <1>2, <1>3 DEF RegistryInv

-----------------------------------------------------------------------------
(* The steps of the broadcast itself.                                      *)

BroadcastKept == RequestTypeOK /\ BroadcastInv

\* The first part of the loop: up to the reference into the vector.
LEMMA LoopSteps ==
    ASSUME AlarmInv, RequestLoop \/ NoAlert \/ StartAlert \/ AlertAt
    PROVE  BroadcastKept'
  <1>1. BroadcastKept
    BY DEF AlarmInv, BroadcastKept
  <1>2. /\ m_queueClients' = m_queueClients /\ thread' = thread
        /\ alerted' = alerted /\ target' = target /\ index' = index
        /\ departed' = departed /\ requestStop' = requestStop
    BY DEF RequestLoop, NoAlert, StartAlert, AlertAt, tcpVars, queueVars,
           clientVars, sendVars, churnVars
  <1>3. AheadUnsent' /\ AlertAtMostOnce'
    BY <1>1, <1>2 DEF BroadcastKept, BroadcastInv, AheadUnsent, AlertAtMostOnce, Range, IsInjective
  <1>4. /\ requestPc \in {"loop", "decide", "at"}
        /\ requestPc' \in {"loop", "decide", "exit", "at", "deref"}
        /\ moved' \in {moved, FALSE}
        /\ \/ size' = size
           \/ requestPc = "decide" /\ requestPc' = "at" /\ size' = Len(m_queueClients)
        /\ requestPc' = "deref" => requestPc = "at" /\ index < size
        /\ requestPc' = "at" => requestPc = "decide" /\ size' = Len(m_queueClients)
        /\ requestPc' \in {"loop", "decide", "exit"} => requestPc \in {"loop", "decide", "exit"} /\ size' = size
    BY DEF RequestLoop, NoAlert, StartAlert, AlertAt, sendVars, churnVars
  <1>5. Len(m_queueClients) \in Nat /\ size \in Nat /\ departed \in Nat /\ index \in Nat
    BY BroadcastTypes
  <1>6. RequestTypeOK'
    <2>1. RequestTypeOK /\ (requestPc = "decide" => index = 0)
      BY <1>1 DEF BroadcastKept, BroadcastInv, SizeIsCurrent
    <2>2. index \in 0 .. size
      BY <2>1 DEF RequestTypeOK
    <2>3. size' \in Nat /\ index' \in 0 .. size'
      BY <1>2, <1>4, <1>5, <2>1, <2>2
    <2>4. moved' \in BOOLEAN /\ requestPc' \in RequestPcs
      BY <1>4, <2>1 DEF RequestTypeOK, RequestPcs
    <2> QED BY <1>2, <2>1, <2>3, <2>4 DEF RequestTypeOK
  <1>7. SizeIsCurrent' /\ UndefinedNeedsChurn'
    BY <1>1, <1>2, <1>4, <1>5
    DEF BroadcastKept, BroadcastInv, SizeIsCurrent, UndefinedNeedsChurn, Alerting
  <1> QED BY <1>3, <1>6, <1>7 DEF BroadcastKept, BroadcastInv

LEMMA DerefStep ==
    ASSUME AlarmInv, AlertDeref
    PROVE  BroadcastKept'
  <1>1. /\ requestPc = "deref" /\ requestPc' = "send" /\ index < Len(m_queueClients)
        /\ target' = m_queueClients[index + 1]
        /\ m_queueClients' = m_queueClients /\ thread' = thread
        /\ alerted' = alerted /\ index' = index /\ size' = size
        /\ departed' = departed /\ requestStop' = requestStop /\ moved' = moved
    BY DEF AlertDeref, tcpVars, queueVars, clientVars, churnVars
  <1>2. /\ m_queueClients \in Seq(Clients) /\ Len(m_queueClients) \in Nat
        /\ \A a, b \in 1 .. Len(m_queueClients) : m_queueClients[a] = m_queueClients[b] => a = b
        /\ index \in Nat /\ size \in Nat /\ departed \in Nat
    BY BroadcastTypes, InjectiveSeq
  <1>3. RequestTypeOK /\ AheadUnsent /\ SizeIsCurrent /\ AlertAtMostOnce
    BY DEF AlarmInv, BroadcastInv
  <1>4. PICK i \in 1 .. Len(m_queueClients) : i = index + 1
    BY <1>1, <1>2
  <1>5. target' = m_queueClients[i] /\ target' \in Clients
    BY <1>1, <1>2, <1>4
  <1>6. Queued(m_queueClients[i])
    BY <1>2 DEF Queued, Contains
  <1>7. thread[m_queueClients[i]] \in {"created", "run", "recv", "remove"}
    BY <1>5, <1>6 DEF AlarmInv, TCPInv, QueueInv
  <1>8. RequestTypeOK'
    BY <1>1, <1>3, <1>5 DEF RequestTypeOK, RequestPcs
  <1>9. AheadUnsent'
    <2>1. Range(alerted)' = Range(alerted)
      BY <1>1 DEF Range
    <2>2. target' \notin Range(alerted)
      BY <1>2, <1>3, <1>4, <1>5 DEF AheadUnsent
    <2>3. \A c \in Clients : c \in Range(alerted) \cup {target'} => thread'[c] # "none"
      BY <1>1, <1>3, <1>5, <1>7 DEF AheadUnsent
    <2>4. \A j \in 1 .. Len(m_queueClients) :
             /\ j > index => m_queueClients[j] \notin Range(alerted)
             /\ j > index + 1 => m_queueClients[j] # target'
      BY <1>2, <1>3, <1>4, <1>5 DEF AheadUnsent
    <2> QED BY <1>1, <2>1, <2>2, <2>3, <2>4 DEF AheadUnsent
  <1>10. SizeIsCurrent'
    <2>1. InQueue(target)'
      BY <1>1, <1>5, <1>7 DEF InQueue
    <2>2. target' # NoClient
      BY <1>5, ServerTCPAssumption
    <2> QED BY <1>1, <1>3, <2>1, <2>2 DEF SizeIsCurrent, Alerting
  <1>11. AlertAtMostOnce' /\ UndefinedNeedsChurn'
    BY <1>1, <1>3 DEF AlertAtMostOnce, UndefinedNeedsChurn, IsInjective
  <1> QED BY <1>8, <1>9, <1>10, <1>11 DEF BroadcastKept, BroadcastInv

LEMMA SendStep ==
    ASSUME AlarmInv, AlertSend
    PROVE  BroadcastKept'
  <1>1. /\ requestPc = "send" /\ requestPc' = "at"
        /\ alerted' = Append(alerted, target) /\ target' = NoClient
        /\ index' = index + 1 /\ size' = size
        /\ m_queueClients' = m_queueClients /\ thread' = thread
        /\ departed' = departed /\ requestStop' = requestStop /\ moved' = moved
    BY DEF AlertSend, tcpVars, queueVars, clientVars, churnVars
  <1>2. /\ m_queueClients \in Seq(Clients) /\ Len(m_queueClients) \in Nat
        /\ \A j \in 1 .. Len(m_queueClients) : m_queueClients[j] \in Clients
        /\ alerted \in Seq(Clients) /\ Range(alerted) \subseteq Clients
        /\ index \in Nat /\ size \in Nat /\ departed \in Nat
    BY BroadcastTypes
  <1>3. RequestTypeOK /\ AheadUnsent /\ SizeIsCurrent /\ AlertAtMostOnce
    BY DEF AlarmInv, BroadcastInv
  <1>4. target \in Clients /\ target \notin Range(alerted) /\ index < size
    BY <1>1, <1>3 DEF RequestTypeOK, SizeIsCurrent, AheadUnsent
  <1>5. /\ alerted' \in Seq(Clients)
        /\ Range(alerted') = Range(alerted) \cup {target}
    BY <1>1, <1>2, <1>4, AppendRange
  <1>6. AlertAtMostOnce'
    <2>1. ~ Contains(alerted, target)
      BY <1>2, <1>4, RangeContains
    <2>2. IsInjective(Append(alerted, target))
      BY <1>2, <1>3, <1>4, <2>1, AppendDistinct DEF AlertAtMostOnce
    <2> QED BY <1>1, <2>2 DEF AlertAtMostOnce
  <1>7. RequestTypeOK'
    <2>1. index' \in 0 .. size'
      BY <1>1, <1>2, <1>4
    <2> QED BY <1>1, <1>3, <1>5, <2>1 DEF RequestTypeOK, RequestPcs
  <1>8. AheadUnsent'
    <2>1. \A j \in 1 .. Len(m_queueClients) :
             j > index + 1 => m_queueClients[j] \notin Range(alerted')
      BY <1>2, <1>3, <1>5 DEF AheadUnsent
    <2>2. \A j \in 1 .. Len(m_queueClients) : m_queueClients[j] # NoClient
      BY <1>2, ServerTCPAssumption
    <2>3. NoClient \notin Range(alerted')
      BY <1>2, <1>4, <1>5, ServerTCPAssumption
    <2>4. \A c \in Clients : c \in Range(alerted') \cup {NoClient} => thread[c] # "none"
      BY <1>3, <1>5, ServerTCPAssumption DEF AheadUnsent
    <2>5. Range(alerted)' = Range(alerted')
      BY DEF Range
    <2> QED BY <1>1, <1>2, <2>1, <2>2, <2>3, <2>4, <2>5 DEF AheadUnsent
  <1>9. SizeIsCurrent' /\ UndefinedNeedsChurn'
    BY <1>1, <1>3 DEF SizeIsCurrent, UndefinedNeedsChurn, Alerting
  <1> QED BY <1>6, <1>7, <1>8, <1>9 DEF BroadcastKept, BroadcastInv

\* The two reads that may go wrong: both need a departure, or a push_back
\* since at() gave the reference.
LEMMA UndefinedSteps ==
    ASSUME AlarmInv, DerefUndefined \/ SendUndefined
    PROVE  BroadcastKept'
  <1>1. /\ requestPc \in {"deref", "send"} /\ requestPc' = "undefined"
        /\ m_queueClients' = m_queueClients /\ thread' = thread
        /\ alerted' = alerted /\ target' = target /\ index' = index /\ size' = size
        /\ departed' = departed /\ requestStop' = requestStop /\ moved' = moved
    BY DEF DerefUndefined, SendUndefined, tcpVars, queueVars, clientVars, sendVars, churnVars
  <1>2. RequestTypeOK /\ AheadUnsent /\ SizeIsCurrent /\ AlertAtMostOnce
    BY DEF AlarmInv, BroadcastInv
  <1>3. moved \/ departed > 0
    <2>1. CASE DerefUndefined
      BY <1>2, <2>1, BroadcastTypes DEF DerefUndefined, SizeIsCurrent, Alerting
    <2>2. CASE SendUndefined
      BY <1>2, <2>2 DEF SendUndefined, SizeIsCurrent, InQueue
    <2> QED BY <2>1, <2>2
  <1>4. RequestTypeOK' /\ AlertAtMostOnce' /\ UndefinedNeedsChurn'
    BY <1>1, <1>2, <1>3 DEF RequestTypeOK, RequestPcs, AlertAtMostOnce, IsInjective, UndefinedNeedsChurn
  <1>5. AheadUnsent' /\ SizeIsCurrent'
    BY <1>1, <1>2 DEF AheadUnsent, SizeIsCurrent, Alerting, Range
  <1> QED BY <1>4, <1>5 DEF BroadcastKept, BroadcastInv

LEMMA EndAlertStep ==
    ASSUME AlarmInv, EndAlert
    PROVE  BroadcastKept'
  <1>1. /\ requestPc = "at" /\ requestPc' = "loop"
        /\ m_queueClients' = m_queueClients /\ thread' = thread
        /\ alerted' = <<>> /\ target' = target /\ index' = 0 /\ size' = 0
        /\ departed' = 0 /\ requestStop' = requestStop /\ moved' = moved
    BY DEF EndAlert, tcpVars, queueVars, clientVars
  <1>2. RequestTypeOK /\ SizeIsCurrent /\ target = NoClient
    BY <1>1 DEF AlarmInv, BroadcastInv, SizeIsCurrent
  <1>3. /\ Range(alerted') = {} /\ Range(alerted)' = {}
        /\ IsInjective(alerted') /\ alerted' \in Seq(Clients)
    BY <1>1, EmptySeq DEF Range, IsInjective
  <1>4. \A j \in 1 .. Len(m_queueClients) : m_queueClients[j] # NoClient
    BY BroadcastTypes, ServerTCPAssumption
  <1>5. AheadUnsent'
    BY <1>1, <1>2, <1>3, <1>4, ServerTCPAssumption DEF AheadUnsent
  <1>6. RequestTypeOK' /\ SizeIsCurrent' /\ AlertAtMostOnce' /\ UndefinedNeedsChurn'
    BY <1>1, <1>2, <1>3 DEF RequestTypeOK, RequestPcs, SizeIsCurrent, Alerting,
       AlertAtMostOnce, UndefinedNeedsChurn
  <1> QED BY <1>5, <1>6 DEF BroadcastKept, BroadcastInv

LEMMA BroadcastOthers ==
    ASSUME AlarmInv, AddClient \/ StopRequest \/ JoinRequest \/ UNCHANGED alarmVars
    PROVE  BroadcastKept'
  <1>1. /\ m_queueClients' = m_queueClients /\ thread' = thread
        /\ requestPc' = requestPc /\ requestStop' \in {requestStop, TRUE}
        /\ alerted' = alerted /\ target' = target /\ index' = index /\ size' = size
        /\ departed' = departed /\ moved' = moved
    BY AddClientFrame DEF StopRequest, Quit, JoinRequest, alarmVars, tcpVars, queueVars,
       clientVars, requestVars, sendVars, churnVars
  <1>2. RequestTypeOK /\ AheadUnsent /\ SizeIsCurrent /\ AlertAtMostOnce /\ UndefinedNeedsChurn
    BY DEF AlarmInv, BroadcastInv
  <1>3. RequestTypeOK' /\ AlertAtMostOnce' /\ UndefinedNeedsChurn'
    BY <1>1, <1>2 DEF RequestTypeOK, RequestPcs, AlertAtMostOnce, IsInjective, UndefinedNeedsChurn
  <1>4. AheadUnsent' /\ SizeIsCurrent'
    BY <1>1, <1>2 DEF AheadUnsent, SizeIsCurrent, Alerting, Range, InQueue
  <1> QED BY <1>3, <1>4 DEF BroadcastKept, BroadcastInv

-----------------------------------------------------------------------------
LEMMA AlarmInvStep == AlarmInv /\ [AlarmNext]_alarmVars => AlarmInv'
  <1> SUFFICES ASSUME AlarmInv, [AlarmNext]_alarmVars PROVE AlarmInv'
    OBVIOUS
  <1>1. TCPInv'
    BY AlarmKeepsTCPInv
  <1>2. RegistryInv'
    BY RegistryInherited, RegistryAddClient, RegistryOthers DEF AlarmNext
  <1>3. BroadcastKept'
    <2>1. CASE Inherited
      <3>1. AlertAtMostOnce'
        BY <2>1 DEF AlarmInv, BroadcastInv, AlertAtMostOnce, IsInjective, Inherited,
           requestVars, sendVars
      <3> QED BY <2>1, <3>1, AheadUnsentChurn, SizeIsCurrentChurn DEF BroadcastKept, BroadcastInv
    <2>2. CASE Request
      BY <2>2, LoopSteps, DerefStep, SendStep, UndefinedSteps, EndAlertStep DEF Request
    <2> QED BY <2>1, <2>2, BroadcastOthers DEF AlarmNext
  <1> QED BY <1>1, <1>2, <1>3 DEF AlarmInv, RegistryInv, BroadcastKept

\* The invariant holds in every reachable state of the alarm server, however
\* many connections there are.
THEOREM AlarmInvariant == AlarmSpec => []AlarmInv
  BY AlarmInitInv, AlarmInvStep, PTL DEF AlarmSpec

\* Every variable keeps its type.
THEOREM AlarmTypeCorrect == AlarmSpec => []AlarmTypeOK
  <1>1. AlarmInv => AlarmTypeOK
    BY DEF AlarmInv, TCPInv, AlarmTypeOK
  <1> QED BY <1>1, AlarmInvariant, PTL

\* A broadcast reaches no connection twice (RequestAlarm.cpp:62).
THEOREM BroadcastsReachOnce == AlarmSpec => []AlertAtMostOnce
  <1>1. AlarmInv => AlertAtMostOnce
    BY DEF AlarmInv, BroadcastInv
  <1> QED BY <1>1, AlarmInvariant, PTL

\* Without churn the unlocked reads of a broadcast are safe
\* (RequestAlarm.cpp:57-62).
THEOREM QuietBroadcastsDefined == AlarmSpec => []UndefinedNeedsChurn
  <1>1. AlarmInv => UndefinedNeedsChurn
    BY DEF AlarmInv, BroadcastInv
  <1> QED BY <1>1, AlarmInvariant, PTL

\* No thread of the alarm server blocks in the queue (Queue.h:92).
THEOREM AlarmNeverWaits == AlarmSpec => []NeverWaits
  <1>1. AlarmInv => NeverWaits
    BY DEF AlarmInv
  <1> QED BY <1>1, AlarmInvariant, PTL

\* The accept thread of the alarm server returns only when every connection
\* has left the queue by itself (ServerTCP.cpp:35, ServerAlarm.cpp:26-34).
THEOREM AlarmServerEndsLast == AlarmSpec => []NobodyLeftAtExit
  <1>1. AlarmInv => NobodyLeftAtExit
    <2> SUFFICES ASSUME AlarmInv, serverPc = "exit" PROVE NobodyLeftAtExit
      BY DEF NobodyLeftAtExit
    <2>1. mainPc \in {"join", "done"} /\ m_queueClients = <<>> /\ thread \in [Clients -> ThreadPcs]
      BY DEF AlarmInv, TCPInv, TCPTypeOK, ServerExitsLast
    <2>2. \A c \in Clients : ~ Queued(c)
      BY <2>1 DEF Queued, Contains
    <2>3. \A c \in Clients : ~ InQueue(c)
      BY <2>2 DEF AlarmInv, StaysQueued
    <2> QED BY <2>1, <2>3 DEF NobodyLeftAtExit, InQueue, ThreadPcs
  <1> QED BY <1>1, AlarmInvariant, PTL

-----------------------------------------------------------------------------
(* Whom a broadcast misses. *)

\* The first n positions without a connection of A, in the queue or past its end.
Passed(q, n, A) == {j \in 1 .. n : j > Len(q) \/ q[j] \notin A}

LEMMA PassedFinite ==
    ASSUME NEW q, NEW n \in Nat, NEW A
    PROVE  /\ IsFiniteSet(Passed(q, n, A))
           /\ Cardinality(Passed(q, n, A)) \in Nat
  <1>1. IsFiniteSet(1 .. n)
    BY FS_Interval
  <1>2. Passed(q, n, A) \in SUBSET (1 .. n)
    BY DEF Passed
  <1>3. IsFiniteSet(Passed(q, n, A))
    BY <1>1, <1>2, FS_Subset
  <1> QED BY <1>3, FS_CardinalityType

LEMMA PassedSubset ==
    ASSUME NEW q, NEW n \in Nat, NEW A, NEW T \in SUBSET Passed(q, n, A)
    PROVE  Cardinality(T) <= Cardinality(Passed(q, n, A))
  BY PassedFinite, FS_Subset

\* A connection that comes fills a position that was past the end.
LEMMA PassedAppend ==
    ASSUME NEW q \in Seq(Clients), NEW n \in Nat, NEW A, NEW c \in Clients
    PROVE  Passed(Append(q, c), n, A) \subseteq Passed(q, n, A)
  <1>1. /\ Len(q) \in Nat
        /\ Len(Append(q, c)) = Len(q) + 1
        /\ \A i \in 1 .. Len(q) : Append(q, c)[i] = q[i]
    BY AppendProperties
  <1> QED BY <1>1 DEF Passed

\* One that leaves moves what follows it one position forward.
LEMMA PassedRemove ==
    ASSUME NEW q \in Seq(Clients), NEW n \in Nat, NEW A, NEW k \in 1 .. Len(q)
    PROVE  Cardinality(Passed(RemoveAt(q, k), n, A)) <= Cardinality(Passed(q, n, A)) + 1
  <1> DEFINE r == RemoveAt(q, k)
             S == Passed(r, n, A)
             T == Passed(q, n, A) \cup {n + 1}
             f == [j \in S |-> IF j < k THEN j ELSE j + 1]
  <1>1. /\ Len(q) \in Nat /\ k \in Nat
        /\ Len(r) = Len(q) - 1
        /\ \A i \in 1 .. Len(q) - 1 : r[i] = IF i < k THEN q[i] ELSE q[i + 1]
    BY RemoveAtIndices
  <1> HIDE DEF r
  <1>2. ASSUME NEW j \in S PROVE f[j] \in T
    <2>1. j \in 1 .. n /\ (j > Len(q) - 1 \/ r[j] \notin A)
      BY <1>1 DEF Passed
    <2>2. CASE j < k
      <3>1. j \in 1 .. Len(q) - 1
        BY <1>1, <2>1, <2>2
      <3>2. j \in 1 .. n /\ q[j] \notin A
        BY <1>1, <2>1, <2>2, <3>1
      <3> QED BY <2>2, <3>2 DEF Passed
    <2>3. CASE j >= k
      <3>1. j + 1 > Len(q) \/ q[j + 1] \notin A
        <4>1. CASE j > Len(q) - 1
          BY <1>1, <2>1, <4>1
        <4>2. CASE j \in 1 .. Len(q) - 1
          BY <1>1, <2>1, <2>3, <4>2
        <4> QED BY <1>1, <2>1, <4>1, <4>2
      <3>2. j + 1 \in 1 .. n \/ j + 1 = n + 1
        BY <2>1
      <3>3. j + 1 \in T
        BY <3>1, <3>2 DEF Passed
      <3>4. f[j] = j + 1
        BY <1>1, <2>1, <2>3
      <3> QED BY <3>3, <3>4
    <2> QED BY <1>1, <2>1, <2>2, <2>3
  <1>3. \A i, j \in S : f[i] = f[j] => i = j
    BY <1>1 DEF Passed
  <1>4. f \in Injection(S, T)
    <2>1. f \in [S -> T]
      BY <1>2
    <2> HIDE DEF f, S, T
    <2> QED BY <1>3, <2>1 DEF Injection, IsInjective
  <1>5. /\ IsFiniteSet(Passed(q, n, A))
        /\ Cardinality(Passed(q, n, A)) \in Nat
    BY PassedFinite
  <1>6. IsFiniteSet(T) /\ Cardinality(T) <= Cardinality(Passed(q, n, A)) + 1
    <2> DEFINE P == Passed(q, n, A)
    <2>1. IsFiniteSet(P) /\ Cardinality(P) \in Nat
      BY <1>5
    <2> HIDE DEF P
    <2>2. /\ IsFiniteSet(P \cup {n + 1})
          /\ Cardinality(P \cup {n + 1}) = IF n + 1 \in P THEN Cardinality(P) ELSE Cardinality(P) + 1
      BY <2>1, FS_AddElement
    <2>3. Cardinality(P \cup {n + 1}) <= Cardinality(P) + 1
      BY <2>1, <2>2
    <2> QED BY <2>2, <2>3 DEF P
  <1>7. Cardinality(S) <= Cardinality(T) /\ Cardinality(S) \in Nat /\ Cardinality(T) \in Nat
    BY <1>4, <1>6, FS_Injection, FS_CardinalityType, PassedFinite
  <1>8. Cardinality(S) <= Cardinality(Passed(q, n, A)) + 1
    BY <1>5, <1>6, <1>7
  <1> QED BY <1>8 DEF r

\* The positions the loop has passed or is sending to, and whom it reached.
LoopEnd == IF requestPc = "send" THEN index + 1 ELSE index
Reached == IF requestPc = "send" THEN Range(alerted) \cup {target} ELSE Range(alerted)

MissedInv == Alerting => Cardinality(Passed(m_queueClients, LoopEnd, Reached)) <= departed

LEMMA MissedInit == AlarmInit => MissedInv
  BY DEF AlarmInit, MissedInv, Alerting

LEMMA MissedChurn ==
    ASSUME AlarmInv, MissedInv, Inherited
    PROVE  MissedInv'
  <1> SUFFICES ASSUME Alerting' PROVE Cardinality(Passed(m_queueClients, LoopEnd, Reached))' <= departed'
    BY DEF MissedInv
  <1> DEFINE q == m_queueClients
             before == Cardinality(Passed(q, LoopEnd, Reached))
             after == Cardinality(Passed(q', LoopEnd, Reached))
  <1>1. QueueStep /\ Churn
    BY InheritedQueue DEF Inherited
  <1>2. /\ alerted' = alerted /\ target' = target /\ index' = index
        /\ requestPc' = requestPc
    BY DEF Inherited, requestVars, sendVars
  <1>3. Alerting /\ LoopEnd' = LoopEnd /\ Reached' = Reached
    BY <1>2 DEF Alerting, LoopEnd, Reached, Range
  <1>4. /\ q \in Seq(Clients) /\ Len(q) \in Nat
        /\ departed \in Nat /\ LoopEnd \in Nat
    BY BroadcastTypes DEF LoopEnd
  <1>5. before \in Nat /\ before <= departed
    BY <1>3, <1>4, PassedFinite DEF MissedInv
  <1>6. Cardinality(Passed(m_queueClients, LoopEnd, Reached))' = after
    BY <1>3 DEF Passed
  <1>7. CASE QueueUnmoved
    <2>1. after = before /\ departed' = departed
      BY <1>1, <1>4, <1>7 DEF QueueUnmoved, Churn
    <2> QED BY <1>5, <1>6, <2>1
  <1>8. ASSUME NEW c \in Clients, QueueGrew(c) PROVE after <= departed'
    <2>1. q' = Append(q, c) /\ Len(q') = Len(q) + 1
      BY <1>4, <1>8, AppendProperties DEF QueueGrew
    <2>2. departed' = departed
      BY <1>1, <1>4, <2>1 DEF Churn
    <2>3. Passed(q', LoopEnd, Reached) \in SUBSET Passed(q, LoopEnd, Reached)
      BY <1>4, <2>1, PassedAppend
    <2>4. after <= before /\ after \in Nat
      BY <1>4, <2>3, PassedSubset, PassedFinite
    <2> QED BY <1>4, <1>5, <2>2, <2>4
  <1>9. ASSUME NEW k \in 1 .. Len(q), QueueShrank(k) PROVE after <= departed'
    <2>1. q' = RemoveAt(q, k) /\ Len(q') = Len(q) - 1
      BY <1>4, <1>9, RemoveAtIndices DEF QueueShrank
    <2>2. departed' = departed + 1
      BY <1>1, <1>3, <1>4, <2>1 DEF Churn
    <2>3. after <= before + 1 /\ after \in Nat
      BY <1>4, <2>1, PassedRemove, PassedFinite
    <2> QED BY <1>4, <1>5, <2>2, <2>3
  <1> QED BY <1>1, <1>6, <1>7, <1>8, <1>9 DEF QueueStep

LEMMA MissedStart ==
    ASSUME AlarmInv, StartAlert
    PROVE  MissedInv'
  <1>1. requestPc = "decide" /\ requestPc' = "at" /\ index' = index /\ departed' = departed
    BY DEF StartAlert, churnVars
  <1>2. index = 0 /\ departed = 0
    BY <1>1 DEF AlarmInv, BroadcastInv, SizeIsCurrent
  <1>3. LoopEnd' = 0
    BY <1>1, <1>2 DEF LoopEnd
  <1>4. Passed(m_queueClients, LoopEnd, Reached)' = {}
    BY <1>3 DEF Passed
  <1> QED BY <1>1, <1>2, <1>4, FS_EmptySet DEF MissedInv

\* The connection that is sent to is the one of the next position.
LEMMA MissedDeref ==
    ASSUME AlarmInv, MissedInv, AlertDeref
    PROVE  MissedInv'
  <1> DEFINE q == m_queueClients
  <1>1. /\ requestPc = "deref" /\ requestPc' = "send" /\ index < Len(q)
        /\ target' = q[index + 1]
        /\ q' = q /\ alerted' = alerted /\ index' = index /\ departed' = departed
    BY DEF AlertDeref, tcpVars, queueVars, churnVars
  <1>2. index \in Nat /\ Len(q) \in Nat /\ departed \in Nat
    BY BroadcastTypes
  <1>3. LoopEnd = index /\ Reached = Range(alerted)
        /\ LoopEnd' = index + 1 /\ Reached' = Range(alerted) \cup {target'}
    BY <1>1 DEF LoopEnd, Reached, Range
  <1>4. Passed(q, index + 1, Range(alerted) \cup {target'}) \in SUBSET Passed(q, index, Range(alerted))
    BY <1>1, <1>2 DEF Passed
  <1>5. Cardinality(Passed(q, index + 1, Range(alerted) \cup {target'})) <= Cardinality(Passed(q, index, Range(alerted)))
    BY <1>2, <1>4, PassedSubset
  <1>6. /\ Cardinality(Passed(q, index + 1, Range(alerted) \cup {target'})) \in Nat
        /\ Cardinality(Passed(q, index, Range(alerted))) \in Nat
    BY <1>2, PassedFinite
  <1>7. Cardinality(Passed(q, index, Range(alerted))) <= departed
    BY <1>1, <1>3 DEF MissedInv, Alerting
  <1>8. Passed(m_queueClients, LoopEnd, Reached)' = Passed(q, index + 1, Range(alerted) \cup {target'})
    BY <1>1, <1>3 DEF Passed
  <1> QED BY <1>1, <1>2, <1>5, <1>6, <1>7, <1>8 DEF MissedInv

LEMMA MissedSend ==
    ASSUME AlarmInv, MissedInv, AlertSend
    PROVE  MissedInv'
  <1>1. /\ requestPc = "send" /\ requestPc' = "at" /\ m_queueClients' = m_queueClients
        /\ alerted' = Append(alerted, target) /\ index' = index + 1 /\ departed' = departed
    BY DEF AlertSend, tcpVars, queueVars, churnVars
  <1>2. target \in Clients /\ alerted \in Seq(Clients)
    BY <1>1, BroadcastTypes DEF AlarmInv, BroadcastInv, SizeIsCurrent
  <1>3. Range(alerted') = Range(alerted) \cup {target}
    BY <1>1, <1>2, AppendRange
  <1>4. LoopEnd' = LoopEnd /\ Reached' = Reached
    BY <1>1, <1>3 DEF LoopEnd, Reached, Range
  <1>5. Passed(m_queueClients, LoopEnd, Reached)' = Passed(m_queueClients, LoopEnd, Reached)
    BY <1>1, <1>4 DEF Passed
  <1> QED BY <1>1, <1>5 DEF MissedInv, Alerting

\* The other steps leave the queue and the loop where they are, or end the loop.
LEMMA MissedOthers ==
    ASSUME MissedInv,
           \/ RequestLoop \/ NoAlert \/ AlertAt \/ DerefUndefined \/ SendUndefined \/ EndAlert
           \/ AddClient \/ StopRequest \/ JoinRequest \/ UNCHANGED alarmVars
    PROVE  MissedInv'
  <1>1. \/ ~Alerting'
        \/ /\ m_queueClients' = m_queueClients /\ alerted' = alerted /\ target' = target
           /\ index' = index /\ departed' = departed
           /\ requestPc' = requestPc \/ (requestPc = "at" /\ requestPc' = "deref")
    BY AddClientFrame DEF RequestLoop, NoAlert, AlertAt, DerefUndefined, SendUndefined, EndAlert,
       StopRequest, Quit, JoinRequest, alarmVars, tcpVars, queueVars, requestVars, sendVars,
       churnVars, Alerting
  <1>2. CASE ~Alerting'
    BY <1>2 DEF MissedInv
  <1>3. CASE /\ Alerting'
             /\ m_queueClients' = m_queueClients /\ alerted' = alerted /\ target' = target
             /\ index' = index /\ departed' = departed
             /\ requestPc' = requestPc \/ (requestPc = "at" /\ requestPc' = "deref")
    <2>1. Alerting /\ LoopEnd' = LoopEnd /\ Reached' = Reached
      BY <1>3 DEF Alerting, LoopEnd, Reached, Range
    <2>2. Passed(m_queueClients, LoopEnd, Reached)' = Passed(m_queueClients, LoopEnd, Reached)
      BY <1>3, <2>1 DEF Passed
    <2> QED BY <1>3, <2>1, <2>2 DEF MissedInv
  <1> QED BY <1>1, <1>2, <1>3

LEMMA MissedInvariant == AlarmSpec => [](AlarmInv /\ MissedInv)
  <1>1. AlarmInv /\ MissedInv /\ [AlarmNext]_alarmVars => MissedInv'
    BY MissedChurn, MissedStart, MissedDeref, MissedSend, MissedOthers DEF AlarmNext, Request
  <1> QED BY <1>1, MissedInit, AlarmInvariant, PTL DEF AlarmSpec

\* However connections come and go, a broadcast passes over at most as many
\* connections as left while it ran (RequestAlarm.cpp:57-62).
THEOREM MissedAreDepartures == AlarmSpec => []MissedAtMostDepartures
  <1>1. AlarmInv /\ MissedInv => MissedAtMostDepartures
    <2> SUFFICES ASSUME AlarmInv, MissedInv, requestPc = "at" PROVE MissedAtMostDepartures
      BY DEF MissedAtMostDepartures
    <2> DEFINE missed == {j \in DOMAIN m_queueClients :
                             j <= index /\ m_queueClients[j] \notin Range(alerted)}
    <2>1. /\ index \in Nat /\ departed \in Nat
          /\ DOMAIN m_queueClients = 1 .. Len(m_queueClients)
      BY BroadcastTypes
    <2>2. LoopEnd = index /\ Reached = Range(alerted)
      BY DEF LoopEnd, Reached
    <2>3. missed \in SUBSET Passed(m_queueClients, index, Range(alerted))
      BY <2>1 DEF Passed
    <2>4. /\ Cardinality(missed) <= Cardinality(Passed(m_queueClients, index, Range(alerted)))
          /\ Cardinality(missed) \in Nat
          /\ Cardinality(Passed(m_queueClients, index, Range(alerted))) \in Nat
      BY <2>1, <2>3, PassedSubset, PassedFinite, FS_Subset, FS_CardinalityType
    <2>5. Cardinality(Passed(m_queueClients, index, Range(alerted))) <= departed
      BY <2>2 DEF MissedInv, Alerting
    <2> QED BY <2>1, <2>4, <2>5 DEF MissedAtMostDepartures
  <1> QED BY <1>1, MissedInvariant, PTL

\* A broadcast that is complete: everybody in the positions it walked has it.
ReachedAll ==
    requestPc = "at" /\ index = size /\ departed = 0 =>
        /\ size <= Len(m_queueClients)
        /\ \A j \in 1 .. size : m_queueClients[j] \in Range(alerted)

\* If nobody leaves while sendAlert runs, the alert has gone to all of the
\* connections that size() counted when the loop ends, whoever else comes:
\* add() appends, so the loop needs no lock against arrivals
\* (RequestAlarm.cpp:57-62).
THEOREM QuietBroadcastsReachAll == AlarmSpec => []ReachedAll
  <1>1. AlarmInv /\ MissedInv => ReachedAll
    <2> SUFFICES ASSUME AlarmInv, MissedInv, requestPc = "at", index = size, departed = 0
                 PROVE  /\ size <= Len(m_queueClients)
                        /\ \A j \in 1 .. size : m_queueClients[j] \in Range(alerted)
      BY DEF ReachedAll
    <2> DEFINE passed == Passed(m_queueClients, size, Range(alerted))
    <2>1. size \in Nat /\ Len(m_queueClients) \in Nat
      BY BroadcastTypes
    <2>2. LoopEnd = size /\ Reached = Range(alerted)
      BY DEF LoopEnd, Reached
    <2>3. Cardinality(passed) <= 0
      BY <2>2 DEF MissedInv, Alerting
    <2>4. IsFiniteSet(passed) /\ Cardinality(passed) \in Nat
      BY <2>1, PassedFinite
    <2>5. passed = {}
      <3> HIDE DEF passed
      <3>1. Cardinality(passed) = 0
        BY <2>3, <2>4
      <3> QED BY <2>4, <3>1, FS_EmptySet
    <2>6. \A j \in 1 .. size : j <= Len(m_queueClients) /\ m_queueClients[j] \in Range(alerted)
      BY <2>1, <2>5 DEF Passed
    <2>7. size <= Len(m_queueClients)
      BY <2>1, <2>6
    <2> QED BY <2>6, <2>7
  <1> QED BY <1>1, MissedInvariant, PTL
=============================================================================
