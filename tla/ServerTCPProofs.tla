-------------------------- MODULE ServerTCPProofs --------------------------
(***************************************************************************)
(* The safety properties of ServerTCP, for any set of connections.  First  *)
(* what the methods of Queue do to a queue in which no item occurs twice.  *)
(* TCPInv is inductive; its parts are proved together, one step for each   *)
(* action, and the properties the runs check follow.                       *)
(***************************************************************************)
EXTENDS ServerTCP, SequenceTheorems, TLAPS

-----------------------------------------------------------------------------
(* The queue. *)

\* A sequence is injective if no item is in it twice.
LEMMA InjectiveSeq ==
    ASSUME NEW S, NEW q \in Seq(S)
    PROVE  IsInjective(q) <=> \A a, b \in 1 .. Len(q) : q[a] = q[b] => a = b
  BY DEF IsInjective

\* Appending a new item keeps the items distinct: the indices ...
LEMMA AppendIndices ==
    ASSUME NEW S, NEW q \in Seq(S), NEW x \in S,
           \A a, b \in 1 .. Len(q) : q[a] = q[b] => a = b,
           \A i \in 1 .. Len(q) : q[i] # x
    PROVE  \A a, b \in 1 .. Len(Append(q, x)) : Append(q, x)[a] = Append(q, x)[b] => a = b
    BY AppendProperties

\* ... and the statement about the sequences (Queue::add).
LEMMA AppendDistinct ==
    ASSUME NEW S, NEW q \in Seq(S), NEW x \in S, IsInjective(q), ~ Contains(q, x)
    PROVE  IsInjective(Append(q, x))
  <1>1. \A i \in 1 .. Len(q) : q[i] # x
    BY DEF Contains
  <1>2. \A a, b \in 1 .. Len(q) : q[a] = q[b] => a = b
    BY InjectiveSeq
  <1>3. \A a, b \in 1 .. Len(Append(q, x)) : Append(q, x)[a] = Append(q, x)[b] => a = b
    BY <1>1, <1>2, AppendIndices
  <1>4. Append(q, x) \in Seq(S)
    OBVIOUS
  <1>5. QED BY <1>3, <1>4, InjectiveSeq

\* What pop_back leaves.
LEMMA FrontIndices ==
    ASSUME NEW S, NEW q \in Seq(S), q # <<>>
    PROVE  /\ Front(q) \in Seq(S)
           /\ Last(q) \in S
           /\ Len(Front(q)) = Len(q) - 1
           /\ \A i \in 1 .. Len(q) - 1 : Front(q)[i] = q[i]
  <1>1. PICK n \in Nat \ {0} : n = Len(q)
    BY EmptySeq, LenProperties
  <1>2. \A i \in 1 .. n : q[i] \in S
    BY <1>1
  <1>3. \A i \in 1 .. n - 1 : q[i] \in S
    BY <1>2
  <1>4. /\ SubSeq(q, 1, n - 1) \in Seq(S)
        /\ Len(SubSeq(q, 1, n - 1)) = IF 1 <= n - 1 THEN n - 1 - 1 + 1 ELSE 0
        /\ \A i \in 1 .. n - 1 - 1 + 1 : SubSeq(q, 1, n - 1)[i] = q[1 + i - 1]
    BY <1>3, SubSeqProperties
  <1>5. (IF 1 <= n - 1 THEN n - 1 - 1 + 1 ELSE 0) = n - 1
    OBVIOUS
  <1>6. \A i \in 1 .. n - 1 : SubSeq(q, 1, n - 1)[i] = q[i]
    BY <1>4
  <1>7. Front(q) = SubSeq(q, 1, n - 1) /\ Last(q) = q[n]
    BY <1>1 DEF Front, Last
  <1> QED BY <1>1, <1>2, <1>4, <1>5, <1>6, <1>7

\* What erase leaves.
LEMMA RemoveAtIndices ==
    ASSUME NEW S, NEW q \in Seq(S), NEW k \in 1 .. Len(q)
    PROVE  /\ RemoveAt(q, k) \in Seq(S)
           /\ Len(RemoveAt(q, k)) = Len(q) - 1
           /\ \A i \in 1 .. Len(q) - 1 : RemoveAt(q, k)[i] = IF i < k THEN q[i] ELSE q[i + 1]
  <1> DEFINE s1 == SubSeq(q, 1, k - 1)
             s2 == SubSeq(q, k + 1, Len(q))
  <1>1. Len(q) \in Nat /\ \A i \in 1 .. Len(q) : q[i] \in S
    OBVIOUS
  <1>2. /\ s1 \in Seq(S)
        /\ Len(s1) = k - 1
        /\ \A i \in 1 .. k - 1 : s1[i] = q[i]
    BY <1>1, SubSeqProperties
  <1>3. /\ s2 \in Seq(S)
        /\ Len(s2) = Len(q) - k
        /\ \A i \in 1 .. Len(q) - k : s2[i] = q[k + i]
    <2>1. \A i \in k + 1 .. Len(q) : q[i] \in S
      BY <1>1
    <2>2. /\ s2 \in Seq(S)
          /\ Len(s2) = IF k + 1 <= Len(q) THEN Len(q) - (k + 1) + 1 ELSE 0
          /\ \A i \in 1 .. Len(q) - (k + 1) + 1 : s2[i] = q[(k + 1) + i - 1]
      BY <1>1, <2>1, SubSeqProperties
    <2> QED BY <1>1, <2>2
  <1>4. /\ s1 \o s2 \in Seq(S)
        /\ Len(s1 \o s2) = Len(s1) + Len(s2)
        /\ \A i \in 1 .. Len(s1) + Len(s2) :
              (s1 \o s2)[i] = IF i <= Len(s1) THEN s1[i] ELSE s2[i - Len(s1)]
    BY <1>2, <1>3, ConcatProperties
  <1>5. RemoveAt(q, k) = s1 \o s2
    BY DEF RemoveAt
  <1> HIDE DEF s1, s2
  <1>6. Len(s1 \o s2) = Len(q) - 1
    BY <1>1, <1>2, <1>3, <1>4
  <1>7. ASSUME NEW i \in 1 .. Len(q) - 1
        PROVE  (s1 \o s2)[i] = IF i < k THEN q[i] ELSE q[i + 1]
    <2>1. i \in 1 .. Len(s1) + Len(s2)
      BY <1>1, <1>2, <1>3
    <2>2. CASE i < k
      BY <1>1, <1>2, <1>4, <2>1, <2>2
    <2>3. CASE ~ (i < k)
      <3>1. (s1 \o s2)[i] = s2[i - (k - 1)]
        BY <1>1, <1>2, <1>4, <2>1, <2>3
      <3>2. i - (k - 1) \in 1 .. Len(q) - k
        BY <1>1, <2>3
      <3>3. s2[i - (k - 1)] = q[k + (i - (k - 1))]
        BY <1>3, <3>2
      <3> QED BY <2>3, <3>1, <3>3
    <2> QED BY <2>2, <2>3
  <1> QED BY <1>4, <1>5, <1>6, <1>7

-----------------------------------------------------------------------------
\* Queue::add: the items are the old ones and the new one.
LEMMA AppendContains ==
    ASSUME NEW S, NEW q \in Seq(S), NEW x \in S
    PROVE  /\ Append(q, x) \in Seq(S)
           /\ \A y : Contains(Append(q, x), y) <=> Contains(q, y) \/ y = x
  <1>1. /\ Append(q, x) \in Seq(S)
        /\ Len(Append(q, x)) = Len(q) + 1
        /\ \A i \in 1 .. Len(q) : Append(q, x)[i] = q[i]
        /\ Append(q, x)[Len(q) + 1] = x
        /\ Len(q) \in Nat
    BY AppendProperties
  <1> QED BY <1>1 DEF Contains

\* Queue::remove(): all items but the one it returns stay, in their order.
LEMMA FrontContains ==
    ASSUME NEW S, NEW q \in Seq(S), q # <<>>, IsInjective(q)
    PROVE  /\ Front(q) \in Seq(S)
           /\ Last(q) \in S
           /\ Contains(q, Last(q))
           /\ IsInjective(Front(q))
           /\ \A y : Contains(Front(q), y) <=> Contains(q, y) /\ y # Last(q)
  <1>1. PICK n \in Nat \ {0} : n = Len(q)
    BY EmptySeq, LenProperties
  <1>2. /\ Front(q) \in Seq(S)
        /\ Last(q) \in S
        /\ Len(Front(q)) = n - 1
        /\ \A i \in 1 .. n - 1 : Front(q)[i] = q[i]
    BY <1>1, FrontIndices
  <1>3. Last(q) = q[n]
    BY <1>1 DEF Last
  <1>4. \A a, b \in 1 .. n : q[a] = q[b] => a = b
    BY <1>1, InjectiveSeq
  <1>5. \A a, b \in 1 .. n - 1 : Front(q)[a] = Front(q)[b] => a = b
    BY <1>2, <1>4
  <1>6. IsInjective(Front(q))
    BY <1>2, <1>5, InjectiveSeq
  <1>7. Contains(q, Last(q))
    BY <1>1, <1>3 DEF Contains
  <1>8. \A y : (\E i \in 1 .. n - 1 : Front(q)[i] = y) <=> (\E i \in 1 .. n : q[i] = y) /\ y # q[n]
    BY <1>2, <1>4
  <1>9. \A y : Contains(Front(q), y) <=> Contains(q, y) /\ y # Last(q)
    BY <1>1, <1>2, <1>3, <1>8 DEF Contains
  <1> QED BY <1>2, <1>6, <1>7, <1>9

\* Queue::remove(item): all items but that one stay, in their order.
LEMMA RemoveAtContains ==
    ASSUME NEW S, NEW q \in Seq(S), NEW k \in 1 .. Len(q), IsInjective(q)
    PROVE  /\ RemoveAt(q, k) \in Seq(S)
           /\ IsInjective(RemoveAt(q, k))
           /\ \A y : Contains(RemoveAt(q, k), y) <=> Contains(q, y) /\ y # q[k]
  <1>1. PICK n \in Nat : n = Len(q)
    BY LenProperties
  <1> DEFINE r == RemoveAt(q, k)
  <1>2. /\ r \in Seq(S)
        /\ Len(r) = n - 1
        /\ \A i \in 1 .. n - 1 : r[i] = IF i < k THEN q[i] ELSE q[i + 1]
    BY <1>1, RemoveAtIndices
  <1>3. \A a, b \in 1 .. n : q[a] = q[b] => a = b
    BY <1>1, InjectiveSeq
  <1> HIDE DEF r
  <1>4. \A a, b \in 1 .. n - 1 : r[a] = r[b] => a = b
    BY <1>1, <1>2, <1>3
  <1>5. IsInjective(r)
    BY <1>2, <1>4, InjectiveSeq
  <1>6. \A y : (\E i \in 1 .. n - 1 : r[i] = y) => (\E i \in 1 .. n : q[i] = y) /\ y # q[k]
    BY <1>1, <1>2, <1>3
  <1>7. ASSUME NEW i \in 1 .. n, q[i] # q[k]
        PROVE  \E j \in 1 .. n - 1 : r[j] = q[i]
    <2>1. i < k \/ i > k
      BY <1>1, <1>7
    <2>2. CASE i < k
      BY <1>1, <1>2, <2>2
    <2>3. CASE i > k
      <3>1. i - 1 \in 1 .. n - 1 /\ ~ (i - 1 < k) /\ (i - 1) + 1 = i
        BY <1>1, <2>3
      <3> QED BY <1>2, <3>1
    <2> QED BY <2>1, <2>2, <2>3
  <1>8. \A y : Contains(r, y) <=> Contains(q, y) /\ y # q[k]
    <2>1. \A y : Contains(r, y) <=> \E i \in 1 .. n - 1 : r[i] = y
      BY <1>2 DEF Contains
    <2>2. \A y : Contains(q, y) <=> \E i \in 1 .. n : q[i] = y
      BY <1>1 DEF Contains
    <2> QED BY <1>6, <1>7, <2>1, <2>2
  <1>9. r = RemoveAt(q, k)
    BY DEF r
  <1> QED BY <1>2, <1>5, <1>8, <1>9

-----------------------------------------------------------------------------
(* The server. *)

LEMMA TCPInitInv == TCPInit => TCPInv
  <1> SUFFICES ASSUME TCPInit PROVE TCPInv
    OBVIOUS
  <1> USE ServerTCPAssumption DEF TCPInit, QueueInit
  <1>1. TCPTypeOK
    BY EmptySeq DEF TCPTypeOK, ServerPcs, ThreadPcs, MainPcs
  <1>2. AcceptThreadInv /\ MainThreadInv
    BY DEF AcceptThreadInv, MainThreadInv
  <1>3. QueueInv
    BY DEF QueueInv, Queued, Contains, IsInjective
  <1>4. NoWaitBeforeQuit /\ LiveClientsReachable /\ ServerExitsLast
    BY DEF NoWaitBeforeQuit, LiveClientsReachable, ServerExitsLast
  <1> QED BY <1>1, <1>2, <1>3, <1>4 DEF TCPInv

\* The steps that leave the queue alone.
LEMMA AcceptThreadSteps ==
    ASSUME TCPInv, RunLoop \/ AcceptFails \/ AddSucceeds \/ AddFails \/ StartClient
                   \/ (\E c \in Clients : AddStopsAnother(c))
    PROVE  TCPInv'
  <1> USE ServerTCPAssumption
      DEF TCPInv, TCPTypeOK, ServerPcs, ThreadPcs, MainPcs,
          AcceptThreadInv, MainThreadInv, QueueInv, Queued,
          NoWaitBeforeQuit, LiveClientsReachable, ServerExitsLast,
          queueVars, clientVars, mainVars, acceptVars, StopClient
  <1>1. CASE RunLoop
    BY <1>1, EmptySeq DEF RunLoop, Contains
  <1>2. CASE AcceptFails
    BY <1>2 DEF AcceptFails
  <1>3. CASE AddSucceeds
    BY <1>3 DEF AddSucceeds
  <1>4. CASE AddFails
    BY <1>4 DEF AddFails
  <1>5. CASE StartClient
    BY <1>5 DEF StartClient
  <1>6. ASSUME NEW c \in Clients, AddStopsAnother(c) PROVE TCPInv'
    BY <1>6 DEF AddStopsAnother
  <1> QED BY <1>1, <1>2, <1>3, <1>4, <1>5, <1>6

\* accept(): the new connection enters the queue and is the current one.
LEMMA AcceptClientStep ==
    ASSUME TCPInv, NEW c \in Clients, AcceptClient(c)
    PROVE  TCPInv'
  <1> USE ServerTCPAssumption
      DEF TCPInv, TCPTypeOK, ServerPcs, ThreadPcs, MainPcs, AcceptClient,
          QueueAdd, NotifyOne, mainVars
  <1>1. ~ Queued(c)
    BY DEF QueueInv
  <1>2. /\ m_queueClients' \in Seq(Clients)
        /\ IsInjective(m_queueClients')
        /\ \A d : Queued(d)' <=> Queued(d) \/ d = c
    BY <1>1, AppendContains, AppendDistinct DEF QueueInv, Queued
  <1>3. waiting' \subseteq waiting
    OBVIOUS
  <1>4. TCPTypeOK'
    BY <1>2, <1>3
  <1>5. AcceptThreadInv' /\ MainThreadInv'
    BY DEF AcceptThreadInv, MainThreadInv
  <1>6. QueueInv'
    BY <1>2 DEF QueueInv
  <1>7. NoWaitBeforeQuit' /\ LiveClientsReachable' /\ ServerExitsLast'
    BY <1>2, <1>3 DEF NoWaitBeforeQuit, LiveClientsReachable, ServerExitsLast
  <1> QED BY <1>4, <1>5, <1>6, <1>7

\* The thread of a connection: it is in the queue until it leaves it itself,
\* as long as the server has not been asked to stop.
LEMMA ClientSteps ==
    ASSUME TCPInv, NEW c \in Clients, ClientStep(c) \/ ClientEnds(c)
    PROVE  TCPInv'
  <1> USE ServerTCPAssumption
      DEF TCPInv, TCPTypeOK, ServerPcs, ThreadPcs, MainPcs,
          AcceptThreadInv, MainThreadInv, QueueInv,
          NoWaitBeforeQuit, LiveClientsReachable, ServerExitsLast,
          queueVars, mainVars, acceptVars, StopClient
  <1>1. CASE ClientLoop(c)
    BY <1>1 DEF ClientLoop, Queued
  <1>2. CASE ClientReceive(c)
    BY <1>2 DEF ClientReceive, Queued
  <1>3. CASE ClientGivesUp(c)
    BY <1>3 DEF ClientGivesUp, Queued
  <1>4. CASE ClientWaits(c)
    <2>1. mainPc # "serving"
      BY <1>4, EmptySeq DEF ClientWaits, QueueWait, Queued, Contains
    <2> QED BY <1>4, <2>1 DEF ClientWaits, QueueWait, Queued, clientVars
  <1>5. CASE ClientLeaves(c)
    <2>1. /\ m_queueClients' \in Seq(Clients)
          /\ IsInjective(m_queueClients')
          /\ \A d : Queued(d)' <=> Queued(d) /\ d # c
      <3>1. CASE Queued(c)
        <4>1. PICK k \in 1 .. Len(m_queueClients) :
                 m_queueClients[k] = c /\ m_queueClients' = RemoveAt(m_queueClients, k)
          BY <1>5, <3>1 DEF ClientLeaves, QueueRemoveItem
        <4> QED BY <4>1, RemoveAtContains DEF Queued
      <3>2. CASE ~ Queued(c)
        BY <1>5, <3>2 DEF ClientLeaves, QueueRemoveItem, Queued
      <3> QED BY <3>1, <3>2
    <2>2. /\ waiting' = waiting
          /\ thread[c] = "remove"
          /\ thread' = [thread EXCEPT ![c] = "callback"]
          /\ m_queueClients # <<>>
      BY <1>5 DEF ClientLeaves, QueueRemoveItem
    <2>3. UNCHANGED <<m_stop, acceptVars, mainVars>>
      BY <1>5 DEF ClientLeaves
    <2>4. TCPTypeOK' /\ AcceptThreadInv' /\ MainThreadInv'
      BY <2>1, <2>2, <2>3
    <2>5. QueueInv'
      BY <2>1, <2>2, <2>3
    <2>6. NoWaitBeforeQuit' /\ LiveClientsReachable'
      BY <2>1, <2>2, <2>3
    <2>7. ServerExitsLast'
      BY <2>2, <2>3
    <2> QED BY <2>4, <2>5, <2>6, <2>7
  <1>6. CASE ClientEnds(c)
    BY <1>6 DEF ClientEnds, Queued
  <1> QED BY <1>1, <1>2, <1>3, <1>4, <1>5, <1>6 DEF ClientStep

\* The main thread.  While it closes the connections, the one it has popped
\* is the only one that is neither stopped nor in the queue.
LEMMA MainSteps ==
    ASSUME TCPInv, Quit \/ MainStep
    PROVE  TCPInv'
  <1> USE ServerTCPAssumption
      DEF TCPInv, TCPTypeOK, ServerPcs, ThreadPcs, MainPcs,
          AcceptThreadInv, MainThreadInv, QueueInv,
          NoWaitBeforeQuit, LiveClientsReachable, ServerExitsLast,
          queueVars, clientVars, acceptVars, StopClient
  <1>1. CASE Quit
    BY <1>1 DEF Quit, Queued
  <1>2. CASE CloseAllLoop
    BY <1>2 DEF CloseAllLoop, Queued
  <1>3. CASE CloseAllWaits
    BY <1>3 DEF CloseAllWaits, QueueWait, Queued, mainVars
  <1>4. CASE CloseAllPops
    <2>1. /\ m_queueClients' \in Seq(Clients)
          /\ IsInjective(m_queueClients')
          /\ popped' \in Clients
          /\ \A d : Queued(d)' <=> Queued(d) /\ d # popped'
      BY <1>4, FrontContains DEF CloseAllPops, QueueRemove, QueueItemToRemove, Queued
    <2>2. /\ mainPc = "pop" /\ mainPc' = "popped"
          /\ waiting' = waiting
          /\ UNCHANGED <<serverStop, acceptVars, clientVars>>
      BY <1>4 DEF CloseAllPops, QueueRemove
    <2>3. TCPTypeOK' /\ AcceptThreadInv' /\ MainThreadInv'
      BY <2>1, <2>2
    <2>4. QueueInv'
      BY <2>1, <2>2
    <2>5. NoWaitBeforeQuit' /\ LiveClientsReachable' /\ ServerExitsLast'
      BY <2>1, <2>2
    <2> QED BY <2>3, <2>4, <2>5
  <1>5. CASE CloseAllStops
    BY <1>5 DEF CloseAllStops, Queued
  <1>6. CASE SetServerStop
    BY <1>6 DEF SetServerStop, Queued
  <1>7. CASE JoinServer
    BY <1>7 DEF JoinServer, Queued
  <1> QED BY <1>1, <1>2, <1>3, <1>4, <1>5, <1>6, <1>7 DEF MainStep

LEMMA WakeupStep == TCPInv /\ Wakeup => TCPInv'
  BY ServerTCPAssumption
  DEF TCPInv, TCPTypeOK, ServerPcs, ThreadPcs, MainPcs,
      AcceptThreadInv, MainThreadInv, QueueInv, Queued,
      NoWaitBeforeQuit, LiveClientsReachable, ServerExitsLast,
      clientVars, mainVars, acceptVars, Wakeup, SpuriousWakeup

LEMMA StutterStep == TCPInv /\ UNCHANGED tcpVars => TCPInv'
  BY DEF TCPInv, TCPTypeOK, AcceptThreadInv, MainThreadInv, QueueInv, Queued,
      NoWaitBeforeQuit, LiveClientsReachable, ServerExitsLast,
      tcpVars, queueVars, clientVars, mainVars, acceptVars

LEMMA TCPInvStep == TCPInv /\ [TCPNext]_tcpVars => TCPInv'
  BY AcceptThreadSteps, AcceptClientStep, ClientSteps, MainSteps, WakeupStep,
     StutterStep DEF TCPNext

-----------------------------------------------------------------------------
\* The invariant holds in every reachable state of the server and its
\* connections, however many there are.
THEOREM TCPInvariant == TCPSpec => []TCPInv
  BY TCPInitInv, TCPInvStep, PTL DEF TCPSpec

\* Every variable keeps its type.
THEOREM TCPTypeCorrect == TCPSpec => []TCPTypeOK
  BY TCPInvariant, PTL DEF TCPInv

\* No thread blocks in Queue::remove before the operator asks to stop
\* (Queue.h:92).
THEOREM NeverWaitsWhileServing == TCPSpec => []NoWaitBeforeQuit
  BY TCPInvariant, PTL DEF TCPInv

\* close_all_clients and the alert reach every connection that was not
\* stopped (ServerTCP.cpp:105).
THEOREM EveryLiveClientReachable == TCPSpec => []LiveClientsReachable
  BY TCPInvariant, PTL DEF TCPInv

\* The accept thread leaves run() last, with nothing left to serve
\* (ServerTCP.cpp:35).
THEOREM NothingLeftBehind == TCPSpec => []ServerExitsLast
  BY TCPInvariant, PTL DEF TCPInv

\* A connection that is done with the queue is not in it (ClientTCP.cpp:169).
THEOREM FinishedNotQueued == TCPSpec => []FinishedClientsLeftQueue
  <1>1. TCPInv => FinishedClientsLeftQueue
    BY DEF TCPInv, QueueInv, FinishedClientsLeftQueue
  <1> QED BY <1>1, TCPInvariant, PTL
=============================================================================
