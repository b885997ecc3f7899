------------------------ MODULE RequestAlarmProofs -------------------------
(***************************************************************************)
(* The decision to alert runs beside a server of the sensors that behaves  *)
(* as ServerSensors says, and until the clock passes half its range every  *)
(* alert rests on recent measurements: for any number of sensors, any size *)
(* of the list, any period and any width of the clock.                     *)
(***************************************************************************)
EXTENDS RequestAlarm, ServerSensorsProofs, FiniteSetTheorems

NowInv ==
    /\ now \in BASE .. MaxTime
    /\ stamp \in [Clients -> (BASE .. now) \cup {NoMeasure}]

\* What counted so far of the positions that were scanned.
Seen == {p \in RecentAt(timestamp) \cup overtaken : p < scanned}

Deciding == requestPc \in {"scan", "first", "second", "alert"}

RequestInv ==
    /\ NowInv
    /\ overtaken \subseteq Positions
    /\ timestamp \in 0 .. now
    /\ \A p \in Positions : m_queue[p] \in 0 .. now
    /\ requestPc \in {"sleep", "total", "scan", "first", "second", "alert", "crashed"}
    /\ totalSensors \in Nat /\ scanned \in Nat /\ validSensors \in Nat
    /\ scanned <= totalSensors /\ validSensors <= scanned
    /\ requestPc = "total" => scanned = 0
    /\ requestPc # "sleep" => timestamp >= BASE
    /\ requestPc = "alert" => validSensors > 0
    /\ Deciding /\ timestamp < WORD \div 2 /\ totalSensors <= MAX_SIZE_SENSORS
          => validSensors <= Cardinality(Seen)

-----------------------------------------------------------------------------
(* Arithmetic of the clock, and sets of positions. *)

LEMMA LongOfSmall ==
    ASSUME NEW x \in Nat, x < WORD \div 2
    PROVE  Long(x) = x
  <1>1. WORD \in Nat /\ WORD > 0
    BY RequestAlarmAssumption
  <1>2. WORD \div 2 <= WORD /\ WORD \div 2 \in Nat
    BY <1>1
  <1>3. x % WORD = x
    BY <1>1, <1>2
  <1> QED BY <1>3 DEF Long

LEMMA LongOfNegative ==
    ASSUME NEW x \in Int, -(WORD \div 2) <= x, x < 0
    PROVE  Long(x) = x
  <1>1. /\ WORD \in Nat /\ WORD > 0
        /\ WORD = 2 * (WORD \div 2) /\ WORD \div 2 \in Nat
    BY RequestAlarmAssumption
  <1>2. x % WORD = x + WORD
    BY <1>1
  <1> QED BY <1>1, <1>2 DEF Long

\* In the lower half of the clock, a position that counts was written, and
\* less than RECENT before.
LEMMA CountedIsRecent ==
    ASSUME NEW p \in Positions, Counts(p), timestamp \in Nat, m_queue[p] \in Nat,
           timestamp >= BASE, timestamp < WORD \div 2
    PROVE  p \in RecentAt(timestamp)
  <1>1. RECENT \in Nat /\ BASE \in Nat /\ RECENT <= BASE /\ NoMeasure = 0 /\ RECENT > 0
    BY RequestAlarmAssumption
  <1>2. Long(timestamp) = timestamp
    BY LongOfSmall
  <1>3. CASE m_queue[p] <= timestamp
    <2>1. m_queue[p] < WORD \div 2
      BY <1>3, RequestAlarmAssumption
    <2>2. Long(m_queue[p]) = m_queue[p]
      BY <2>1, LongOfSmall
    <2>3. timestamp - m_queue[p] \in Nat /\ timestamp - m_queue[p] < WORD \div 2
      BY <1>3, RequestAlarmAssumption
    <2>4. Long(timestamp - m_queue[p]) = timestamp - m_queue[p]
      BY <2>3, LongOfSmall
    <2>5. timestamp - m_queue[p] < RECENT
      BY <1>2, <2>2, <2>4 DEF Counts
    <2>6. m_queue[p] # NoMeasure
      BY <1>1, <2>5
    <2> QED BY <2>5, <2>6 DEF RecentAt
  <1>4. CASE m_queue[p] > timestamp
    <2>1. timestamp - m_queue[p] < RECENT /\ m_queue[p] # NoMeasure
      BY <1>1, <1>4
    <2> QED BY <2>1 DEF RecentAt
  <1> QED BY <1>3, <1>4

LEMMA SetsOfPositionsFinite ==
    ASSUME NEW S, S \subseteq Positions
    PROVE  IsFiniteSet(S) /\ Cardinality(S) \in Nat
  <1>1. MAX_SIZE_SENSORS - 1 \in Int
    BY ListSensorsAssumption
  <1>2. IsFiniteSet(Positions)
    BY <1>1, FS_Interval DEF Positions
  <1>3. IsFiniteSet(S)
    BY <1>2, FS_Subset
  <1> QED BY <1>3, FS_CardinalityType

\* More positions, no fewer of them.
LEMMA SeenGrows ==
    ASSUME NEW S, NEW T, S \subseteq T, T \subseteq Positions
    PROVE  Cardinality(S) <= Cardinality(T)
  BY SetsOfPositionsFinite, FS_Subset

-----------------------------------------------------------------------------
(* The sensors of this module are those of ServerSensors. *)

LEMMA NowInitInv == RequestInit => NowInv
  BY RequestAlarmAssumption DEF RequestInit, NowInv

\* What no step of the decision touches.
LEMMA RequestKeeps ==
    ASSUME Request
    PROVE  UNCHANGED <<now, stamp, vars>>
  BY DEF Request, RequestWakes, RequestTotal, RequestScans, RequestScanned,
     RequestFirst, RequestSecond, RequestAlerts

LEMMA NowStep ==
    ASSUME NowInv, [RequestNext]_decisionVars
    PROVE  NowInv'
  <1>1. BASE \in Nat /\ MaxTime \in Nat /\ NoMeasure = 0 /\ now \in BASE .. MaxTime
    BY RequestAlarmAssumption DEF NowInv
  <1>2. CASE Tick
    <2>1. now' \in BASE .. MaxTime /\ BASE .. now \subseteq BASE .. now' /\ stamp' = stamp
      BY <1>1, <1>2 DEF Tick
    <2> QED BY <2>1 DEF NowInv
  <1>3. ASSUME NEW c \in Clients, ReadClock(c)
        PROVE  NowInv'
    <2>1. now \in BASE .. now /\ now' = now
      BY <1>1, <1>3 DEF ReadClock
    <2> QED BY <1>3, <2>1 DEF ReadClock, NowInv
  <1>4. ASSUME NEW c \in Clients, WriteMeasure(c)
        PROVE  NowInv'
    BY <1>4 DEF WriteMeasure, NowInv
  <1>5. CASE Sensors
    BY <1>5 DEF Sensors, NowInv
  <1>6. CASE Request
    BY <1>6, RequestKeeps DEF NowInv
  <1>7. CASE UNCHANGED decisionVars
    BY <1>7 DEF decisionVars, NowInv
  <1> QED BY <1>2, <1>3, <1>4, <1>5, <1>6, <1>7 DEF RequestNext

LEMMA RequestMaps ==
    ASSUME NowInv, [RequestNext]_decisionVars
    PROVE  [SensorsNext]_vars
  <1>1. CASE Tick
    BY <1>1 DEF Tick
  <1>2. ASSUME NEW c \in Clients, ReadClock(c)
        PROVE  UNCHANGED vars
    BY <1>2 DEF ReadClock
  <1>3. ASSUME NEW c \in Clients, WriteMeasure(c)
        PROVE  SensorsNext
    <2>1. stamp[c] \in Measures
      BY <1>3, RequestAlarmAssumption DEF NowInv, WriteMeasure
    <2> QED BY <1>3, <2>1 DEF WriteMeasure, SensorsNext
  <1>4. CASE Sensors
    BY <1>4 DEF Sensors, SensorsNext
  <1>5. CASE Request
    BY <1>5, RequestKeeps
  <1>6. CASE UNCHANGED decisionVars
    BY <1>6 DEF decisionVars
  <1> QED BY <1>1, <1>2, <1>3, <1>4, <1>5, <1>6 DEF RequestNext

\* The thread of the requests only looks: beside it the server of the sensors
\* behaves as ServerSensors says, whose measurements are times here.
THEOREM RequestImplementsSensors == RequestSpec => SensorsSpec
  <1>1. RequestInit => SensorsInit /\ NowInv
    BY NowInitInv DEF RequestInit
  <1>2. NowInv /\ [RequestNext]_decisionVars => [SensorsNext]_vars /\ NowInv'
    BY NowStep, RequestMaps
  <1> QED BY <1>1, <1>2, PTL DEF RequestSpec, SensorsSpec

-----------------------------------------------------------------------------
(* What the sensors do to the measurements while they are scanned. *)

LEMMA QueueOfSensors ==
    ASSUME Sensors
    PROVE  m_queue' = m_queue
  <1>1. CASE Inherited
    BY <1>1 DEF Inherited, listVars
  <1>2. CASE AddClient
    <2>1. CASE Reserve
      BY <2>1 DEF Reserve, ReserveGrow, ReserveClamp, ReserveLoadPos, ReserveStorePos,
         ReserveTest, ReserveLoadActive, ReserveStoreActive, ReserveLoadBack,
         ReserveStoreBack, GrowMaxSize, ClampMaxSize, LoadPos, StorePos, LoadActive,
         StoreActive, listVars
    <2>2. CASE AddAlone /\ ~Reserve
      BY <2>2 DEF AddAlone, GetNextLocalID, StopLastClient, TakeOver, BindRegister,
         WriteRegister, AddRegister, PushRegister, AdmitStranger, Reject, listVars
    <2> QED BY <1>2, <2>1, <2>2 DEF AddClient, AddAlone, HandshakeFails, RecvAcknowledge,
               SendRenew, RecvRenewed, listVars
  <1>3. ASSUME NEW id \in 1 .. MaxRemoteID, AlarmRegisters(id)
        PROVE  m_queue' = m_queue
    BY <1>3 DEF AlarmRegisters, listVars
  <1>4. ASSUME NEW c \in Clients, Callback(c)
        PROVE  m_queue' = m_queue
    BY <1>4 DEF Callback, CheckReplaced, FreeLoad, FreeStore, FreeSlot, LoadActive,
       StoreActive, FreePos, listVars
  <1> QED BY <1>1, <1>2, <1>3, <1>4 DEF Sensors

\* A measurement is of a time already past, and whatever it replaces, what
\* counted still counts or was overtaken.
LEMMA MeasureKeepsSeen ==
    ASSUME RequestInv, SensorsInv, NEW c \in Clients, WriteMeasure(c)
    PROVE  /\ \A p \in Positions : m_queue'[p] \in 0 .. now
           /\ Deciding => Seen \subseteq Seen'
  <1>1. /\ BASE \in Nat /\ RECENT \in Nat /\ BASE > 0 /\ RECENT > 0 /\ NoMeasure = 0
        /\ now \in Nat /\ now >= BASE /\ timestamp \in Nat /\ timestamp <= now
    BY RequestAlarmAssumption DEF RequestInv, NowInv
  <1>2. stamp[c] \in BASE .. now
    BY <1>1 DEF WriteMeasure, RequestInv, NowInv
  <1>3. /\ timestamp' = timestamp /\ scanned' = scanned
        /\ requestPc # "sleep" =>
              overtaken' = overtaken \cup {p \in Positions : m_queue'[p] < m_queue[p]}
    BY DEF WriteMeasure, requestVars
  <1>4. m_queue \in [Positions -> Measures \cup {NoMeasure}]
    BY DEF SensorsInv, SensorsTypeOK, ListTypeOK
  <1>5. ASSUME NEW p \in Positions
        PROVE  m_queue'[p] = m_queue[p] \/ m_queue'[p] = stamp[c]
    BY <1>4, <1>5 DEF WriteMeasure, ClientMeasures, AppendMeasure
  <1>6. ASSUME NEW p \in Positions
        PROVE  m_queue[p] \in 0 .. now
    BY <1>6 DEF RequestInv
  <1>7. ASSUME Deciding, NEW p \in RecentAt(timestamp) \cup overtaken
        PROVE  p \in RecentAt(timestamp)' \cup overtaken'
    <2>1. requestPc # "sleep"
      BY <1>7 DEF Deciding
    <2>2. CASE p \in overtaken
      BY <1>3, <2>1, <2>2
    <2>3. CASE p \in RecentAt(timestamp)
      <3>1. p \in Positions /\ m_queue[p] # NoMeasure /\ timestamp - m_queue[p] < RECENT
        BY <2>3 DEF RecentAt
      <3>2. CASE m_queue'[p] < m_queue[p]
        BY <1>3, <2>1, <3>1, <3>2
      <3>3. CASE ~(m_queue'[p] < m_queue[p])
        <4>1. m_queue'[p] # NoMeasure /\ timestamp - m_queue'[p] < RECENT
          BY <1>1, <1>2, <1>5, <1>6, <3>1, <3>3
        <4> QED BY <1>3, <3>1, <4>1 DEF RecentAt
      <3> QED BY <3>2, <3>3
    <2> QED BY <1>7, <2>2, <2>3
  <1>8. Deciding => Seen \subseteq Seen'
    BY <1>3, <1>7 DEF Seen
  <1>9. \A p \in Positions : m_queue'[p] \in 0 .. now
    BY <1>1, <1>2, <1>5, <1>6
  <1> QED BY <1>8, <1>9

-----------------------------------------------------------------------------
(* The invariant of the decision. *)

LEMMA RequestInitInv == RequestInit /\ SensorsInv => RequestInv
  <1> SUFFICES ASSUME RequestInit, SensorsInv PROVE RequestInv
    OBVIOUS
  <1>1. NowInv /\ now \in Nat
    BY NowInitInv, RequestAlarmAssumption DEF RequestInit
  <1>2. \A p \in Positions : m_queue[p] \in 0 .. now
    BY <1>1, RequestAlarmAssumption DEF RequestInit, SensorsInit, ListInit
  <1> QED BY <1>1, <1>2 DEF RequestInit, RequestInv, Deciding

\* The clock and the sensors that measure nothing leave all of it as it was.
LEMMA IdleStep ==
    ASSUME RequestInv, NowInv', m_queue' = m_queue, UNCHANGED <<requestVars, historyVars>>,
           now' >= now
    PROVE  RequestInv'
  <1>1. now \in Nat /\ now' \in Nat
    BY RequestAlarmAssumption DEF RequestInv, NowInv
  <1>2. /\ requestPc' = requestPc /\ timestamp' = timestamp
        /\ totalSensors' = totalSensors /\ scanned' = scanned
        /\ validSensors' = validSensors /\ overtaken' = overtaken
    BY DEF requestVars, historyVars
  <1>3. timestamp' \in 0 .. now' /\ \A p \in Positions : m_queue'[p] \in 0 .. now'
    BY <1>1, <1>2 DEF RequestInv
  <1>4. Seen' = Seen
    BY <1>2 DEF Seen, RecentAt
  <1> QED BY <1>2, <1>3, <1>4 DEF RequestInv, Deciding

LEMMA MeasureStep ==
    ASSUME RequestInv, SensorsInv, NowInv', NEW c \in Clients, WriteMeasure(c)
    PROVE  RequestInv'
  <1>1. /\ now' = now /\ requestPc' = requestPc /\ timestamp' = timestamp
        /\ totalSensors' = totalSensors /\ scanned' = scanned
        /\ validSensors' = validSensors
    BY DEF WriteMeasure, requestVars
  <1>2. overtaken' \subseteq Positions
    BY DEF WriteMeasure, RequestInv
  <1>3. Seen \subseteq Positions /\ Seen' \subseteq Positions
    BY <1>2 DEF Seen, RecentAt, RequestInv
  <1>4. Deciding => Cardinality(Seen) <= Cardinality(Seen')
    BY <1>3, MeasureKeepsSeen, SeenGrows
  <1>5. Cardinality(Seen) \in Nat /\ Cardinality(Seen') \in Nat
    BY <1>3, SetsOfPositionsFinite
  <1>6. Deciding' /\ timestamp' < WORD \div 2 /\ totalSensors' <= MAX_SIZE_SENSORS
          => validSensors' <= Cardinality(Seen')
    BY <1>1, <1>4, <1>5 DEF RequestInv, Deciding
  <1>7. \A p \in Positions : m_queue'[p] \in 0 .. now'
    BY <1>1, MeasureKeepsSeen
  <1> QED BY <1>1, <1>2, <1>6, <1>7 DEF RequestInv

LEMMA RequestFrame ==
    ASSUME RequestInv, Request
    PROVE  /\ now' = now /\ m_queue' = m_queue /\ NowInv'
           /\ overtaken' \in {{}, overtaken}
           /\ Deciding' => overtaken' = overtaken
           /\ \A p \in Positions : m_queue'[p] \in 0 .. now'
  <1>1. now' = now /\ stamp' = stamp /\ m_queue' = m_queue
    BY RequestKeeps DEF vars, listVars
  <1>2. overtaken' \in {{}, overtaken} /\ (Deciding' => overtaken' = overtaken)
    BY DEF Request, RequestWakes, RequestTotal, RequestScans, RequestScanned,
       RequestFirst, RequestSecond, RequestAlerts, RequestStep, Deciding, historyVars
  <1> QED BY <1>1, <1>2 DEF RequestInv, NowInv

\* A position that counts is one more of those that were seen.
LEMMA ScanStep ==
    ASSUME RequestInv, SensorsInv, RequestScans
    PROVE  RequestInv'
  <1>1. /\ scanned < totalSensors /\ scanned' = scanned + 1
        /\ requestPc = "scan" /\ requestPc' = "scan"
        /\ timestamp' = timestamp /\ totalSensors' = totalSensors
        /\ overtaken' = overtaken
    BY DEF RequestScans, historyVars
  <1>2. /\ scanned \in Nat /\ validSensors \in Nat /\ totalSensors \in Nat
        /\ validSensors <= scanned /\ timestamp \in Nat /\ timestamp >= BASE
        /\ RequestInv /\ overtaken \subseteq Positions
    BY <1>1, RequestAlarmAssumption DEF RequestInv, NowInv
  <1>3. PICK counts \in BOOLEAN :
          /\ scanned \in Positions => counts = Counts(scanned)
          /\ validSensors' = IF counts THEN validSensors + 1 ELSE validSensors
    BY DEF RequestScans
  <1>4. /\ Request /\ now' = now /\ m_queue' = m_queue /\ NowInv'
        /\ \A p \in Positions : m_queue'[p] \in 0 .. now'
    BY RequestFrame DEF Request
  <1>5. /\ Seen \subseteq Positions /\ Seen' \subseteq Positions
        /\ Seen \subseteq Seen' /\ scanned \notin Seen
    <2>1. RecentAt(timestamp)' = RecentAt(timestamp) /\ RecentAt(timestamp) \subseteq Positions
      BY <1>1, <1>4 DEF RecentAt
    <2>2. \A p \in Positions : p < scanned => p < scanned + 1
      BY <1>2 DEF Positions
    <2>3. ~(scanned < scanned)
      BY <1>2
    <2> QED BY <1>1, <1>2, <2>1, <2>2, <2>3 DEF Seen
  <1>6. /\ Cardinality(Seen) \in Nat /\ Cardinality(Seen') \in Nat
        /\ IsFiniteSet(Seen) /\ Cardinality(Seen) <= Cardinality(Seen')
    BY <1>5, SetsOfPositionsFinite, SeenGrows
  <1>7. ASSUME timestamp < WORD \div 2, totalSensors <= MAX_SIZE_SENSORS
        PROVE  validSensors' <= Cardinality(Seen')
    <2>1. validSensors <= Cardinality(Seen)
      BY <1>1, <1>7 DEF RequestInv, Deciding
    <2>2. scanned \in Positions
      BY <1>1, <1>2, <1>7, ListSensorsAssumption DEF Positions
    <2>3. CASE counts
      <3>1. Counts(scanned)
        BY <1>3, <2>2, <2>3
      <3>2. m_queue[scanned] \in Nat
        BY <2>2 DEF RequestInv
      <3>3. scanned \in RecentAt(timestamp)
        BY <1>2, <1>7, <2>2, <3>1, <3>2, CountedIsRecent
      <3>4. Seen \cup {scanned} \subseteq Seen'
        BY <1>1, <1>2, <1>4, <1>5, <3>3 DEF Seen, RecentAt
      <3>5. Cardinality(Seen \cup {scanned}) = Cardinality(Seen) + 1
        BY <1>5, <1>6, FS_AddElement
      <3>6. Cardinality(Seen \cup {scanned}) <= Cardinality(Seen')
        BY <1>5, <3>4, SeenGrows
      <3> QED BY <1>2, <1>3, <1>6, <2>1, <2>3, <3>5, <3>6
    <2>4. CASE ~counts
      BY <1>2, <1>3, <1>6, <2>1, <2>4
    <2> QED BY <2>3, <2>4
  <1>8. validSensors' \in Nat /\ validSensors' <= scanned'
    BY <1>1, <1>2, <1>3
  <1> QED BY <1>1, <1>2, <1>4, <1>7, <1>8 DEF RequestInv

LEMMA RequestStepInv ==
    ASSUME RequestInv, SensorsInv, Request
    PROVE  RequestInv'
  <1>1. /\ now' = now /\ m_queue' = m_queue /\ NowInv' /\ overtaken' \subseteq Positions
        /\ Deciding' => overtaken' = overtaken
        /\ \A p \in Positions : m_queue'[p] \in 0 .. now'
    BY RequestFrame DEF RequestInv
  <1>2. CASE RequestWakes
    <2>1. /\ requestPc' = "total" /\ timestamp' = now /\ totalSensors' = 0
          /\ scanned' = 0 /\ validSensors' = 0
      BY <1>2 DEF RequestWakes, RequestStep
    <2>2. now \in Nat /\ now >= BASE /\ BASE \in Nat
      BY RequestAlarmAssumption DEF RequestInv, NowInv
    <2> QED BY <1>1, <2>1, <2>2 DEF RequestInv, Deciding
  <1>3. CASE RequestTotal
    <2>1. /\ requestPc = "total" /\ requestPc' \in {"scan", "sleep"}
          /\ totalSensors' = m_maxSize /\ timestamp' = timestamp
          /\ scanned' = scanned /\ validSensors' = validSensors
      BY <1>3 DEF RequestTotal, RequestStep
    <2>2. m_maxSize \in Nat
      BY DEF SensorsInv, SensorsTypeOK, ListTypeOK
    <2>3. scanned = 0 /\ validSensors = 0
      BY <2>1 DEF RequestInv
    <2>4. Seen' \subseteq Positions
      BY <1>1 DEF Seen, RecentAt
    <2>5. Cardinality(Seen') \in Nat
      BY <2>4, SetsOfPositionsFinite
    <2> QED BY <1>1, <2>1, <2>2, <2>3, <2>5 DEF RequestInv
  <1>4. CASE RequestScans
    BY <1>4, ScanStep
  <1>5. CASE RequestScanned \/ RequestFirst \/ RequestSecond \/ RequestAlerts
    <2>1. /\ timestamp' = timestamp /\ totalSensors' = totalSensors
          /\ scanned' = scanned /\ validSensors' = validSensors
      BY <1>5 DEF RequestScanned, RequestFirst, RequestSecond, RequestAlerts
    <2>2. /\ requestPc \in {"scan", "first", "second", "alert"}
          /\ requestPc' \in {"sleep", "first", "second", "alert", "crashed"}
      BY <1>5 DEF RequestScanned, RequestFirst, RequestSecond, RequestAlerts, RequestStep
    <2>3. requestPc' = "alert" => validSensors > 0
      <3>1. requestPc' = "alert" => EnoughValid
        BY <1>5 DEF RequestScanned, RequestFirst, RequestSecond, RequestAlerts, RequestStep
      <3>2. m_activeSensors \in Int /\ validSensors \in Nat
        BY DEF SensorsInv, SensorsTypeOK, ListTypeOK, RequestInv
      <3> QED BY <3>1, <3>2 DEF EnoughValid
    <2>4. Deciding' => Seen' = Seen
      BY <1>1, <2>1 DEF Seen, RecentAt
    <2> QED BY <1>1, <2>1, <2>2, <2>3, <2>4 DEF RequestInv, Deciding
  <1> QED BY <1>2, <1>3, <1>4, <1>5 DEF Request

LEMMA RequestInvStep ==
    ASSUME RequestInv, SensorsInv, [RequestNext]_decisionVars
    PROVE  RequestInv'
  <1>1. NowInv'
    BY NowStep DEF RequestInv
  <1>2. now \in Nat
    BY RequestAlarmAssumption DEF RequestInv, NowInv
  <1>3. CASE Tick
    BY <1>1, <1>2, <1>3, IdleStep DEF Tick, vars, listVars
  <1>4. ASSUME NEW c \in Clients, ReadClock(c)
        PROVE  RequestInv'
    BY <1>1, <1>2, <1>4, IdleStep DEF ReadClock, vars, listVars
  <1>5. CASE Sensors
    BY <1>1, <1>2, <1>5, IdleStep, QueueOfSensors DEF Sensors
  <1>6. CASE UNCHANGED decisionVars
    BY <1>1, <1>2, <1>6, IdleStep DEF decisionVars, vars, listVars
  <1> QED BY <1>1, <1>3, <1>4, <1>5, <1>6, MeasureStep, RequestStepInv DEF RequestNext

\* What the decision knows is what the sensors have written.
THEOREM RequestInvariant == RequestSpec => []RequestInv
  <1>1. RequestInit => SensorsInit
    BY DEF RequestInit
  <1>2. RequestSpec => [](SensorsInv /\ TCPInv)
    BY RequestImplementsSensors, SensorsInvariant, PTL
  <1>3. RequestInit /\ SensorsInv => RequestInv
    BY RequestInitInv
  <1>4. RequestInv /\ SensorsInv /\ [RequestNext]_decisionVars => RequestInv'
    BY RequestInvStep
  <1> QED BY <1>2, <1>3, <1>4, PTL DEF RequestSpec

\* No alert without evidence: RequestAlarm::run sends one only if at least one
\* sensor, and as many as it counted, measured less than RECENT before, however
\* the scan interleaves with sensors that come, measure and go, but for the
\* measurements that an older one replaced during the scan; until the clock
\* passes the middle of its range.
THEOREM AlertsHaveEvidence == RequestSpec => []AlertHasEvidence
  <1>1. RequestInv => AlertHasEvidence
    <2> DEFINE Evidence == RecentAt(timestamp) \cup overtaken
    <2> SUFFICES ASSUME RequestInv, requestPc = "alert", timestamp < WORD \div 2,
                        totalSensors <= MAX_SIZE_SENSORS
                 PROVE  validSensors > 0 /\ Cardinality(Evidence) >= validSensors
      BY DEF AlertHasEvidence
    <2>1. validSensors > 0 /\ validSensors <= Cardinality(Seen) /\ validSensors \in Nat
      BY DEF RequestInv, Deciding
    <2>2. Seen \subseteq Evidence /\ Evidence \subseteq Positions
      BY DEF Seen, RecentAt, RequestInv
    <2>3. Cardinality(Seen) <= Cardinality(Evidence)
      BY <2>2, SeenGrows
    <2>4. Cardinality(Seen) \in Nat /\ Cardinality(Evidence) \in Nat
      BY <2>2, SetsOfPositionsFinite
    <2> QED BY <2>1, <2>3, <2>4
  <1> QED BY <1>1, RequestInvariant, PTL

-----------------------------------------------------------------------------
(* The division by zero. *)

NoDeparture == \A c \in Clients : thread[c] \notin {"callback", "done"}

\* As long as nobody leaves, the counter only grows.
CounterInv ==
    NoDeparture =>
        /\ m_activeSensors >= 0
        /\ addPc = "storeActive" => reg[Accept] = m_activeSensors
        /\ requestPc = "second" => m_activeSensors # 0
        /\ requestPc # "crashed"

\* A thread that has left does not come back.
LEMMA DeparturesLast ==
    ASSUME SensorsInv, TCPInv, SensorsInv', NoDeparture',
           Sensors \/ \E c \in Clients : WriteMeasure(c)
    PROVE  NoDeparture
  <1>1. thread \in [Clients -> ThreadPcs] /\ current \in Clients \cup {NoClient}
    BY DEF TCPInv, TCPTypeOK
  <1>2. CASE Inherited
    <2>1. ASSUME NEW c \in Clients, ClientStep(c)
          PROVE  NoDeparture
      BY <1>1, <2>1 DEF ClientStep, ClientLoop, ClientReceive, ClientGivesUp,
         ClientWaits, ClientLeaves, NoDeparture, clientVars
    <2>2. ASSUME NEW c \in Clients, AcceptClient(c)
          PROVE  NoDeparture
      BY <1>1, <2>2 DEF AcceptClient, NoDeparture
    <2>3. CASE StartClient
      <3>1. current \in Clients /\ thread[current] = "created"
        BY <1>1, <2>3, ServerTCPAssumption DEF TCPInv, AcceptThreadInv, StartClient
      <3> QED BY <1>1, <2>3, <3>1 DEF StartClient, NoDeparture
    <2>4. CASE RunLoop \/ AcceptFails \/ Quit \/ MainStep \/ Wakeup
      BY <2>4 DEF RunLoop, AcceptFails, Quit, MainStep, CloseAllLoop, CloseAllWaits,
         CloseAllPops, CloseAllStops, SetServerStop, JoinServer, Wakeup, clientVars,
         NoDeparture
    <2> QED BY <1>2, <2>1, <2>2, <2>3, <2>4 DEF Inherited
  <1>3. CASE AddClient
    <2>1. thread' = thread
      BY <1>3 DEF AddClient, AddAlone, HandshakeFails, RecvAcknowledge, SendRenew,
         RecvRenewed, GetNextLocalID, StopLastClient, TakeOver, Reserve, ReserveGrow,
         ReserveClamp, ReserveLoadPos, ReserveStorePos, ReserveTest, ReserveLoadActive,
         ReserveStoreActive, ReserveLoadBack, ReserveStoreBack, ReserveUnchanged,
         BindRegister, WriteRegister, AddRegister, PushRegister, AdmitStranger, AddSucceeds, Reject, AddFails, tcpVars, clientVars
    <2> QED BY <2>1 DEF NoDeparture
  <1>4. ASSUME NEW c \in Clients, WriteMeasure(c)
        PROVE  NoDeparture
    BY <1>1, <1>4 DEF WriteMeasure, ClientMeasures, ClientReceive, NoDeparture
  <1>5. ASSUME NEW c \in Clients, Callback(c)
        PROVE  NoDeparture
    <2>1. thread[c] = "callback"
      BY <1>5 DEF Callback, CheckReplaced, FreeLoad, FreeStore, FreeSlot, ClientEnds,
         SensorsInv, RegistersInv
    <2>2. thread'[c] \in {"callback", "done"}
      BY <1>1, <1>5, <2>1 DEF Callback, CheckReplaced, FreeLoad, FreeStore, FreeSlot,
         ClientEnds, tcpVars, clientVars
    <2> QED BY <2>2 DEF NoDeparture
  <1>6. ASSUME NEW id \in 1 .. MaxRemoteID, AlarmRegisters(id)
        PROVE  NoDeparture
    BY <1>6 DEF AlarmRegisters, tcpVars, clientVars, NoDeparture
  <1> QED BY <1>2, <1>3, <1>4, <1>5, <1>6 DEF Sensors

\* And while nobody has, only the accept thread writes the counter.
LEMMA CounterOfSensors ==
    ASSUME SensorsInv, NoDeparture, CounterInv,
           Sensors \/ \E c \in Clients : WriteMeasure(c)
    PROVE  /\ m_activeSensors' >= m_activeSensors
           /\ addPc' = "storeActive" => reg'[Accept] = m_activeSensors'
  <1>1. /\ reg \in [Threads -> Int] /\ Accept \in Threads /\ m_activeSensors \in Int
        /\ addPc = "storeActive" => reg[Accept] = m_activeSensors
    BY DEF SensorsInv, SensorsTypeOK, ListTypeOK, Threads, CounterInv
  <1>2. CASE Inherited
    BY <1>1, <1>2 DEF Inherited, listVars, localVars
  <1>3. CASE AddClient
    <2>1. CASE Reserve
      BY <1>1, <2>1 DEF Reserve, ReserveGrow, ReserveClamp, ReserveLoadPos,
         ReserveStorePos, ReserveTest, ReserveLoadActive, ReserveStoreActive,
         ReserveLoadBack, ReserveStoreBack, GrowMaxSize, ClampMaxSize, LoadPos, StorePos,
         LoadActive, StoreActive, AddStep, AfterReserve, listVars
    <2>2. CASE ~Reserve
      <3>1. m_activeSensors' = m_activeSensors
        BY <1>3, <2>2 DEF AddClient, AddAlone, HandshakeFails, RecvAcknowledge, SendRenew,
           RecvRenewed, GetNextLocalID, StopLastClient, TakeOver, BindRegister,
           WriteRegister, AddRegister, PushRegister, AdmitStranger, Reject, listVars
      <3>2. addPc' # "storeActive"
        BY <1>3, <2>2 DEF AddClient, AddAlone, HandshakeFails, RecvAcknowledge, SendRenew,
           RecvRenewed, LookUp, GetNextLocalID, StopLastClient, TakeOver, BindRegister,
           WriteRegister, AddRegister, PushRegister, AdmitStranger, Reject, AddStep, ResetLocals
      <3> QED BY <1>1, <3>1, <3>2
    <2> QED BY <2>1, <2>2
  <1>4. ASSUME NEW c \in Clients, WriteMeasure(c)
        PROVE  m_activeSensors' = m_activeSensors /\ reg' = reg /\ addPc' = addPc
    BY <1>4 DEF WriteMeasure, ClientMeasures, AppendMeasure, localVars
  <1>6. ASSUME NEW id \in 1 .. MaxRemoteID, AlarmRegisters(id)
        PROVE  m_activeSensors' = m_activeSensors /\ reg' = reg /\ addPc' = addPc
    BY <1>6 DEF AlarmRegisters, listVars, localVars
  <1>5. ASSUME NEW c \in Clients, Callback(c)
        PROVE  FALSE
    BY <1>5 DEF Callback, CheckReplaced, FreeLoad, FreeStore, FreeSlot, ClientEnds,
       SensorsInv, RegistersInv, NoDeparture
  <1> QED BY <1>1, <1>2, <1>3, <1>4, <1>5, <1>6 DEF Sensors

LEMMA CounterStep ==
    ASSUME SensorsInv, TCPInv, SensorsInv', CounterInv, [RequestNext]_decisionVars
    PROVE  CounterInv'
  <1> SUFFICES ASSUME NoDeparture' PROVE CounterInv'
    BY DEF CounterInv
  <1>1. CASE Sensors \/ \E c \in Clients : WriteMeasure(c)
    <2>1. NoDeparture
      BY <1>1, DeparturesLast
    <2>2. requestPc' = requestPc
      BY <1>1 DEF Sensors, WriteMeasure, requestVars
    <2>3. m_activeSensors \in Int /\ m_activeSensors' \in Int
      BY DEF SensorsInv, SensorsTypeOK, ListTypeOK
    <2> QED BY <1>1, <2>1, <2>2, <2>3, CounterOfSensors DEF CounterInv
  <1>2. CASE Tick \/ (\E c \in Clients : ReadClock(c)) \/ UNCHANGED decisionVars
    BY <1>2 DEF Tick, ReadClock, decisionVars, requestVars, vars, tcpVars, clientVars,
       listVars, localVars, CounterInv, NoDeparture
  <1>3. CASE Request
    <2>1. /\ thread' = thread /\ m_activeSensors' = m_activeSensors
          /\ reg' = reg /\ addPc' = addPc
      BY <1>3 DEF Request, RequestWakes, RequestTotal, RequestScans, RequestScanned,
         RequestFirst, RequestSecond, RequestAlerts, vars, tcpVars, clientVars, listVars,
         localVars
    <2>2. NoDeparture
      BY <2>1 DEF NoDeparture
    <2>3. /\ requestPc' = "second" => m_activeSensors # 0
          /\ requestPc' # "crashed"
      BY <1>3, <2>2 DEF Request, RequestWakes, RequestTotal, RequestScans, RequestScanned,
         RequestFirst, RequestSecond, RequestAlerts, RequestStep, CounterInv
    <2> QED BY <2>1, <2>2, <2>3 DEF CounterInv
  <1> QED BY <1>1, <1>2, <1>3 DEF RequestNext

\* The server is ended by the division by zero of RequestAlarm::run only after
\* a sensor has begun to leave, however many come while it decides.
THEOREM NoCrashWithoutDeparture == RequestSpec => []CrashNeedsDeparture
  <1>1. RequestSpec => [](SensorsInv /\ TCPInv)
    BY RequestImplementsSensors, SensorsInvariant, PTL
  <1>2. RequestInit => CounterInv
    BY DEF RequestInit, SensorsInit, ListInit, CounterInv
  <1>3. SensorsInv /\ TCPInv /\ SensorsInv' /\ CounterInv /\ [RequestNext]_decisionVars
          => CounterInv'
    BY CounterStep
  <1>4. CounterInv => CrashNeedsDeparture
    BY DEF CounterInv, NoDeparture, CrashNeedsDeparture
  <1> QED BY <1>1, <1>2, <1>3, <1>4, PTL DEF RequestSpec

-----------------------------------------------------------------------------
(* The length of the scan. *)

\* m_maxSize never shrinks, but for the clamp.
LEMMA SizeOfSensors ==
    ASSUME SensorsInv, Sensors \/ \E c \in Clients : WriteMeasure(c)
    PROVE  m_maxSize' >= m_maxSize \/ m_maxSize' >= MAX_SIZE_SENSORS
  <1>1. m_maxSize \in Nat /\ MAX_SIZE_SENSORS \in Nat
    BY ListSensorsAssumption DEF SensorsInv, SensorsTypeOK, ListTypeOK
  <1>2. CASE Inherited
    BY <1>1, <1>2 DEF Inherited, listVars
  <1>3. CASE AddClient
    <2>1. CASE Reserve
      <3>1. CASE ReserveGrow
        <4>1. m_maxSize' = m_maxSize + 1
          BY <3>1 DEF ReserveGrow, GrowMaxSize
        <4> QED BY <1>1, <4>1
      <3>2. CASE ReserveClamp
        <4>1. m_maxSize' = m_maxSize \/ m_maxSize' = MAX_SIZE_SENSORS
          BY <3>2 DEF ReserveClamp, ClampMaxSize
        <4> QED BY <1>1, <4>1
      <3>3. CASE ReserveLoadPos \/ ReserveStorePos \/ ReserveTest \/ ReserveLoadActive
                 \/ ReserveStoreActive \/ ReserveLoadBack \/ ReserveStoreBack
        <4>1. m_maxSize' = m_maxSize
          BY <3>3 DEF ReserveLoadPos, ReserveStorePos, ReserveTest, ReserveLoadActive,
             ReserveStoreActive, ReserveLoadBack, ReserveStoreBack, LoadPos, StorePos,
             LoadActive, StoreActive, listVars
        <4> QED BY <1>1, <4>1
      <3> QED BY <2>1, <3>1, <3>2, <3>3 DEF Reserve
    <2>2. CASE ~Reserve
      BY <1>1, <1>3, <2>2 DEF AddClient, AddAlone, GetNextLocalID, StopLastClient, TakeOver,
         BindRegister, WriteRegister, AddRegister, PushRegister, AdmitStranger, Reject, HandshakeFails, RecvAcknowledge, SendRenew,
         RecvRenewed, listVars
    <2> QED BY <2>1, <2>2
  <1>4. ASSUME NEW c \in Clients, WriteMeasure(c) \/ Callback(c)
        PROVE  m_maxSize' = m_maxSize
    BY <1>4 DEF WriteMeasure, ClientMeasures, AppendMeasure, Callback, CheckReplaced,
       FreeLoad, FreeStore, FreeSlot, LoadActive, StoreActive, FreePos, listVars
  <1>5. ASSUME NEW id \in 1 .. MaxRemoteID, AlarmRegisters(id)
        PROVE  m_maxSize' = m_maxSize
    BY <1>5 DEF AlarmRegisters, listVars
  <1> QED BY <1>1, <1>2, <1>3, <1>4, <1>5 DEF Sensors

\* The list is at least as long as the loop, or full.
LengthInv ==
    /\ totalSensors \in 0 .. MAX_SIZE_SENSORS + 1
    /\ totalSensors <= m_maxSize \/ m_maxSize >= MAX_SIZE_SENSORS

LEMMA LengthStep ==
    ASSUME SensorsInv, SensorsInv', LengthInv, [RequestNext]_decisionVars
    PROVE  LengthInv'
  <1>1. m_maxSize \in 0 .. MAX_SIZE_SENSORS + 1 /\ m_maxSize' \in Nat /\ MAX_SIZE_SENSORS \in Nat
    BY ListSensorsAssumption DEF SensorsInv, SensorsTypeOK, ListTypeOK
  <1>2. CASE Sensors \/ \E c \in Clients : WriteMeasure(c)
    <2>1. totalSensors' = totalSensors
      BY <1>2 DEF Sensors, WriteMeasure, requestVars
    <2> QED BY <1>1, <1>2, <2>1, SizeOfSensors DEF LengthInv
  <1>3. CASE RequestWakes \/ RequestTotal
    BY <1>1, <1>3 DEF LengthInv, RequestWakes, RequestTotal, vars, listVars
  <1>4. CASE Tick \/ (\E c \in Clients : ReadClock(c)) \/ RequestScans \/ RequestScanned \/ RequestFirst \/ RequestSecond
             \/ RequestAlerts \/ UNCHANGED decisionVars
    BY <1>4 DEF LengthInv, Tick, ReadClock, RequestScans, RequestScanned, RequestFirst, RequestSecond,
       RequestAlerts, decisionVars, requestVars, vars, listVars
  <1> QED BY <1>2, <1>3, <1>4 DEF RequestNext, Request

\* The unlocked read of m_maxSize lets the loop pass the end of the array, by
\* one position and only once the list is full.
THEOREM OverrunsNeedFullList == RequestSpec => []OverrunNeedsFullList
  <1>1. RequestSpec => [](SensorsInv /\ TCPInv)
    BY RequestImplementsSensors, SensorsInvariant, PTL
  <1>2. RequestInit => LengthInv
    BY ListSensorsAssumption DEF RequestInit, SensorsInit, ListInit, LengthInv
  <1>3. SensorsInv /\ SensorsInv' /\ LengthInv /\ [RequestNext]_decisionVars => LengthInv'
    BY LengthStep
  <1>4. SensorsInv /\ LengthInv => OverrunNeedsFullList
    <2> SUFFICES ASSUME SensorsInv, LengthInv, totalSensors > MAX_SIZE_SENSORS
                 PROVE  totalSensors = MAX_SIZE_SENSORS + 1 /\ m_maxSize >= MAX_SIZE_SENSORS
      BY DEF OverrunNeedsFullList
    <2>1. m_maxSize \in Nat /\ MAX_SIZE_SENSORS \in Nat
      BY ListSensorsAssumption DEF SensorsInv, SensorsTypeOK, ListTypeOK
    <2> QED BY <2>1 DEF LengthInv
  <1> QED BY <1>1, <1>2, <1>3, <1>4, PTL DEF RequestSpec

-----------------------------------------------------------------------------
(* No report is overlooked. *)

\* The reports that no older measurement replaced, and those scanned so far.
Kept == reports \ overtaken
KeptSeen == {p \in Kept : p < scanned}

\* The twin of RequestInv: no fewer counted than had to.
SilenceInv ==
    /\ requestPc # "sleep" => Kept \subseteq RecentAt(timestamp)
    /\ Deciding =>
          /\ \A p \in Kept : p < totalSensors
          /\ now < WORD \div 2 => Cardinality(KeptSeen) <= validSensors
          /\ requestPc # "scan" => scanned = totalSensors

\* In the lower half of the clock, a recent measurement counts, one that was
\* received after the decision began included.
LEMMA RecentCounts ==
    ASSUME NEW p \in RecentAt(timestamp), timestamp \in 0 .. now, m_queue[p] \in 0 .. now,
           now \in Nat, now < WORD \div 2
    PROVE  Counts(p)
  <1>1. timestamp - m_queue[p] < RECENT
    BY DEF RecentAt
  <1>2. Long(timestamp) = timestamp /\ Long(m_queue[p]) = m_queue[p]
    BY RequestAlarmAssumption, LongOfSmall
  <1>3. Long(timestamp - m_queue[p]) = timestamp - m_queue[p]
    <2>1. CASE timestamp >= m_queue[p]
      <3>1. timestamp - m_queue[p] \in Nat /\ timestamp - m_queue[p] < WORD \div 2
        BY <2>1, RequestAlarmAssumption
      <3> QED BY <3>1, LongOfSmall
    <2>2. CASE timestamp < m_queue[p]
      <3>1. /\ timestamp - m_queue[p] \in Int /\ timestamp - m_queue[p] < 0
            /\ -(WORD \div 2) <= timestamp - m_queue[p]
        BY <2>2, RequestAlarmAssumption
      <3> QED BY <3>1, LongOfNegative
    <2> QED BY <2>1, <2>2
  <1> QED BY <1>1, <1>2, <1>3 DEF Counts

LEMMA KeptPositions ==
    ASSUME SilenceInv, requestPc # "sleep"
    PROVE  Kept \subseteq Positions /\ KeptSeen \subseteq Positions
  BY DEF SilenceInv, RecentAt, KeptSeen

\* A sensor takes nothing out of the reports but what it overtakes.
LEMMA SilenceMeasures ==
    ASSUME RequestInv, SensorsInv, SilenceInv, NEW c \in Clients, WriteMeasure(c)
    PROVE  SilenceInv'
  <1>1. /\ UNCHANGED <<requestPc, timestamp, totalSensors, scanned, validSensors, now, reports>>
        /\ requestPc # "sleep" =>
              overtaken' = overtaken \cup {p \in Positions : m_queue'[p] < m_queue[p]}
    BY DEF WriteMeasure, requestVars
  <1> SUFFICES ASSUME requestPc # "sleep" PROVE SilenceInv'
    BY <1>1 DEF SilenceInv, Deciding
  <1>2. /\ BASE \in Nat /\ RECENT \in Nat /\ BASE > 0 /\ NoMeasure = 0 /\ timestamp \in Nat
        /\ \A p \in Positions : m_queue[p] \in Nat
    BY RequestAlarmAssumption DEF RequestInv, NowInv
  <1>3. Kept' \subseteq Kept /\ Kept \subseteq RecentAt(timestamp)
    BY <1>1 DEF Kept, SilenceInv
  <1>4. ASSUME NEW p \in Kept'
        PROVE  p \in RecentAt(timestamp)'
    <2>1. p \in Positions /\ m_queue[p] # NoMeasure /\ timestamp - m_queue[p] < RECENT
      BY <1>3, <1>4 DEF RecentAt
    <2>2. ~(m_queue'[p] < m_queue[p])
      BY <1>1, <1>4, <2>1 DEF Kept
    <2>3. m_queue'[p] \in 0 .. now /\ m_queue[p] \in Nat /\ m_queue'[p] >= m_queue[p]
      BY <1>2, <2>1, <2>2, MeasureKeepsSeen
    <2>4. now \in Nat
      BY RequestAlarmAssumption DEF RequestInv, NowInv
    <2>5. m_queue'[p] # NoMeasure /\ timestamp - m_queue'[p] < RECENT
      BY <1>2, <2>1, <2>3, <2>4
    <2> QED BY <1>1, <2>1, <2>5 DEF RecentAt
  <1>5. /\ KeptSeen' \subseteq KeptSeen /\ KeptSeen \subseteq Positions
        /\ KeptSeen' \subseteq Positions
    BY <1>1, <1>3, KeptPositions DEF KeptSeen
  <1>6. /\ Cardinality(KeptSeen') <= Cardinality(KeptSeen)
        /\ Cardinality(KeptSeen') \in Nat /\ Cardinality(KeptSeen) \in Nat
        /\ validSensors \in Nat
    BY <1>5, SeenGrows, SetsOfPositionsFinite DEF RequestInv
  <1>7. Deciding /\ now < WORD \div 2 => Cardinality(KeptSeen') <= validSensors
    BY <1>6 DEF SilenceInv
  <1> QED BY <1>1, <1>3, <1>4, <1>7 DEF SilenceInv, Deciding

\* The clock and the sensors that measure nothing leave all of it as it was.
LEMMA SilenceIdle ==
    ASSUME RequestInv, SilenceInv, m_queue' = m_queue, NowInv', now' >= now,
           UNCHANGED <<requestVars, historyVars>>
    PROVE  SilenceInv'
  <1>1. now \in Nat /\ now' \in Nat
    BY RequestAlarmAssumption DEF RequestInv, NowInv
  <1>2. /\ UNCHANGED <<requestPc, timestamp, totalSensors, scanned, validSensors>>
        /\ UNCHANGED <<reports, overtaken>>
    BY DEF requestVars, historyVars
  <1>3. /\ Kept' = Kept /\ KeptSeen' = KeptSeen
        /\ RecentAt(timestamp)' = RecentAt(timestamp)
    BY <1>2 DEF Kept, KeptSeen, RecentAt
  <1>4. now' < WORD \div 2 => now < WORD \div 2
    BY <1>1, RequestAlarmAssumption
  <1> QED BY <1>2, <1>3, <1>4 DEF SilenceInv, Deciding

LEMMA SilenceScans ==
    ASSUME RequestInv, SensorsInv, SilenceInv, RequestScans
    PROVE  SilenceInv'
  <1>1. /\ requestPc = "scan" /\ requestPc' = "scan" /\ scanned' = scanned + 1
        /\ scanned < totalSensors
        /\ UNCHANGED <<timestamp, totalSensors, m_queue, now, reports, overtaken>>
    BY DEF RequestScans, vars, listVars, historyVars
  <1>2. /\ scanned \in Nat /\ validSensors \in Nat /\ timestamp \in 0 .. now /\ now \in Nat
        /\ \A p \in Positions : m_queue[p] \in 0 .. now
    BY RequestAlarmAssumption DEF RequestInv, NowInv
  <1>3. /\ Kept' = Kept /\ RecentAt(timestamp)' = RecentAt(timestamp)
        /\ Kept \subseteq RecentAt(timestamp) /\ Kept \subseteq Positions
    BY <1>1, KeptPositions DEF Kept, RecentAt, SilenceInv
  <1>4. PICK counts \in BOOLEAN :
          /\ scanned \in Positions => counts = Counts(scanned)
          /\ validSensors' = IF counts THEN validSensors + 1 ELSE validSensors
    BY DEF RequestScans
  <1>5. /\ KeptSeen \subseteq Positions /\ KeptSeen' \subseteq Positions
        /\ KeptSeen' \subseteq KeptSeen \cup {scanned} /\ scanned \notin KeptSeen
        /\ KeptSeen' # KeptSeen => scanned \in Kept
    <2>1. \A p \in Positions : p < scanned + 1 <=> p < scanned \/ p = scanned
      BY <1>2 DEF Positions
    <2>2. ~(scanned < scanned)
      BY <1>2
    <2> QED BY <1>1, <1>3, <2>1, <2>2 DEF KeptSeen
  <1>6. now < WORD \div 2 => Cardinality(KeptSeen') <= validSensors'
    <2> SUFFICES ASSUME now < WORD \div 2
                 PROVE  Cardinality(KeptSeen') <= validSensors'
      OBVIOUS
    <2>1. /\ Cardinality(KeptSeen) <= validSensors /\ IsFiniteSet(KeptSeen)
          /\ Cardinality(KeptSeen) \in Nat
      BY <1>1, <1>5, SetsOfPositionsFinite DEF SilenceInv, Deciding
    <2>2. CASE KeptSeen' = KeptSeen
      BY <1>2, <1>4, <2>1, <2>2
    <2>3. CASE KeptSeen' # KeptSeen
      <3>1. scanned \in RecentAt(timestamp) /\ scanned \in Positions
        BY <1>3, <1>5, <2>3
      <3>2. Counts(scanned)
        BY <1>2, <3>1, RecentCounts
      <3>3. validSensors' = validSensors + 1
        BY <1>4, <3>1, <3>2
      <3>4. Cardinality(KeptSeen \cup {scanned}) = Cardinality(KeptSeen) + 1
        BY <1>5, <2>1, FS_AddElement
      <3>5. Cardinality(KeptSeen') <= Cardinality(KeptSeen \cup {scanned})
        BY <1>5, <3>1, SeenGrows
      <3>6. Cardinality(KeptSeen') \in Nat
        BY <1>5, SetsOfPositionsFinite
      <3> QED BY <1>2, <2>1, <3>3, <3>4, <3>5, <3>6
    <2> QED BY <2>2, <2>3
  <1> QED BY <1>1, <1>3, <1>6 DEF SilenceInv, Deciding

LEMMA SilenceRequest ==
    ASSUME RequestInv, SensorsInv, SilenceInv, Request, ~RequestScans
    PROVE  SilenceInv'
  <1>1. m_queue' = m_queue /\ now' = now
    BY RequestKeeps DEF vars, listVars
  <1>2. CASE RequestWakes
    <2>1. requestPc' = "total" /\ timestamp' = now /\ reports' = RecentAt(now)
      BY <1>2 DEF RequestWakes, RequestStep
    <2>2. reports' = RecentAt(timestamp)'
      BY <1>1, <2>1 DEF RecentAt
    <2> QED BY <2>1, <2>2 DEF SilenceInv, Deciding, Kept
  <1>3. CASE RequestTotal
    <2>1. /\ requestPc = "total" /\ requestPc' \in {"scan", "sleep"}
          /\ totalSensors' = m_maxSize /\ timestamp' = timestamp
          /\ scanned' = scanned /\ validSensors' = validSensors
          /\ requestPc' = "scan" => reports' = reports /\ overtaken' = overtaken
      BY <1>3 DEF RequestTotal, RequestStep
    <2>2. /\ requestPc' = "scan" => Kept' = Kept
          /\ RecentAt(timestamp)' = RecentAt(timestamp)
          /\ Kept \subseteq RecentAt(timestamp) /\ Kept \subseteq Positions
      BY <1>1, <2>1, KeptPositions DEF RecentAt, Kept, SilenceInv
    <2>3. \A p \in Kept : p < m_maxSize
      BY <2>2 DEF RecentAt, SensorsInv, ScanCoversMeasures
    <2>4. requestPc' = "scan" => KeptSeen' = {}
      <3>1. scanned = 0
        BY <2>1 DEF RequestInv
      <3>2. \A p \in Positions : ~(p < 0)
        BY DEF Positions
      <3> QED BY <2>1, <2>2, <3>1, <3>2 DEF KeptSeen
    <2>5. (requestPc' = "scan" => Cardinality(KeptSeen') = 0) /\ validSensors \in Nat
      BY <2>4, FS_EmptySet DEF RequestInv
    <2> QED BY <2>1, <2>2, <2>3, <2>5 DEF SilenceInv, Deciding
  <1>4. CASE RequestScanned \/ RequestFirst \/ RequestSecond \/ RequestAlerts
    <2>1. /\ UNCHANGED <<timestamp, totalSensors, scanned, validSensors>>
          /\ Deciding /\ requestPc # "sleep"
          /\ requestPc' \in {"first", "second", "alert", "sleep", "crashed"}
          /\ Deciding' => scanned = totalSensors
          /\ requestPc' # "sleep" => reports' = reports /\ overtaken' = overtaken
      BY <1>4 DEF RequestScanned, RequestFirst, RequestSecond, RequestAlerts, RequestStep,
         Deciding, SilenceInv
    <2>2. RecentAt(timestamp)' = RecentAt(timestamp)
      BY <1>1, <2>1 DEF RecentAt
    <2>3. requestPc' # "sleep" => Kept' = Kept /\ KeptSeen' = KeptSeen
      BY <2>1, <2>2 DEF Kept, KeptSeen
    <2> QED BY <1>1, <2>1, <2>2, <2>3 DEF SilenceInv, Deciding
  <1> QED BY <1>2, <1>3, <1>4 DEF Request

LEMMA SilenceStep ==
    ASSUME RequestInv, SensorsInv, SilenceInv, [RequestNext]_decisionVars
    PROVE  SilenceInv'
  <1>1. NowInv' /\ now \in Nat
    BY NowStep, RequestAlarmAssumption DEF RequestInv, NowInv
  <1>2. CASE Tick
    BY <1>1, <1>2, SilenceIdle DEF Tick, vars, listVars
  <1>3. ASSUME NEW c \in Clients, ReadClock(c)
        PROVE  SilenceInv'
    BY <1>1, <1>3, SilenceIdle DEF ReadClock, vars, listVars
  <1>4. CASE Sensors
    BY <1>1, <1>4, SilenceIdle, QueueOfSensors DEF Sensors
  <1>5. CASE UNCHANGED decisionVars
    BY <1>1, <1>5, SilenceIdle DEF decisionVars, vars, listVars
  <1> QED BY <1>2, <1>3, <1>4, <1>5, SilenceMeasures, SilenceScans, SilenceRequest
          DEF RequestNext

\* One step, as SilenceIsJustified states it.
Justified ==
    requestPc \notin {"sleep", "alert"} /\ requestPc' = "sleep" /\ now < WORD \div 2 =>
        \/ m_activeSensors <= 0
        \/ Cardinality(reports \ overtaken) < m_activeSensors

LEMMA StepIsJustified ==
    ASSUME RequestInv, SensorsInv, SilenceInv, [RequestNext]_decisionVars
    PROVE  Justified
  <1> SUFFICES ASSUME requestPc \notin {"sleep", "alert"}, requestPc' = "sleep",
                      now < WORD \div 2, m_activeSensors > 0
               PROVE  Cardinality(Kept) < m_activeSensors
    BY DEF Justified, Kept, SensorsInv, SensorsTypeOK, ListTypeOK
  <1>1. m_activeSensors \in Int /\ validSensors \in Nat /\ m_maxSize \in Nat
    BY DEF SensorsInv, SensorsTypeOK, ListTypeOK, RequestInv
  <1>2. RequestTotal \/ RequestFirst \/ RequestSecond
    BY DEF RequestNext, Tick, ReadClock, WriteMeasure, Sensors, Request, RequestWakes,
       RequestScans, RequestScanned, RequestAlerts, RequestStep, decisionVars, requestVars
  <1>3. CASE RequestTotal
    <2>1. m_maxSize = 0
      BY <1>1, <1>3 DEF RequestTotal, RequestStep
    <2>2. \A p \in Kept : p < 0
      BY <2>1 DEF RecentAt, SilenceInv, SensorsInv, ScanCoversMeasures
    <2>3. Kept = {}
      BY <2>2, KeptPositions DEF Positions
    <2> QED BY <2>3, FS_EmptySet
  <1>4. CASE RequestFirst
    BY <1>4 DEF RequestFirst, RequestStep
  <1>5. CASE RequestSecond
    <2>1. requestPc = "second" /\ ~EnoughValid
      BY <1>5 DEF RequestSecond, RequestStep
    <2>2. validSensors < m_activeSensors
      BY <1>1, <2>1 DEF EnoughValid
    <2>3. KeptSeen = Kept
      BY <2>1 DEF SilenceInv, Deciding, KeptSeen
    <2>4. Cardinality(Kept) <= validSensors
      BY <2>1, <2>3 DEF SilenceInv, Deciding
    <2>5. Cardinality(Kept) \in Nat
      BY KeptPositions, SetsOfPositionsFinite
    <2> QED BY <1>1, <2>2, <2>4, <2>5
  <1> QED BY <1>2, <1>3, <1>4, <1>5

\* No measurement in the list is overlooked: when RequestAlarm::run goes back to
\* sleep without an alert, fewer positions had a recent one when it woke up than
\* the counter shows, not counting those that an older measurement took over,
\* for any number of sensors that come, measure and leave during the scan, also
\* between the reading of the clock and the write.  With AlertsHaveEvidence this
\* bounds the decision from both sides.
THEOREM SilencesAreJustified == RequestSpec => SilenceIsJustified
  <1>1. RequestSpec => [](SensorsInv /\ TCPInv)
    BY RequestImplementsSensors, SensorsInvariant, PTL
  <1>2. RequestInit => SilenceInv
    BY DEF RequestInit, SilenceInv, Deciding
  <1>3. RequestInv /\ SensorsInv /\ SilenceInv /\ [RequestNext]_decisionVars => SilenceInv'
    BY SilenceStep
  <1>4. RequestInv /\ SensorsInv /\ SilenceInv /\ [RequestNext]_decisionVars
          => [Justified]_decisionVars
    BY StepIsJustified
  <1>5. RequestSpec => [][Justified]_decisionVars
    BY <1>1, <1>2, <1>3, <1>4, RequestInvariant, PTL DEF RequestSpec
  <1>6. [][Justified]_decisionVars <=> SilenceIsJustified
    BY DEF Justified, SilenceIsJustified
  <1> QED BY <1>5, <1>6
=============================================================================
