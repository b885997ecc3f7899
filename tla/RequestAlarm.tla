---------------------------- MODULE RequestAlarm ----------------------------
(***************************************************************************)
(* The thread that decides whether there is an earthquake                  *)
(* (RequestAlarm::run, server/RequestAlarm.cpp): it scans the measurements *)
(* of the server of the sensors, which has no lock, while sensors come,    *)
(* measure and go.  What it does with an alert is ServerAlarm.             *)
(*                                                                         *)
(* A measurement is the time at which it was received, NoMeasure the 0 of  *)
(* a position never written; between the two, its thread holds it in       *)
(* "stamp".  Its confidence is the constant 1 in the code, and no decision *)
(* depends on its intensity.  The clock counts milliseconds in an unsigned *)
(* int, and every time is kept in a long, of 32 bits in Windows: here both *)
(* have WORD values.                                                       *)
(***************************************************************************)
EXTENDS ServerSensors

CONSTANTS
    WORD,              \* 2^32
    RECENT,            \* 5000: how old a measurement that counts may be
    BASE,              \* 10000: the first time the clock shows
    MaxTime            \* bound on the clock

ASSUME RequestAlarmAssumption ==
    /\ WORD \in Nat \ {0} /\ WORD % 2 = 0
    /\ {RECENT, BASE, MaxTime} \subseteq Nat \ {0}
    /\ RECENT <= BASE /\ BASE <= MaxTime
    /\ NoMeasure = 0 /\ Measures = BASE .. MaxTime

VARIABLES
    now,               \* the clock, had it no width
    stamp,             \* the time each connection has read and not written
    requestPc,         \* where run() is
    timestamp,         \* its locals
    totalSensors,
    scanned,           \* its i
    validSensors,
    reports,           \* history: the positions with a recent measurement
                       \* when the decision began ...
    overtaken          \* ... and those where an older one has replaced a
                       \* newer one since

requestVars == <<requestPc, timestamp, totalSensors, scanned, validSensors>>
historyVars == <<reports, overtaken>>
decisionVars == <<vars, now, stamp, requestVars, historyVars>>

RequestTypeOK ==
    /\ now \in BASE .. MaxTime
    /\ stamp \in [Clients -> 0 .. MaxTime]
    /\ reports \subseteq Positions /\ overtaken \subseteq Positions
    /\ requestPc \in {"sleep", "total", "scan", "first", "second", "alert", "crashed"}
    /\ timestamp \in 0 .. MaxTime
    /\ totalSensors \in 0 .. MAX_SIZE_SENSORS + 1
    /\ scanned \in 0 .. totalSensors
    /\ validSensors \in 0 .. scanned

RequestInit ==
    /\ SensorsInit
    /\ now = BASE
    /\ stamp = [c \in Clients |-> NoMeasure]
    /\ reports = {} /\ overtaken = {}
    /\ requestPc = "sleep"
    /\ timestamp = 0
    /\ totalSensors = 0
    /\ scanned = 0
    /\ validSensors = 0

-----------------------------------------------------------------------------
(* The clock and the sensors. *)

Tick ==
    /\ now < MaxTime
    /\ now' = now + 1
    /\ UNCHANGED <<vars, stamp, requestVars, historyVars>>

\* The value of an unsigned, or of a difference of longs, as a long.
Long(x) == IF x % WORD < WORD \div 2 THEN x % WORD ELSE (x % WORD) - WORD

\* process_packet, EARTHQUAKE: getCurrentSystemTime() ...
ReadClock(c) ==
    /\ thread[c] = "recv"
    /\ stamp[c] = NoMeasure
    /\ stamp' = [stamp EXCEPT ![c] = now]
    /\ UNCHANGED <<vars, now, requestVars, historyVars>>

\* ... and appendMeassure, without a lock.
WriteMeasure(c) ==
    /\ stamp[c] # NoMeasure
    /\ ClientMeasures(c, stamp[c])
    /\ stamp' = [stamp EXCEPT ![c] = NoMeasure]
    /\ overtaken' = IF requestPc = "sleep" THEN overtaken
                    ELSE overtaken \cup {p \in Positions : m_queue'[p] < m_queue[p]}
    /\ UNCHANGED <<now, requestVars, reports>>

\* Every other step of the server: a thread between the two steps above takes
\* none of them.
Sensors ==
    /\ \/ Inherited
       \/ AddClient
       \/ \E c \in Clients : Callback(c)
       \/ \E id \in 1 .. MaxRemoteID : AlarmRegisters(id)
    /\ \A c \in Clients : stamp[c] # NoMeasure => thread'[c] = thread[c]
    /\ UNCHANGED <<now, stamp, requestVars, historyVars>>

-----------------------------------------------------------------------------
(* RequestAlarm::run. *)

\* Received less than RECENT before time t.
RecentAt(t) == {p \in Positions : m_queue[p] # NoMeasure /\ t - m_queue[p] < RECENT}

RequestStep(from, to) ==
    /\ requestPc = from
    /\ requestPc' = to
    /\ reports' = IF from = "sleep" THEN RecentAt(now)
                  ELSE IF to = "sleep" THEN {} ELSE reports
    /\ overtaken' = IF to = "sleep" THEN {} ELSE overtaken

\* Mutated form of RequestWakes: the count is not set to zero.
RequestWakesCounting ==
    /\ RequestStep("sleep", "total")
    /\ timestamp' = now
    /\ totalSensors' = 0 /\ scanned' = 0
    /\ UNCHANGED <<validSensors, now, stamp, vars>>

\* sleep(500); timestamp = getCurrentSystemTime(); validSensors = 0
RequestWakes ==
    /\ RequestStep("sleep", "total")
    /\ timestamp' = now
    /\ totalSensors' = 0 /\ scanned' = 0 /\ validSensors' = 0
    /\ UNCHANGED <<now, stamp, vars>>

\* Mutated form of RequestTotal: the loop is as long as the counter says.
RequestTotalActive ==
    /\ RequestStep("total", IF m_activeSensors > 0 THEN "scan" ELSE "sleep")
    /\ totalSensors' = m_activeSensors
    /\ UNCHANGED <<timestamp, scanned, validSensors, now, stamp, vars>>

\* totalSensors = getCurrentTotalSensors()
RequestTotal ==
    /\ RequestStep("total", IF m_maxSize > 0 THEN "scan" ELSE "sleep")
    /\ totalSensors' = m_maxSize
    /\ UNCHANGED <<timestamp, scanned, validSensors, now, stamp, vars>>

\* (timestamp - listSensors[p].m_timestamp) < 5000
Counts(p) == Long(Long(timestamp) - Long(m_queue[p])) < RECENT

\* One turn of the loop; what lies after the array may count or not.
RequestScans ==
    /\ requestPc = "scan" /\ scanned < totalSensors
    /\ scanned' = scanned + 1
    /\ \E counts \in BOOLEAN :
          /\ scanned \in Positions => counts = Counts(scanned)
          /\ validSensors' = IF counts THEN validSensors + 1 ELSE validSensors
    /\ UNCHANGED <<requestPc, timestamp, totalSensors, now, stamp, vars, historyVars>>

RequestScanned ==
    /\ scanned = totalSensors
    /\ RequestStep("scan", "first")
    /\ UNCHANGED <<timestamp, totalSensors, scanned, validSensors, now, stamp, vars>>

\* Mutated form of RequestFirst: the counter is not compared with zero.
RequestFirstUnchecked ==
    /\ RequestStep("first", "second")
    /\ UNCHANGED <<timestamp, totalSensors, scanned, validSensors, now, stamp, vars>>

\* if (getActiveSensors() != 0 && ...
RequestFirst ==
    /\ RequestStep("first", IF m_activeSensors # 0 THEN "second" ELSE "sleep")
    /\ UNCHANGED <<timestamp, totalSensors, scanned, validSensors, now, stamp, vars>>

\* (validSensors / getActiveSensors()) > 0.5f: a division of integers.
EnoughValid == m_activeSensors > 0 /\ validSensors \div m_activeSensors >= 1

\* getActiveSensors() is called again: a division by zero ends the server.
RequestSecond ==
    /\ RequestStep("second", IF m_activeSensors = 0 THEN "crashed"
                             ELSE IF EnoughValid THEN "alert" ELSE "sleep")
    /\ UNCHANGED <<timestamp, totalSensors, scanned, validSensors, now, stamp, vars>>

RequestAlerts ==
    /\ RequestStep("alert", "sleep")
    /\ UNCHANGED <<timestamp, totalSensors, scanned, validSensors, now, stamp, vars>>

Request ==
    \/ RequestWakes
    \/ RequestTotal
    \/ RequestScans
    \/ RequestScanned
    \/ RequestFirst
    \/ RequestSecond
    \/ RequestAlerts

RequestNext ==
    /\ requestPc # "crashed"
    /\ \/ Tick
       \/ \E c \in Clients : ReadClock(c) \/ WriteMeasure(c)
       \/ Sensors
       \/ Request

RequestSpec == RequestInit /\ [][RequestNext]_decisionVars

-----------------------------------------------------------------------------
(* Properties. *)

\* The alert rests on as many measurements as were counted, and at least one,
\* that are less than RECENT old, or that were until a measurement with an
\* older time, whose thread had read the clock and not yet written, replaced
\* them in the position that two connections share; while the clock is below
\* 2^31 (24.8 days): from then on the time is a negative long, and the 0 of a
\* position that no sensor ever wrote counts as a measurement of that moment.
AlertHasEvidence ==
    requestPc = "alert" /\ timestamp < WORD \div 2 /\ totalSensors <= MAX_SIZE_SENSORS
        => /\ validSensors > 0
           /\ Cardinality(RecentAt(timestamp) \cup overtaken) >= validSensors

\* No measurement that is in the list when the decision begins is overlooked:
\* the thread goes back to sleep without an alert only if fewer positions had a
\* recent one than the counter shows when it ends, whatever is written,
\* reserved and freed during the scan (RequestAlarm.cpp:27-41), but for the
\* positions that an older measurement took over meanwhile; until the clock
\* reaches 2^31.  A measurement that was received, and not written, before the
\* decision began may be overlooked: it is not in the list.
SilenceIsJustified ==
    [][requestPc \notin {"sleep", "alert"} /\ requestPc' = "sleep" /\ now < WORD \div 2 =>
          \/ m_activeSensors <= 0
          \/ Cardinality(reports \ overtaken) < m_activeSensors]_decisionVars

\* The loop reads past the array only by one position, and only when every
\* position of the list has been reserved: the value that it must not see is
\* the one between ++m_maxSize and its clamp (ListSensors.cpp:32).
OverrunNeedsFullList ==
    totalSensors > MAX_SIZE_SENSORS =>
        totalSensors = MAX_SIZE_SENSORS + 1 /\ m_maxSize >= MAX_SIZE_SENSORS

\* The division by zero between the two reads of the counter needs a sensor
\* that is leaving, or has left: no arrival alone brings the counter to zero.
CrashNeedsDeparture ==
    requestPc = "crashed" =>
        \E c \in Clients : freePc[c] = "free" \/ thread[c] \in {"callback", "done"}
=============================================================================
