---------------------------- MODULE ListSensors ----------------------------
(***************************************************************************)
(* ListSensors (server/ListSensors.cpp): the array of measurements and the *)
(* three integers that hand out its positions.  The class comment says     *)
(* "without concurrency support", yet the accept thread calls              *)
(* reserveSpaceNewSensor while connection threads call deleteSpaceSensor   *)
(* and appendMeassure, with no lock.  An operator below is therefore one   *)
(* access to shared memory: ++x and --x are a load into the calling        *)
(* thread's entry of "reg" and a store, and every other interleaving of    *)
(* the accesses is possible.  A build that keeps a value in a register     *)
(* between two source lines behaves as this one does when no other thread  *)
(* runs between the two accesses.                                          *)
(*                                                                         *)
(* The module has no specification of its own: ServerSensors composes it.  *)
(***************************************************************************)
EXTENDS Integers

CONSTANTS
    MAX_SIZE_SENSORS,   \* 10000 in the code
    NoMeasure           \* the value of a position never written

ASSUME ListSensorsAssumption == MAX_SIZE_SENSORS \in Nat \ {0}

VARIABLES
    m_nextPos,         \* position for the next sensor
    m_activeSensors,   \* amount of active sensors
    m_maxSize,         \* positions ever used
    m_queue,           \* the measurements
    reg                \* per thread, the value loaded by an unfinished ++ or --

listVars == <<m_nextPos, m_activeSensors, m_maxSize, m_queue, reg>>

Positions == 0 .. MAX_SIZE_SENSORS - 1

ListTypeOK(Threads, Measures) ==
    /\ m_nextPos \in -1 .. MAX_SIZE_SENSORS
    /\ m_activeSensors \in Int
    /\ m_maxSize \in 0 .. MAX_SIZE_SENSORS + 1
    /\ m_queue \in [Positions -> Measures \cup {NoMeasure}]
    /\ reg \in [Threads -> Int]

ListInit(Threads) ==
    /\ m_nextPos = 0
    /\ m_activeSensors = 0
    /\ m_maxSize = 0
    /\ m_queue = [p \in Positions |-> NoMeasure]
    /\ reg = [t \in Threads |-> 0]

LoadPos(t) ==
    /\ reg' = [reg EXCEPT ![t] = m_nextPos]
    /\ UNCHANGED <<m_nextPos, m_activeSensors, m_maxSize, m_queue>>

LoadActive(t) ==
    /\ reg' = [reg EXCEPT ![t] = m_activeSensors]
    /\ UNCHANGED <<m_nextPos, m_activeSensors, m_maxSize, m_queue>>

StorePos(t, d) ==
    /\ m_nextPos' = reg[t] + d
    /\ reg' = [reg EXCEPT ![t] = 0]
    /\ UNCHANGED <<m_activeSensors, m_maxSize, m_queue>>

StoreActive(t, d) ==
    /\ m_activeSensors' = reg[t] + d
    /\ reg' = [reg EXCEPT ![t] = 0]
    /\ UNCHANGED <<m_nextPos, m_maxSize, m_queue>>

\* reserveSpaceNewSensor: ++m_maxSize, which only the accept thread writes,
\* and the clamp; between the two another thread may read the larger value.
GrowMaxSize ==
    /\ m_maxSize' = m_maxSize + 1
    /\ UNCHANGED <<m_nextPos, m_activeSensors, m_queue, reg>>

ClampMaxSize ==
    /\ m_maxSize' = IF m_maxSize < MAX_SIZE_SENSORS THEN m_maxSize ELSE MAX_SIZE_SENSORS
    /\ UNCHANGED <<m_nextPos, m_activeSensors, m_queue, reg>>

\* Mutated form of the next definition.
PosFitsAtLimit == m_nextPos <= MAX_SIZE_SENSORS

\* if (m_nextPos < MAX_SIZE_SENSORS)
PosFits == m_nextPos < MAX_SIZE_SENSORS

\* deleteSpaceSensor: m_nextPos = id, after --m_activeSensors.
FreePos(id) ==
    /\ m_nextPos' = id
    /\ UNCHANGED <<m_activeSensors, m_maxSize, m_queue, reg>>

\* appendMeassure.
AppendMeasure(id, data) ==
    /\ m_queue' = IF id >= 0 /\ id <= m_maxSize
                  THEN [m_queue EXCEPT ![id] = data]
                  ELSE m_queue
    /\ UNCHANGED <<m_nextPos, m_activeSensors, m_maxSize, reg>>
=============================================================================
