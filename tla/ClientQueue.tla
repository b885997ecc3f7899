---------------------------- MODULE ClientQueue ----------------------------
(***************************************************************************)
(* Queue<std::shared_ptr<ClientTCP>> (utils/Queue.h), the monitor that     *)
(* holds the connections of one TCP server.  Every method takes m_mutex    *)
(* for its whole body, so each method is one step; the one place where it  *)
(* gives the mutex up is m_condv.wait(lock), modelled by membership in     *)
(* "waiting".  A waiting thread takes no step until add() notifies it (or  *)
(* the condition variable wakes spuriously) and then runs the same method  *)
(* again, which is the code's "while (m_queue.size() == 0)".               *)
(*                                                                         *)
(* The module has no specification of its own: ServerTCP composes it.      *)
(***************************************************************************)
EXTENDS Integers, SequencesExt

VARIABLES
    m_queueClients,   \* the vector, oldest item first
    waiting           \* the threads blocked in m_condv.wait

queueVars == <<m_queueClients, waiting>>

QueueInit ==
    /\ m_queueClients = <<>>
    /\ waiting = {}

Queued(x) == Contains(m_queueClients, x)

\* notify_one wakes one waiting thread, any of them, if there is one.
NotifyOne ==
    IF waiting = {} THEN UNCHANGED waiting
                    ELSE \E t \in waiting : waiting' = waiting \ {t}

QueueAdd(x) ==
    /\ m_queueClients' = Append(m_queueClients, x)
    /\ NotifyOne

\* The wait of both remove methods: thread t blocks on the empty vector.
QueueWait(t) ==
    /\ t \notin waiting
    /\ m_queueClients = <<>>
    /\ waiting' = waiting \cup {t}
    /\ UNCHANGED m_queueClients

\* T remove(): takes the back of the vector.
QueueRemove(t) ==
    /\ t \notin waiting
    /\ m_queueClients # <<>>
    /\ m_queueClients' = Front(m_queueClients)
    /\ UNCHANGED waiting

QueueItemToRemove == Last(m_queueClients)

\* Mutated form of the next definition: erases the back of the vector
\* instead of what std::find found.
QueueRemoveItemTakesBack(t, x) ==
    /\ t \notin waiting
    /\ m_queueClients # <<>>
    /\ m_queueClients' = IF Queued(x) THEN Front(m_queueClients) ELSE m_queueClients
    /\ UNCHANGED waiting

\* std::shared_ptr<T> remove(T item): takes the item out wherever it is, or
\* leaves a vector that does not hold it alone (nullptr, which the only
\* caller ignores).
QueueRemoveItem(t, x) ==
    /\ t \notin waiting
    /\ m_queueClients # <<>>
    /\ IF Queued(x)
       THEN \E i \in DOMAIN m_queueClients :
              /\ m_queueClients[i] = x
              /\ \A j \in 1 .. (i - 1) : m_queueClients[j] # x
              /\ m_queueClients' = RemoveAt(m_queueClients, i)
       ELSE UNCHANGED m_queueClients
    /\ UNCHANGED waiting

\* A std::condition_variable may wake a waiting thread without a notify.
SpuriousWakeup(t) ==
    /\ t \in waiting
    /\ waiting' = waiting \ {t}
    /\ UNCHANGED m_queueClients
=============================================================================
