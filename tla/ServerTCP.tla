----------------------------- MODULE ServerTCP -----------------------------
(***************************************************************************)
(* The life of a TCP server and of its connections: ServerTCP::run and     *)
(* stop (utils/network/ServerTCP.cpp), the thread of each connection       *)
(* (ClientTCP::run, Runnable), and the main thread that starts the server  *)
(* and stops it on a key press.                                            *)
(*                                                                         *)
(* Three kinds of threads share the queue of connections:                  *)
(*   - the accept thread:  check -> accept -> adding -> start -> check ... *)
(*   - one thread for each connection that addClient returned:             *)
(*       run (loop head) -> recv -> run ... -> remove -> callback -> done  *)
(*   - the main thread:                                                    *)
(*       serving -> closing <-> pop -> popped, closing -> flag -> join     *)
(*                                                                         *)
(* addClient and remove_client_from_queue are virtual.  What an override   *)
(* adds while the accept thread is "adding", or while a connection thread  *)
(* is in its "callback", is left open here, except that it may stop other  *)
(* connections; ServerSensors extends this module with what the sensor     *)
(* server does there.                                                      *)
(*                                                                         *)
(* A packet is not modelled: one turn of ClientTCP::run either keeps the   *)
(* connection going or sets m_stop (count_error >= MAX_ERROR_COMM, which   *)
(* is where every closed socket ends).  stop() on a connection closes the  *)
(* socket (preStop) and sets m_stop; connection threads are detached, so   *)
(* it does not wait for them.                                              *)
(***************************************************************************)
EXTENDS ClientQueue

CONSTANTS
    Clients,        \* the connections, each accepted at most once (a bound)
    NoClient,       \* the null std::shared_ptr<ClientTCP>
    Main,           \* the main thread, as a waiter on the queue
    OperatorQuits   \* whether the operator may press Q

ASSUME ServerTCPAssumption ==
    /\ NoClient \notin Clients
    /\ Main \notin Clients
    /\ OperatorQuits \in BOOLEAN

VARIABLES
    serverPc,     \* where the accept thread is
    current,      \* the lpClient it is adding
    serverStop,   \* m_stop of the server
    thread,       \* where each connection's thread is
    m_stop,       \* m_stop of each connection
    mainPc,       \* where the main thread is
    popped        \* the lpClient close_all_clients holds

acceptVars == <<serverPc, current>>
clientVars == <<thread, m_stop>>
mainVars == <<mainPc, popped, serverStop>>
tcpVars == <<queueVars, acceptVars, clientVars, mainVars>>

ServerPcs == {"check", "accept", "adding", "start", "exit"}
ThreadPcs == {"none", "created", "run", "recv", "remove", "callback", "done"}
MainPcs == {"serving", "closing", "pop", "popped", "flag", "join", "done"}

TCPTypeOK ==
    /\ m_queueClients \in Seq(Clients)
    /\ waiting \subseteq Clients \cup {Main}
    /\ serverPc \in ServerPcs
    /\ current \in Clients \cup {NoClient}
    /\ serverStop \in BOOLEAN
    /\ thread \in [Clients -> ThreadPcs]
    /\ m_stop \in [Clients -> BOOLEAN]
    /\ mainPc \in MainPcs
    /\ popped \in Clients \cup {NoClient}

TCPInit ==
    /\ QueueInit
    /\ serverPc = "check"
    /\ current = NoClient
    /\ serverStop = FALSE
    /\ thread = [c \in Clients |-> "none"]
    /\ m_stop = [c \in Clients |-> FALSE]
    /\ mainPc = "serving"
    /\ popped = NoClient

-----------------------------------------------------------------------------
(* The accept thread. *)

\* Mutated form of RunLoop: while (!m_stop).
RunLoopForgetsClients ==
    /\ serverPc = "check"
    /\ serverPc' = IF serverStop THEN "exit" ELSE "accept"
    /\ UNCHANGED <<current, queueVars, clientVars, mainVars>>

\* while (!m_stop || exist_client())
RunLoop ==
    /\ serverPc = "check"
    /\ serverPc' = IF serverStop /\ m_queueClients = <<>> THEN "exit" ELSE "accept"
    /\ UNCHANGED <<current, queueVars, clientVars, mainVars>>

\* Mutated form of AcceptClient: the connection is not put in the queue.
AcceptClientUnqueued(c) ==
    /\ serverPc = "accept"
    /\ thread[c] = "none"
    /\ thread' = [thread EXCEPT ![c] = "created"]
    /\ current' = c
    /\ serverPc' = "adding"
    /\ UNCHANGED <<queueVars, m_stop, mainVars>>

\* accept() returned a socket; ServerTCP::addClient wraps it in a ClientTCP
\* and puts that in the queue before anything is known about the peer.
AcceptClient(c) ==
    /\ serverPc = "accept"
    /\ thread[c] = "none"
    /\ QueueAdd(c)
    /\ thread' = [thread EXCEPT ![c] = "created"]
    /\ current' = c
    /\ serverPc' = "adding"
    /\ UNCHANGED <<m_stop, mainVars>>

\* accept() failed: back to the loop condition.
AcceptFails ==
    /\ serverPc = "accept"
    /\ serverPc' = "check"
    /\ UNCHANGED <<current, queueVars, clientVars, mainVars>>

\* lpClient->stop() on a connection: close the socket, set m_stop, no join.
StopClient(c) == m_stop' = [m_stop EXCEPT ![c] = TRUE]

\* An override of addClient stops a connection that is already served.
AddStopsAnother(c) ==
    /\ serverPc = "adding"
    /\ thread[c] \notin {"none", "created"}
    /\ StopClient(c)
    /\ UNCHANGED <<thread, acceptVars, queueVars, mainVars>>

AddSucceeds ==
    /\ serverPc = "adding"
    /\ serverPc' = "start"
    /\ UNCHANGED <<current, queueVars, clientVars, mainVars>>

\* An override refuses the connection: stop() and return nullptr.  The
\* connection stays in the queue and its thread is never started.
AddFails ==
    /\ serverPc = "adding"
    /\ StopClient(current)
    /\ serverPc' = "check"
    /\ current' = NoClient
    /\ UNCHANGED <<thread, queueVars, mainVars>>

\* lpClient->start()
StartClient ==
    /\ serverPc = "start"
    /\ thread' = [thread EXCEPT ![current] = "run"]
    /\ serverPc' = "check"
    /\ current' = NoClient
    /\ UNCHANGED <<m_stop, queueVars, mainVars>>

-----------------------------------------------------------------------------
(* The thread of connection c: ClientTCP::run. *)

\* Mutated form of ClientLoop: a stopped connection goes on.
ClientLoopIgnoresStop(c) ==
    /\ thread[c] = "run"
    /\ thread' = [thread EXCEPT ![c] = "recv"]
    /\ UNCHANGED <<m_stop, acceptVars, queueVars, mainVars>>

\* while (!m_stop)
ClientLoop(c) ==
    /\ thread[c] = "run"
    /\ thread' = [thread EXCEPT ![c] = IF m_stop[c] THEN "remove" ELSE "recv"]
    /\ UNCHANGED <<m_stop, acceptVars, queueVars, mainVars>>

\* A packet was handled, or was the first or second error.
ClientReceive(c) ==
    /\ thread[c] = "recv"
    /\ thread' = [thread EXCEPT ![c] = "run"]
    /\ UNCHANGED <<m_stop, acceptVars, queueVars, mainVars>>

\* The MAX_ERROR_COMM-th error.
ClientGivesUp(c) ==
    /\ thread[c] = "recv"
    /\ thread' = [thread EXCEPT ![c] = "run"]
    /\ StopClient(c)
    /\ UNCHANGED <<acceptVars, queueVars, mainVars>>

\* m_closeClientFn: remove_client_from_queue waits on an empty queue ...
ClientWaits(c) ==
    /\ thread[c] = "remove"
    /\ QueueWait(c)
    /\ UNCHANGED <<clientVars, acceptVars, mainVars>>

\* ... and takes this connection out of one that is not.
ClientLeaves(c) ==
    /\ thread[c] = "remove"
    /\ QueueRemoveItem(c, c)
    /\ thread' = [thread EXCEPT ![c] = "callback"]
    /\ UNCHANGED <<m_stop, acceptVars, mainVars>>

\* The callback returned, and with it the thread function.
ClientEnds(c) ==
    /\ thread[c] = "callback"
    /\ thread' = [thread EXCEPT ![c] = "done"]
    /\ UNCHANGED <<m_stop, acceptVars, queueVars, mainVars>>

ClientStep(c) ==
    \/ ClientLoop(c)
    \/ ClientReceive(c)
    \/ ClientGivesUp(c)
    \/ ClientWaits(c)
    \/ ClientLeaves(c)

-----------------------------------------------------------------------------
(* The main thread: getchar() returned Q, then ServerTCP::stop. *)

Quit ==
    /\ OperatorQuits
    /\ mainPc = "serving"
    /\ mainPc' = "closing"
    /\ UNCHANGED <<popped, serverStop, queueVars, acceptVars, clientVars>>

\* while (exist_client())
CloseAllLoop ==
    /\ mainPc = "closing"
    /\ mainPc' = IF m_queueClients = <<>> THEN "flag" ELSE "pop"
    /\ UNCHANGED <<popped, serverStop, queueVars, acceptVars, clientVars>>

\* m_queueClients.remove() waits if the queue emptied after the check ...
CloseAllWaits ==
    /\ mainPc = "pop"
    /\ QueueWait(Main)
    /\ UNCHANGED <<mainVars, acceptVars, clientVars>>

\* ... and takes the back otherwise.
CloseAllPops ==
    /\ mainPc = "pop"
    /\ QueueRemove(Main)
    /\ popped' = QueueItemToRemove
    /\ mainPc' = "popped"
    /\ UNCHANGED <<serverStop, acceptVars, clientVars>>

\* Mutated form of CloseAllStops: the connection is dropped, not stopped.
CloseAllDrops ==
    /\ mainPc = "popped"
    /\ popped' = NoClient
    /\ mainPc' = "closing"
    /\ UNCHANGED <<clientVars, serverStop, queueVars, acceptVars>>

CloseAllStops ==
    /\ mainPc = "popped"
    /\ StopClient(popped)
    /\ popped' = NoClient
    /\ mainPc' = "closing"
    /\ UNCHANGED <<thread, serverStop, queueVars, acceptVars>>

\* Runnable::stop: m_stop = true ...
SetServerStop ==
    /\ mainPc = "flag"
    /\ serverStop' = TRUE
    /\ mainPc' = "join"
    /\ UNCHANGED <<popped, queueVars, acceptVars, clientVars>>

\* ... and m_thread.join().
JoinServer ==
    /\ mainPc = "join"
    /\ serverPc = "exit"
    /\ mainPc' = "done"
    /\ UNCHANGED <<popped, serverStop, queueVars, acceptVars, clientVars>>

MainStep ==
    \/ CloseAllLoop
    \/ CloseAllWaits
    \/ CloseAllPops
    \/ CloseAllStops
    \/ SetServerStop
    \/ JoinServer

\* A spurious wakeup of the condition variable.
Wakeup ==
    /\ \E t \in waiting : SpuriousWakeup(t)
    /\ UNCHANGED <<acceptVars, clientVars, mainVars>>

-----------------------------------------------------------------------------
TCPNext ==
    \/ RunLoop
    \/ \E c \in Clients : AcceptClient(c)
    \/ AcceptFails
    \/ \E c \in Clients : AddStopsAnother(c)
    \/ AddSucceeds
    \/ AddFails
    \/ StartClient
    \/ \E c \in Clients : ClientStep(c) \/ ClientEnds(c)
    \/ Quit
    \/ MainStep
    \/ Wakeup

TCPSpec == TCPInit /\ [][TCPNext]_tcpVars

\* The main thread stopped the connection that is being added.
CurrentStopped == \E c \in Clients : c = current /\ m_stop[c]

\* Fairness.  A runnable thread is eventually scheduled.  Nothing is assumed
\* of the network: accept() may block for ever, and so may recv(), in
\* addClient or in ClientTCP::run, on a connection nobody closed; stop()
\* closes the socket, after which recv() returns.  Nothing is assumed of the
\* operator, nor of spurious wakeups.
TCPFairness ==
    /\ WF_tcpVars(RunLoop)
    /\ WF_tcpVars(CurrentStopped /\ (AddSucceeds \/ AddFails))
    /\ WF_tcpVars(StartClient)
    /\ \A c \in Clients :
          /\ WF_tcpVars(ClientLoop(c))
          /\ WF_tcpVars(m_stop[c] /\ (ClientReceive(c) \/ ClientGivesUp(c)))
          /\ WF_tcpVars(ClientWaits(c) \/ ClientLeaves(c))
          /\ WF_tcpVars(ClientEnds(c))
    /\ WF_tcpVars(MainStep)

TCPFairSpec == TCPSpec /\ TCPFairness

-----------------------------------------------------------------------------
(* Safety. *)

\* As long as the operator has not asked to stop, no thread ever blocks in
\* the queue: a connection's thread calls remove(lpClient) only while the
\* connection is still in the vector, although other threads come and go
\* between the end of its loop and the call (Queue.h:92, ClientTCP.cpp:169).
NoWaitBeforeQuit == mainPc = "serving" => waiting = {}

\* A connection whose thread has got past remove(lpClient) is not in the
\* queue any more: neither an alert nor close_all_clients can pick it.
FinishedClientsLeftQueue ==
    \A c \in Clients : thread[c] \in {"callback", "done"} => ~Queued(c)

\* A connection that nobody has stopped can be reached by the two loops that
\* have to reach all of them, close_all_clients and the alert broadcast: it
\* is in the queue, or the main thread has just taken it out to stop it.
LiveClientsReachable ==
    \A c \in Clients :
        thread[c] \in {"created", "run", "recv"} /\ ~m_stop[c]
            => Queued(c) \/ popped = c

\* When the accept thread returns from run(), the main thread is waiting for
\* it, the queue is empty, and every connection still being served has been
\* stopped: stop() leaves none behind, also none that was accepted between
\* close_all_clients and the flag (ServerTCP.cpp:35, 68-73).
ServerExitsLast ==
    serverPc = "exit" =>
        /\ mainPc \in {"join", "done"}
        /\ m_queueClients = <<>>
        /\ \A c \in Clients : thread[c] \in {"run", "recv"} => m_stop[c]

(* The inductive invariant behind the four: which threads have a            *)
(* connection, and when it is in the queue.                                *)

AcceptThreadInv ==
    /\ serverPc \in {"adding", "start"} <=> current # NoClient
    /\ \A c \in Clients : current = c => thread[c] = "created"

MainThreadInv ==
    /\ mainPc = "popped" <=> popped # NoClient
    /\ serverStop <=> mainPc \in {"join", "done"}

QueueInv ==
    /\ IsInjective(m_queueClients)
    /\ \A c \in Clients : Queued(c) => thread[c] \in {"created", "run", "recv", "remove"}
    /\ mainPc = "serving" =>
         \A c \in Clients : thread[c] \in {"created", "run", "recv", "remove"} => Queued(c)

\* Everything that the proofs of the safety properties rest on.
TCPInv ==
    /\ TCPTypeOK
    /\ AcceptThreadInv
    /\ MainThreadInv
    /\ QueueInv
    /\ NoWaitBeforeQuit
    /\ LiveClientsReachable
    /\ ServerExitsLast

(* Liveness. *)

\* A connection that was stopped, by itself or by another thread, leaves the
\* queue and its thread ends, unless the operator asks to stop the server.
StoppedClientEnds ==
    \A c \in Clients :
        (thread[c] \in {"run", "recv"} /\ m_stop[c])
            ~> (thread[c] = "done" \/ mainPc # "serving")

-----------------------------------------------------------------------------
(* What a comment of the code says and the code does not do: a run of its  *)
(* own refutes it.                                                         *)

\* ServerTCP.h:65, "Close all active clients.": close_all_clients ends.
CloseAllEnds == (mainPc = "closing") ~> (mainPc = "flag")
=============================================================================
