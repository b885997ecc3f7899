----------------------------- MODULE ClientTCP ------------------------------
(***************************************************************************)
(* A connection from accept() to its destructor (ClientTCP).  The accept   *)
(* thread greets its device and may renew its identification; then its own *)
(* thread receives, processes and answers, with its count of errors.  The  *)
(* two never overlap and are one thread here, that of the connection.      *)
(* Meanwhile it may be stopped by the main thread (close_all_clients) and  *)
(* by the accept thread, when its device comes back, and the thread of the *)
(* alerts sends on it.  What they do to the socket is TcpComm.             *)
(***************************************************************************)
EXTENDS TcpComm

CONSTANTS
    Main,
    Acceptor,
    Alerter,
    Alarms,           \* connections of the server of alarms: their devices
                      \* read what they are sent, those of the sensors do not
    MAX_ERROR_COMM

Stoppers == {Main, Acceptor}

ASSUME ClientTCPAssumption ==
    /\ Others = {Main, Acceptor, Alerter} /\ Alerter \notin {Main, Acceptor}
    /\ Alarms \subseteq Conns
    /\ MAX_ERROR_COMM \in Nat \ {0}

VARIABLES
    m_stop,
    count_error,
    stage,            \* how far the accept thread has come with it
    stopped,          \* history: the threads that called stop()
    deleted           \* the last shared_ptr is gone

clientVars == <<m_stop, count_error, stage, stopped, deleted>>
vars == <<osVars, socketVars, thread, object, historyVars, clientVars>>

ClientTypeOK ==
    /\ SocketTypeOK
    /\ m_stop \in [Conns -> BOOLEAN]
    /\ count_error \in [Conns -> 0 .. MAX_ERROR_COMM]
    /\ stage \in [Conns -> {"hello", "renew", "run", "refused"}]
    /\ stopped \in [Conns -> SUBSET Stoppers]
    /\ deleted \in [Conns -> BOOLEAN]

ClientInit ==
    /\ SocketInit
    /\ m_stop = [c \in Conns |-> FALSE]
    /\ count_error = [c \in Conns |-> 0]
    /\ stage = [c \in Conns |-> "hello"]
    /\ stopped = [c \in Conns |-> {}]
    /\ deleted = [c \in Conns |-> FALSE]

Exists(c) == thread[c].pc # "none" /\ ~deleted[c]

-----------------------------------------------------------------------------
(* The accept thread: addClient. *)

\* The accept thread is busy with c.
Greets(c) == thread[c].pc # "none" /\ stage[c] \in {"hello", "renew"}

\* accept() and the constructor; the connection is in the queue before it is
\* greeted with ACKNOWLEDGE_CLIENT.
Accept(c) ==
    /\ thread[c].pc = "none"
    /\ \A d \in Conns : ~Greets(d)
    /\ thread[Acceptor].pc = "idle"
    /\ \E h \in Handles :
          /\ Available(h)
          /\ holder' = [holder EXCEPT ![h] = c]
          /\ m_socket' = [m_socket EXCEPT ![c] = h]
    /\ peerThere' = [peerThere EXCEPT ![c] = TRUE]
    /\ GotoCheck(c, "loadSend")
    /\ UNCHANGED <<unread, m_bWasConnected, object, historyVars, clientVars>>

\* The answer is received whether or not the greeting could be sent, and
\* after RENEW_DEVICE_ID if it was.
AwaitAnswer(c) ==
    /\ Greets(c) /\ thread[c].pc = "count"
    /\ GotoCheck(c, "loadRecv")
    /\ UNCHANGED <<osVars, socketVars, object, historyVars, clientVars>>

\* The device has read what it answers.
AnswerRead(c) == unread' = [unread EXCEPT ![c] = IF @ > 0 THEN @ - 1 ELSE 0]

\* The device has no identification yet.
SendRenew(c) ==
    /\ stage[c] = "hello" /\ thread[c].pc = "process"
    /\ stage' = [stage EXCEPT ![c] = "renew"]
    /\ AnswerRead(c)
    /\ GotoCheck(c, "loadSend")
    /\ UNCHANGED <<holder, peerThere, socketVars, object, historyVars, m_stop, count_error,
                   stopped, deleted>>

\* addClient returns the connection, and start() makes its thread.
Admit(c) ==
    /\ Greets(c) /\ thread[c].pc = "process"
    /\ stage' = [stage EXCEPT ![c] = "run"]
    /\ AnswerRead(c)
    /\ Goto(c, "loop")
    /\ UNCHANGED <<holder, peerThere, socketVars, object, historyVars, m_stop, count_error,
                   stopped, deleted>>

\* No answer or the wrong one, no RENEW_DEVICE_ID sent, or no room: the
\* accept thread stops the connection, which stays in the queue.
Refuse(c) ==
    /\ \/ Greets(c) /\ thread[c].pc \in {"process", "failed"}
       \/ stage[c] = "renew" /\ thread[c].pc = "count"
    /\ stage' = [stage EXCEPT ![c] = "refused"]
    /\ GotoClose(c, "refused")
    /\ UNCHANGED <<osVars, socketVars, object, historyVars, m_stop, count_error, stopped,
                   deleted>>

Refused(c) ==
    /\ thread[c].pc = "refused"
    /\ m_stop' = [m_stop EXCEPT ![c] = TRUE]
    /\ Goto(c, "done")
    /\ UNCHANGED <<osVars, socketVars, object, historyVars, count_error, stage, stopped,
                   deleted>>

Greet(c) ==
    \/ AwaitAnswer(c)
    \/ SendRenew(c)
    \/ Admit(c)
    \/ Refuse(c)
    \/ Refused(c)

-----------------------------------------------------------------------------
(* The thread of the connection. *)

\* while (!m_stop)
RunLoop(c) ==
    /\ thread[c].pc = "loop"
    /\ IF m_stop[c] THEN Goto(c, "done") ELSE GotoCheck(c, "loadRecv")
    /\ UNCHANGED <<osVars, socketVars, object, historyVars, clientVars>>

\* Mutated form of RunFailed: only packets count.
RunFailedUncounted(c) ==
    /\ stage[c] = "run" /\ thread[c].pc = "failed"
    /\ Goto(c, "count")
    /\ UNCHANGED <<osVars, socketVars, object, historyVars, clientVars>>

\* receive() returned false.
RunFailed(c) ==
    /\ stage[c] = "run" /\ thread[c].pc = "failed"
    /\ count_error' = [count_error EXCEPT ![c] = @ + 1]
    /\ Goto(c, "count")
    /\ UNCHANGED <<osVars, socketVars, object, historyVars, m_stop, stage, stopped, deleted>>

\* A valid packet is processed and answered.
RunAnswers(c) ==
    /\ stage[c] = "run" /\ thread[c].pc = "process"
    /\ GotoCheck(c, "loadSend")
    /\ UNCHANGED <<osVars, socketVars, object, historyVars, clientVars>>

\* CLOSE_CONNECTION, and ACKNOWLEDGE_CLIENT of a sensor that is in the list:
\* process_packet closes the socket, and the answer is sent all the same.
RunCloses(c) ==
    /\ stage[c] = "run" /\ thread[c].pc = "process"
    /\ GotoClose(c, "reply")
    /\ UNCHANGED <<osVars, socketVars, object, historyVars, clientVars>>

RunReplies(c) ==
    /\ thread[c].pc = "reply"
    /\ GotoCheck(c, "loadSend")
    /\ UNCHANGED <<osVars, socketVars, object, historyVars, clientVars>>

\* A packet of another version is answered with WRONG_PACKET, and an
\* exception is not answered.
RunWrongPacket(c) ==
    /\ stage[c] = "run" /\ thread[c].pc = "process"
    /\ count_error' = [count_error EXCEPT ![c] = @ + 1]
    /\ GotoCheck(c, "loadSend") \/ Goto(c, "count")
    /\ UNCHANGED <<osVars, socketVars, object, historyVars, m_stop, stage, stopped, deleted>>

\* if (count_error >= MAX_ERROR_COMM), and the test of the loop.
RunCount(c) ==
    /\ stage[c] = "run" /\ thread[c].pc = "count"
    /\ m_stop' = [m_stop EXCEPT ![c] = @ \/ count_error[c] >= MAX_ERROR_COMM]
    /\ IF m_stop'[c] THEN Goto(c, "done") ELSE GotoCheck(c, "loadRecv")
    /\ UNCHANGED <<osVars, socketVars, object, historyVars, count_error, stage, stopped, deleted>>

Run(c) ==
    \/ Greet(c)
    \/ RunLoop(c)
    \/ RunFailed(c)
    \/ RunAnswers(c)
    \/ RunCloses(c)
    \/ RunReplies(c)
    \/ RunWrongPacket(c)
    \/ RunCount(c)
    \/ SocketStep(c, c) /\ UNCHANGED <<object, clientVars>>

-----------------------------------------------------------------------------
(* The other threads. *)

\* Mutated form of StopCalls: preStop() does nothing.
StopCallsNoPreStop(t, c) ==
    /\ thread[t].pc = "idle"
    /\ Exists(c) /\ t \notin stopped[c]
    /\ t = Acceptor => stage[c] = "run"
    /\ stopped' = [stopped EXCEPT ![c] = @ \cup {t}]
    /\ object' = [object EXCEPT ![t] = c]
    /\ Goto(t, "setStop")
    /\ UNCHANGED <<osVars, socketVars, historyVars, m_stop, count_error, stage, deleted>>

\* stop(): preStop() closes the socket ...  The main thread does so to what
\* it takes out of the queue, the accept thread to what it once admitted.
StopCalls(t, c) ==
    /\ thread[t].pc = "idle"
    /\ Exists(c) /\ t \notin stopped[c]
    /\ t = Acceptor => stage[c] = "run"
    /\ stopped' = [stopped EXCEPT ![c] = @ \cup {t}]
    /\ object' = [object EXCEPT ![t] = c]
    /\ GotoClose(t, "setStop")
    /\ UNCHANGED <<osVars, socketVars, historyVars, m_stop, count_error, stage, deleted>>

\* ... and then m_stop = true.
StopSets(t) ==
    /\ thread[t].pc = "setStop"
    /\ m_stop' = [m_stop EXCEPT ![object[t]] = TRUE]
    /\ Goto(t, "idle")
    /\ UNCHANGED <<osVars, socketVars, object, historyVars, count_error, stage, stopped,
                   deleted>>

\* sendAlert: sendMessage on a connection of the server of alarms.
AlertSends(c) ==
    /\ thread[Alerter].pc = "idle"
    /\ c \in Alarms
    /\ Exists(c)
    /\ object' = [object EXCEPT ![Alerter] = c]
    /\ GotoCheck(Alerter, "loadSend")
    /\ UNCHANGED <<osVars, socketVars, historyVars, clientVars>>

Other(t) ==
    /\ thread[t].pc # "idle"
    /\ \/ StopSets(t)
       \/ \E c \in Conns : SocketStep(t, c) /\ UNCHANGED <<object, clientVars>>

\* Nobody uses the connection any more, and it is in the queue no longer: its
\* destructor closes the socket.
Delete(c) ==
    /\ thread[c].pc = "done" /\ ~deleted[c]
    /\ \A t \in Others : object[t] = c => thread[t].pc = "idle"
    /\ stage[c] = "refused" => Main \in stopped[c]
    /\ holder' = [h \in Handles |-> IF h = m_socket[c] THEN Free ELSE holder[h]]
    /\ m_socket' = [m_socket EXCEPT ![c] = 0]
    /\ Strays(c, m_socket[c])
    /\ deleted' = [deleted EXCEPT ![c] = TRUE]
    /\ UNCHANGED <<peerThere, unread, m_bWasConnected, thread, object, raced, m_stop,
                   count_error, stage, stopped>>

-----------------------------------------------------------------------------
(* The other end. *)

PeerReads(c) ==
    /\ c \in Alarms /\ peerThere[c] /\ unread[c] > 0
    /\ unread' = [unread EXCEPT ![c] = @ - 1]
    /\ UNCHANGED <<holder, peerThere, socketVars, thread, object, historyVars, clientVars>>

PeerLeaves(c) ==
    /\ peerThere[c]
    /\ peerThere' = [peerThere EXCEPT ![c] = FALSE]
    /\ unread' = [unread EXCEPT ![c] = 0]
    /\ UNCHANGED <<holder, socketVars, thread, object, historyVars, clientVars>>

ClientNext ==
    \/ \E c \in Conns : \/ Accept(c) \/ Run(c) \/ Delete(c)
                        \/ AlertSends(c)
                        \/ PeerReads(c) \/ PeerLeaves(c)
                        \/ \E t \in Stoppers : StopCalls(t, c)
    \/ \E t \in Others : Other(t)
    \/ ElsewhereStep /\ UNCHANGED clientVars

ClientSpec == ClientInit /\ [][ClientNext]_vars

\* Fairness.  Threads run, calls that can return do, and a packet does not
\* arrive in parts for ever.  Nobody has to connect, stop, send an alert,
\* read or leave, and no property needs the destructor.
ClientFairSpec ==
    /\ ClientSpec
    /\ \A c \in Conns : /\ WF_vars(Run(c))
                       /\ SF_vars(RecvReturns(c, c) /\ UNCHANGED <<object, clientVars>>)
    /\ \A t \in Others : WF_vars(Other(t))

-----------------------------------------------------------------------------
(* Properties.  A race of two threads at m_socket, with no lock between     *)
(* them, is where the code has no promise left; a run need not go beyond.  *)

Unraced == ~raced

\* closeSocket clears m_socket, so that a connection reads from, writes to or
\* closes a handle the system has given to another one only if two of its
\* threads were at m_socket at once.
StraysOnlyIfRaced == strayed => raced

\* Whatever was accepted and dialled, no handle outlives its connection,
\* unless two of its threads were at m_socket at once.
LeaksOnlyIfRaced ==
    \A c \in Conns : deleted[c] /\ ~raced => \A h \in Handles : holder[h] # c

\* A connection that is stopped ends, wherever its thread is, also in a send
\* to a device that never reads; unless it managed to dial the device again.
StoppedEnds ==
    \A c \in Conns : stopped[c] # {} ~> (thread[c].pc = "done" \/ m_bWasConnected[c] \/ raced)

\* A connection whose other end has gone ends by itself, after its errors are
\* counted and what it dials does not answer.
LeftEnds ==
    \A c \in Conns : (thread[c].pc # "none" /\ ~peerThere[c])
                        ~> (thread[c].pc = "done" \/ peerThere[c] \/ raced)

-----------------------------------------------------------------------------
\* TerremotoDevice.ino:80, "Set timer to maintain the connection with the
\* server": a connection without errors, that nobody stops or dials again,
\* always receives again.  Each message is answered, and a sensor reads no
\* answers.
KeepsReceiving ==
    \A c \in Conns : []<>(\/ thread[c].pc \in {"none", "receiving", "done"}
                          \/ count_error[c] > 0 \/ stopped[c] # {} \/ m_bWasConnected[c])
=============================================================================
