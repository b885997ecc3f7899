------------------------------ MODULE TcpComm -------------------------------
(***************************************************************************)
(* The socket of a connection (SocketClientTcp), which several threads use *)
(* without a lock.  One access to m_socket that matters, or one call of    *)
(* the system, is one step of a thread.                                    *)
(*                                                                         *)
(* The system is Windows, for which the project is generated: closing a    *)
(* handle ends the calls that wait on it, and a handle that was closed may *)
(* be given out again.  The sockets that accept() makes are blocking ones. *)
(***************************************************************************)
EXTENDS Integers, FiniteSets

CONSTANTS
    Conns,            \* connections, and their own threads
    Others,           \* other threads that use the sockets
    Free,             \* nobody has this handle
    Elsewhere,        \* another connection of the process has it
    Handles,
    SendBuffer        \* packets the buffers on the way to a device hold

Threads == Conns \cup Others

ASSUME TcpCommAssumption ==
    /\ Conns # {} /\ Conns \cap Others = {}
    /\ Free # Elsewhere /\ {Free, Elsewhere} \cap Conns = {}
    /\ Handles \subseteq Nat \ {0}
    /\ SendBuffer \in Nat \ {0}

VARIABLES
    holder,           \* whom accept() or socket() gave each handle
    peerThere,        \* the other end of a connection has not gone
    unread,           \* packets sent to it that it has not read
    m_socket,
    m_bWasConnected,
    thread,           \* where each thread is
    object,           \* ... and the connection it works on
    raced,            \* history: a thread changed m_socket between a read of
                      \* it by another one and the use of what was read, or
                      \* read it between its CLOSE and its clearing
    strayed           \* history: a connection used the handle of another one

osVars == <<holder, peerThere, unread>>
socketVars == <<m_socket, m_bWasConnected>>
historyVars == <<raced, strayed>>

\* A thread here has read m_socket and is about to act on it.
Critical == {"recv", "write", "close", "clear", "socket", "dial"}

SocketLabels == Critical \cup
    {"check", "dialled", "loadRecv", "receiving", "loadSend", "sending", "test"}

\* Labels of the callers: before the first step, and where receive() and
\* send() return to.
CallerLabels ==
    {"none", "idle", "loop", "process", "reply", "failed", "count", "setStop", "refused",
     "done"}

\* hold is the value of m_socket it has read, goal where it goes once
\* checkConnection returns true, ret where closeSocket returns to.
ThreadStates ==
    [pc : SocketLabels \cup CallerLabels,
     hold : Handles \cup {0},
     goal : {"loadRecv", "loadSend"},
     ret : {"dialled"} \cup CallerLabels]

\* A thread that is not in the socket, at label.
Idle(label) == [pc |-> label, hold |-> 0, goal |-> "loadRecv", ret |-> "idle"]

SocketTypeOK ==
    /\ holder \in [Handles -> Conns \cup {Free, Elsewhere}]
    /\ peerThere \in [Conns -> BOOLEAN]
    /\ unread \in [Conns -> 0 .. SendBuffer]
    /\ m_socket \in [Conns -> Handles \cup {0}]
    /\ m_bWasConnected \in [Conns -> BOOLEAN]
    /\ thread \in [Threads -> ThreadStates]
    /\ object \in [Threads -> Conns]
    /\ raced \in BOOLEAN /\ strayed \in BOOLEAN

SocketInit ==
    /\ holder = [h \in Handles |-> Free]
    /\ peerThere = [c \in Conns |-> FALSE]
    /\ unread = [c \in Conns |-> 0]
    /\ m_socket = [c \in Conns |-> 0]
    /\ m_bWasConnected = [c \in Conns |-> FALSE]
    /\ thread = [t \in Threads |->
                   Idle(IF t \in Conns THEN "none" ELSE "idle")]
    /\ object = [t \in Threads |-> IF t \in Conns THEN t ELSE CHOOSE c \in Conns : TRUE]
    /\ raced = FALSE /\ strayed = FALSE

-----------------------------------------------------------------------------
At(t, c, label) == thread[t].pc = label /\ object[t] = c

Goto(t, label) == thread' = [thread EXCEPT ![t].pc = label]

Return(t, label) == thread' = [thread EXCEPT ![t] = Idle(label)]

\* receive() and send() call checkConnection, every failure closeSocket.
GotoCheck(t, g) == thread' = [thread EXCEPT ![t].pc = "check", ![t].goal = g]
GotoClose(t, r) ==
    thread' = [thread EXCEPT ![t].pc = "test", ![t].hold = 0, ![t].ret = r]

\* The system gives out a handle that is free once the calls that waited on
\* it have ended.
Available(h) ==
    /\ holder[h] = Free
    /\ \A t \in Threads : thread[t].hold = h => thread[t].pc \notin {"receiving", "sending"}

\* Thread t changes m_socket of c, or closes its handle, whoever is using it.
Disturbs(t, c) ==
    raced' = (raced \/ \E u \in Threads \ {t} :
                           object[u] = c /\ thread[u].pc \in Critical)

\* Thread t reads m_socket of c, which another one may have closed already.
Reads(t, c) ==
    raced' = (raced \/ \E u \in Threads \ {t} :
                           At(u, c, "clear") /\ thread[u].hold > 0)

\* The handle h that a thread of c uses belongs to another connection.
Strays(c, h) ==
    strayed' = (strayed \/ (h \in Handles /\ holder[h] \notin {c, Free}))

\* Where send() returns to; run() ignores what it returns.
AfterSend(t) == IF t \in Conns THEN "count" ELSE "idle"

\* Where checkConnection leaves receive() or send() when it returns false.
Unconnected(t) == IF thread[t].goal = "loadRecv" THEN "failed" ELSE AfterSend(t)

-----------------------------------------------------------------------------
(* closeSocket(). *)

CloseTest(t, c) ==
    /\ At(t, c, "test")
    /\ thread' = [thread EXCEPT ![t].hold = m_socket[c],
                                ![t].pc = IF m_socket[c] > 0 THEN "close" ELSE "clear"]
    /\ Reads(t, c)
    /\ UNCHANGED <<osVars, socketVars, strayed>>

\* CLOSE(m_socket): of the value tested, or of what m_socket is now.  The
\* buffers of the connection go with the handle.
CloseHandle(t, c) ==
    /\ At(t, c, "close")
    /\ \E h \in {thread[t].hold, m_socket[c]} :
          /\ holder' = [g \in Handles |-> IF g = h THEN Free ELSE holder[g]]
          /\ unread' = [d \in Conns |-> IF h \in Handles /\ holder[h] = d THEN 0 ELSE unread[d]]
          /\ Strays(c, h)
    /\ Disturbs(t, c)
    /\ Goto(t, "clear")
    /\ UNCHANGED <<peerThere, socketVars>>

CloseReturns(t) ==
    LET goal == IF thread[t].ret = "dialled" THEN thread[t].goal ELSE "loadRecv"
    IN  thread' = [thread EXCEPT ![t] = [Idle(thread[t].ret) EXCEPT !.goal = goal]]

\* Mutated form of CloseClear: m_socket keeps its value.
CloseKeepsSocket(t, c) ==
    /\ At(t, c, "clear")
    /\ CloseReturns(t)
    /\ UNCHANGED <<osVars, socketVars, historyVars>>

CloseClear(t, c) ==
    /\ At(t, c, "clear")
    /\ m_socket' = [m_socket EXCEPT ![c] = 0]
    /\ Disturbs(t, c)
    /\ CloseReturns(t)
    /\ UNCHANGED <<osVars, m_bWasConnected, strayed>>

CloseSocket(t, c) == CloseTest(t, c) \/ CloseHandle(t, c) \/ CloseClear(t, c)

-----------------------------------------------------------------------------
(* checkConnection(): a socket that came from accept() was never           *)
(* "connected", so once it is closed the other end is dialled.             *)

\* Mutated form of CheckConnected: the test of connected() is missing.
CheckDialsAlways(t, c) ==
    /\ At(t, c, "check")
    /\ Goto(t, IF m_bWasConnected[c] THEN thread[t].goal ELSE "socket")
    /\ UNCHANGED <<osVars, socketVars, historyVars>>

CheckConnected(t, c) ==
    /\ At(t, c, "check")
    /\ IF m_socket[c] > 0 THEN Goto(t, thread[t].goal)
       ELSE IF m_bWasConnected[c] THEN Return(t, Unconnected(t)) ELSE Goto(t, "socket")
    /\ UNCHANGED <<osVars, socketVars, historyVars>>

\* m_socket = socket(...); 0 stands for INVALID_SOCKET too, which is no
\* connection either.
CheckSocket(t, c) ==
    /\ At(t, c, "socket")
    /\ \/ \E h \in Handles :
             /\ Available(h)
             /\ holder' = [holder EXCEPT ![h] = c]
             /\ m_socket' = [m_socket EXCEPT ![c] = h]
       \/ /\ \A h \in Handles : ~Available(h)
          /\ m_socket' = [m_socket EXCEPT ![c] = 0]
          /\ UNCHANGED holder
    /\ Disturbs(t, c)
    /\ Goto(t, "dial")
    /\ UNCHANGED <<peerThere, unread, m_bWasConnected, strayed>>

\* connect(...): something answers at the port the device used ...
CheckDial(t, c) ==
    /\ At(t, c, "dial")
    /\ m_socket[c] \in Handles /\ holder[m_socket[c]] = c
    /\ peerThere' = [peerThere EXCEPT ![c] = TRUE]
    /\ unread' = [unread EXCEPT ![c] = 0]
    /\ Goto(t, "dialled")
    /\ UNCHANGED <<holder, socketVars, historyVars>>

\* ... or nothing does.
CheckDialFails(t, c) ==
    /\ At(t, c, "dial")
    /\ GotoClose(t, "dialled")
    /\ UNCHANGED <<osVars, socketVars, historyVars>>

CheckDialled(t, c) ==
    /\ At(t, c, "dialled")
    /\ IF m_socket[c] > 0
       THEN /\ m_bWasConnected' = [m_bWasConnected EXCEPT ![c] = TRUE]
            /\ Goto(t, thread[t].goal)
       ELSE /\ Return(t, Unconnected(t))
            /\ UNCHANGED m_bWasConnected
    /\ UNCHANGED <<osVars, m_socket, historyVars>>

CheckConnection(t, c) ==
    \/ CheckConnected(t, c)
    \/ CheckSocket(t, c)
    \/ CheckDial(t, c)
    \/ CheckDialFails(t, c)
    \/ CheckDialled(t, c)

-----------------------------------------------------------------------------
(* receive() and send(): m_socket is read, and the call of the system made *)
(* with what was read, whatever has become of that handle meanwhile.       *)

Load(t, c, from, to) ==
    /\ At(t, c, from)
    /\ thread' = [thread EXCEPT ![t].hold = m_socket[c], ![t].pc = to]
    /\ Reads(t, c)
    /\ UNCHANGED <<osVars, socketVars, strayed>>

Enter(t, c, from, to) ==
    /\ At(t, c, from)
    /\ Strays(c, thread[t].hold)
    /\ Goto(t, to)
    /\ UNCHANGED <<osVars, socketVars, raced>>

\* Something can arrive, or be sent, on handle h.
Usable(h) ==
    /\ h \in Handles /\ holder[h] # Free
    /\ holder[h] \in Conns => peerThere[holder[h]]

\* A part of the packet is there, and recv() is called again ...
RecvPart(t, c) ==
    /\ At(t, c, "receiving")
    /\ Usable(thread[t].hold)
    /\ Return(t, "loadRecv")
    /\ UNCHANGED <<osVars, socketVars, historyVars>>

\* ... or the rest of it.
RecvReturns(t, c) ==
    /\ At(t, c, "receiving")
    /\ Usable(thread[t].hold)
    /\ Return(t, "process")
    /\ UNCHANGED <<osVars, socketVars, historyVars>>

\* recv() returns 0 or an error.
RecvFails(t, c) ==
    /\ At(t, c, "receiving")
    /\ ~Usable(thread[t].hold)
    /\ GotoClose(t, "failed")
    /\ UNCHANGED <<osVars, socketVars, historyVars>>

Receive(t, c) ==
    \/ Load(t, c, "loadRecv", "recv")
    \/ Enter(t, c, "recv", "receiving")
    \/ RecvPart(t, c)
    \/ RecvReturns(t, c)
    \/ RecvFails(t, c)

\* The packet fits in the buffers; a send() to full ones waits.
SendReturns(t, c) ==
    /\ At(t, c, "sending")
    /\ Usable(thread[t].hold)
    /\ LET d == holder[thread[t].hold]
       IN  IF d = Elsewhere THEN UNCHANGED unread
           ELSE unread[d] < SendBuffer /\ unread' = [unread EXCEPT ![d] = @ + 1]
    /\ Return(t, AfterSend(t))
    /\ UNCHANGED <<holder, peerThere, socketVars, historyVars>>

SendFails(t, c) ==
    /\ At(t, c, "sending")
    /\ ~Usable(thread[t].hold)
    /\ GotoClose(t, AfterSend(t))
    /\ UNCHANGED <<osVars, socketVars, historyVars>>

Send(t, c) ==
    \/ Load(t, c, "loadSend", "write")
    \/ Enter(t, c, "write", "sending")
    \/ SendReturns(t, c)
    \/ SendFails(t, c)

\* The other connections of the process open and close theirs.
ElsewhereStep ==
    /\ \E h \in Handles :
          \/ Available(h) /\ holder' = [holder EXCEPT ![h] = Elsewhere]
          \/ holder[h] = Elsewhere /\ holder' = [holder EXCEPT ![h] = Free]
    /\ UNCHANGED <<peerThere, unread, socketVars, thread, object, historyVars>>

SocketStep(t, c) ==
    \/ CloseSocket(t, c)
    \/ CheckConnection(t, c)
    \/ Receive(t, c)
    \/ Send(t, c)
=============================================================================
