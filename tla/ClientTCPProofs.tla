-------------------------- MODULE ClientTCPProofs ---------------------------
(***************************************************************************)
(* Until two threads race at m_socket, a connection uses no handle but its *)
(* own, and it leaves none behind: for any number of connections, handles  *)
(* and errors.                                                             *)
(***************************************************************************)
EXTENDS ClientTCP, TLAPS

-----------------------------------------------------------------------------
(* The threads. *)

\* Where closeSocket returns to.
Returns == {"dialled", "failed", "count", "idle", "reply", "setStop", "refused"}

Records == [pc : SocketLabels \cup CallerLabels,
            hold : Handles \cup {0},
            goal : {"loadRecv", "loadSend"},
            ret : Returns]

TypesInv ==
    /\ thread \in [Threads -> Records]
    /\ object \in [Threads -> Conns]
    /\ m_socket \in [Conns -> Handles \cup {0}]
    /\ holder \in [Handles -> Conns \cup {Free, Elsewhere}]
    /\ deleted \in [Conns -> BOOLEAN]
    /\ raced \in BOOLEAN /\ strayed \in BOOLEAN

\* Each connection that is there has its own thread, and no thread uses one
\* that is not there yet or not any more.
OwnersInv ==
    /\ \A c \in Conns : object[c] = c
    /\ \A t \in Others : thread[t].pc # "idle" => Exists(object[t])
    /\ \A c \in Conns : deleted[c] => thread[c].pc = "done"

-----------------------------------------------------------------------------
(* The handles, as long as there was no race. *)

\* u is between CLOSE and the clearing of m_socket of c.
Closing(u, c) == At(u, c, "clear") /\ thread[u].hold > 0

\* What a thread has read of m_socket is what m_socket is.
HeldIsCurrent ==
    \A t \in Threads : thread[t].pc \in {"recv", "write", "close", "clear"}
        => thread[t].hold = m_socket[object[t]]

\* A connection that is about to make a socket has none.
DialsUnset == \A t \in Threads : thread[t].pc = "socket" => m_socket[object[t]] = 0

\* The handle of a connection is closed before m_socket is cleared.
ClosedIsFree ==
    \A t \in Threads, h \in Handles : thread[t].pc = "clear" => holder[h] # object[t]

\* A connection has one handle at most, and m_socket names it.
OneHandle == \A c \in Conns, h \in Handles : holder[h] = c => m_socket[c] = h

\* Nobody is about to use a handle that another thread has closed.
NoUseAfterClose ==
    \A t, u \in Threads :
        /\ t # u /\ object[t] = object[u]
        /\ thread[t].pc \in {"recv", "write", "close"}
        => ~Closing(u, object[t])

\* m_socket names a handle of this connection, or one just closed.
SocketIsOwn ==
    \A c \in Conns : m_socket[c] # 0 =>
        holder[m_socket[c]] = c \/ \E u \in Threads : Closing(u, c)

UnusedIsUnset ==
    \A c \in Conns : thread[c].pc = "none" \/ deleted[c] => m_socket[c] = 0

HandlesInv ==
    /\ HeldIsCurrent
    /\ DialsUnset
    /\ ClosedIsFree
    /\ OneHandle
    /\ NoUseAfterClose
    /\ SocketIsOwn
    /\ UnusedIsUnset
    /\ ~strayed

ClientInv == TypesInv /\ OwnersInv /\ (~raced => HandlesInv)

-----------------------------------------------------------------------------
(* Assignments to the record of a thread. *)

LEMMA Constants ==
    /\ 0 \notin Handles
    /\ \A h \in Handles : h > 0
    /\ Free \notin Conns /\ Elsewhere \notin Conns
    /\ \A t \in Conns : t \in Threads /\ t \notin Others
    /\ \A t \in Others : t \in Threads /\ t \notin Conns
    /\ \A t \in Threads : t \in Conns \/ t \in Others
    /\ Stoppers \subseteq Others /\ Alerter \in Others
  BY TcpCommAssumption, ClientTCPAssumption DEF Threads, Stoppers

\* Thread t is now at label with hold h, and no other one has moved.
Moved(t, label, h) ==
    /\ thread' \in [Threads -> Records]
    /\ thread'[t].pc = label /\ thread'[t].hold = h
    /\ \A u \in Threads : u # t => thread'[u] = thread[u]

LEMMA GotoMoves ==
    ASSUME TypesInv, NEW t \in Threads, NEW l \in SocketLabels \cup CallerLabels,
           Goto(t, l)
    PROVE  Moved(t, l, thread[t].hold)
  BY DEF Goto, TypesInv, Moved, Records

LEMMA ReturnMoves ==
    ASSUME TypesInv, NEW t \in Threads, NEW l \in SocketLabels \cup CallerLabels,
           Return(t, l)
    PROVE  Moved(t, l, 0)
  BY DEF Return, Idle, TypesInv, Moved, Records, Returns

LEMMA GotoCheckMoves ==
    ASSUME TypesInv, NEW t \in Threads, NEW g \in {"loadRecv", "loadSend"}, GotoCheck(t, g)
    PROVE  Moved(t, "check", thread[t].hold)
  BY DEF GotoCheck, TypesInv, Moved, Records, SocketLabels

LEMMA GotoCloseMoves ==
    ASSUME TypesInv, NEW t \in Threads, NEW r \in Returns, GotoClose(t, r)
    PROVE  Moved(t, "test", 0)
  BY DEF GotoClose, TypesInv, Moved, Records, SocketLabels

\* Thread t reads m_socket of c into hold.
LEMMA HoldMoves ==
    ASSUME TypesInv, NEW t \in Threads, NEW c \in Conns,
           NEW l \in SocketLabels \cup CallerLabels,
           thread' = [thread EXCEPT ![t].hold = m_socket[c], ![t].pc = l]
    PROVE  Moved(t, l, m_socket[c])
  BY DEF TypesInv, Moved, Records

LEMMA CloseReturnMoves ==
    ASSUME TypesInv, NEW t \in Threads, CloseReturns(t)
    PROVE  Moved(t, thread[t].ret, 0) /\ thread[t].ret \in Returns
  <1>1. thread[t] \in Records
    BY DEF TypesInv
  <1>2. PICK g : g = IF thread[t].ret = "dialled" THEN thread[t].goal ELSE "loadRecv"
    OBVIOUS
  <1>3. PICK r : r = [Idle(thread[t].ret) EXCEPT !.goal = g]
    OBVIOUS
  <1>4. r \in Records /\ r.pc = thread[t].ret /\ r.hold = 0 /\ thread[t].ret \in Returns
    BY <1>1, <1>2, <1>3 DEF Idle, Records, Returns, SocketLabels, CallerLabels
  <1>5. thread' = [thread EXCEPT ![t] = r]
    BY <1>2, <1>3 DEF CloseReturns
  <1> QED BY <1>4, <1>5 DEF TypesInv, Moved

-----------------------------------------------------------------------------
(* The steps that leave the handles alone. *)

\* Labels at which the value a thread has read, or m_socket, matters.
Delicate == {"recv", "write", "close", "clear", "socket"}

\* Thread t goes on, with a connection that is there.
GoesOn(t, label, h) ==
    /\ Moved(t, label, h)
    /\ \A u \in Threads : u # t => object'[u] = object[u]
    /\ object' \in [Threads -> Conns]
    /\ t \in Conns => /\ thread[t].pc \notin {"none", "done"} /\ label # "none"
                      /\ object'[t] = t
    /\ t \in Others => label = "idle" \/ Exists(object'[t])
    /\ UNCHANGED deleted

LEMMA GoesOnOwners ==
    ASSUME TypesInv, OwnersInv, NEW t \in Threads, NEW l, NEW h, GoesOn(t, l, h)
    PROVE  OwnersInv'
  <1>1. \A c \in Conns : object'[c] = c
    BY Constants DEF OwnersInv, GoesOn
  <1>2. \A c \in Conns : Exists(c) => thread'[c].pc # "none" /\ ~deleted'[c]
    BY Constants DEF Exists, GoesOn, Moved
  <1>3. \A u \in Others : thread'[u].pc # "idle" => Exists(object[u])'
    <2> SUFFICES ASSUME NEW u \in Others, thread'[u].pc # "idle"
                 PROVE  thread'[object'[u]].pc # "none" /\ ~deleted'[object'[u]]
      BY DEF Exists
    <2>1. u \in Threads /\ object'[u] \in Conns
      BY Constants DEF GoesOn
    <2>2. Exists(object'[u])
      <3>1. CASE u = t
        BY <3>1 DEF GoesOn, Moved
      <3>2. CASE u # t
        BY <2>1, <3>2 DEF GoesOn, Moved, OwnersInv
      <3> QED BY <3>1, <3>2
    <2> QED BY <1>2, <2>1, <2>2
  <1>4. \A c \in Conns : deleted'[c] => thread'[c].pc = "done"
    BY Constants DEF GoesOn, Moved, OwnersInv
  <1> QED BY <1>1, <1>3, <1>4 DEF OwnersInv

LEMMA CalmStep ==
    ASSUME ClientInv, NEW t \in Threads, NEW l, NEW h, GoesOn(t, l, h), l \notin Delicate,
           thread[t].pc # "clear", UNCHANGED <<m_socket, holder, raced>>,
           strayed' \in BOOLEAN, ~raced => ~strayed'
    PROVE  ClientInv'
  <1>1. TypesInv'
    BY DEF ClientInv, TypesInv, GoesOn, Moved
  <1>2. OwnersInv'
    BY GoesOnOwners DEF ClientInv
  <1>3. ASSUME ~raced
        PROVE  HandlesInv'
    <2> USE <1>3 DEF ClientInv, HandlesInv, GoesOn, Moved, Delicate
    <2>1. HeldIsCurrent' /\ DialsUnset' /\ ClosedIsFree' /\ OneHandle'
      BY DEF HeldIsCurrent, DialsUnset, ClosedIsFree, OneHandle
    <2>2. NoUseAfterClose'
      BY DEF NoUseAfterClose, Closing, At
    <2>3. SocketIsOwn'
      <3>1. \A u \in Threads, c \in Conns : Closing(u, c) => Closing(u, c)'
        BY DEF Closing, At
      <3> QED BY <3>1 DEF SocketIsOwn
    <2>4. UnusedIsUnset'
      BY Constants DEF UnusedIsUnset
    <2> QED BY <2>1, <2>2, <2>3, <2>4
  <1> QED BY <1>1, <1>2, <1>3 DEF ClientInv

\* A thread that is at work on c goes on with c.
LEMMA StaysOn ==
    ASSUME ClientInv, NEW t \in Threads, NEW c \in Conns, NEW l, NEW h,
           object[t] = c, thread[t].pc \notin {"none", "idle", "done"},
           Moved(t, l, h), l # "none", UNCHANGED <<object, deleted>>
    PROVE  GoesOn(t, l, h)
  BY Constants DEF ClientInv, TypesInv, OwnersInv, GoesOn

\* What each step of the socket means for its thread.
LEMMA CheckCalm ==
    ASSUME ClientInv, NEW t \in Threads, NEW c \in Conns, UNCHANGED <<object, clientVars>>,
           \/ CheckConnected(t, c) /\ (m_socket[c] > 0 \/ m_bWasConnected[c])
           \/ CheckDial(t, c) \/ CheckDialFails(t, c) \/ CheckDialled(t, c)
    PROVE  ClientInv'
  <1>1. /\ object[t] = c /\ thread[t].pc \in {"check", "dial", "dialled"}
        /\ UNCHANGED <<m_socket, holder, raced, strayed, deleted>>
    BY DEF CheckConnected, CheckDial, CheckDialFails, CheckDialled, At, osVars, socketVars,
       historyVars, clientVars
  <1>2. thread[t].goal \in {"loadRecv", "loadSend"}
    BY DEF ClientInv, TypesInv, Records
  <1>3. Unconnected(t) \in {"failed", "count", "idle"}
    BY DEF Unconnected, AfterSend
  <1>4. \E l \in {"loadRecv", "loadSend", "failed", "count", "idle", "dialled", "test"},
           h \in Handles \cup {0} : Moved(t, l, h)
    <2>0. TypesInv /\ thread[t].hold \in Handles \cup {0}
      BY DEF ClientInv, TypesInv, Records
    <2>1. CASE Goto(t, thread[t].goal)
      BY <1>2, <2>0, <2>1, GotoMoves DEF SocketLabels
    <2>2. CASE Goto(t, "dialled")
      BY <2>0, <2>2, GotoMoves DEF SocketLabels
    <2>3. CASE GotoClose(t, "dialled")
      BY <2>0, <2>3, GotoCloseMoves DEF Returns
    <2>4. CASE Return(t, Unconnected(t))
      BY <1>3, <2>0, <2>4, ReturnMoves DEF CallerLabels
    <2> QED BY <2>1, <2>2, <2>3, <2>4 DEF CheckConnected, CheckDial, CheckDialFails, CheckDialled
  <1>5. PICK l \in {"loadRecv", "loadSend", "failed", "count", "idle", "dialled", "test"},
             h \in Handles \cup {0} : Moved(t, l, h)
    BY <1>4
  <1>6. GoesOn(t, l, h)
    BY <1>1, <1>5, StaysOn
  <1> QED BY <1>1, <1>6, CalmStep DEF Delicate, ClientInv, TypesInv, HandlesInv

LEMMA TransferCalm ==
    ASSUME ClientInv, NEW t \in Threads, NEW c \in Conns, UNCHANGED <<object, clientVars>>,
           RecvPart(t, c) \/ RecvReturns(t, c) \/ RecvFails(t, c)
           \/ SendReturns(t, c) \/ SendFails(t, c)
    PROVE  ClientInv'
  <1>1. /\ object[t] = c /\ thread[t].pc \in {"receiving", "sending"}
        /\ UNCHANGED <<m_socket, holder, raced, strayed, deleted>>
    BY DEF RecvPart, RecvReturns, RecvFails, SendReturns, SendFails, At, osVars, socketVars,
       historyVars, clientVars
  <1>2. AfterSend(t) \in {"count", "idle"}
    BY DEF AfterSend
  <1>3. \E l \in {"loadRecv", "process", "count", "idle", "test"},
           h \in Handles \cup {0} : Moved(t, l, h)
    <2>0. TypesInv /\ thread[t].hold \in Handles \cup {0}
      BY DEF ClientInv, TypesInv, Records
    <2>1. CASE Return(t, "loadRecv")
      BY <2>0, <2>1, ReturnMoves DEF SocketLabels
    <2>2. CASE Return(t, "process") \/ Return(t, AfterSend(t))
      BY <1>2, <2>0, <2>2, ReturnMoves DEF CallerLabels
    <2>3. CASE GotoClose(t, "failed") \/ GotoClose(t, AfterSend(t))
      BY <1>2, <2>0, <2>3, GotoCloseMoves DEF Returns
    <2> QED BY <2>1, <2>2, <2>3 DEF RecvPart, RecvReturns, RecvFails, SendReturns, SendFails
  <1>4. PICK l \in {"loadRecv", "process", "count", "idle", "test"},
             h \in Handles \cup {0} : Moved(t, l, h)
    BY <1>3
  <1>5. GoesOn(t, l, h)
    BY <1>1, <1>4, StaysOn
  <1> QED BY <1>1, <1>5, CalmStep DEF Delicate, ClientInv, TypesInv, HandlesInv

\* The calls of recv() and send(): the handle is this connection's.
LEMMA EnterCalm ==
    ASSUME ClientInv, NEW t \in Threads, NEW c \in Conns, UNCHANGED <<object, clientVars>>,
           NEW from \in {"recv", "write"}, NEW to \in {"receiving", "sending"},
           Enter(t, c, from, to)
    PROVE  ClientInv'
  <1>1. /\ object[t] = c /\ thread[t].pc = from
        /\ UNCHANGED <<m_socket, holder, raced, deleted>>
        /\ Strays(c, thread[t].hold) /\ Goto(t, to)
    BY DEF Enter, At, osVars, socketVars, clientVars
  <1>2. TypesInv /\ thread[t].hold \in Handles \cup {0}
    BY DEF ClientInv, TypesInv, Records
  <1>3. Moved(t, to, thread[t].hold)
    BY <1>1, <1>2, GotoMoves DEF SocketLabels
  <1>4. GoesOn(t, to, thread[t].hold)
    BY <1>1, <1>3, StaysOn
  <1>5. strayed' = (strayed \/ (thread[t].hold \in Handles
                                  /\ holder[thread[t].hold] \notin {c, Free}))
    BY <1>1 DEF Strays
  <1>6. ASSUME ~raced
        PROVE  ~strayed'
    <2>1. HandlesInv /\ ~strayed
      BY <1>6 DEF ClientInv, HandlesInv
    <2>2. thread[t].hold = m_socket[c]
      BY <1>1, <2>1 DEF HandlesInv, HeldIsCurrent
    <2>3. \A u \in Threads : ~Closing(u, c)
      BY <1>1, <2>1 DEF HandlesInv, NoUseAfterClose, Closing, At
    <2>4. thread[t].hold \in Handles => holder[thread[t].hold] = c
      BY <2>1, <2>2, <2>3, Constants DEF HandlesInv, SocketIsOwn
    <2> QED BY <1>5, <2>1, <2>4
  <1>7. strayed' \in BOOLEAN
    BY <1>5
  <1> QED BY <1>1, <1>4, <1>6, <1>7, CalmStep DEF Delicate

-----------------------------------------------------------------------------
(* closeSocket and checkConnection. *)

LEMMA NoRaceBefore ==
    ASSUME ClientInv, NEW t \in Threads, NEW c \in Conns, Disturbs(t, c) \/ Reads(t, c)
    PROVE  /\ raced' \in BOOLEAN
           /\ ~raced' => HandlesInv
           /\ ~raced' /\ Disturbs(t, c) =>
                 \A u \in Threads : u # t /\ object[u] = c => thread[u].pc \notin Critical
           /\ ~raced' /\ Reads(t, c) => \A u \in Threads : u # t => ~Closing(u, c)
  BY DEF ClientInv, TypesInv, Disturbs, Reads, Closing

\* m_socket is read, for CLOSE or for a call of the system.
LEMMA ReadStep ==
    ASSUME ClientInv, NEW t \in Threads, NEW c \in Conns, NEW l, object[t] = c,
           GoesOn(t, l, m_socket[c]), Reads(t, c), thread[t].pc # "clear",
           l \in {"recv", "write", "close", "clear"},
           l = "clear" => m_socket[c] = 0,
           UNCHANGED <<m_socket, holder, object, strayed>>
    PROVE  ClientInv'
  <1>1. TypesInv'
    BY NoRaceBefore DEF ClientInv, TypesInv, GoesOn, Moved
  <1>2. OwnersInv'
    BY GoesOnOwners DEF ClientInv
  <1>3. ASSUME ~raced'
        PROVE  HandlesInv'
    <2>1. HandlesInv /\ \A u \in Threads : u # t => ~Closing(u, c)
      BY <1>3, NoRaceBefore
    <2>2. Moved(t, l, m_socket[c])
      BY DEF GoesOn
    <2> USE <2>1, <2>2 DEF HandlesInv, Moved
    <2>3. HeldIsCurrent' /\ DialsUnset' /\ OneHandle'
      BY DEF HeldIsCurrent, DialsUnset, OneHandle
    <2>4. ClosedIsFree'
      <3>1. m_socket[c] = 0 => \A h \in Handles : holder[h] # c
        BY Constants DEF OneHandle
      <3> QED BY <3>1 DEF ClosedIsFree
    <2>5. \A u \in Threads, d \in Conns : Closing(u, d)' <=> Closing(u, d)
      BY DEF Closing, At
    <2>6. NoUseAfterClose'
      <3> SUFFICES ASSUME NEW s \in Threads, NEW u \in Threads, s # u,
                          object[s] = object[u],
                          thread'[s].pc \in {"recv", "write", "close"}
                   PROVE  ~Closing(u, object[s])'
        BY DEF NoUseAfterClose
      <3>1. object[s] \in Conns
        BY DEF ClientInv, TypesInv
      <3>2. CASE s = t
        BY <2>5, <3>1, <3>2
      <3>3. CASE s # t
        BY <2>5, <3>1, <3>3 DEF NoUseAfterClose
      <3> QED BY <3>2, <3>3
    <2>7. SocketIsOwn'
      BY <2>5 DEF SocketIsOwn
    <2>8. UnusedIsUnset'
      BY Constants DEF UnusedIsUnset, GoesOn
    <2> QED BY <2>3, <2>4, <2>6, <2>7, <2>8
  <1> QED BY <1>1, <1>2, <1>3 DEF ClientInv

LEMMA LoadReads ==
    ASSUME ClientInv, NEW t \in Threads, NEW c \in Conns, UNCHANGED <<object, clientVars>>,
           CloseTest(t, c) \/ Load(t, c, "loadRecv", "recv") \/ Load(t, c, "loadSend", "write")
    PROVE  ClientInv'
  <1>1. /\ object[t] = c /\ thread[t].pc \in {"test", "loadRecv", "loadSend"}
        /\ Reads(t, c)
        /\ UNCHANGED <<m_socket, holder, strayed, object, deleted>>
    BY DEF CloseTest, Load, At, osVars, socketVars, clientVars
  <1>2. m_socket[c] \in Handles \cup {0}
    BY DEF ClientInv, TypesInv
  <1>3. PICK l \in {"recv", "write", "close", "clear"} :
           /\ thread' = [thread EXCEPT ![t].hold = m_socket[c], ![t].pc = l]
           /\ l = "clear" => ~(m_socket[c] > 0)
    BY DEF CloseTest, Load
  <1>4. Moved(t, l, m_socket[c])
    BY <1>3, HoldMoves DEF ClientInv, SocketLabels, Critical
  <1>5. GoesOn(t, l, m_socket[c])
    BY <1>1, <1>4, StaysOn
  <1>6. l = "clear" => m_socket[c] = 0
    BY <1>2, <1>3, Constants
  <1> QED BY <1>1, <1>5, <1>6, ReadStep

LEMMA CloseHandleStep ==
    ASSUME ClientInv, NEW t \in Threads, NEW c \in Conns, UNCHANGED <<object, clientVars>>,
           CloseHandle(t, c)
    PROVE  ClientInv'
  <1>1. /\ object[t] = c /\ thread[t].pc = "close" /\ Disturbs(t, c) /\ Goto(t, "clear")
        /\ UNCHANGED <<m_socket, object, deleted>>
    BY DEF CloseHandle, At, socketVars, clientVars
  <1>2. Moved(t, "clear", thread[t].hold)
    BY <1>1, GotoMoves DEF ClientInv, SocketLabels, Critical
  <1>3. GoesOn(t, "clear", thread[t].hold)
    BY <1>1, <1>2, StaysOn
  <1>4. PICK h \in {thread[t].hold, m_socket[c]} :
           /\ holder' = [g \in Handles |-> IF g = h THEN Free ELSE holder[g]]
           /\ Strays(c, h)
    BY DEF CloseHandle
  <1>5. strayed' = (strayed \/ (h \in Handles /\ holder[h] \notin {c, Free}))
    BY <1>4 DEF Strays
  <1>6. TypesInv'
    BY <1>2, <1>3, <1>4, <1>5, NoRaceBefore, <1>1 DEF ClientInv, TypesInv, GoesOn, Moved
  <1>7. OwnersInv'
    BY <1>3, GoesOnOwners DEF ClientInv
  <1>8. ASSUME ~raced'
        PROVE  HandlesInv'
    <2>1. /\ HandlesInv
          /\ \A u \in Threads : u # t /\ object[u] = c => thread[u].pc \notin Critical
      BY <1>1, <1>8, NoRaceBefore
    <2>2. thread[t].hold = m_socket[c] /\ h = m_socket[c]
      BY <1>1, <1>4, <2>1 DEF HandlesInv, HeldIsCurrent
    <2>3. \A u \in Threads : ~Closing(u, c)
      BY <1>1, <2>1 DEF Closing, At, Critical
    <2>4. h \in Handles => holder[h] = c
      BY <2>1, <2>2, <2>3, Constants DEF HandlesInv, SocketIsOwn
    <2>5. ~strayed'
      BY <1>5, <2>1, <2>4 DEF HandlesInv
    <2> USE <2>1, <1>2 DEF HandlesInv, Moved
    <2>6. HeldIsCurrent' /\ DialsUnset'
      BY <1>1, <2>2 DEF HeldIsCurrent, DialsUnset
    <2>7. \A g \in Handles : holder'[g] \in Conns => holder'[g] = holder[g] /\ holder[g] # c
      BY <1>4, <2>2, <2>4, Constants DEF OneHandle
    <2>8. ClosedIsFree' /\ OneHandle'
      <3>1. OneHandle'
        BY <1>1, <2>7 DEF OneHandle
      <3>2. ClosedIsFree'
        BY <1>1, <2>7 DEF ClosedIsFree, ClientInv, TypesInv
      <3> QED BY <3>1, <3>2
    <2>9. NoUseAfterClose'
      <3> SUFFICES ASSUME NEW s \in Threads, NEW u \in Threads, s # u,
                          object[s] = object[u],
                          thread'[s].pc \in {"recv", "write", "close"},
                          Closing(u, object[s])'
                   PROVE  FALSE
        BY <1>1 DEF NoUseAfterClose
      <3>1. s # t /\ thread[s].pc = thread'[s].pc
        BY <1>2
      <3>2. CASE u = t
        BY <1>1, <3>1, <3>2 DEF Critical
      <3>3. CASE u # t
        BY <1>1, <3>1, <3>3 DEF NoUseAfterClose, Closing, At
      <3> QED BY <3>2, <3>3
    <2>10. SocketIsOwn'
      <3> SUFFICES ASSUME NEW d \in Conns, m_socket[d] # 0
                   PROVE  holder'[m_socket[d]] = d \/ \E u \in Threads : Closing(u, d)'
        BY <1>1 DEF SocketIsOwn
      <3>1. m_socket[d] \in Handles
        BY DEF ClientInv, TypesInv
      <3>2. CASE d = c
        BY <1>1, <2>2, <3>1, <3>2, Constants DEF Closing, At
      <3>3. CASE d # c
        <4>1. \A u \in Threads : Closing(u, d) => Closing(u, d)'
          BY <1>1, <3>3 DEF Closing, At
        <4>2. holder[m_socket[d]] = d => holder'[m_socket[d]] = d
          BY <1>4, <2>4, <3>1, <3>3
        <4> QED BY <4>1, <4>2 DEF SocketIsOwn
      <3> QED BY <3>2, <3>3
    <2>11. UnusedIsUnset'
      BY <1>1, <1>3, Constants DEF UnusedIsUnset, GoesOn
    <2> QED BY <2>5, <2>6, <2>8, <2>9, <2>10, <2>11
  <1> QED BY <1>6, <1>7, <1>8 DEF ClientInv

\* m_socket = 0, or the handle of a new socket, while nobody else is at it.
LEMMA AssignStep ==
    ASSUME ClientInv, NEW t \in Threads, NEW c \in Conns, NEW l, NEW h, object[t] = c,
           thread[t].pc \in {"clear", "socket"}, l \notin Delicate,
           GoesOn(t, l, h), Disturbs(t, c), UNCHANGED <<object, strayed>>,
           NEW s \in Handles \cup {0}, m_socket' = [m_socket EXCEPT ![c] = s],
           holder' = [g \in Handles |-> IF g = s THEN c ELSE holder[g]],
           s # 0 => holder[s] = Free
    PROVE  ClientInv'
  <1>1. TypesInv'
    BY NoRaceBefore DEF ClientInv, TypesInv, GoesOn, Moved
  <1>2. OwnersInv'
    BY GoesOnOwners DEF ClientInv
  <1>3. ASSUME ~raced'
        PROVE  HandlesInv'
    <2>1. /\ HandlesInv /\ TypesInv
          /\ \A u \in Threads : u # t /\ object[u] = c => thread[u].pc \notin Critical
      BY <1>3, NoRaceBefore DEF ClientInv
    <2>2. Moved(t, l, h)
      BY DEF GoesOn
    <2>3. m_socket'[c] = s /\ \A d \in Conns : d # c => m_socket'[d] = m_socket[d]
      BY <2>1 DEF TypesInv
    <2> USE <2>1, <2>2 DEF HandlesInv, Moved
    <2>4. \A g \in Handles : holder[g] # c
      BY Constants DEF ClosedIsFree, DialsUnset, OneHandle
    <2>5. \A g \in Handles : IF g = s THEN holder'[g] = c ELSE holder'[g] = holder[g]
      OBVIOUS
    <2>6. \A u \in Threads : thread'[u].pc \in Delicate =>
             u # t /\ thread'[u] = thread[u] /\ object[u] # c /\ object[u] \in Conns
      BY DEF Delicate, Critical, TypesInv
    <2>7. HeldIsCurrent' /\ DialsUnset'
      BY <2>3, <2>6 DEF HeldIsCurrent, DialsUnset, Delicate
    <2>8. ClosedIsFree'
      BY <2>5, <2>6 DEF ClosedIsFree, Delicate
    <2>9. OneHandle'
      BY <2>3, <2>4, <2>5 DEF OneHandle
    <2>10. NoUseAfterClose'
      BY <2>6 DEF NoUseAfterClose, Closing, At, Delicate
    <2>11. SocketIsOwn'
      <3> SUFFICES ASSUME NEW d \in Conns, m_socket'[d] # 0
                   PROVE  holder'[m_socket'[d]] = d \/ \E u \in Threads : Closing(u, d)'
        BY DEF SocketIsOwn
      <3>1. CASE d = c
        BY <2>3, <2>5, <3>1
      <3>2. CASE d # c
        <4>1. m_socket'[d] = m_socket[d] /\ m_socket[d] \in Handles
          BY <2>3, <3>2 DEF TypesInv
        <4>2. \A u \in Threads : Closing(u, d) => Closing(u, d)'
          BY <3>2 DEF Closing, At
        <4>3. holder[m_socket[d]] = d => holder'[m_socket[d]] = d
          BY <2>5, <3>2, <4>1, Constants
        <4> QED BY <4>1, <4>2, <4>3 DEF SocketIsOwn
      <3> QED BY <3>1, <3>2
    <2>12. UnusedIsUnset'
      <3>1. thread'[c].pc # "none" /\ ~deleted'[c]
        BY Constants DEF GoesOn, ClientInv, OwnersInv, Exists
      <3>2. \A d \in Conns : d # c /\ (thread'[d].pc = "none" \/ deleted'[d])
               => thread[d].pc = "none" \/ deleted[d]
        BY Constants DEF GoesOn
      <3> QED BY <2>3, <3>1, <3>2 DEF UnusedIsUnset
    <2> QED BY <2>7, <2>8, <2>9, <2>10, <2>11, <2>12
  <1> QED BY <1>1, <1>2, <1>3 DEF ClientInv

LEMMA CloseClearStep ==
    ASSUME ClientInv, NEW t \in Threads, NEW c \in Conns, UNCHANGED <<object, clientVars>>,
           CloseClear(t, c)
    PROVE  ClientInv'
  <1>1. /\ object[t] = c /\ thread[t].pc = "clear" /\ Disturbs(t, c) /\ CloseReturns(t)
        /\ m_socket' = [m_socket EXCEPT ![c] = 0]
        /\ UNCHANGED <<holder, object, deleted, strayed>>
    BY DEF CloseClear, At, osVars, clientVars
  <1>2. PICK l \in Returns : Moved(t, l, 0)
    BY <1>1, CloseReturnMoves DEF ClientInv
  <1>3. GoesOn(t, l, 0)
    BY <1>1, <1>2, StaysOn DEF Returns
  <1>4. holder' = [g \in Handles |-> IF g = 0 THEN c ELSE holder[g]]
    BY <1>1, Constants DEF ClientInv, TypesInv
  <1> QED BY <1>1, <1>3, <1>4, AssignStep DEF Returns, Delicate

LEMMA CheckSocketStep ==
    ASSUME ClientInv, NEW t \in Threads, NEW c \in Conns, UNCHANGED <<object, clientVars>>,
           CheckSocket(t, c)
    PROVE  ClientInv'
  <1>1. /\ object[t] = c /\ thread[t].pc = "socket" /\ Disturbs(t, c) /\ Goto(t, "dial")
        /\ UNCHANGED <<object, deleted, strayed>>
    BY DEF CheckSocket, At, clientVars
  <1>2. Moved(t, "dial", thread[t].hold)
    BY <1>1, GotoMoves DEF ClientInv, SocketLabels, Critical
  <1>3. GoesOn(t, "dial", thread[t].hold)
    BY <1>1, <1>2, StaysOn
  <1>4. PICK s \in Handles \cup {0} :
           /\ m_socket' = [m_socket EXCEPT ![c] = s]
           /\ s # 0 => holder[s] = Free
           /\ IF s = 0 THEN UNCHANGED holder ELSE holder' = [holder EXCEPT ![s] = c]
    BY Constants DEF CheckSocket, Available
  <1>5. holder' = [g \in Handles |-> IF g = s THEN c ELSE holder[g]]
    BY <1>4, Constants DEF ClientInv, TypesInv
  <1> QED BY <1>1, <1>3, <1>4, <1>5, AssignStep DEF Delicate

\* The connection is to be dialled: it has no socket.
LEMMA ToSocketStep ==
    ASSUME ClientInv, NEW t \in Threads, NEW c \in Conns, UNCHANGED <<object, clientVars>>,
           CheckConnected(t, c), ~(m_socket[c] > 0 \/ m_bWasConnected[c])
    PROVE  ClientInv'
  <1>1. /\ object[t] = c /\ thread[t].pc = "check" /\ Goto(t, "socket")
        /\ UNCHANGED <<m_socket, holder, raced, strayed, object, deleted>>
    BY DEF CheckConnected, At, osVars, socketVars, historyVars, clientVars
  <1>2. m_socket[c] = 0
    BY Constants DEF ClientInv, TypesInv
  <1>3. Moved(t, "socket", thread[t].hold)
    BY <1>1, GotoMoves DEF ClientInv, SocketLabels, Critical
  <1>4. GoesOn(t, "socket", thread[t].hold)
    BY <1>1, <1>3, StaysOn
  <1>5. TypesInv' /\ OwnersInv'
    BY <1>1, <1>4, GoesOnOwners DEF ClientInv, TypesInv, GoesOn, Moved
  <1>6. ASSUME ~raced
        PROVE  HandlesInv'
    <2> USE <1>1, <1>2, <1>3, <1>4, <1>6 DEF ClientInv, HandlesInv, GoesOn, Moved
    <2>1. HeldIsCurrent' /\ DialsUnset' /\ ClosedIsFree' /\ OneHandle'
      BY DEF HeldIsCurrent, DialsUnset, ClosedIsFree, OneHandle
    <2>2. NoUseAfterClose'
      BY DEF NoUseAfterClose, Closing, At
    <2>3. SocketIsOwn'
      <3>1. \A u \in Threads, d \in Conns : Closing(u, d) => Closing(u, d)'
        BY DEF Closing, At
      <3> QED BY <3>1 DEF SocketIsOwn
    <2>4. UnusedIsUnset'
      BY Constants DEF UnusedIsUnset
    <2> QED BY <2>1, <2>2, <2>3, <2>4
  <1> QED BY <1>1, <1>5, <1>6 DEF ClientInv

LEMMA SocketStepInv ==
    ASSUME ClientInv, NEW t \in Threads, NEW c \in Conns, UNCHANGED <<object, clientVars>>,
           SocketStep(t, c)
    PROVE  ClientInv'
  <1>1. CASE CloseSocket(t, c)
    BY <1>1, LoadReads, CloseHandleStep, CloseClearStep DEF CloseSocket
  <1>2. CASE CheckConnection(t, c)
    BY <1>2, CheckCalm, ToSocketStep, CheckSocketStep DEF CheckConnection
  <1>3. CASE Receive(t, c) \/ Send(t, c)
    BY <1>3, LoadReads, EnterCalm, TransferCalm DEF Receive, Send
  <1> QED BY <1>1, <1>2, <1>3 DEF SocketStep

-----------------------------------------------------------------------------
(* The thread of the connection, and the other threads. *)

LEMMA RunStep ==
    ASSUME ClientInv, NEW c \in Conns, Run(c)
    PROVE  ClientInv'
  <1>0. c \in Threads /\ object[c] = c /\ TypesInv
    BY Constants DEF ClientInv, OwnersInv
  <1>1. CASE SocketStep(c, c) /\ UNCHANGED <<object, clientVars>>
    BY <1>0, <1>1, SocketStepInv
  <1>2. CASE ~(SocketStep(c, c) /\ UNCHANGED <<object, clientVars>>)
    <2>1. /\ thread[c].pc \in {"loop", "failed", "process", "reply", "count", "refused"}
          /\ UNCHANGED <<m_socket, holder, raced, strayed, object, deleted>>
          /\ \/ \E l \in {"done", "count", "loop"} : Goto(c, l)
             \/ \E g \in {"loadRecv", "loadSend"} : GotoCheck(c, g)
             \/ \E r \in {"reply", "refused"} : GotoClose(c, r)
      BY <1>2 DEF Run, Greet, AwaitAnswer, SendRenew, Admit, Refuse, Refused, RunLoop,
         RunFailed, RunAnswers, RunCloses, RunReplies, RunWrongPacket, RunCount, osVars,
         socketVars, historyVars, clientVars
    <2>2. PICK l \in {"done", "count", "loop", "check", "test"}, h \in {thread[c].hold, 0} :
                  Moved(c, l, h)
      BY <1>0, <2>1, GotoMoves, GotoCheckMoves, GotoCloseMoves DEF Returns, CallerLabels
    <2>3. GoesOn(c, l, h)
      BY <1>0, <2>1, <2>2, StaysOn
    <2> QED BY <1>0, <2>1, <2>3, CalmStep DEF Delicate, ClientInv, TypesInv, HandlesInv
  <1> QED BY <1>1, <1>2

\* stop() and sendAlert take up a connection that is there.
LEMMA OthersTakeUp ==
    ASSUME ClientInv, NEW c \in Conns,
           (\E t \in Stoppers : StopCalls(t, c)) \/ AlertSends(c)
    PROVE  ClientInv'
  <1>1. PICK t \in Others :
           /\ thread[t].pc = "idle" /\ Exists(c)
           /\ object' = [object EXCEPT ![t] = c]
           /\ GotoClose(t, "setStop") \/ GotoCheck(t, "loadSend")
           /\ UNCHANGED <<m_socket, holder, raced, strayed, deleted>>
    BY Constants DEF StopCalls, AlertSends, osVars, socketVars, historyVars, clientVars
  <1>2. t \in Threads /\ t \notin Conns /\ TypesInv
    BY Constants DEF ClientInv
  <1>3. PICK l \in {"test", "check"}, h \in {thread[t].hold, 0} : Moved(t, l, h)
    BY <1>1, <1>2, GotoCloseMoves, GotoCheckMoves DEF Returns
  <1>4. GoesOn(t, l, h)
    BY <1>1, <1>2, <1>3 DEF GoesOn, TypesInv, Exists
  <1> QED BY <1>1, <1>2, <1>4, CalmStep DEF Delicate, ClientInv, TypesInv, HandlesInv

LEMMA StopSetsStep ==
    ASSUME ClientInv, NEW t \in Others, StopSets(t)
    PROVE  ClientInv'
  <1>1. /\ t \in Threads /\ thread[t].pc = "setStop" /\ Goto(t, "idle")
        /\ UNCHANGED <<m_socket, holder, raced, strayed, object, deleted>>
    BY Constants DEF StopSets, osVars, socketVars, historyVars
  <1>2. Moved(t, "idle", thread[t].hold)
    BY <1>1, GotoMoves DEF ClientInv, CallerLabels
  <1>3. object[t] \in Conns
    BY <1>1 DEF ClientInv, TypesInv
  <1>4. GoesOn(t, "idle", thread[t].hold)
    BY <1>1, <1>2, <1>3, StaysOn
  <1> QED BY <1>1, <1>4, CalmStep DEF Delicate, ClientInv, TypesInv, HandlesInv

LEMMA OtherStep ==
    ASSUME ClientInv, NEW t \in Others, Other(t)
    PROVE  ClientInv'
  BY Constants, SocketStepInv, StopSetsStep DEF Other

-----------------------------------------------------------------------------
(* The beginning and the end of a connection. *)

\* No thread is at work on c.
LEMMA NobodyAtWork ==
    ASSUME ClientInv, NEW c \in Conns, thread[c].pc \in {"none", "done"},
           ~Exists(c) \/ \A t \in Others : object[t] = c => thread[t].pc = "idle"
    PROVE  \A t \in Threads : object[t] = c => thread[t].pc \in {"none", "idle", "done"}
  BY Constants DEF ClientInv, OwnersInv

LEMMA AcceptStep ==
    ASSUME ClientInv, NEW c \in Conns, Accept(c)
    PROVE  ClientInv'
  <1>1. /\ c \in Threads /\ object[c] = c /\ TypesInv
        /\ thread[c].pc = "none" /\ GotoCheck(c, "loadSend") /\ ~deleted[c]
        /\ UNCHANGED <<object, deleted, raced, strayed>>
    BY Constants DEF Accept, historyVars, clientVars, ClientInv, OwnersInv
  <1>2. PICK h \in Handles : /\ holder[h] = Free
                             /\ holder' = [holder EXCEPT ![h] = c]
                             /\ m_socket' = [m_socket EXCEPT ![c] = h]
    BY DEF Accept, Available
  <1>3. Moved(c, "check", thread[c].hold)
    BY <1>1, GotoCheckMoves
  <1>4. TypesInv'
    BY <1>1, <1>2, <1>3 DEF TypesInv, Moved
  <1>5. OwnersInv'
    <2>1. \A t \in Others : thread'[t] = thread[t]
      BY <1>3, Constants DEF Moved
    <2>2. \A d \in Conns : Exists(d) => thread'[d].pc # "none" /\ ~deleted'[d]
      BY <1>1, <1>3, Constants DEF Exists, Moved
    <2>3. \A t \in Others : object[t] \in Conns
      BY <1>1, Constants DEF TypesInv
    <2>4. \A t \in Others : thread'[t].pc # "idle" => Exists(object[t])'
      BY <1>1, <2>1, <2>2, <2>3 DEF ClientInv, OwnersInv, Exists
    <2>5. \A d \in Conns : object'[d] = d /\ (deleted'[d] => thread'[d].pc = "done")
      BY <1>1, <1>3, Constants DEF ClientInv, OwnersInv, Moved
    <2> QED BY <2>4, <2>5 DEF OwnersInv
  <1>6. ASSUME ~raced
        PROVE  HandlesInv'
    <2>1. \A t \in Threads : object[t] = c => thread[t].pc \in {"none", "idle", "done"}
      BY <1>1, NobodyAtWork DEF Exists
    <2>2. m_socket[c] = 0 /\ \A g \in Handles : holder[g] # c
      BY <1>1, <1>6, Constants DEF ClientInv, HandlesInv, UnusedIsUnset, OneHandle
    <2>3. /\ m_socket'[c] = h /\ \A d \in Conns : d # c => m_socket'[d] = m_socket[d]
          /\ holder'[h] = c /\ \A g \in Handles : g # h => holder'[g] = holder[g]
      BY <1>1, <1>2 DEF TypesInv
    <2>4. \A t \in Threads : thread'[t].pc \in Delicate =>
             t # c /\ thread'[t] = thread[t] /\ object[t] # c /\ object[t] \in Conns
      BY <1>1, <1>3, <2>1 DEF Moved, Delicate, TypesInv
    <2> USE <1>1, <1>6 DEF ClientInv, HandlesInv
    <2>5. HeldIsCurrent' /\ DialsUnset'
      BY <2>3, <2>4 DEF HeldIsCurrent, DialsUnset, Delicate
    <2>6. ClosedIsFree'
      BY <2>3, <2>4 DEF ClosedIsFree, Delicate
    <2>7. OneHandle'
      BY <2>2, <2>3 DEF OneHandle
    <2>8. NoUseAfterClose'
      BY <2>4 DEF NoUseAfterClose, Closing, At, Delicate
    <2>9. SocketIsOwn'
      <3> SUFFICES ASSUME NEW d \in Conns, m_socket'[d] # 0
                   PROVE  holder'[m_socket'[d]] = d \/ \E u \in Threads : Closing(u, d)'
        BY DEF SocketIsOwn
      <3>1. CASE d = c
        BY <2>3, <3>1
      <3>2. CASE d # c
        <4>1. m_socket'[d] = m_socket[d] /\ m_socket[d] \in Handles
          BY <2>3, <3>2 DEF TypesInv
        <4>2. \A u \in Threads : Closing(u, d) => Closing(u, d)'
          BY <1>3, <3>2 DEF Closing, At, Moved
        <4>3. holder[m_socket[d]] = d => holder'[m_socket[d]] = d
          BY <1>2, <2>3, <4>1, Constants
        <4> QED BY <4>1, <4>2, <4>3 DEF SocketIsOwn
      <3> QED BY <3>1, <3>2
    <2>10. UnusedIsUnset'
      BY <1>3, <2>3, Constants DEF UnusedIsUnset, Moved
    <2> QED BY <2>5, <2>6, <2>7, <2>8, <2>9, <2>10
  <1> QED BY <1>1, <1>4, <1>5, <1>6 DEF ClientInv

LEMMA DeleteStep ==
    ASSUME ClientInv, NEW c \in Conns, Delete(c)
    PROVE  ClientInv'
  <1>1. /\ c \in Threads /\ object[c] = c /\ TypesInv
        /\ thread[c].pc = "done"
        /\ \A t \in Others : object[t] = c => thread[t].pc = "idle"
        /\ deleted' = [deleted EXCEPT ![c] = TRUE]
        /\ m_socket' = [m_socket EXCEPT ![c] = 0]
        /\ holder' = [h \in Handles |-> IF h = m_socket[c] THEN Free ELSE holder[h]]
        /\ strayed' = (strayed \/ (m_socket[c] \in Handles
                                     /\ holder[m_socket[c]] \notin {c, Free}))
        /\ UNCHANGED <<object, thread, raced>>
    BY Constants DEF Delete, Strays, ClientInv, OwnersInv
  <1>2. TypesInv'
    BY <1>1 DEF TypesInv
  <1>3. OwnersInv'
    <2>1. \A t \in Others : thread[t].pc # "idle" =>
             /\ object[t] \in Conns /\ object[t] # c
             /\ thread[object[t]].pc # "none" /\ ~deleted[object[t]]
      BY <1>1, Constants DEF ClientInv, OwnersInv, Exists, TypesInv
    <2>2. \A d \in Conns : d # c => deleted'[d] = deleted[d]
      BY <1>1 DEF TypesInv
    <2>3. \A t \in Others : thread'[t].pc # "idle" => Exists(object[t])'
      BY <1>1, <2>1, <2>2 DEF Exists
    <2> QED BY <1>1, <2>2, <2>3 DEF ClientInv, OwnersInv
  <1>4. ASSUME ~raced
        PROVE  HandlesInv'
    <2>1. \A t \in Threads : object[t] = c => thread[t].pc \in {"none", "idle", "done"}
      BY <1>1, NobodyAtWork
    <2> USE <1>1, <1>4 DEF ClientInv, HandlesInv
    <2>2. m_socket[c] \in Handles => holder[m_socket[c]] = c
      BY <2>1, Constants DEF SocketIsOwn, Closing, At
    <2>3. m_socket'[c] = 0 /\ \A d \in Conns : d # c => m_socket'[d] = m_socket[d]
      BY DEF TypesInv
    <2>4. \A h \in Handles : holder'[h] # c /\ (holder'[h] \in Conns => holder'[h] = holder[h])
      BY Constants DEF OneHandle
    <2>5. HeldIsCurrent' /\ DialsUnset'
      BY <2>1, <2>3 DEF HeldIsCurrent, DialsUnset, TypesInv
    <2>6. ClosedIsFree' /\ OneHandle'
      BY <2>3, <2>4 DEF ClosedIsFree, OneHandle, TypesInv
    <2>7. NoUseAfterClose'
      BY DEF NoUseAfterClose, Closing, At
    <2>8. SocketIsOwn'
      <3> SUFFICES ASSUME NEW d \in Conns, m_socket'[d] # 0
                   PROVE  holder'[m_socket'[d]] = d \/ \E u \in Threads : Closing(u, d)'
        BY DEF SocketIsOwn
      <3>1. d # c /\ m_socket'[d] = m_socket[d] /\ m_socket[d] \in Handles
        BY <2>3 DEF TypesInv
      <3>2. \A u \in Threads : Closing(u, d) => Closing(u, d)'
        BY DEF Closing, At
      <3>3. holder[m_socket[d]] = d => holder'[m_socket[d]] = d
        BY <2>2, <3>1, Constants
      <3> QED BY <3>1, <3>2, <3>3 DEF SocketIsOwn
    <2>9. UnusedIsUnset'
      BY <2>3 DEF UnusedIsUnset, TypesInv
    <2>10. ~strayed'
      BY <2>2
    <2> QED BY <2>5, <2>6, <2>7, <2>8, <2>9, <2>10
  <1> QED BY <1>1, <1>2, <1>3, <1>4 DEF ClientInv

-----------------------------------------------------------------------------
(* The environment, and the theorems. *)

LEMMA ElsewhereInv ==
    ASSUME ClientInv, ElsewhereStep /\ UNCHANGED clientVars
    PROVE  ClientInv'
  <1>1. UNCHANGED <<m_socket, thread, object, raced, strayed, deleted>>
    BY DEF ElsewhereStep, socketVars, historyVars, clientVars
  <1>2. PICK h \in Handles, x \in {Free, Elsewhere} :
           holder[h] \in {Free, Elsewhere} /\ holder' = [holder EXCEPT ![h] = x]
    BY DEF ElsewhereStep, Available
  <1>3. \A g \in Handles, c \in Conns : holder'[g] = c <=> holder[g] = c
    BY <1>2, Constants DEF ClientInv, TypesInv
  <1>4. TypesInv' /\ OwnersInv'
    BY <1>1, <1>2 DEF ClientInv, TypesInv, OwnersInv, Exists
  <1>5. ASSUME ~raced
        PROVE  HandlesInv'
    <2> USE <1>1, <1>3, <1>5 DEF ClientInv, HandlesInv
    <2>1. HeldIsCurrent' /\ DialsUnset' /\ NoUseAfterClose' /\ UnusedIsUnset'
      BY DEF HeldIsCurrent, DialsUnset, NoUseAfterClose, UnusedIsUnset, Closing, At
    <2>2. ClosedIsFree' /\ OneHandle'
      BY DEF ClosedIsFree, OneHandle, TypesInv
    <2>3. SocketIsOwn'
      BY DEF SocketIsOwn, TypesInv, Closing, At
    <2> QED BY <2>1, <2>2, <2>3
  <1> QED BY <1>1, <1>4, <1>5 DEF ClientInv

LEMMA UnchangedInv ==
    ASSUME ClientInv,
           UNCHANGED <<m_socket, holder, thread, object, raced, strayed, deleted>>
    PROVE  ClientInv'
  BY DEF ClientInv, TypesInv, OwnersInv, Exists, HandlesInv, HeldIsCurrent, DialsUnset,
     ClosedIsFree, OneHandle, NoUseAfterClose, SocketIsOwn, UnusedIsUnset, Closing, At

LEMMA ClientInitInv == ClientInit => ClientInv
  <1> SUFFICES ASSUME ClientInit PROVE ClientInv
    OBVIOUS
  <1>1. /\ holder = [h \in Handles |-> Free] /\ m_socket = [c \in Conns |-> 0]
        /\ ~raced /\ raced \in BOOLEAN /\ ~strayed /\ strayed \in BOOLEAN
        /\ deleted = [c \in Conns |-> FALSE]
    BY DEF ClientInit, SocketInit
  <1>2. /\ thread \in [Threads -> Records]
        /\ \A t \in Threads : thread[t].pc = IF t \in Conns THEN "none" ELSE "idle"
    BY DEF ClientInit, SocketInit, Idle, Records, Returns, CallerLabels
  <1>3. /\ object \in [Threads -> Conns]
        /\ \A c \in Conns : object[c] = c
    <2>1. (CHOOSE c \in Conns : TRUE) \in Conns
      BY TcpCommAssumption
    <2> QED BY <2>1, Constants DEF ClientInit, SocketInit
  <1>4. TypesInv /\ OwnersInv
    BY <1>1, <1>2, <1>3, Constants DEF TypesInv, OwnersInv
  <1>5. HandlesInv
    BY <1>1, <1>2, <1>3, Constants
       DEF HandlesInv, HeldIsCurrent, DialsUnset, ClosedIsFree, OneHandle,
           NoUseAfterClose, SocketIsOwn, UnusedIsUnset
  <1> QED BY <1>4, <1>5 DEF ClientInv

LEMMA ClientStepInv == ClientInv /\ [ClientNext]_vars => ClientInv'
  <1> SUFFICES ASSUME ClientInv, [ClientNext]_vars PROVE ClientInv'
    OBVIOUS
  <1>1. CASE \E c \in Conns : Accept(c) \/ Run(c) \/ Delete(c) \/ AlertSends(c)
                               \/ \E t \in Stoppers : StopCalls(t, c)
    BY <1>1, AcceptStep, RunStep, DeleteStep, OthersTakeUp
  <1>2. CASE \E c \in Conns : PeerReads(c) \/ PeerLeaves(c)
    BY <1>2, UnchangedInv DEF PeerReads, PeerLeaves, socketVars, historyVars, clientVars
  <1>3. CASE (\E t \in Others : Other(t)) \/ (ElsewhereStep /\ UNCHANGED clientVars)
    BY <1>3, OtherStep, ElsewhereInv
  <1>4. CASE UNCHANGED vars
    BY <1>4, UnchangedInv DEF vars, osVars, socketVars, historyVars, clientVars
  <1> QED BY <1>1, <1>2, <1>3, <1>4 DEF ClientNext

\* Who holds which handle, and what the threads have read of m_socket.
THEOREM ClientInvariant == ClientSpec => []ClientInv
  BY ClientInitInv, ClientStepInv, PTL DEF ClientSpec

\* A connection uses the handle of another one only after two of its threads
\* raced at m_socket.
THEOREM HandlesAreOwn == ClientSpec => []StraysOnlyIfRaced
  <1>1. ClientInv => StraysOnlyIfRaced
    BY DEF ClientInv, HandlesInv, StraysOnlyIfRaced, TypesInv
  <1> QED BY <1>1, ClientInvariant, PTL

\* No handle outlives its connection without such a race.
THEOREM HandlesAreClosed == ClientSpec => []LeaksOnlyIfRaced
  <1>1. ClientInv => LeaksOnlyIfRaced
    BY Constants DEF ClientInv, HandlesInv, LeaksOnlyIfRaced, UnusedIsUnset, OneHandle
  <1> QED BY <1>1, ClientInvariant, PTL
=============================================================================
