-------------------------- MODULE TerremotoDevice ---------------------------
(***************************************************************************)
(* The sketch of a seismic device: loop(), which samples the acceleration, *)
(* decides and reports, and alive(), which MsTimer2's interrupt runs in    *)
(* between on the same ServerComm.  Both versions are modelled,            *)
(* TerremotoDevice.ino (an ADXL345) and TerremotoDeviceUpdated.ino (a      *)
(* BMA180): they differ in the acceleration they look at.                  *)
(*                                                                         *)
(* Link is the connection as client.connected() tells; how it is set up    *)
(* with the server is the module Enrollment, of which what the device sends *)
(* remains here.  A message is its number.                                 *)
(***************************************************************************)
EXTENDS MsTimer2

CONSTANTS
    AxisValues,        \* what the ADXL345 delivers for x and y, 10 bits
    RawValues,         \* what the BMA180 delivers, 16 bits
    DivisionByZero,    \* what a division by zero may return
    IdSpace,           \* numbers of messages, 2^32 in the code
    MaxAlives          \* bound: calls of alive() during one SendMessage

ASSUME SampleAssumption == AxisValues \subseteq Int /\ RawValues \subseteq Int
ASSUME DivisionAssumption == DivisionByZero \subseteq Int /\ DivisionByZero # {}
ASSUME IdAssumption ==
    IdSpace \in Nat /\ MaxAlives \in Nat /\ IdSpace > 2 * MaxAlives + 1

VARIABLES
    sketch,        \* the program of this device
    identified,    \* isValidID(idDevice)
    reading1, readIndex1, total1,    \* LTA
    reading2, readIndex2, total2,    \* STA
    ratio,
    pc,            \* where loop() is
    started,       \* MsTimer2::start() was called, at the end of setup()
    command,       \* the message SendMessage has in hand in loop()
    number,            \* ... and the number it took for it
    messageId,     \* ServerComm::messageId
    link,          \* ServerComm::client, connected or not
    sent,          \* what SendMessage returned
    broke,         \* history: the connection broke since loop() tested it
    lastID,        \* history: number of the last message on the connection
    alives,        \* history: calls of alive() since loop() took a number
    interrupted    \* history: alive() came between its load and its store

deviceVars == <<sketch, identified>>
windowVars == <<reading1, readIndex1, total1, reading2, readIndex2, total2, ratio>>
messageVars == <<command, number, messageId, sent, lastID, alives, interrupted>>
vars == <<timerVars, deviceVars, windowVars, pc, started, messageVars, link, broke>>

numReading1 == 10
numReading2 == 8
offx == 31

Sketches == {"ADXL345", "BMA180"}

Abs(n) == IF n < 0 THEN -n ELSE n

\* Division of C, towards zero.
Half(n) == IF n < 0 THEN -(-n \div 2) ELSE n \div 2

DeviceTypeOK ==
    /\ TimerTypeOK
    /\ sketch \in Sketches /\ identified \in BOOLEAN
    /\ reading1 \in [0 .. numReading1 - 1 -> Nat]
    /\ reading2 \in [0 .. numReading2 - 1 -> Nat]
    /\ readIndex1 \in 0 .. numReading1 - 1 /\ readIndex2 \in 0 .. numReading2 - 1
    /\ total1 \in Nat /\ total2 \in Nat
    /\ ratio \in Int
    /\ pc \in {"connect", "ack", "renew", "load", "store", "write",
              "read", "check", "decide", "delay"}
    /\ started \in BOOLEAN
    /\ command \in {"ACKNOWLEDGE_CLIENT", "EARTHQUAKE"}
    /\ number \in 0 .. IdSpace - 1 /\ messageId \in 0 .. IdSpace - 1
    /\ lastID \in -1 .. IdSpace - 1
    /\ link \in BOOLEAN /\ sent \in BOOLEAN /\ broke \in BOOLEAN
    /\ alives \in 0 .. MaxAlives
    /\ interrupted \in BOOLEAN

DeviceInit ==
    /\ TimerInit
    /\ sketch \in Sketches /\ identified \in BOOLEAN
    /\ reading1 = [i \in 0 .. numReading1 - 1 |-> 0]
    /\ reading2 = [i \in 0 .. numReading2 - 1 |-> 0]
    /\ readIndex1 = 0 /\ readIndex2 = 0
    /\ total1 = 0 /\ total2 = 0
    /\ ratio = 0
    /\ pc = "connect"
    /\ started = FALSE
    /\ command = "ACKNOWLEDGE_CLIENT"
    /\ number = 0 /\ messageId = 0 /\ lastID = -1
    /\ link = FALSE /\ sent = FALSE /\ broke = FALSE
    /\ alives = 0
    /\ interrupted = FALSE

\* loop() does not run while the interrupt does.
At(label) == pc = label /\ ~overflowing

Goto(label) == pc' = label

-----------------------------------------------------------------------------
(* The detector. *)

\* LTA.  The block that sets the index back follows a condition that is a
\* statement of its own: it is always executed.
WindowLTA(s) ==
    /\ total1' = total1 - reading1[readIndex1] + s
    /\ reading1' = [reading1 EXCEPT ![readIndex1] = s]
    /\ readIndex1' = 0

\* Mutated form of WindowSTA: the sample that leaves stays in the total.
WindowSTAKeepsTotal(s) ==
    /\ total2' = total2 + s
    /\ reading2' = [reading2 EXCEPT ![readIndex2] = s]
    /\ readIndex2' = 0

\* STA, in the same way.
WindowSTA(s) ==
    /\ total2' = total2 - reading2[readIndex2] + s
    /\ reading2' = [reading2 EXCEPT ![readIndex2] = s]
    /\ readIndex2' = 0

\* STA / LTA, of integers.
Quotients(STA, LTA) == IF LTA = 0 THEN DivisionByZero ELSE {STA \div LTA}

\* loop() of TerremotoDevice.ino, lines 91 to 127.
ReadADXL345(x, y) ==
    /\ sketch = "ADXL345"
    /\ WindowLTA(Abs(x + Half(y)))
    /\ WindowSTA(Abs(x + Half(y)))
    /\ ratio' \in {Abs(q) : q \in Quotients(Abs(total2' \div numReading2),
                                            Abs(total1' \div numReading1))}

\* AccelerometerRead() of TerremotoDeviceUpdated.ino, lines 100 to 131: the
\* shift is an arithmetic one.
ReadBMA180(raw) ==
    /\ sketch = "BMA180"
    /\ WindowLTA(Abs(raw \div 4 + offx))
    /\ WindowSTA(Abs(raw \div 4 + offx))
    /\ ratio' \in Quotients(total2' \div numReading2, total1' \div numReading1)

Sample ==
    /\ At("read")
    /\ \/ \E x \in AxisValues, y \in AxisValues : ReadADXL345(x, y)
       \/ \E raw \in RawValues : ReadBMA180(raw)
    /\ Goto("check")
    /\ UNCHANGED <<timerVars, deviceVars, started, messageVars, link, broke>>

Detected == ratio > 1

-----------------------------------------------------------------------------
(* loop(): the connection, and the report. *)

\* Mutated form of CheckConnection: the report comes first.
CheckConnectionLater ==
    /\ At("check")
    /\ broke' = FALSE
    /\ Goto("decide")
    /\ UNCHANGED <<timerVars, deviceVars, windowVars, started, messageVars, link>>

\* if (!comm.Connected()) { comm.StopClient(); connectToServer(); }
CheckConnection ==
    /\ At("check")
    /\ broke' = FALSE
    /\ Goto(IF link THEN "decide" ELSE "connect")
    /\ UNCHANGED <<timerVars, deviceVars, windowVars, started, messageVars, link>>

\* connectToServer: a StartComm that succeeds.  One that fails is repeated.
StartComm ==
    /\ At("connect")
    /\ link' = TRUE
    /\ broke' = FALSE
    /\ lastID' = -1
    /\ Goto("ack")
    /\ UNCHANGED <<timerVars, deviceVars, windowVars, started, command, number,
                   messageId, sent, alives, interrupted>>

\* ackServer: the answer to the connection came, the next thing is hello ...
RecvAck ==
    /\ At("ack")
    /\ command' = "ACKNOWLEDGE_CLIENT"
    /\ Goto("load")
    /\ UNCHANGED <<timerVars, deviceVars, windowVars, started, number, messageId,
                   sent, lastID, alives, interrupted, link, broke>>

\* ... that to a device without an identification did, and it is confirmed ...
RecvRenew ==
    /\ At("renew")
    /\ identified' = TRUE
    /\ Goto("load")
    /\ UNCHANGED <<timerVars, sketch, windowVars, started, messageVars, link, broke>>

\* ... or it did not, or was another packet: StopClient, try again.
Unanswered ==
    /\ At("ack") \/ At("renew")
    /\ link' = FALSE
    /\ Goto("connect")
    /\ UNCHANGED <<timerVars, deviceVars, windowVars, started, messageVars, broke>>

\* if (ratio > 1.00)
Decide ==
    /\ At("decide")
    /\ IF Detected
       THEN command' = "EARTHQUAKE" /\ Goto("load")
       ELSE Goto("read") /\ UNCHANGED command
    /\ UNCHANGED <<timerVars, deviceVars, windowVars, started, number, messageId, sent,
                   lastID, alives, interrupted, link, broke>>

\* SendMessage: messageId++, which is a load ...
TakeID ==
    /\ At("load")
    /\ number' = messageId
    /\ alives' = 0
    /\ interrupted' = FALSE
    /\ Goto("store")
    /\ UNCHANGED <<timerVars, deviceVars, windowVars, started, command, messageId,
                   sent, lastID, link, broke>>

\* ... and a store ...
NextID ==
    /\ At("store")
    /\ messageId' = (number + 1) % IdSpace
    /\ Goto("write")
    /\ UNCHANGED <<timerVars, deviceVars, windowVars, started, command, number, sent,
                   lastID, alives, interrupted, link, broke>>

\* What follows the SendMessage that returned ok.  After a report it is the
\* delay.  In ackServer, a failure is repeated from StartComm on, a device that
\* has no identification waits for it, and with one connectToServer returns:
\* to loop(), or to setup(), which starts the timer and ends.
AfterSend(ok) ==
    IF command = "EARTHQUAKE" THEN Goto("delay") /\ UNCHANGED <<started, link>>
    ELSE IF ~ok THEN Goto("connect") /\ link' = FALSE /\ UNCHANGED started
    ELSE IF ~identified THEN Goto("renew") /\ UNCHANGED <<started, link>>
    ELSE /\ Goto(IF started THEN "decide" ELSE "read")
         /\ started' = TRUE
         /\ UNCHANGED link

\* ... then the message goes to the connection, if there is one.
Write ==
    /\ At("write")
    /\ sent' = link
    /\ lastID' = IF link THEN number ELSE lastID
    /\ AfterSend(link)
    /\ UNCHANGED <<timerVars, deviceVars, windowVars, command, number, messageId, alives,
                   interrupted, broke>>

\* delay(1000)
Delay ==
    /\ At("delay")
    /\ Goto("read")
    /\ UNCHANGED <<timerVars, deviceVars, windowVars, started, messageVars, link, broke>>

Loop ==
    \/ Sample
    \/ CheckConnection
    \/ StartComm
    \/ RecvAck
    \/ RecvRenew
    \/ Unanswered
    \/ Decide
    \/ TakeID
    \/ NextID
    \/ Write
    \/ Delay

-----------------------------------------------------------------------------
(* The interrupt. *)

loopVars == <<deviceVars, windowVars, pc, started, command, number, sent, link, broke>>

\* A millisecond of Timer2, and its interrupt, with alive() due or not.
Tick ==
    /\ started
    /\ \/ Overflow
       \/ CountOnly
       \/ /\ pc \in {"store", "write"} => alives < MaxAlives
          /\ StartCall
    /\ UNCHANGED <<loopVars, messageId, lastID, alives, interrupted>>

\* Mutated form of Alive: it sends with the number of the next message.
AliveKeepsID ==
    /\ EndCall
    /\ lastID' = IF link THEN messageId ELSE lastID
    /\ alives' = IF pc \in {"store", "write"} THEN alives + 1 ELSE 0
    /\ interrupted' = (interrupted \/ pc = "store")
    /\ UNCHANGED <<loopVars, messageId>>

\* alive(): SendMessage(ALIVE), as a whole while loop() stands still.
Alive ==
    /\ EndCall
    /\ messageId' = (messageId + 1) % IdSpace
    /\ lastID' = IF link THEN messageId ELSE lastID
    /\ alives' = IF pc \in {"store", "write"} THEN alives + 1 ELSE 0
    /\ interrupted' = (interrupted \/ pc = "store")
    /\ UNCHANGED loopVars

\* The connection breaks.
Break ==
    /\ link
    /\ link' = FALSE
    /\ broke' = TRUE
    /\ UNCHANGED <<timerVars, deviceVars, windowVars, pc, started, messageVars>>

DeviceNext == Loop \/ Tick \/ Alive \/ Break

DeviceSpec == DeviceInit /\ [][DeviceNext]_vars

\* Fairness.  The processor runs loop() whenever the interrupt does not
\* (strong, for the interrupt keeps coming), alive() returns, and in the end a
\* StartComm succeeds.  No server has to answer, and nothing has to break.
DeviceFairSpec == DeviceSpec /\ SF_vars(Loop) /\ WF_vars(Alive)

-----------------------------------------------------------------------------
(* Properties. *)

\* Both windows hold one sample, the same, for the index never moves; the timer
\* has counted no more than what has passed since the last call; and alives is
\* within its bound.
DeviceInv ==
    /\ DeviceTypeOK
    /\ readIndex1 = 0 /\ total1 = reading1[0]
    /\ readIndex2 = 0 /\ total2 = reading2[0]
    /\ reading1[0] = reading2[0]
    /\ CountIsElapsed
    /\ overflowing /\ pc \in {"store", "write"} => alives < MaxAlives

\* alive() is never called twice within a period: what a callback that lasts
\* long delays is dropped, not made up for by a burst of messages, although
\* _overflow() subtracts msecs "to catch missed overflows" (MsTimer2.cpp:195).
AlivesSpaced == [][~overflowing /\ overflowing' => since = msecs]_vars

\* Two messages in a row of one connection have one number (ServerComm.h:102,
\* "The unique id of the next message") only if alive() came between the load
\* and the store of loop()'s messageId++.
IDRepeatsOnlyIfInterrupted ==
    [][/\ At("write") /\ ~At("write")' /\ ~overflowing' /\ link => number # lastID \/ interrupted
       /\ overflowing /\ ~overflowing' /\ link => messageId # lastID \/ interrupted]_vars

\* An earthquake is reported although the connection was down when it was
\* detected: loop() connects first, with one exchange or, if the device has no
\* identification, two.  Only a connection that breaks between the test and
\* the write loses the report, or connections that break, or servers that do
\* not answer, for ever.
DetectedIsSent ==
    \/ (pc = "check" /\ Detected) ~> (pc = "delay" /\ (sent \/ broke))
    \/ []<><<Break>>_vars
    \/ []<><<Unanswered>>_vars
=============================================================================
