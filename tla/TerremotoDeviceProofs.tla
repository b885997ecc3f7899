----------------------- MODULE TerremotoDeviceProofs ------------------------
(***************************************************************************)
(* The timer of a device never calls twice within a period, its windows    *)
(* hold one sample, and the numbers of its messages repeat only after an   *)
(* interrupted count: for every acceleration the sensors can deliver,      *)
(* every period, every number of identifications, and every result of a    *)
(* division by zero.                                                       *)
(***************************************************************************)
EXTENDS TerremotoDevice, TLAPS

-----------------------------------------------------------------------------
(* Arithmetic. *)

LEMMA AbsNat ==
    ASSUME NEW n \in Int
    PROVE  Abs(n) \in Nat /\ (n \in Nat => Abs(n) = n)
  BY DEF Abs

LEMMA HalfInt ==
    ASSUME NEW n \in Int
    PROVE  Half(n) \in Int
  BY DEF Half

-----------------------------------------------------------------------------
(* The timer. *)

LEMMA PeriodTypes == msecs \in Nat /\ msecs > 0
  BY TimerAssumption DEF msecs

TimerInv == TimerTypeOK /\ CountIsElapsed

\* The two flags, apart from the arithmetic.
FlagsOK == overflowing \in BOOLEAN /\ pending \in BOOLEAN

CountersOK == count \in 0 .. msecs - 1 /\ since \in 0 .. msecs /\ CountIsElapsed

LEMMA TimerParts == TimerInv <=> FlagsOK /\ CountersOK
  BY Zenon DEF TimerInv, TimerTypeOK, FlagsOK, CountersOK

LEMMA TimerPartsNext == TimerInv' <=> FlagsOK' /\ CountersOK'
  <1>1. TimerInv' <=> TimerTypeOK' /\ CountIsElapsed'
    BY Zenon DEF TimerInv
  <1> QED BY <1>1, Zenon DEF TimerTypeOK, FlagsOK, CountersOK

LEMMA TimerInitInv == TimerInit => TimerInv
  <1>1. TimerInit => FlagsOK
    BY Zenon DEF TimerInit, FlagsOK
  <1>2. TimerInit => CountersOK
    BY PeriodTypes DEF TimerInit, CountersOK, CountIsElapsed
  <1> QED BY <1>1, <1>2, TimerParts

LEMMA CountersStep ==
    ASSUME CountersOK, Overflow \/ CountOnly \/ StartCall \/ EndCall \/ UNCHANGED timerVars
    PROVE  CountersOK' /\ (~overflowing /\ overflowing' => since = msecs)
  <1>0. msecs' = msecs
    BY DEF msecs
  <1>1. CASE Overflow \/ CountOnly
    BY <1>0, <1>1, PeriodTypes DEF Overflow, CountOnly, CountersOK, CountIsElapsed
  <1>2. CASE StartCall
    <2>1. count \in Nat /\ count + 1 = msecs /\ since = msecs
      BY <1>2, PeriodTypes DEF StartCall, CountersOK, CountIsElapsed
    <2>2. count' = count + 1 - msecs /\ since' = 0 /\ pending' = FALSE
      BY <1>2, Zenon DEF StartCall
    <2>3. count' = 0
      BY <2>1, <2>2, PeriodTypes
    <2> QED BY <1>0, <2>1, <2>2, <2>3, PeriodTypes DEF CountersOK, CountIsElapsed
  <1>3. CASE EndCall \/ UNCHANGED timerVars
    BY <1>0, <1>3 DEF EndCall, timerVars, CountersOK, CountIsElapsed
  <1> QED BY <1>1, <1>2, <1>3

LEMMA TimerStep ==
    ASSUME TimerInv, Overflow \/ CountOnly \/ StartCall \/ EndCall \/ UNCHANGED timerVars
    PROVE  TimerInv' /\ (~overflowing /\ overflowing' => since = msecs)
  <1>1. FlagsOK /\ CountersOK
    BY TimerParts
  <1>2. FlagsOK'
    BY <1>1, Zenon DEF FlagsOK, Overflow, CountOnly, StartCall, EndCall, timerVars
  <1> QED BY <1>1, <1>2, CountersStep, TimerPartsNext

\* What the steps of a device are for its timer.
LEMMA DeviceStepTimes ==
    ASSUME [DeviceNext]_vars
    PROVE  Overflow \/ CountOnly \/ StartCall \/ EndCall \/ UNCHANGED timerVars
  BY DEF DeviceNext, Loop, Sample, CheckConnection, StartComm, RecvAck, RecvRenew,
     Unanswered, Decide, TakeID, NextID, Write, Delay, Tick, Alive, Break, vars

\* Whatever alive() does and however long it lasts, it is not called twice
\* within a period (MsTimer2.cpp:193).
THEOREM DeviceSpacesAlives == DeviceSpec => AlivesSpaced
  <1>1. DeviceInit => TimerInv
    BY TimerInitInv DEF DeviceInit
  <1>2. TimerInv /\ [DeviceNext]_vars => TimerInv'
    BY TimerStep, DeviceStepTimes
  <1>3. TimerInv /\ [DeviceNext]_vars => [~overflowing /\ overflowing' => since = msecs]_vars
    BY TimerStep, DeviceStepTimes
  <1> QED BY <1>1, <1>2, <1>3, PTL DEF DeviceSpec, AlivesSpaced

-----------------------------------------------------------------------------
(* The detector. *)

\* The sample of a window is the only thing in it.
LEMMA WindowsHoldSample ==
    ASSUME DeviceInv, NEW s \in Nat, WindowLTA(s), WindowSTA(s)
    PROVE  /\ reading1' \in [0 .. numReading1 - 1 -> Nat] /\ reading1'[0] = s
           /\ reading2' \in [0 .. numReading2 - 1 -> Nat] /\ reading2'[0] = s
           /\ readIndex1' = 0 /\ total1' = s
           /\ readIndex2' = 0 /\ total2' = s
  <1>1. /\ reading1 \in [0 .. numReading1 - 1 -> Nat] /\ reading1[0] \in Nat
        /\ reading2 \in [0 .. numReading2 - 1 -> Nat] /\ reading2[0] \in Nat
    BY DEF DeviceInv, DeviceTypeOK, numReading1, numReading2
  <1>2. /\ reading1' = [reading1 EXCEPT ![0] = s] /\ total1' = s /\ readIndex1' = 0
        /\ reading2' = [reading2 EXCEPT ![0] = s] /\ total2' = s /\ readIndex2' = 0
    <2>1. /\ readIndex1 = 0 /\ total1 = reading1[0]
          /\ readIndex2 = 0 /\ total2 = reading2[0]
      BY DEF DeviceInv
    <2>2. /\ reading1' = [reading1 EXCEPT ![0] = s] /\ readIndex1' = 0
          /\ total1' = reading1[0] - reading1[0] + s
      BY <2>1 DEF WindowLTA
    <2>3. /\ reading2' = [reading2 EXCEPT ![0] = s] /\ readIndex2' = 0
          /\ total2' = reading2[0] - reading2[0] + s
      BY <2>1 DEF WindowSTA
    <2>4. \A n \in Nat : n - n + s = s
      OBVIOUS
    <2> QED BY <1>1, <2>2, <2>3, <2>4
  <1> QED BY <1>1, <1>2 DEF numReading1, numReading2

\* A sample of either sketch.
LEMMA SampleStep ==
    ASSUME DeviceInv, Sample
    PROVE  /\ \E s \in Nat : WindowLTA(s) /\ WindowSTA(s)
           /\ ratio' \in Int
  <1>1. ASSUME NEW s \in Nat, WindowLTA(s), WindowSTA(s)
        PROVE  /\ total2' \div numReading2 \in Nat /\ total1' \div numReading1 \in Nat
               /\ Quotients(total2' \div numReading2, total1' \div numReading1) \subseteq Int
    <2>1. total1' = s /\ total2' = s
      BY <1>1, WindowsHoldSample
    <2>2. s \div 8 \in Nat /\ s \div 10 \in Nat
      OBVIOUS
    <2>3. ASSUME NEW m \in Nat, NEW n \in Nat
          PROVE  Quotients(m, n) \subseteq Int
      <3>1. CASE n = 0
        BY <3>1, DivisionAssumption DEF Quotients
      <3>2. CASE n # 0
        <4>1. m \div n \in Int /\ Quotients(m, n) = {m \div n}
          BY <3>2 DEF Quotients
        <4> QED BY <4>1
      <3> QED BY <3>1, <3>2
    <2> QED BY <2>1, <2>2, <2>3 DEF numReading1, numReading2
  <1>2. ASSUME NEW x \in AxisValues, NEW y \in AxisValues, ReadADXL345(x, y)
        PROVE  \E s \in Nat : WindowLTA(s) /\ WindowSTA(s) /\ ratio' \in Int
    <2> DEFINE s == Abs(x + Half(y))
    <2>1. s \in Nat
      <3>1. x \in Int /\ y \in Int
        BY SampleAssumption
      <3>2. x + Half(y) \in Int
        BY <3>1, HalfInt
      <3> QED BY <3>2, AbsNat
    <2>2. WindowLTA(s) /\ WindowSTA(s)
      BY <1>2 DEF ReadADXL345
    <2> HIDE DEF s
    <2>3. /\ Abs(total2' \div numReading2) = total2' \div numReading2
          /\ Abs(total1' \div numReading1) = total1' \div numReading1
      BY <1>1, <2>1, <2>2, AbsNat
    <2>4. \E q \in Quotients(total2' \div numReading2, total1' \div numReading1) :
             ratio' = Abs(q)
      BY <1>2, <2>3 DEF ReadADXL345
    <2>5. ratio' \in Int
      BY <1>1, <2>1, <2>2, <2>4, AbsNat
    <2> QED BY <2>1, <2>2, <2>5
  <1>3. ASSUME NEW raw \in RawValues, ReadBMA180(raw)
        PROVE  \E s \in Nat : WindowLTA(s) /\ WindowSTA(s) /\ ratio' \in Int
    <2> DEFINE s == Abs(raw \div 4 + offx)
    <2>1. s \in Nat
      <3>1. raw \in Int
        BY SampleAssumption
      <3>2. raw \div 4 + offx \in Int
        BY <3>1 DEF offx
      <3> QED BY <3>2, AbsNat
    <2>2. WindowLTA(s) /\ WindowSTA(s)
      BY <1>3 DEF ReadBMA180
    <2>3. ratio' \in Quotients(total2' \div numReading2, total1' \div numReading1)
      BY <1>3 DEF ReadBMA180
    <2> HIDE DEF s
    <2> QED BY <1>1, <2>1, <2>2, <2>3
  <1> QED BY <1>2, <1>3 DEF Sample

-----------------------------------------------------------------------------
(* Every step. *)

LEMMA IdBounds ==
    /\ IdSpace \in Nat /\ IdSpace > 0 /\ MaxAlives \in Nat
    /\ 0 \in 0 .. IdSpace - 1 /\ 0 \in 0 .. MaxAlives /\ -1 \in -1 .. IdSpace - 1
    /\ \A n \in Int : n % IdSpace \in 0 .. IdSpace - 1
    /\ \A n \in 0 .. IdSpace - 1 : n \in Int /\ n \in -1 .. IdSpace - 1
    /\ \A a \in 0 .. MaxAlives : a < MaxAlives => a + 1 \in 0 .. MaxAlives
  BY IdAssumption

\* The numbers of messages stay within their width and alives below its bound.
NumbersOK ==
    /\ number \in 0 .. IdSpace - 1 /\ messageId \in 0 .. IdSpace - 1
    /\ lastID \in -1 .. IdSpace - 1 /\ alives \in 0 .. MaxAlives
    /\ overflowing /\ pc \in {"store", "write"} => alives < MaxAlives

\* The other variables a step of loop() or of the interrupt may change.
LabelsOK ==
    /\ pc \in {"connect", "ack", "renew", "load", "store", "write",
              "read", "check", "decide", "delay"}
    /\ started \in BOOLEAN
    /\ command \in {"ACKNOWLEDGE_CLIENT", "EARTHQUAKE"}
    /\ link \in BOOLEAN /\ sent \in BOOLEAN /\ broke \in BOOLEAN
    /\ interrupted \in BOOLEAN /\ identified \in BOOLEAN

LEMMA DeviceInitInv == DeviceInit => DeviceInv
  <1> SUFFICES ASSUME DeviceInit PROVE DeviceInv
    OBVIOUS
  <1>1. TimerInv
    BY TimerInitInv DEF DeviceInit
  <1>2. /\ reading1 \in [0 .. numReading1 - 1 -> Nat] /\ reading1[0] = 0
        /\ reading2 \in [0 .. numReading2 - 1 -> Nat] /\ reading2[0] = 0
    BY DEF DeviceInit, numReading1, numReading2
  <1>3. /\ number \in 0 .. IdSpace - 1 /\ messageId \in 0 .. IdSpace - 1
        /\ lastID \in -1 .. IdSpace - 1 /\ alives \in 0 .. MaxAlives
    BY IdBounds, Zenon DEF DeviceInit
  <1>4. LabelsOK
    BY DEF DeviceInit, LabelsOK
  <1>5. sketch \in Sketches /\ ratio \in Int
    BY DEF DeviceInit
  <1>6. /\ total1 = 0 /\ total2 = 0 /\ readIndex1 = 0 /\ readIndex2 = 0
        /\ total1 \in Nat /\ total2 \in Nat
        /\ readIndex1 \in 0 .. numReading1 - 1 /\ readIndex2 \in 0 .. numReading2 - 1
    BY DEF DeviceInit, numReading1, numReading2
  <1>7. DeviceTypeOK
    BY <1>1, <1>2, <1>3, <1>4, <1>5, <1>6, Zenon DEF DeviceTypeOK, LabelsOK, TimerInv
  <1>8. ~overflowing
    BY DEF DeviceInit, TimerInit
  <1> QED BY <1>1, <1>2, <1>6, <1>7, <1>8 DEF DeviceInv, TimerInv

LEMMA NumbersStep ==
    ASSUME NumbersOK, [DeviceNext]_vars, ~Sample
    PROVE  NumbersOK'
  <1> USE DEF NumbersOK, At, Goto, timerVars, messageVars, loopVars
  <1>1. CASE CheckConnection
    BY <1>1 DEF CheckConnection
  <1>2. CASE StartComm \/ RecvAck \/ RecvRenew \/ Unanswered
    BY <1>2, IdBounds DEF StartComm, RecvAck, RecvRenew, Unanswered
  <1>3. CASE Decide
    BY <1>3 DEF Decide
  <1>4. CASE TakeID
    BY <1>4, IdBounds DEF TakeID
  <1>5. CASE NextID
    BY <1>5, IdBounds DEF NextID
  <1>6. CASE Write
    BY <1>6, IdBounds DEF Write
  <1>7. CASE Delay
    BY <1>7 DEF Delay
  <1>8. CASE Tick /\ ~StartCall
    BY <1>8 DEF Tick, Overflow, CountOnly
  <1>9. CASE Tick /\ (pc \in {"store", "write"} => alives < MaxAlives)
    BY <1>9 DEF Tick
  <1>10. CASE Alive
    <2>1. messageId' = (messageId + 1) % IdSpace /\ messageId \in 0 .. IdSpace - 1
      BY <1>10 DEF Alive
    <2>2. messageId' \in 0 .. IdSpace - 1
      BY <2>1, IdBounds
    <2>3. lastID' \in -1 .. IdSpace - 1
      BY <1>10, IdBounds DEF Alive
    <2>4. alives' \in 0 .. MaxAlives
      BY <1>10, IdBounds DEF Alive, EndCall
    <2> QED BY <1>10, <2>2, <2>3, <2>4 DEF Alive, EndCall
  <1>11. CASE Break
    BY <1>11 DEF Break
  <1>12. CASE UNCHANGED vars
    BY <1>12 DEF vars
  <1> QED BY <1>1, <1>2, <1>3, <1>4, <1>5, <1>6, <1>7, <1>8, <1>9, <1>10,
             <1>11, <1>12 DEF DeviceNext, Loop, Tick, Overflow, CountOnly, StartCall

LEMMA LabelsStep ==
    ASSUME LabelsOK, [DeviceNext]_vars, ~Sample
    PROVE  LabelsOK' /\ UNCHANGED <<sketch, windowVars>>
  <1> USE DEF LabelsOK, At, Goto, timerVars, deviceVars, messageVars, loopVars
  <1>1. CASE CheckConnection
    BY <1>1 DEF CheckConnection
  <1>2. CASE StartComm \/ RecvAck \/ RecvRenew \/ Unanswered
    BY <1>2 DEF StartComm, RecvAck, RecvRenew, Unanswered, deviceVars
  <1>3. CASE Decide
    BY <1>3 DEF Decide
  <1>4. CASE TakeID \/ NextID
    BY <1>4 DEF TakeID, NextID
  <1>5. CASE Write
    BY <1>5 DEF Write, AfterSend
  <1>6. CASE Delay \/ Tick
    BY <1>6 DEF Delay, Tick
  <1>7. CASE Alive
    BY <1>7 DEF Alive
  <1>8. CASE Break
    BY <1>8 DEF Break
  <1>9. CASE UNCHANGED vars
    BY <1>9 DEF vars
  <1> QED BY <1>1, <1>2, <1>3, <1>4, <1>5, <1>6, <1>7, <1>8, <1>9
          DEF DeviceNext, Loop

\* The steps that are no sample leave the windows alone.
LEMMA OtherSteps ==
    ASSUME DeviceInv, TimerInv', [DeviceNext]_vars, ~Sample
    PROVE  DeviceInv' /\ UNCHANGED windowVars
  <1>1. NumbersOK /\ LabelsOK
    BY DEF DeviceInv, DeviceTypeOK, NumbersOK, LabelsOK
  <1>2. NumbersOK' /\ LabelsOK' /\ UNCHANGED <<sketch, windowVars>>
    BY <1>1, NumbersStep, LabelsStep
  <1> QED BY <1>2 DEF DeviceInv, DeviceTypeOK, NumbersOK, LabelsOK, TimerInv, windowVars

LEMMA SampleKeepsInv ==
    ASSUME DeviceInv, TimerInv', Sample
    PROVE  DeviceInv'
  <1>1. PICK s \in Nat : WindowLTA(s) /\ WindowSTA(s)
    BY SampleStep
  <1>2. /\ reading1' \in [0 .. numReading1 - 1 -> Nat] /\ reading1'[0] = s
        /\ reading2' \in [0 .. numReading2 - 1 -> Nat] /\ reading2'[0] = s
        /\ readIndex1' = 0 /\ total1' = s
        /\ readIndex2' = 0 /\ total2' = s
    BY <1>1, WindowsHoldSample
  <1>3. /\ ratio' \in Int /\ pc' = "check" /\ overflowing' = overflowing
        /\ ~overflowing
        /\ UNCHANGED <<sketch, identified, started, messageVars, link, broke>>
    BY SampleStep DEF Sample, Goto, At, timerVars, deviceVars
  <1>4. DeviceTypeOK'
    BY <1>2, <1>3
       DEF DeviceInv, DeviceTypeOK, TimerInv, messageVars, numReading1, numReading2
  <1> QED BY <1>2, <1>3, <1>4 DEF DeviceInv, TimerInv

\* The invariant, whatever the sensor delivers and the interrupt does.
THEOREM DeviceInvariant == DeviceSpec => []DeviceInv
  <1>1. DeviceInv /\ [DeviceNext]_vars => TimerInv'
    <2>1. DeviceInv => TimerInv
      BY DEF DeviceInv, DeviceTypeOK, TimerInv
    <2> QED BY <2>1, TimerStep, DeviceStepTimes
  <1>2. DeviceInv /\ [DeviceNext]_vars => DeviceInv'
    BY <1>1, OtherSteps, SampleKeepsInv
  <1> QED BY <1>2, DeviceInitInv, PTL DEF DeviceSpec

-----------------------------------------------------------------------------
(* The numbers of the messages. *)

\* How many numbers b comes after a.
Ahead(a, b) == IF b >= a THEN b - a ELSE b - a + IdSpace

\* The last message of a connection is a little behind the next number, also
\* while loop() holds a number and alive() takes some of those that follow.
LastBehind == link /\ lastID # -1 => Ahead(lastID, messageId) \in 1 .. MaxAlives + 1

SequenceInv ==
    /\ pc \notin {"store", "write"} => LastBehind
    /\ pc = "store" /\ ~interrupted => number = messageId /\ alives = 0 /\ LastBehind
    /\ pc = "write" =>
         /\ Ahead(number, messageId) \in 1 .. alives + 1
         /\ ~interrupted => Ahead(number, messageId) = alives + 1
         /\ ~interrupted /\ link /\ lastID # -1 =>
               IF alives = 0 THEN Ahead(lastID, number) \in 1 .. MaxAlives + 1
                             ELSE Ahead(lastID, messageId) = 1

LEMMA NextNumber ==
    ASSUME NEW n \in 0 .. IdSpace - 1
    PROVE  /\ (n + 1) % IdSpace = IF n + 1 = IdSpace THEN 0 ELSE n + 1
           /\ Ahead(n, (n + 1) % IdSpace) = 1
  <1>0. IdSpace \in Nat /\ IdSpace > 1
    BY IdAssumption
  <1>1. (n + 1) % IdSpace = IF n + 1 = IdSpace THEN 0 ELSE n + 1
    <2>1. CASE n + 1 = IdSpace
      BY <1>0, <2>1
    <2>2. CASE n + 1 # IdSpace
      BY <1>0, <2>2
    <2> QED BY <2>1, <2>2
  <1> QED BY <1>0, <1>1 DEF Ahead

\* What lies k numbers ahead lies k + 1 ahead of the one before.
LEMMA AheadOfNext ==
    ASSUME NEW a \in 0 .. IdSpace - 1, NEW b \in 0 .. IdSpace - 1,
           Ahead(a, b) + 1 < IdSpace
    PROVE  Ahead(a, (b + 1) % IdSpace) = Ahead(a, b) + 1
  <1>1. (b + 1) % IdSpace = IF b + 1 = IdSpace THEN 0 ELSE b + 1
    BY NextNumber
  <1>2. CASE b + 1 = IdSpace
    BY <1>1, <1>2, IdAssumption DEF Ahead
  <1>3. CASE b + 1 # IdSpace
    BY <1>1, <1>3, IdAssumption DEF Ahead
  <1> QED BY <1>2, <1>3

LEMMA AheadIsNot ==
    ASSUME NEW a \in 0 .. IdSpace - 1, NEW b \in 0 .. IdSpace - 1, NEW c \in 0 .. IdSpace - 1
    PROVE  /\ Ahead(a, b) > 0 => a # b
           /\ Ahead(a, b) # Ahead(c, b) => a # c
           /\ Ahead(a, b) > 0 /\ Ahead(b, c) > 0 /\ Ahead(a, b) + Ahead(b, c) < IdSpace => a # c
           /\ Ahead(a, b) \in 0 .. IdSpace - 1
  BY IdAssumption DEF Ahead

LEMMA LoopSequence ==
    ASSUME NumbersOK, LabelsOK, SequenceInv, Loop, ~overflowing
    PROVE  SequenceInv'
  <1> USE DEF At, Goto, timerVars, messageVars
  <1>1. CASE Sample \/ CheckConnection \/ Decide \/ Delay
    BY <1>1 DEF Sample, CheckConnection, Decide, Delay, SequenceInv, LastBehind, Ahead
  <1>2. CASE StartComm \/ RecvAck \/ RecvRenew \/ Unanswered
    BY <1>2 DEF StartComm, RecvAck, RecvRenew, Unanswered, SequenceInv, LastBehind, Ahead
  <1>3. CASE TakeID
    BY <1>3 DEF TakeID, SequenceInv, LastBehind, Ahead
  <1>4. CASE NextID
    <2>1. /\ pc = "store" /\ pc' = "write" /\ messageId' = (number + 1) % IdSpace
          /\ UNCHANGED <<number, lastID, alives, interrupted, link>>
      BY <1>4 DEF NextID
    <2>2. Ahead(number, messageId)' = 1
      BY <2>1, NextNumber DEF NumbersOK, Ahead
    <2>3. 1 \in 1 .. alives + 1
      BY IdBounds DEF NumbersOK
    <2>4. Ahead(lastID, number)' = Ahead(lastID, number)
      BY <2>1 DEF Ahead
    <2> QED BY <2>1, <2>2, <2>3, <2>4 DEF SequenceInv, LastBehind
  <1>5. CASE Write
    <2>1. /\ pc = "write" /\ pc' \notin {"store", "write"}
          /\ UNCHANGED <<number, messageId, alives, interrupted>>
          /\ link' => link /\ lastID' = number
      BY <1>5 DEF Write, AfterSend
    <2>2. Ahead(number, messageId) \in 1 .. MaxAlives + 1
      BY <2>1, IdBounds, AheadIsNot DEF SequenceInv, NumbersOK
    <2> QED BY <2>1, <2>2 DEF SequenceInv, LastBehind, Ahead
  <1> QED BY <1>1, <1>2, <1>3, <1>4, <1>5 DEF Loop

LEMMA AliveSequence ==
    ASSUME NumbersOK, LabelsOK, SequenceInv, Alive
    PROVE  SequenceInv'
  <1>1. /\ messageId' = (messageId + 1) % IdSpace
        /\ messageId \in 0 .. IdSpace - 1 /\ number \in 0 .. IdSpace - 1
        /\ UNCHANGED <<pc, number, link>>
        /\ overflowing
    BY DEF Alive, EndCall, loopVars, NumbersOK
  <1>2. Ahead(messageId, messageId') = 1
    BY <1>1, NextNumber
  <1>3. link => lastID' = messageId
    BY DEF Alive
  <1>4. link' => Ahead(lastID, messageId)' = 1
    BY <1>1, <1>2, <1>3 DEF Ahead
  <1>5. 1 \in 1 .. MaxAlives + 1
    BY IdBounds
  <1>6. CASE pc \notin {"store", "write"}
    BY <1>1, <1>4, <1>5, <1>6 DEF SequenceInv, LastBehind
  <1>7. CASE pc = "store"
    BY <1>1, <1>7 DEF SequenceInv, Alive
  <1>8. CASE pc = "write"
    <2>1. /\ alives \in Nat /\ alives < MaxAlives /\ alives' = alives + 1
          /\ pc # "store" /\ (interrupted' <=> interrupted)
      BY <1>1, <1>8 DEF Alive, NumbersOK, LabelsOK
    <2>2. Ahead(number, messageId) \in 1 .. alives + 1
      BY <1>8 DEF SequenceInv
    <2>3. Ahead(number, messageId') = Ahead(number, messageId) + 1
      BY <1>1, <2>1, <2>2, AheadOfNext, IdAssumption
    <2>4. Ahead(number, messageId)' = Ahead(number, messageId) + 1
      BY <1>1, <2>3 DEF Ahead
    <2>5. ~interrupted => Ahead(number, messageId)' = alives' + 1
      BY <1>8, <2>1, <2>4 DEF SequenceInv
    <2>6. Ahead(number, messageId)' \in 1 .. alives' + 1
      BY <2>1, <2>2, <2>4
    <2>7. alives' # 0
      BY <2>1
    <2> QED BY <1>1, <1>4, <1>8, <2>1, <2>5, <2>6, <2>7 DEF SequenceInv
  <1> QED BY <1>6, <1>7, <1>8

LEMMA SequenceStep ==
    ASSUME NumbersOK, LabelsOK, SequenceInv, [DeviceNext]_vars
    PROVE  SequenceInv'
  <1>1. CASE Loop
    <2>1. ~overflowing
      BY <1>1 DEF Loop, At, Sample, CheckConnection, StartComm, RecvAck, RecvRenew, Unanswered,
         Decide, TakeID, NextID, Write, Delay
    <2> QED BY <1>1, <2>1, LoopSequence
  <1>2. CASE Alive
    BY <1>2, AliveSequence
  <1>3. CASE Tick \/ Break \/ UNCHANGED vars
    BY <1>3 DEF Tick, Break, vars, loopVars, messageVars,
       SequenceInv, LastBehind, Ahead
  <1> QED BY <1>1, <1>2, <1>3 DEF DeviceNext

\* loop() and alive() put one number on two messages in a row only if alive()
\* interrupted the increment, for every width of the numbers.
THEOREM NumbersRepeatOnlyIfInterrupted == DeviceSpec => IDRepeatsOnlyIfInterrupted
  <1> DEFINE Fresh ==
        /\ At("write") /\ ~At("write")' /\ ~overflowing' /\ link => number # lastID \/ interrupted
        /\ overflowing /\ ~overflowing' /\ link => messageId # lastID \/ interrupted
  <1>1. DeviceInit => SequenceInv
    BY DEF DeviceInit, SequenceInv, LastBehind
  <1>2. DeviceInv => NumbersOK /\ LabelsOK
    BY DEF DeviceInv, DeviceTypeOK, NumbersOK, LabelsOK
  <1>3. DeviceInv /\ SequenceInv /\ [DeviceNext]_vars => SequenceInv'
    BY <1>2, SequenceStep
  <1>4. DeviceInv /\ SequenceInv => Fresh
    <2> SUFFICES ASSUME NumbersOK, LabelsOK, SequenceInv, link, ~interrupted
                 PROVE  /\ pc = "write" => number # lastID
                        /\ overflowing => messageId # lastID
      BY <1>2 DEF At
    <2>1. /\ number \in 0 .. IdSpace - 1 /\ messageId \in 0 .. IdSpace - 1
          /\ lastID # -1 => lastID \in 0 .. IdSpace - 1
          /\ -1 \notin 0 .. IdSpace - 1
      BY IdBounds DEF NumbersOK
    <2>2. CASE lastID = -1
      BY <2>1, <2>2
    <2>3. CASE lastID # -1 /\ pc # "write"
      BY <2>1, <2>3, AheadIsNot DEF SequenceInv, LastBehind, LabelsOK
    <2>4. CASE lastID # -1 /\ pc = "write" /\ alives = 0
      <3>1. /\ Ahead(lastID, number) \in 1 .. MaxAlives + 1
            /\ Ahead(number, messageId) = 1
        BY <2>4 DEF SequenceInv
      <3>2. number # lastID
        BY <2>1, <2>4, <3>1, AheadIsNot
      <3>3. ASSUME overflowing
            PROVE  messageId # lastID
        <4>1. MaxAlives > 0
          BY <2>4, <3>3 DEF NumbersOK
        <4>2. Ahead(lastID, number) + Ahead(number, messageId) < IdSpace
          BY <3>1, <4>1, IdAssumption
        <4> QED BY <2>1, <2>4, <3>1, <4>2, AheadIsNot
      <3> QED BY <3>2, <3>3
    <2>5. CASE lastID # -1 /\ pc = "write" /\ alives # 0
      <3>1. /\ Ahead(lastID, messageId) = 1
            /\ Ahead(number, messageId) = alives + 1 /\ alives + 1 # 1
        BY <2>5 DEF SequenceInv, NumbersOK
      <3> QED BY <2>1, <2>5, <3>1, AheadIsNot
    <2> QED BY <2>2, <2>3, <2>4, <2>5
  <1>5. DeviceInv /\ SequenceInv => [Fresh]_vars
    BY <1>4
  <1> QED BY <1>1, <1>3, <1>5, DeviceInvariant, PTL
          DEF DeviceSpec, IDRepeatsOnlyIfInterrupted
=============================================================================
