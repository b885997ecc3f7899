# Terremoto: specifications and proofs

The repository is a small earthquake-warning system. A server process
(`src/src`) accepts TCP connections from two kinds of Arduino devices
(`src/arduino`): sensors, which report when they feel an earthquake, and
alarms, which are told when enough sensors do. This directory holds TLA+
specifications of the server's threads and registers, of the sockets they share,
of the sensors' sketch and of the exchange by which a device gets its
identification; TLC configurations that check them on small instances; and
proofs, checked by TLAPS, of the safety properties for every value of the
constants.

Paths below are relative to `src/src` for the server and to `src/arduino` for
the devices; `PROJECT.json` gives the lines that every definition translates.

## 1. Inventory

### 1.1 Components and how they interact

```
 main.cpp (main thread: start both servers, wait for Q, stop both)
   |                                      |
   v                                      v
 ServerSensors : ServerTCP            ServerAlarm : ServerTCP  -- RequestAlarm
   | accept thread: run, addClient       | accept thread           | request thread:
   | m_queueClients : Queue              | m_queueClients : Queue  | scan ListSensors,
   | m_listRemoteClientData, file        | m_listRemoteClientData  | decide, send to
   |                                     |                         | every connection
   +-- ClientTCP (a thread for each      +-- ClientTCP ...         |
   |     connection) -> ResponseSensors        -> ResponseAlarm    |
   v                                                               |
 ListSensors (positions, measurements, counters)  <----------------+

 A ClientTCP is a SocketClientTcp (TcpComm), which the accept thread, then its
 own thread, those that stop it and the request thread use.  Both servers append
 their registers to RemotesIDs.dat.  At the other end: a sketch, with
 ServerComm, and MsTimer2, whose interrupt sends ALIVE on the same ServerComm.
```

| component | state | operations |
|---|---|---|
| `Queue` (utils/Queue.h) | a vector, a mutex, a condition variable | `add`, `remove()`, `remove(item)`, `size`, `at` |
| `ServerTCP` (utils/network) | the queue of connections, `m_stop`, the accept thread | `run`, `addClient`, `stop`, `close_all_clients`, `remove_client_from_queue` |
| `ClientTCP` | `m_stop`, `m_clientID`, `m_wasReplaced`, the count of errors, a detached thread | `run`, `process_packet`, `stop`, `sendMessage`, `setClientID`, `setwasReplace` |
| `TcpComm` | `m_socket`, `m_bWasConnected`; no lock | `receive`, `send`, `checkConnection`, `closeSocket` |
| `ServerSensors` | registers (id, connection), their file | constructor, `getNewRemoteID`, `addClient`, `remove_client_from_queue` |
| `ListSensors` | `m_queue`, `m_nextPos`, `m_activeSensors`, `m_maxSize`; no lock | `reserveSpaceNewSensor`, `deleteSpaceSensor`, `appendMeassure` |
| `ServerAlarm` | registers, `m_nextID` | constructor, `addClient`, `stop` |
| `RequestAlarm` | a thread of its own | `run` (decide), `sendAlert` |
| devices (both TerremotoDevice sketches, AlarmDevice.ino, ServerComm) | identification in RAM and in the EEPROM, the connection | `setup`, `connectToServer`, `ackServer`, `loop` |
| detector (both TerremotoDevice sketches) | two windows of samples, their totals and indices | STA/LTA trigger, report, `alive` |
| `MsTimer2` | `count`, `overflowing` | `set`, `start`, `_overflow` |
| `PacketComm`, `ResponsePacket`, `Cryptography` | a packet | format, validation, XXTEA |
| Logger, SystemCall, UdpComm, exceptions | | output, platform, unused |

### 1.2 What is hard

* **Check-then-act on the queue.** Each method of `Queue` is one critical
  section, but its users need two: `exist_client()` then `remove()`
  (ServerTCP.cpp:107-109), `size()` then `at(i)` (RequestAlarm.cpp:60-65), and
  `at` returns a reference that is read outside the mutex.
* **The wait in `remove(item)`** (Queue.h:96) blocks a thread that wants to take
  itself out of a queue that somebody else has emptied.
* **Ownership of a connection** passes from the accept thread to its own thread
  to `close_all_clients` or to a reconnection that replaces it; threads are
  detached, so `stop()` waits for none of them.
* **A socket without a lock**: `stop()` closes it under a thread that waits in
  `recv()` or is about to; handles are given out again; and a socket that was
  accepted and then closed is *dialled* by the next `receive` or `send`.
* **`ListSensors` has no lock** although the accept thread reserves, connection
  threads write and free, and the request thread scans.
* **A reconnection races with the end of the old connection**: `stop()`, then
  the position is read, then `setwasReplace(true)` (ServerSensors.cpp:144-149).
* **Two-sided enrollment**: the device stores a new identification, confirms it,
  and only then does the server register it, in a file and then in a list, with
  loss, power failures, device timeouts and server restarts between any two steps.
* **A file with two writers**: `ServerAlarm::addClient` appends its registers,
  whose identifications also start at 1, to the file that `ServerSensors` loads
  (ServerAlarm.cpp:193, ServerSensors.cpp:11).
* **A time read before it is written**: a measurement gets its time in one
  statement and goes to the list in another, without a lock.
* **The decision reads twice**: `getActiveSensors()` is tested for zero and then
  divided by (RequestAlarm.cpp:41); times are an `unsigned` kept in a `long`.
* **An interrupt in the sketch**: `alive()` may come between any two
  instructions of `loop()`, in the middle of `messageId++` too.
* **End of the process**: the accept loop tests `!m_stop || exist_client()` only
  when `accept()` returns, and `ServerAlarm::stop` hides `ServerTCP::stop`.

`PROJECT.json` lists these as hazards, each at its line, with the properties
that would show it going wrong.

### 1.3 What makes each component correct

* queue and TCP server: no connection thread blocks while the server serves; a
  connection leaves the queue exactly once; the loops that must reach every
  connection can; nothing is left behind when the accept thread ends;
* connection and socket: a connection that is stopped, or whose device has gone,
  ends; it uses no handle but its own, and leaves none open;
* sensor server: every admitted connection writes to a position inside the array
  and inside what the alarm scans; a new device takes nobody's register; a
  reconnection replaces the old connection completely; the file knows everything
  the list does;
* decision: an alert rests on as many recent measurements as it counted, a
  decision against one overlooks no measurement that was in the list when it began;
* alarm server: an alert reaches every connection that stays, none twice, and
  reads nothing undefined;
* enrollment: no server registers an identification twice while it can know it,
  none is stored by two devices, but for those that got no
  register or were forgotten, and the accept thread is not stuck behind one device;
* device: what it detects is sent, its signs of life are not sent in bursts, its messages are
  numbered apart.

## 2. Modules

| module | what it is |
|---|---|
| `ClientQueue` | the monitor of `Queue.h`, as action operators |
| `ServerTCP` | accept thread, connection threads, main thread over `ClientQueue`; also the **abstract specification** of what an override of `addClient` and of `remove_client_from_queue` may do |
| `ListSensors` | one access to shared memory per operator |
| `ServerSensors` | extends `ServerTCP` and `ListSensors`; **implements** `ServerTCP` |
| `RequestAlarm` | extends `ServerSensors` with the clock and the thread that decides; **implements** `ServerSensors` |
| `ServerAlarm` | extends `ServerTCP` with registers, `stop` and the broadcast |
| `TcpComm`, `ClientTCP` | the socket, and the threads that share it |
| `Enrollment` | devices, network and server in the exchange of an identification; **implements** `DeviceRegistry` |
| `DeviceRegistry` | the **abstract specification** of the enrollment: identifications stored, registered, lost and forgotten, with no message in it |
| `MsTimer2`, `TerremotoDevice` | the timer library; `loop()` and the interrupt over it |
| `MC*` | symmetry sets, samples and the initial files TLC starts from |
| `ServerTCPProofs`, `ServerSensorsProofs`, `RegistryProofs`, `ServerAlarmProofs`, `RequestAlarmProofs`, `ClientTCPProofs`, `EnrollmentProofs`, `TerremotoDeviceProofs` | the proofs |

In every module a `...Pc` variable says where a thread is, and a step is what
the thread does between two points where another thread can observe or change
what it works with. Names follow the code (`m_queueClients`, `m_wasReplaced`,
`addClient`'s locals). The definitions called "Mutated form of ..." are what a
plausible slip in the code would look like: they are used by no specification
and exist to show, by substitution, that each property can fail.

### 2.1 ClientQueue and ServerTCP

A method of `Queue` holds the mutex for its whole body, so it is one step.
`m_condv.wait` is membership in `waiting`: a waiting thread takes no step until
`add` notifies it or it wakes spuriously, and then runs the method again, which
is the code's `while`. `notify_one` wakes any one waiter.

`serverPc` walks `check -> accept -> adding -> start` (`ServerTCP::run`).
`AcceptClient` puts the connection in the queue first, as `ServerTCP::addClient`
does before anything is known of the peer. `AddFails` is an override that
stops the connection and returns null: the connection stays in the queue and no
thread ever takes it out. A connection's thread walks `run -> recv -> run ...
-> remove -> callback -> done`; its packets and its count of errors are
`ClientTCP`'s subject, and here "goes on" or "sets `m_stop`". `mainPc` is
`stop()`: `close_all_clients`, the flag, and `join`.

`AddStopsAnother` leaves room for an override that stops an old connection.
What else an override does is not visible to this module: `ServerSensors` is
shown to take only `TCPNext` steps or stutter on its variables.

### 2.2 ListSensors, ServerSensors and RequestAlarm

`++x` is a load and a store of the calling thread (`reg`). `addClient` is
followed statement by statement through `addPc`, its locals are variables, and
`getNewRemoteID`, the search in the list and the bookkeeping of the registers
are operators on the list, which only the accept thread touches. The
constructor's loop on `eof()` yields one register more than the file has, with
identification 0 (`LoadRegisters`). A new register is written to the file
(`WriteRegister`) and then pushed to the list (`PushRegister`), two steps;
`AlarmRegisters` is the other writer of the file, at any time, so that the file
may hold an identification several times, and any one the list does not.
`strangers` is history: the connections admitted without a register. A measurement is an element of `Measures`;
in `ServerSensors` only whether and where it is written matters.

In `RequestAlarm` a measurement is the time it was received: `ReadClock`
reads it, `WriteMeasure` writes it a step later, when newer ones may have been
written and the scan may have gone past; between the two it is in `stamp`, and
the thread does nothing else. `reports` (the positions with a recent measurement when
the decision began) and `overtaken` (those where an older time has replaced a newer
one since, possible where two connections share a position) are history. The request thread walks `sleep -> total -> scan ... -> first -> second -> alert`: the clock,
`m_maxSize`, one position at a time, then the two reads of `m_activeSensors`.
The confidence of a measurement is the constant 1 in the code. The quotient of
two integers compared with 0.5 is `>= 1`: as many recent measurements as active
sensors. `Long` is the conversion of the 32-bit `unsigned` clock to a 32-bit
`long`, with the width as the constant `WORD`. A position past the array, which
a scan of a full list can reach, may count or not.

### 2.3 ServerAlarm

The accept thread's `addClient` is shorter (no positions). The request thread is
`requestPc`: `size()`, then for each index `at` (`AlertAt`), the read through the
reference outside the mutex (`AlertDeref`), and the send. `moved` records a
`push_back` since `at` gave the reference, after which the vector may be
elsewhere; `DerefUndefined` is the read through a reference that is no longer
good, or past the end; `SendUndefined` the use of a connection whose last owner
is gone. After such a read the request thread is `"undefined"` and takes no
further step, while the others may go on or not (safety properties cover a
process that stops at any point). `alerted` and `departed` are history
variables. The decision to alert is a free choice here; `RequestAlarm` makes it.
`m_nextID` never becomes negative and decides nothing else, so it is left out.

### 2.4 TcpComm and ClientTCP

A thread is a record: where it is, the value of `m_socket` it has read (`hold`),
and where `checkConnection` and `closeSocket` return to. The system gives each
handle to a connection of the model, to another one of the process
(`Elsewhere`), or to nobody; a handle that was closed may be given out again once
the calls that waited on it have ended. `checkConnection` dials the address of
the device when an accepted socket was closed: `m_bWasConnected` is set only by a
dial, so that such a connection may come back to life once. `send` and
`sendMessage` to a device that reads nothing wait once the buffers are full.
A connection begins with the accept thread's exchange (`stage`): greeted, perhaps
renewed, then admitted, or refused and stopped. That part and the connection's own
thread never overlap and are one thread in the model. Two threads may stop it, the
main thread (`close_all_clients`) and the accept thread (the device came back,
ServerSensors.cpp:147), each once, and at the same time.

The system is Windows, for which the project is generated: closing a handle ends
the calls that wait on it. `m_socket` is an `int` that several threads read and
write without a lock, a data race in C++; `raced` records that one thread used a
value of it while another one was changing it. The properties promise nothing
beyond such a race, and the run `Sockets` does not follow one further
(`CONSTRAINT Unraced`).

### 2.5 Enrollment

Each device is `off`, connecting, waiting for one of the two answers, or
connected; the accept thread reads from one `peer` at a time. `toDevice` and
`toServer` hold the one message under way in each direction of that connection.
`EEPROM.put` (`RecvRenew`) and the confirmation (`SendConfirm`) are two steps, and
so are the write to the file (`RecvConfirm`) and the one to the list
(`PushRegister`). The server is either one (`server`): that of the sensors reloads
`RemotesIDs.dat`, to which the other one appends (`OtherServerRegisters`), and may
refuse a device for lack of space also after it has confirmed (`RefuseFull`); that
of the alarms reads a file nothing writes and starts with an empty list, whatever
it wrote.
Failures: a connection breaks, with the server told or not (`halfOpen`), a device
loses power at any point, the server restarts. The copy of the identification in
RAM equals the EEPROM whenever it is read in the exchange, and `EEPROM.put` is one
step (what a torn write of the EEPROM leaves is not modelled). Connections a device abandons before the server accepts them have no
effect but to be refused, and are not kept.

`DeviceRegistry` is what is left of it when the connections, the messages, the
file and the list in memory are taken away: a device *stores* a free
identification, its register is *enrolled*, or it is *lost*; and a server that
does not keep its registers *forgets* them. `ImplementsRegistry` maps the EEPROMs,
the registers the server wrote and can know, and the histories `unregistered` and
`forgotten` to its variables: `RecvRenew` is `Store`, `RecvConfirm` is `Enrol`, a
break, a power failure, a refusal or a restart between the EEPROM and the file is
`Lose`, a restart of the alarms' server `Forget`, and every other step is a stutter. What the abstract step requires, that the identification is
free at that moment and held by nobody else unless it was lost, is what the
exchange of two messages, with its timeouts and restarts, has to establish.

### 2.6 MsTimer2 and TerremotoDevice

The interrupt of an AVR runs with interrupts masked (MsTimer2.cpp:206), and
`alive()`, which it calls, does not enable them: while it sends, the hardware
keeps one overflow of the timer (`pending`) and loses the others. `Overflow` is a
millisecond, `CountOnly` and `StartCall` the interrupt, `EndCall` the return of
`alive()`. The subtraction "to catch missed overflows" (MsTimer2.cpp:195)
therefore catches none up; `since` is history, the milliseconds since the last
call began.

`loop()` walks `read -> check -> decide -> load -> store -> write -> delay`, and
from `check`, or at the start from `setup()`, through `connect -> ack -> load ->
store -> write [-> renew -> load ...]`, the exchange with the server, which may
fail or stay unanswered at each step (`Unanswered`) and begins anew. The same
`SendMessage` sends the answers and the report. `loop()` takes no step while the
interrupt runs; `alive()` is one step, as nothing of `loop()` can see its middle.
Both sketches are modelled, with the windows of 10 and 8 samples, the totals, C's
integer divisions, and what a division by zero returns on the two families of
processors (a constant of the model).

The condition that should guard the reset of the window's index is a statement of
its own (`(readIndex1 >= numReading1);`, and `if (...);` in the other sketch), so
that `WindowLTA` and `WindowSTA` always reset it and both windows hold the last
sample alone, while the comments speak of the "number of readings" 10 and 8
(TerremotoDevice.ino:20-21). The model follows the code, and `DeviceInv` contains
that fact since other steps rest on it; no property calls what is detected on such
windows right.


## 3. Runs

Checked by TLC; the numbers are the distinct states of the given instance.
Deadlock is checked where the system can always go on, and not in the runs where
the operator quits, where connections are used up, where the clock ends or where
a crash stops everything, since these really stop.

| run | instance | shows |
|---|---|---|
| `TCPServer` | 3 connections, the operator may quit at any time; 60 504 states | `NoWaitBeforeQuit`, `LiveClientsReachable`, `ServerExitsLast`, the inductive `TCPInv`; liveness `StoppedClientEnds` |
| `SensorsServer` | 3 connections, array of 2 positions, identifications up to 2, claims of unknown ones, a file of up to 2 registers that is empty, has a sensor's or also an alarm's of the same identification, and to which the alarms append; 3 118 220 states (symmetric) | `SlotsInBounds`, `ScanCoversMeasures`, the inductive `SensorsInv`, with every interleaving of the unlocked accesses and a list at its limit; `NewDeviceTakesNoRegister`, `ReloadKeepsIDs`, `OnlyLatestServes`, `TakeOverComplete`, `PositionsSharedAfterDeparture` |
| `SensorsImplements` | 2 connections, array of 2, unknown identifications allowed, the operator may quit, the alarms append to the file; 389 528 states | `TCPFairSpec`: the sensor server implements `ServerTCP`, with its fairness |
| `AlarmDecision` | 2 connections, array of 2, a word of 10 values; 1 383 214 states | `AlertHasEvidence`, `CrashNeedsDeparture`, `SilenceIsJustified`, with times that are read in one step and written in another |
| `AlarmServer` | 3 connections, the operator may quit; 566 324 states (symmetric) | `AlertAtMostOnce`, `MissedAtMostDepartures`, `UndefinedNeedsChurn`, `NeverWaits`, `NobodyLeftAtExit`, the inductive `AlarmInv` |
| `Sockets` | 1 connection of an alarm, from the accept thread's exchange on, two that stop it and one that sends, two of these at a time, 2 handles that others of the process take and give back, up to a race; 610 616 states | `StraysOnlyIfRaced`, `LeaksOnlyIfRaced`; liveness `StoppedEnds`, `LeftEnds` |
| `Enrollment` | 2 new devices, either server, a file of up to 3 registers to which the other server adds, any number of failures; 651 014 states | `TypeOK`, `RegisteredIDsStored`, `EnrolledOnce`, `SharedOnlyIfUnregistered`, the refinement `ImplementsRegistry`; liveness `AcceptThreadReturns` |
| `TerremotoDevice` | either sketch, samples whose averages are 0, 1, 2 and more, a period of 2 ms, 4 numbers of messages; 667 648 states | `AlivesSpaced`, `IDRepeatsOnlyIfInterrupted`, the inductive `DeviceInv`; liveness `DetectedIsSent` |
| `TCPCloseAllEnds` | 1 connection; refuted | `close_all_clients` can block for ever |
| `SensorsSlotsDistinct` | 3 connections; refuted | two sensors that are served write to one position |
| `UniqueDeviceIDs` | 2 devices, the server of the sensors; refuted | a failure between `EEPROM.put` and the arrival of the confirmation gives two devices one identification |
| `SensorKeepsReceiving` | 1 connection of a sensor; refuted | a sensor is not heard any more once the answers it never reads fill the buffers |

**Why the bounds are enough for what they show.** Three connections give the
situations the properties are about: one being added, one leaving and one
staying; for the broadcast, one behind the index, one at it and one in front of
it; for a take-over, the old connection, its successor and a bystander. An array
of two positions fills up with the third sensor, so that the limit, the clamp
and the decrement of `m_nextPos` all occur, and its first position is one that two
sensors could be given by mistake (`MAX_SIZE_SENSORS` is 10000 in the
code; the proofs are for any value). Each connection is accepted at most once,
so the number of connections is also the number of reconnections in a behaviour.
`MaxRemoteID` bounds the identifications that devices claim and alarms are given,
`MaxFileLength` the file that the alarms append to; `SensorsServer` begins with
no file, with one sensor's register, or with a sensor's and an alarm's of one
identification, and with `StrangersAllowed` devices claim identifications the list
does not hold.

In `AlarmDecision` a word has ten values, the clock goes from 2 to 5, where the
negative half begins, and a measurement is recent for two units: before it, decisions with old,
recent and unwritten positions, written before and during the scan, by threads that read the clock in time or
long before; after it, the negative times. Two sensors make an array that is partly written, a counter
of 0, 1 and 2, and departures between the two reads of it. In `Sockets` one connection meets the accept thread's exchange and then its own
thread, two stoppers and one sender; of those three, two are at work at once
(`TwoAtWork`, a constraint that halves the run; the proofs have none). Two handles
let one be given out again while the other is in use; `MAX_ERROR_COMM` is 3 in the code, and 2 has a first
and a last error. `SendBuffer` of 1 is full after one answer. Two devices make the server of `Enrollment` choose between free and used
identifications after a restart, where the spurious register 0 shifts the choice
and the other server's registers, up to three in the file, are in the way. In `TerremotoDevice` the samples make averages of 0, 1, 2 and more, so that the
quotient is 0, 1, above 1 and a division by zero; a period of 2 ms has
overflows that are counted, that call, that stay pending and that are lost; 4 numbers
for messages wrap around while one `alive()` comes between.
The safety results are then proved for all bounds (section 4).

**Fairness.** A thread that can run eventually does: weak fairness of each
thread's steps that wait for nobody. `accept()`, and `recv()` on a connection
nobody closed, may block for ever. `recv()` on a socket that `stop()` closed
returns. Nobody has to connect, no operator has to quit, no spurious wakeup has
to happen. In `ClientTCP` a packet does not arrive in parts for ever (strong
fairness of `RecvReturns`: a `recv()` with something to deliver is repeated).
In `Enrollment` the device's side
needs no help from the network, as `WAIT_RESPONSE` bounds each of its waits; the
server's `recv` returns when something arrived or the connection was closed. A
device that vanishes without closing (`halfOpen`) does block the accept thread,
which has no timeout, and `AcceptThreadReturns` says so. In `TerremotoDevice`
`loop()` is strongly fair, as the interrupt disables it again and again but
returns each time; that a server answers is not assumed, but one of the ways in which
`DetectedIsSent` may go on for ever.

### What the refuted properties mean

Each quotes a comment of the code (see `findings` in `PROJECT.json`).

* `CloseAllEnds`: `close_all_clients` finds a connection, that connection takes
  itself out, and `remove()` waits on an empty queue; only a new connection would
  wake it.
* `SlotsDistinct`: the second sensor's `newID`, 1, is read before its handshake;
  the first one leaves and sets `m_nextPos` back to 0; the reservation for the second
  makes it 1; the third sensor reads 1 as well. With four connections the freed
  position's successor is handed out twice in the same way.
* `UniqueDeviceIDs`: the device stored an identification, something failed before
  the server had its confirmation (in the trace, the server restarts between the
  EEPROM and the confirmation), and the server gives the same one to the next new
  device.
* `KeepsReceiving`: every message of a sensor is answered, a sensor reads nothing
  after `setup()`, and the sockets block: once the buffers between the two are
  full, the thread of the connection waits in `send()` and hears no more.

### Met while modelling, without a run of their own

* `stop()` does not end the accept thread by itself: nothing closes the listening
  socket, so one more connection is needed; a connection whose handshake failed
  stays in the queue; `Queue::remove()` takes the newest item.
* `reserveSpaceNewSensor` on a full list can leave `m_nextPos` at -1, after which
  every sensor is refused until one leaves.
* A departure decrements `m_activeSensors`, and the return of the same device
  does not increment it, as its register still names the old connection
  (ServerSensors.cpp:144); an old connection may test `m_wasReplaced` after it was
  stopped and before it is marked, and then frees its successor's position.
* A device that claims an identification the list does not hold is served
  without a register; after a restart the list holds a register with
  identification 0; the alarms' registers go to the sensors' file
  (ServerAlarm.cpp:193), so that a sensor and an alarm with the same identification
  leave it there twice and the list of the sensors has it twice after a restart
  (only the first of the two is ever used, which is why `OnlyLatestServes` holds
  all the same); the file the alarm server reads is never written, so that its
  list is empty after every start.
* The clock becomes a negative `long` after 2^31 ms, 24.8 days: from then on a
  position that no sensor ever wrote counts as a measurement of that moment.
  `AlertHasEvidence` says "below half the clock" for this reason. It also leaves
  out the scan that reads one position past a full array.
* A measurement that was received and not yet written, or written where the scan
  has already been, when the decision is taken is not part of it:
  `SilenceIsJustified` speaks of what was in the list when the decision began, and
  has not been replaced by an older time since.
* Milliseconds of the device's timer are lost while `alive()` sends, beyond the
  one the hardware keeps, so that signs of life are at least a period apart
  (`AlivesSpaced`) and not on average one per period, as the comment of the library
  intends.
* The windows of the detector hold one sample instead of 10 and 8 (section 2.6);
  the sketch of the BMA180 reads six bytes
  into an array of five.
* A socket that `CLOSE_CONNECTION` closed is dialled by the answer to it.

## 4. Proofs

All are checked by TLAPS. They hold for any set of connections or devices, any
`MAX_SIZE_SENSORS`, any claims of identifications, any width and period of the
clock, any samples; they rest on the named assumptions of the modules (the null
connection and the other threads are not connections, `MAX_SIZE_SENSORS` is
positive, the time a measurement stays recent is not longer than the clock's
start, and so on). The shape is the usual one: an invariant `Inv` with
`Init => Inv` and `Inv /\ [Next]_vars => Inv'`, one lemma for each group of
steps, and the properties as consequences.

* **`ServerTCPProofs`**: lemmas on what `Append`, `Front` and `RemoveAt` do to the
  items of a sequence without repetitions, and `TCPInv`. `NoWaitBeforeQuit` alone is not inductive: that
  a thread about to call `remove(item)` finds a non-empty queue needs that it is
  itself still in the queue, hence `QueueInv` (which threads' connections are
  queued, each once), which needs that the connection being added has no thread
  yet (`AcceptThreadInv`) and where the main thread's stop has got to (`MainThreadInv`).
  Consequences: `TCPTypeCorrect`, `NeverWaitsWhileServing`,
  `EveryLiveClientReachable`, `NothingLeftBehind`, `FinishedNotQueued`: the last,
  that a connection past `remove(item)` is not queued, is part of the `TCPInv` that
  the run checks.
* **`ServerSensorsProofs`**: `SensorsInv`. Connection threads overwrite
  `m_nextPos` at any time, so `PositionsInv` bounds it at every point of
  `addClient`: each value that can be stored there was a valid position below
  `m_maxSize` or is the accept thread's own increment, which can reach
  `MAX_SIZE_SENSORS` only between the increment and the test. `AddClientInv`
  carries validity of `newID` from the read before the handshake to its use;
  `RegistersInv` gives `TakeOver` a connection whose position is valid.
  Consequences: `SensorsTypeCorrect`, `PositionsAreValid`, `MeasuresAreScanned`.
  `SensorsImplementTCP` proves `SensorsSpec => TCPSpec`, the safety part of the
  refinement that `SensorsImplements` checks (`TCPFairSpec` is `TCPSpec` and its
  fairness), so all theorems of `ServerTCP` hold of the sensor
  server.
* **`RegistryProofs`**: the list of registers. `IDsInv` keeps what `addClient` knows
  of the list while it waits for a device, above all that the identification it
  offered is free; hence `NewDevicesAreNew`. `RestartForgetsNoRegister`:
  every register of the list is in the list that a restart would load, and
  `WrittenInv` says so of the one that is in the file and not yet pushed; a loss of
  the server between the two steps therefore leaves the file with more, never with
  less. What the other server appends can only add to it. The theorem is about
  registers: an identification that was sent and never confirmed is in neither, and
  is forgotten (section 2.5). `TakeOversAreComplete` follows from `HandOverInv`: at each of `takeOver`,
  `bind` and the steps of a reservation, what has been done to the connection the
  register still names. `OnlyTheLatestServes`
  starts from any file, the repeated identifications of the second writer included:
  the list is always searched from its beginning, and of the registers of one
  identification the first is unique (`FirstIsUnique`), so that only that one is
  ever bound. `LatestInv` is the property strengthened to the connection about to be
  started; connections admitted without a register are in `strangers`, and the
  property leaves them out, as nothing in the code relates them to a device.
  `PositionsAreOwn` (`PositionsSharedAfterDeparture`) is about `m_nextPos` as an
  allocator. `SlotsDistinct` is refuted, and this theorem says when at the
  earliest: as long as nobody has left, `SharingInv` holds. The position that
  `addClient` read before the handshake is still `m_nextPos` when it reserves it
  (`ReservationInv`), every position that a connection holds has been passed by
  `m_nextPos`, and each is held once (`HoldersInv`); the last position of the list
  is excepted throughout, since a failed reservation takes the counter back to it.
  A reconnection must not count as a second holder, which needs that
  a replaced connection has lost its register (`OwnersInv`) and was stopped before
  it was marked (`MarkedAreStopped`). Strangers and any initial file are allowed.
* **`ServerAlarmProofs`**: `AlarmInv`. It contains `TCPInv`, preserved because
  every step but `JoinRequest` is one of `ServerTCP`'s or leaves its variables
  alone (for `StopLastClient` that needs `RegistersAdmitted`). For the broadcast,
  `AlertAtMostOnce` needs that what lies ahead of the index has not been sent to
  (`AheadUnsent`): an erase shifts items towards the index, never past it into
  the part ahead, and a `push_back` adds a connection nobody has seen.
  `SizeIsCurrent` says that the queue is shorter than `size` by at most the
  departures, which gives `UndefinedNeedsChurn`. `StaysQueued` gives
  `NeverWaits`, in contrast to `ServerTCP`, whose `close_all_clients` breaks it.
  `MissedAreDepartures` counts the positions up to the index whose connection was
  not reached or that are past the end (`Passed`): a connection that leaves moves
  what follows it, which maps the new positions one to one into the old ones and
  one more, so that the count grows by one at most. `QuietBroadcastsReachAll` is its
  end: a broadcast during which nobody left has sent to every one of the `size`
  positions it walked, whoever came meanwhile.
  Consequences: `AlarmTypeCorrect`, `BroadcastsReachOnce`,
  `QuietBroadcastsDefined`, `AlarmNeverWaits`, `AlarmServerEndsLast`.
* **`RequestAlarmProofs`**: `RequestImplementsSensors` (`RequestSpec =>
  SensorsSpec`) makes the invariant of the sensor server available. `RequestInv`
  relates the count to the memory that others are changing: `validSensors` is at
  most the number of positions scanned so far that hold a measurement which is
  recent *now*, or that were overtaken (`Seen`). A position is overwritten with a later time,
  which keeps it recent, or with an earlier one by a thread that read the clock
  before another one of the same position, which adds it to `overtaken`
  (`MeasureKeepsSeen`); below half of the clock the
  conversions are the identity (`CountedIsRecent`), and `NowInv` says that no time
  is in the future, those in `stamp` included. Hence `AlertsHaveEvidence`.
  `NoCrashWithoutDeparture`: between the test for zero and
  the division the counter can only be made zero by a store of a connection
  that is leaving (`CounterInv`).
  `SilencesAreJustified` (`SilenceIsJustified`) bounds the decision from the other
  side: going back to sleep means that fewer positions of `Kept` than the counter
  shows, `Kept` being the positions that held a recent measurement when the decision began
  (`reports`) without the overtaken ones. `SilenceInv` is the twin of
  `RequestInv`: of the positions scanned, those in `Kept` are at most
  `validSensors`, and all of them lie below `totalSensors` (`ScanCoversMeasures`). A
  measurement written during the scan can only take a position out of `Kept`, and
  leaves the time of the others alone or newer (`SilenceMeasures`); what is in it
  counts when its turn comes (`RecentCounts`, which needs the lower half of the
  clock). A measurement written after the decision began is not in `reports`,
  however early its time was read.
  `OverrunsNeedFullList`: `m_maxSize` shrinks only by its clamp (`SizeOfSensors`), so
  `totalSensors` is at most one more than the array, and only once all of it was
  reserved. No run reaches that case with two sensors; it was proved instead.
* **`EnrollmentProofs`**: `EnrollmentInv`. The properties are about the registers and the
  EEPROMs; the induction needs the connection between them: `ChannelInv` (one
  handshake at a time, one packet on it, what it says is what the server
  last sent, and a device that has stored an identification and not yet confirmed
  it is the only thing under way), `OfferInv` (what was offered is in no register of
  the list; what the server wrote is in its list, or about to be pushed; the server
  of the sensors finds all it wrote in the file, whatever the other one put
  there), `StoredInv` (what a device has stored has its register, is `InFlight`,
  or was lost or forgotten). `InFlight` begins at `EEPROM.put`, before the
  confirmation is sent, so that a power failure between the two is one of the losses. Consequences:
  `EnrollmentTypeCorrect`, `NoneEnrolledTwice`,
  `RegistersHaveDevices`, `OnlyUnregisteredShare`.
  `EnrollmentImplementsRegistry` proves the refinement step by step: one lemma
  for the identification that is stored (`StoreImplements`), one for the
  confirmation that arrives (`ConfirmImplements`), one for every way to lose it
  (`LossImplements`) and one for the restarts of either server
  (`RestartImplements`), each from what `InFlightIsFree` says of a confirmation under
  way: its identification is free, and stored in a device.
* **`TerremotoDeviceProofs`**: `DeviceSpacesAlives`, for every period, from
  `CountIsElapsed`, which bounds `count` by the milliseconds since the last call began,
  those lost in between included; and `DeviceInvariant`, which holds the ranges
  and what the code of the two windows makes of their totals.
  `NumbersRepeatOnlyIfInterrupted`: `SequenceInv` says how far the next number is
  ahead of the last one of the connection, modulo 256, at each point of
  `loop()` between which `alive()` may take numbers of its own.
* **`ClientTCPProofs`**: `ClientInv`, all of it under "no race so far". What a thread
  has read of `m_socket` is still its value (`HeldIsCurrent`); a handle is closed
  before `m_socket` is cleared (`ClosedIsFree`), a connection has one handle at most, the
  one `m_socket` names (`OneHandle`), and a thread about to dial finds none
  (`DialsUnset`). None of these is inductive without `NoUseAfterClose`, that nobody
  is about to use what another thread has closed: that is what the definition of a
  race excludes. Any number of other threads may be at
  the socket at once (`TwoAtWork` bounds the run only). Consequences: `HandlesAreOwn`, `HandlesAreClosed`.

Only model-checked: the liveness properties (`StoppedClientEnds`,
`AcceptThreadReturns`, `DetectedIsSent`, `StoppedEnds`, `LeftEnds`) and the fairness in the refinement `TCPFairSpec`, which need reasoning
about ENABLED. Every safety property that a passing run checks is also proved. The
provers at hand do no induction over data, so nothing is proved of what a
recursive definition computes.

## 5. What is not modelled

* **Packets**: format, validation and the queue of `ResponsePacket`. What a packet
  makes the thread do (answered, closes, counts as an error) is in `ClientTCP`,
  what it says in `ServerSensors` and `Enrollment`.
* **Cryptography**: XXTEA on 32-bit words, once for the server and once for the
  devices. It keeps no state and waits for nobody; its correctness is an identity
  on words that tests reach better than a model of them.
* **The listening socket**, timeouts and the receive calls that do not wait
  (`setTimeout`, `receiveSys`): the first is `ServerTCP`'s `accept`, the others
  have no caller.
* **Data races on a `std::string`** (`setClientID`) have no outcomes to enumerate.
* **The identification travels as a `float`**: exact up to 2^24.
* **Destructors** of the servers never run (singletons).
* **The devices' hardware**: the registers that make the timer interrupt, the
  reading of the accelerometers (their values are inputs), the memory that the
  sixth byte of the BMA180 overwrites.
* Logger, UDP, exceptions, `ClientID::generateSID`, the concurrency helper
  without callers, and the calls of the platform other than the clock and `sleep`.

## 6. Plan

1. *Done*: queue, TCP server, sensor server with its list and file, alarm server
   with the broadcast, the decision to alert, sockets and connections,
   enrollment, the sensors' sketch and its timer. The safety properties of all of
   them are proved, and the three refinements (`ServerSensors` of `ServerTCP`,
   `RequestAlarm` of `ServerSensors`, `Enrollment` of `DeviceRegistry`). `ServerAlarm` does not implement
   `ServerTCP`: its `stop` empties no queue.
2. Next to model: the AlarmDevice's `loop()` beyond its enrollment; `ServerAlarm` over
   `ClientTCP`, so that a broadcast that waits in `send()` for one alarm delays
   the others.

## 7. How to run

    tlc -config TCPServer.cfg MCServerTCP      # likewise the other .cfg files
    tlapm ServerTCPProofs.tla                  # likewise the other proof modules

`PROJECT.json` names the module of each configuration.
