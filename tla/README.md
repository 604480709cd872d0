# A verification project for esp-smch

`esp-smch` is the firmware of an ESP8266 hub that moves motorised shutters.
Commands come in by HTTP, by MQTT and (if compiled in) by Blynk; they leave by
an nRF24L01+ radio transceiver on the SPI bus. This directory holds a TLA+
model of that firmware, the configurations that check it with TLC, and proofs
that TLAPS checks. Source paths below are relative to the repository's `src/`.

## 1. The system

### Components

| Component | Source | State | Operations | What makes it correct |
|---|---|---|---|---|
| ring buffer | `FixedSizeRingBuffer.h` | `_inIdx`, `_outIdx`, `_pushed`, `_container` | `push_back`, `front`, `pop_front`, `empty` | a bounded FIFO; indices and counter agree; drops the newest value when full |
| radio | `Radio.cpp`, `Radio.h` | `_state`, `_timer`, `_transmitQueue`, `_receiveQueue` | constructor, `sendMessage`, `nextIncomingMessage`, `task` | a message goes to its own address, in order, once; the hub always returns to listening; packets are lost only where the code discards them |
| transceiver driver | `nrf24.c`, `nrf24.h` | none; the chip's registers and FIFOs | about 40 register operations, 17 of them used | each changes just what it names, in step with the chip's decoder, with buffers of any length |
| controller | `Smch.cpp`, `main.cpp` | `_commandQueue`, `_lastQueuedExecTimestamp` | `task`, HTTP, MQTT and Blynk handlers | an "all" runs through undisturbed; queued commands are paced; only deliverable messages are sent |
| web API | `WebApi.cpp` | the handler installed | routing and parsing | the call matches the path |
| vocabulary | `Utils.cpp`, `Command.h`, `Request.h`, `radio_protocol.h` | none | index to address, command to message | total, or refusing |
| device scanner | `DeviceHub.cpp` | `_state`, `_scanner`, `_activeBits`, `_receivedMessages` | `startScan`, `task` | asks every device, waits its full time, credits the device that answered |
| Blynk front end | `Blynk.cpp` | none | pin handler | tables stay in range |

The scanner is compiled but not instantiated (`Smch.cpp:10`) and Blynk is
switched off in `platformio.ini:31`. `Device.h`, `Response.h` and `Result.h`
are used by nobody. `DeviceHub.*` and `Device.h` at the root of the repository
are copies that are not built.

### How they interact

There is one thread. `loop()` calls `Smch::task()`, which calls
`CoreApplication::task()` (WiFi, MQTT and Blynk, whose callbacks run inside it),
`Radio::task()` (one step of a state machine), `WebApi::task()` (at most one
request, whose handler runs inside it), and then serves the command queue if
200 ms have passed. The concurrency of the system is that of this loop with
the transceiver, which transmits, retries, acknowledges, receives and raises
interrupt flags between any two accesses of the driver, and with the devices,
the clients, the clock, and resets of the processor. `millis()` wraps after
about 49.7 days.

### What is hard here

`PROJECT.json` lists the hazards with their lines. The main ones:

- The chip keeps registers, flags and FIFOs while the program thinks of
  something else, and across a reset of the processor. A frame that was not
  acknowledged stays loaded; only a flush keeps it from going out under the
  next address.
- The wait for a transmission ends by interrupt or by timeout, and the two race.
- `RX_DR` is cleared before the FIFO is read.
- Packets that the chip has acknowledged are lost when the hub turns to
  sending (both FIFOs are flushed) and when the receive queue is full.
- The initialisation leaves the chip deaf until the first message is sent.
- `sendMessage()` returns `true` for messages it drops.
- Commands reach the radio by two ways, paced and direct; the pacing is by
  time and does not look at the radio.
- A reset may come between any two bytes on the bus, with a transmission on the
  air, and the boot itself gives CE a pulse.
- Answers to the scanner do not say who sent them.

## 2. Modules

| Module | Models | Notes |
|---|---|---|
| `BoundedQueue` | what a queue promises | abstract specification |
| `FixedSizeRingBuffer` | `FixedSizeRingBuffer.h` | implements `BoundedQueue` |
| `FixedSizeRingBufferProofs` | | proofs, for every capacity |
| `Nrf24` | the chip, and the driver functions `Radio` calls | no state of its own: a chip is a record |
| `Nrf24Spi` | the whole driver, byte by byte, with the chip's decoder | what each function promises |
| `Nrf24SpiProofs` | | no byte goes astray and every function keeps its promise, for every buffer and wherever a reset comes |
| `Nrf24Registers` | the used functions one SPI transaction at a time, with a chip that acts in between | checks what `Nrf24` takes as one step |
| `Nrf24RegistersProofs` | | inductive invariant and both properties, for every channel |
| `RadioLink` | what the radio promises to the rest of the hub | abstract specification |
| `Radio` | `Radio.cpp` with the chip, clock and resets | implements `RadioLink` |
| `RadioProofs` | | the machine's invariant, the packets, safety, refinement |
| `MCRadio` | instances of `Radio` | numbered messages and packets |
| `RadioSteps` | `Radio.cpp` one access to the chip at a time | implements `Radio` |
| `MCRadioSteps` | an instance of `RadioSteps` | |
| `RadioStepsProofs` | | inductive invariant, both safety properties, refinement of `Radio` |
| `Commands`, `WebApi`, `Blynk` | the vocabulary and the front ends | operators only |
| `Smch` | `Smch.cpp` over `RadioLink` | composes these with `RadioLink` |
| `MCSmch` | instances of `Smch` | requests on both sides of each boundary |
| `SmchProofs` | | inductive invariant and all safety |
| `SmchRadio` | the hub: `Smch` and `Radio` in one loop with one clock | implements both, each as the other's environment |
| `MCSmchRadio` | instances of `SmchRadio` | one "all" and one single motor |
| `SmchRadioProofs` | | both refinements, and with them the safety of the whole hub |
| `DeviceHub` | `DeviceHub.cpp` over `RadioLink` | with devices as the environment |
| `DeviceHubProofs` | | inductive invariant and all safety of the scanner |

### Correspondence with the code

*Ring buffer.* `push_back` is one action. A client reads with
`std::move(q.front()); q.pop()`, so `Take` is the two together, and moving a
message out of a slot leaves it empty (`Vacant`). `front()` of an empty buffer
hands out whatever slot the read index points to; no client calls it then, the
model allows it and shows that the slot is vacant. `size()` is used in log
messages only.

*Radio.* `state` is `_state`, with `"Booting"` from a reset until the
constructor is done. There is one action for each branch of
`runStateMachine()` that changes something, with everything that branch does;
`Task` is their disjunction and a branch that changes nothing is a stutter. The
queues are sequences with `BoundedQueue`'s push, which the ring buffer is
proved to implement. A message is a record of an identity and an address, a
packet is a number; payloads do not influence control. `Message::number`
starts again after a reset, so the model's `id` is a history variable.
`setTransceiverMode`, `initTransceiver` and the driver functions are operators
from chip to chip with the names of the code. The registers that are written
once with constants (data rate, channel, retransmission, payload length) are
not part of the record.

*The chip* (external) may, whenever its mode, CE and FIFOs allow it, be
acknowledged (`TX_DS`), exhaust its retries (`MAX_RT`, with the message
received by the device or not), receive a packet on pipe 0 (`RX_DR`), or stay
silent for good. Pipes 1 to 5 keep their power-on addresses and nothing is
sent to those. A reset of the processor either leaves the chip as it is, with
an arbitrary level of CE until the constructor drives the pin, or
power-cycles it. The short high pulse on CE in `initTransceiver()`
(`Radio.cpp:87`) lies in the time before `Boot`, where CE is arbitrary. A reset
may also come in the middle of a branch: `Restart` then leaves the chip in one
of the states that the branch passes through (`PartWay`).

*One access at a time.* In `RadioSteps` a branch is a `script` of accesses, with
its local variables (`message`, `payload`); the chip acts between any two of
them, and a reset may come at any point. A transmission (`burst`) is an interval
of time with the address it began with, and goes on when CE goes low or the FIFO
is flushed. Accesses that write what is there already are left out, but for
those whose result decides what comes next. The refinement shows `Radio` the
chip and the receive queue as they were when the branch lowered CE (`seen`),
until the branch is over.

*The driver, byte by byte.* `Nrf24Spi` has one call for every function of
`nrf24.h` that touches the chip, by any caller with any arguments. A function is
a `wire` of CSN edges and bytes that are still to come, a byte of data the set of the positions of
its ones, so that the masks and unions of the header appear as sets of bits.
The chip's decoder (external) takes the first byte after CSN falls as a command
and the others as data. The largest payload, 32, is `PayloadSize`. A boot drives
CSN high and low as `Radio::initTransceiver()` and `nrf24_init()` do. Buffers
have any length: the functions cut them to the register's width, to 32 or, for
pipes 2 to 5, to one byte.

*The driver, transaction by transaction.* `Nrf24Registers` has registers as sets
of bits, and a `script` of what the running function still has to do: pin
changes, register reads and writes, flushes, payloads. `nrf24_clear_interrupts`
is two transactions with its local variable between them; RF_CH is written with
an eighth bit that is either value, since `nrf24_set_rf_channel` sets seven bits
of an uninitialised variable (`nrf24.c:199`). The radio's machine is reduced to
the order in which it calls the functions. Initially the chip is in any state a
reset of the processor may have left it in. A transmission under way goes on
when CE goes low.

*Controller.* `phase` says which call of `Smch::task()` comes next; each call
is an action and time may pass between two of them. At most one MQTT or Blynk
callback runs in a turn, and one HTTP request, as `handleClient()` does. A
request is abstracted to what the code distinguishes: method, match of the
URI, verb and target. `Pins` is the set of Blynk pins that are written:
empty for a build as configured. The radio is `RadioLink`; whatever
`Radio::task()` does is one of its steps or a stutter, by the refinement
proved in `RadioProofs`. `sends` counts the calls of `sendMessage()`.

*The hub.* In `SmchRadio` a step is one of `Smch`, one of `Radio`, or a call of
`sendMessage()`, which is one of each. The radio's machine runs where `Smch::task()`
calls it and nowhere else. `Radio` by itself has a guard that it is polled within
`LongestWait`; `SmchRadio` has no such guard, its loop has to be quick enough:
two turns and the timeout together are less than the clock's period. The
constant `MaxMessages` only bounds the identities; an input leads to five calls
at most (`CallsPerInput`), so `5 * MaxInputs` of them are enough.

*Scanner.* Every state of `runScanStateMachine()` is an action that begins with
`receiveMessages()`, like `task()`. `isMessageValid()` is true of *invalid*
messages and its caller drops those for which it is true; the model keeps both.
Devices answer whatever message is in flight, at any later time, possibly with
a damaged message. `_receivedMessages` is a set in the model: the code asks it
only whether it holds a status and otherwise adds to it or clears it, and the
messages of the model are told apart by a number.

History variables, read by no action that models code, are marked as such in
each module.

### Abstractions to be aware of

- In `Radio`, one branch of the state machine is one step, in which the chip does
  not act, and CE going low stops a transmission. `RadioSteps` shows that this
  may be done: it implements `Radio` as long as no transmission outlives the
  level of CE that started it. With the settings of `initTransceiver()` (16 tries,
  4 ms between two) the chip ends a transmission within about 85 ms, long before
  the timeout of 1000 ms, so only a boot can find one under way, by the level of
  CE before the boot or by the pulse in it (`OnlyBootFindsOneUnderWay`). Such a
  transmission can raise a flag later, which may end the next wait early. In
  that case, too, nothing goes out under another address (`NothingMisdirected`).
- In `Radio` and `RadioSteps` a payload that a reset has cut off is not in the
  FIFO. In the chip the bytes that were sent would be there as a shorter payload.
  `initTransceiver()` flushes no FIFO: only `setTransceiverMode()` does, for the
  next message. Until then the truncated payload could go out to its own device,
  while CE floats or in the pulse of the boot (`Radio.cpp:87`); after it CE is low.
- `Nrf24Spi` leaves out CE and the air, which `Nrf24Registers` has.
- `Boot` is taken as one step at the end of the constructor.
- An address is a model value; `deviceIndexToAddress` yields the empty address
  for an index above 9, and writing it leaves the register as it was, since the
  driver then sends zero bytes.
- `Smch` takes over a restart as a whole, up to the end of `setup()`.

## 3. Runs

| Run | Instance | Shows |
|---|---|---|
| `ring_buffer` | 5 slots (the size in `Radio.h:74`), 3 values | counter, indices and slots agree; the bounded FIFO is implemented |
| `radio_safety` | 3 messages to 2 devices, 3 packets, queues and FIFOs of 2, 1 reset, clock modulo 4 with a timeout of 2 | all safety properties of `Radio`, its inductive invariant and the refinement of `RadioLink` |
| `radio_live` | 1 device, 2 messages, 2 packets, 1 reset | every queued message gets its turn, the hub listens again, packets are collected |
| `radio_steps` | 2 messages, 2 packets, queues of 1, FIFO of 2, 2 resets at any access, transmissions of at most 1, timeout 2 | a branch may be taken as one step; nothing is misdirected |
| `registers` | RX FIFO of 3, channel with bits 0 and 3, any state of the chip before `setup()` | its inductive invariant and the register-level properties below |
| `driver` | any 2 calls, buffers on both sides of each limit, 1 reset at any byte | each function does what it promises, in step with the chip |
| `smch_safety` | 2 inputs, motor indices 19 and 20, one MQTT shutter, Blynk pins 66 and 67, queue of 2, 1 reset | "all" runs through, pacing, deliverable messages only; the inductive invariant |
| `hub_silent_chip` | 1 input, a chip that may fall silent, 1 packet, 1 reset, clock modulo 5 with a timeout of 3 | controller and radio are to each other what they were checked with; a device receives nothing that was not meant for it; the inductive invariant |
| `hub_live` | 2 inputs ("all", motor 7, an MQTT shutter), device 1 out of reach, transmit queue of 2 | queued commands reach their devices, the transmit queue never overflows |
| `hub_drops` | 2 inputs, transmit queue of 5 as in the code, a chip that may be silent, 5 commands in the time of one timeout as in the code | *violation*: a message is dropped and reported as sent |
| `scan_safety` | 2 devices, 2 scans, 2 answers, 1 other message, queues of 1, a radio that promises nothing | scans are complete, patient, use a status once, are right if answers are punctual, and end; the inductive invariant |
| `scan_late_answer` | 2 devices, one of them alive, 1 answer | *violation*: a late answer is credited to the wrong device |

### The properties

`Inv` in a run (`TransceiverInv` for `Radio`) is the inductive invariant of the
module, of which the types are a conjunct (section 4).

`Radio`:
- `NoMisdelivery`: whatever the chip may transmit is exactly one message under
  its own address with pipe 0 open for the acknowledgement.
- `NoStaleFrameAfterBoot`: no message from before a reset is transmitted once
  `setup()` is done.
- `SentInOrderOnce`: queue and FIFO are in the order of the calls and nothing
  that waits has been on the air.
- `ListensWhenIdle`, `NeverDeafAgain`: between transmissions the hub listens, or
  has been off since the boot; only a reset makes it deaf again.
- `NoStrandedPacket`: a packet in a listening chip is announced by `RX_DR`.
- `ReadInOrderOnce`, `PacketsLostOnlyWhereKnown`: packets are handed over in
  order and at most once, and vanish only by a reset, the flush before a
  transmission, or a full receive queue. The last two are losses of packets
  that the sender believes delivered; the property states that there are no more.
- `NoPrematureGiveUp`: the wait ends after an interrupt or the full timeout.
- `ImplementsLink`, `ImplementsFairLink`: the refinement of `RadioLink`.
- `ListensAgain`, `PacketsAreCollected`: liveness.

`RadioSteps`: `ImplementsRadio` (every behaviour is one of `Radio`, as long as no
transmission outlives CE), `OnlyBootFindsOneUnderWay` (when that can happen) and
`NothingMisdirected` (what is on the air is under its own address in any case).

`Nrf24Registers`: `SetUpForGood` (every register holds what was meant, whatever
the eighth bit of RF_CH, and a chip that is on masks no interrupt) and
`CleanStart` (no old flag when a transmission begins, with the exception above).

`Nrf24Spi`: `DoesWhatItPromises` (after a call the chip holds what the function's
name and the masks of `nrf24.h` say, everything else is as it was, and the caller
gets what the chip held) and `NoByteAstray` (no byte is exchanged unselected,
as data where a command is expected, or beyond the end of a register).

`Smch`: `AllRunsThrough` (two "all" never mix and an admitted one stays in one
piece), `QueuedCommandsArePaced`, `OnlyDeliverable` (what `NoMisdelivery` of
the radio assumes of its clients: `Message` has addresses, never the empty one).

`SmchRadio`: `HubImplementsRadio` and `ImplementsController` (each component is what
the other was checked with; in particular the loop polls the radio before its
wait has run once around the clock), `OnlyMeantIsAired` (what a device receives
carries its own address and is a command that the controller sends),
`KeepsUp` (a paced command, and the
direct ones that come in between, find a place in the transmit queue),
`ReachesDevice` (a queued command is received by its device, if that one is in
reach), and `DropsAreReported`, which fails.

`DeviceHub`: `ScanIsComplete`, `NoDeviceCutShort`, `CreditedOnce`,
`RightWhenPunctual`, `ScanEnds` and `ActiveDevicesAnswered`, which fails.

Each property of a passing run has a mutant: a plausible slip in one of the
modelled definitions that makes TLC report the property as violated. The slips
are the operators called "Variant" in the modules.

### Findings

`DeviceHub.cpp:101` logs "scan: found active device index" for the device being
asked, as soon as any `PROTO_MSG_READ_STATUS_RESULT` is in hand. Messages carry
no sender. The counterexample: device 0 answers after its 2000 ms are over, the
hub is asking device 1, and device 1, which does not exist, is marked as active
while device 0 is not. The same happens with answers collected while no scan
runs. `RightWhenPunctual` shows that the scan is right otherwise.

`Smch.cpp:61` logs "failed to send remote control message" when `sendMessage()`
returns `false`. `Radio.cpp:55` pushes into a ring buffer that drops the value
when it is full, and returns `true` in any case. In the counterexample two "all"
are queued while the chip does not come to an end with its transmissions; a
command that finds all five places taken is gone, without a report.

### Bounds, and why they are enough

- Queues and FIFOs of 2 are the smallest that can be empty, partly filled and
  full, and tell the oldest from the newest entry; the code's are 5 and 3.
  Three messages or packets overflow them.
- Two devices are enough for a message to go to the wrong one.
- A clock modulo 4 with a timeout of 2 wraps during waits, and starts waits at
  every phase of it. `LongestWait` (timeout plus the longest turn of the loop)
  is less than the period: the loop polls the radio more often than every 49
  days. Were it not so, the code's subtraction could not work.
- `MaxRestarts = 1` lets a reset happen in every state; a second one starts from
  the states the first can leave.
- `radio_steps`: two resets, since what a boot leaves half done is found by
  the next boot; with one, the slip `setTransceiverModeFlushLast` would go unseen.
  `AirTime` is less than the timeout, like 85 ms and 1000 ms.
- `driver`: two calls, so that each follows any other; buffers with 0, 1, 4, 5 and
  7 bytes, on both sides of the width of an address (5), of a short address (1)
  and of `PayloadSize`, where 4 stands for 32; values that set and clear
  every field of a register.
- `MaxInputs = 2` for `Smch` is one "all" and one input that may disturb it; each
  "all" puts five commands into the queue, so the queue is exercised in full.
- `hub_live`: `Interval` is 5 units, with turns of the loop of at most 1 and
  transmissions of at most 1. This is the least for which `KeepsUp` holds: a
  message needs at most its transmission and four turns. In the code it is 200 ms
  against 85 ms, so there is room for turns of up to 28 ms.
  A device out of reach lets the retries run out; a silent chip is the
  case of `hub_silent_chip` and `hub_drops`, where nothing keeps up.
- Numbers of scans, answers and other messages: two scans are needed to see
  what the first leaves behind, two answers to have one late or twice.

The proofs of section 4 do away with these bounds for all safety of the ring
buffer, `Radio`, `RadioSteps`, `Nrf24Registers`, `Nrf24Spi`, `Smch` and
`DeviceHub`, and for the refinements and `OnlyMeantIsAired` of `SmchRadio`. They
remain what the evidence rests on for `KeepsUp` and all liveness.

### Fairness

- `Radio`: weak fairness of `Boot` (`setup()` ends), `Task` (`loop()` never stops
  calling `task()`, and none of the calls blocks) and `Tick` (time passes).
  Nothing is assumed of chip, devices or consumer. `ImplementsFairLink` holds
  since the number of packets is finite: reception has priority in `Idle`
  (`Radio.cpp:178`), so a hub that receives packets without end never sends.
- `SmchRadio` (`hub_live`): weak fairness of `Boot`, `Loop` and `Tick`, and of `Answer`:
  the chip's retransmission counter ends each transmission, with an
  acknowledgement if the device is in reach. The number of inputs is finite.
- `DeviceHub`: weak fairness of `task` and `Tick`; nothing of the radio.

`CHECK_DEADLOCK` is left on but for `driver`, where the bound on the number of
calls ends a behaviour.

## 4. Proofs

A theorem holds for every value of the constants under the `ASSUME`s of its
module, which TLC evaluates in the runs. They say:

- capacities are positive and bounds are natural numbers;
- the empty address is not an address, messages have addresses
  (`OnlyDeliverable` of `Smch` is what makes this true of the hub);
- the tables of shutters and pins are used within the model of `Blynk.cpp` and
  of the MQTT handler (`ShuttersAssumption`, `PinsAssumption`);
- at most ten devices, since `deviceIndexToAddress` has one digit;
- what is measured with the clock is shorter than its period: the timeouts with
  the longest turn of the loop, and the interval with it. `SmchRadio` asks
  in addition for a timeout of at least 1, since with 0 the wait would end in
  the turn it begins in and the measured time would not be bounded by the turns,
  and for turns of at least 1, since a clock that never moves within a turn
  measures nothing;
- `RadioSteps` asks for a chip that is done with a transmission before the
  timeout (`AirTime`): 85 ms against 1000 ms;
- the calls that `SmchRadio` may make of the radio have addresses, which
  `AlwaysDeliverable` proves of the controller, and the empty address is
  neither the hub's own nor the power-on value of a register.

Each theorem about a state goes the same way: `InvInit` (or `InitInv`), a lemma
for each action or group of actions, and `InvHolds` from these; the properties
are conjuncts of the invariant, or follow from it in one step. The invariants of
`Radio`, `Nrf24Registers`, `Smch`, `SmchRadio` and `DeviceHub` are in the runs, and
so is what that of the ring buffer adds to its types (`WindowIsExact`), so that a
change of the model is found out by TLC before it breaks a proof. The invariants
of `RadioSteps` and `Nrf24SpiProofs` are not in a run: there TLC checks only the
properties that follow from them.

All proofs about waits rest on an equation of the form
`now = (timer + waited) % ClockModulus` in their invariant, and on two facts: for
readings less than a period apart the difference modulo the period is the true
time, and what adding one to a reading does. Each module with proofs states them
for its own constants (`ElapsedTime` and `NextReading`, in `RadioProofs`
`ElapsedIsWaited` and `NextInstant`), with modulo as a case split.

### Ring buffer

`TypeCorrect` by induction over the actions. `WindowStaysExact`: the type
invariant with "the write index is the read index plus the counter" and "a slot
holds a value exactly when it is in the window". The second is needed because
`Take` on an empty buffer reads a slot outside the window, and that slot must be
vacant. `RefinesBoundedQueue` uses both: `PushExtendsWindow` and
`TakeShiftsWindow` say what a step does to the sequence of held values.

### Radio

The safety properties alone are not inductive. Whether the frame that
`WaitForMessageSent` leaves loaded is the one its address was written for depends
on what the state machine did two steps before, also across a reset.
`MachineInv` adds to the types:
- `LoadedAsAddressed`: at most one frame is loaded, and both address registers
  match it, even in states where the chip cannot transmit (CE low, or booting
  after a reset that the chip survived);
- `StateInv`: for each state of the machine, what it relies on: a listening or
  silent chip in `Idle`; a message to take in `SendNextQueuedMessage`; a
  listening chip in `ReadReceivedMessages`, since that branch switches the chip
  on *without* configuring it, which is safe only because a chip that is off
  raises no interrupt; and in `WaitForMessageSent` a transmitting chip and the
  clock equation;
- `IdsInv`: every identity in use is older than the next one;
- `SentInOrderOnce` and `NoStrandedPacket`, which are inductive with the others.

From `MachineInvHolds` follow `TypeCorrect`, `NeverMisdelivers`,
`NeverStaleAfterBoot`, `AlwaysInOrderOnce`, `AlwaysListensWhenIdle`,
`NeverStrandsPacket`, the action properties `NeverGivesUpEarly` and
`NeverDeafens`, and the refinement `RefinesLink`. The reset in the middle of a
branch rests on the lemmas about `PartWay`: of all the states a reconfiguration
passes through, none has a frame loaded under another address
(`PartWayLoadable` and its neighbours).

The packets come last. `PacketInv` says that the one read last, those in
the receive queue, those in the chip's FIFO and the next to arrive are in
ascending order, through the FIFO and the queue together. A step either takes a
packet from the front (`PacketTaken`), adds the next one at the end
(`PacketAdded`), cuts some off at an end (`PacketsCut`: a full queue drops the
newest it is offered, a flush those in the FIFO, a reset those in the queue) or
leaves them as they are; what is left is ordered as before (`WindowOrdered`,
`RestOrdered`). `InvHolds` joins both parts in `TransceiverInv`, of which
`AlwaysReadInOrderOnce` is a conjunct.
`LosesPacketsOnlyWhereKnown` goes through the actions once more, with
`PushedAllLoses`: what the queue did not take found it full.

### The radio, access by access

`Inv` of `RadioSteps` has two halves, since the refinement ends when a
transmission outlives its level of CE (`late`) and the safety of the air does not.

`AddressInv`, with the types, holds at all times and is inductive by itself: at
most one frame is loaded and the register has its address, a transmission under
way is of that frame, and while a branch is about to load a frame the FIFO is
empty and, from the second write on, the register is that of the message.
A `script` is always what is left of one of the five sequences in the code
(`Rest`), so that each access is a position in its branch. `NeverMisdirected`
follows, late or not.

The other half holds while `late` is false. `SeenInv` says what `Radio` sees of a
branch that has begun, and what each access has made of it: the chip before
access `k` of the branch is the `k`-th of a list of chips (`TransmitChips`,
`ListenChips`), or the one `Radio` saw with its first `n` packets read (`Unread`).
So the chip is a function of what `Radio` saw and of the position; the proof
goes through the positions, and the last one is the result of the branch in
`Radio`. `BurstInv` says when something is on the air: in the wait, for as long
as the wait lasts, or in a boot. With `MachineInv` of `Radio`, of what is seen, which the
steps of `Radio` preserve (the lemmas of `RadioProofs`, cited through an instance
with the constants substituted), a branch that finds the interrupt or the
timeout finds nothing on the air, since `AirTime` is less than the timeout.
Theorems: `InvHolds`, `RefinesRadio` (every step is a step of `Radio`, a stutter,
or the one that makes `late` true) and `OnlyBootIsLate`. `Inv` is not
in the cfg of `radio_steps`; it was checked by TLC on that instance, in 1,167,080
states, before it was proved.

### Controller

`Inv` of `Smch` is the types with three of the properties: `OnlyDeliverable`,
`AllRunsThrough` and the clock equation `ClockIsTrue`, which holds until the
interval is over. That is inductive because `AllRunsThrough` describes an "all"
from its *end* ("complete up to the last device"), so that it survives both the
appending of a single command behind it (`MotorAppended`) and the removal of its
first command (`FirstTaken`); that a second "all" is refused while one waits is
used in `AllAppended`. `MqttTables`, `PinTables` and `MotorIndex` go through the
tables and the arithmetic of the front ends, so that every call has an address
(`RequestCalls`). Theorems: `InvHolds`, `AlwaysDeliverable`, `AllAlwaysRunsThrough`
and `AlwaysPaced`. That the controller's steps on the radio's queue are those of
`RadioLink` is no theorem: they are written as such, and `RadioLink` asks nothing
of its client. What the radio does ask, an address, is `AlwaysDeliverable`.

### The hub

`RadioIsUsedCorrectly` and `ControllerIsServed` are the two refinements of
`SmchRadio`, step by step. The first needs that no wait outlasts `LongestWait`
although nothing in the loop forbids it: `PolledInTime` bounds the wait by the
timeout plus what this turn and the one before can have added, and
`StillInTime` shows that each poll is early enough. It also needs that identities do
not run out before the inputs do: `CallsCounted` counts the calls made and those
still queued back to the inputs (`ControllerAccounts`). The second maps the
machine's branches to `RadioLink` (`BranchOfMachine`) under the mapping that leaves out the
numbers of the messages (`RequestedSteps`).

With the refinements, what was proved of the parts is true in the whole. The proof
modules of both are instantiated (`Machine`, `Controller`), their assumptions
shown of the hub's constants, and their initial states and steps shown to be
those of the refinements: `RadioIsSafe` and `ControllerIsSafe` then carry the
properties over. `OnlyMeantIsEverAired` joins the two halves. That a frame is
under its own address is the radio's; that it is of a call with an address is
the controller's; that no call becomes another one in the queues is the link.

### Scanner

`CreditedOnce` and `RightWhenPunctual` are in `Inv` together with three facts that
they need. `PendingFromAsked`: while all answers are punctual, a status that has not
been looked at is from the device being asked, because a wait looks at
everything received before it ends. `AskedInOrder`: the devices asked so far are
those up to the index. `ClockIsTrue`. Counting is by cardinality of finite sets
(`StatusArrives`, `StatusCounts`). Theorems: `InvHolds`, `NeverCreditedTwice`,
`AlwaysRightWhenPunctual`, `ScansAreComplete` and `NeverCutShort`.

### Driver, per transaction

The obligations are of two kinds. What a *function* consists of: lemmas about
pieces of scripts that are put together as in the code (`JoinedTakes`,
`LowGoesOn`, `HighAtTheEnd`) give that each function lowers CE first, raises it
last if at all, and writes CONFIG for its own role (`InitScript`, `ModeScript`,
`RunningScripts`). What a *step* does: `WrittenOrAhead` says that a register holds
what it has to or that the write is still ahead; a step either takes that write
or leaves it ahead (`OneStepLess`). `OffWhileConfigured` says where in a script
CE changes; a "silent" role has no rising CE ahead, without which the invariant is
not inductive. `IdleWhilePrepared` says that the chip is idle while a
transmission is prepared and that a pending flag will be cleared. Theorems:
`InvHolds`, `AlwaysSetUp` and `StartsClean`, for every channel, depth of the FIFO
and state of the chip at power-on.

### Driver, byte by byte

A *place* is where a transaction has come to: none is under way, the chip has been
selected, or a command has been given to which so many bytes of data still
belong. The invariant `Inv` of `Nrf24SpiProofs` says that the rest of the wire
leads from the present place to an end of a transaction, item by item, each where
it belongs (`Leads`), and that what is written back has been read (`ReadsFirst`).
That a whole function does so is put together from its transactions, and a
transaction from its bytes, with the limits on the lengths of buffers against the
capacity of the command; a read-modify-write becomes a transaction in the middle
of the wire, which leads to the same place. After a reset the decoder may be
anywhere in a command, with CSN low or risen; the boot's high and low bring every
place to an end.

What a function makes of the chip is the result of all its bytes together. For
that the place is replaced by the chip's whole end of the bus with the bytes that
were read (`State`), and what an item does there is `Does`. `PromiseInv` says that
the rest of the wire leads, from the present state, to one that fulfils what the
function was called for (`LeadsToPromised`), and that no payload is left half
written between transactions. A step of the program is the first step of that
path, so it leaves the rest of it; the work is in `CallKeeps`: when a function is
called, its whole wire leads to what it promises. It is put together as the
functions are: what k bytes of data make of a register or of a payload
(`PartWritten`, `PartShifted`, `PartRead`), what a transaction makes of the chip
(`WritesRegisters`, `ReadsRegister`, `LoadsPayload`, `TakesPayload`, `Flushes`),
what a read-modify-write does (`Rewrites`), and then, function by function, that
this is what `Promised`, `PromisedToSend`, `PromisedToRead` and `Answer` say.
While the boot runs nothing is promised, and a reset ends every promise.

Theorems: `InvHolds`, `NoByteGoesAstray` and `KeepsItsPromises`, for every payload
size, value, length, number of calls and number of resets.

### Model-checked only

- All liveness (`ImplementsFairLink`, `ListensAgain`, `PacketsAreCollected`, `ScanEnds`,
  `ReachesDevice`), and `ENABLED`, which are beyond the prover.
- `KeepsUp` of `SmchRadio`, a matter of numbers: it needs how long a transmission
  and four turns take, and a count of what is in the transmit queue.
- The counterexamples, of course.

## 5. Not modelled

- The dumps and the debug output of `nrf24.c`, which print and are not compiled
  in the build as configured.
- The Home Assistant discovery messages published by `setupMqtt()` and the
  status published by `updateMqtt()`: text without influence on control.
- WiFi, OTA updates, syslog and the MQTT client: another repository.
- The printing of messages in `radio_protocol.c`; `createStatusRequest` and
  `pgmToStdString` in `Utils.cpp`.
- The answer sent to HTTP clients beyond handled or not. Note that a refused
  "all" and an index from 20 to 99 are answered with 200.

## 6. State of the work

All components listed in section 1 are modelled but for what section 5 names, and all
safety properties of the runs are proved but for those of "Model-checked only".
What would come next is `KeepsUp`, with a count of the turns that every queued
message still has to wait.

## 7. Running

    tlc -config Radio_safety.cfg MCRadio.tla
    tlapm RadioProofs.tla

and likewise for the other rows of section 3; the module of each run is in
`PROJECT.json`.
