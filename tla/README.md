# Verification of the VLCB-Arduino library

TLA+ modules, TLC configurations and TLAPS proofs for the library under
`src/` of this repository (paths below are `src/src/…` unless they start with
`docs/`). `PROJECT.json` maps every definition to the lines it models and
lists the runs, the mutants that show each property can fail, the hazards of
the code and the findings.

Contents: [the system](#the-system), [the modules](#the-modules),
[the runs](#the-runs), [findings](#findings), [bounds](#bounds),
[fairness](#fairness), [proofs](#proofs), [plan](#plan),
[what is not modelled](#what-is-not-modelled).

## The system

A VLCB module is a small processor on a CAN bus. `loop()` calls
`Controller::process()` again and again; nothing is preemptive. Each pass takes
at most one action from the action queue and shows it to every service
(`processAction`), then gives every service a turn (`process`), then the timed
responses, then commits the storage. Services talk to each other only by
putting actions on the queue. What makes the code hard is therefore not
threads but

* the **queue of eight** that overwrites its oldest entry: one handler may put
  several actions, and each received frame puts two, while a pass takes one;
* **power**: identity and data are written byte by byte, and the processor may
  stop between any two bytes;
* **the bus**: several nodes run the same protocol at once, and what one reads
  was sent when the others were in an earlier state;
* **long answers**: a table is read over many passes while it changes;
* **bytes and clocks**: indices, sequence numbers, counters and `millis()` wrap.

| Component | State | Operations | Talks to | What is hard | What makes it correct |
|---|---|---|---|---|---|
| Ring buffer (`CircularBuffer.h`) | slots, head, tail, full, put/get/overflow counters, high water mark | put, pop, peek, clear, queries | used by Controller, transports, timed responses | byte-wide indices, `int8_t` difference, full versus empty | a FIFO that loses only its oldest items; right diagnostics |
| Controller (`Controller.cpp`) | action queue, parameter flags | process, putAction, sendMessage…, indicate… | all services | overflow, order of services | no action lost at the rate the design assumes |
| Minimum Node Service (`MinimumNodeService.cpp`) | instantMode, heartbeat | messages (SNN, MODE, NNRSM, …), button actions, heartbeat | Configuration, Controller | three modes with many ways in and out, reboot | mode, flag, LEDs, number and storage agree; numbers are announced when given up |
| Configuration (`Configuration.cpp`, `Parameters.cpp`) | identity in RAM, NVs, events and hash table in storage | begin, reset, set mode/number/CAN id, NVs, events | Storage | torn writes, first start | RAM is what a restart would load; no data of an earlier life |
| LEDs and button (`LEDUserInterface.cpp`, `Switch.*`, `LED.*`) | two LEDs with timers, the button and the time of its last change | process, processAction | Controller | display follows by messages; pulses and blinking share a LED; times wrap | the LEDs tell the mode, pulses last, a press asks for what its length stands for |
| CAN service (`CanService.cpp`) | bCANenum, enum_responses, startedFromEnumMessage | frames in and out, enumeration, CANID, ENUM | transport, Configuration | concurrent enumerations | unique ids, no enumeration loop, one acknowledgement |
| Long messages (`LongMessageService.cpp`) | send and receive contexts | sendLongMessage, process, fragments in | Controller, user callback | loss, reordering of streams, wrap, timeout | what is handed over is one message, whole or reported |
| Timed responses (`TimedResponse.*`) | four tasks, pacing timer | queue, process | services with long answers | timer wrap, overflow drops the running task | every answer is whole unless displaced, in turn, paced, and ends |
| Event table and teaching (`Configuration.cpp`, `*EventTeaching*`, `EventSlotTeachingService.cpp`) | event slots in storage, hash table in RAM, learn mode | NNLRN, EVLRN, EVLRNI, EVULN, REQEV, REVAL, NERD, NNCLR… | Configuration, timed responses | table against hash, torn slots, an answer over a table that changes | lookup finds what was taught; teaching by event is a map |
| Event producer (`EventProducerService.cpp`) | — | sendEvent…, AREQ, ASRQ | event table, Controller | an event from a stale slot | what is sent is what the slot holds |
| Event consumer, own events (`EventConsumerService.cpp`, `ConsumeOwnEventsService.h`) | — | ACON… from the bus or from the node itself, ENACK | event table, application | one event in several slots, short events | the application is called for every slot of the event and for no other |
| Sketch 4in4out (`VLCB_SerialGC_4in4out.ino`) | switches | processSwitches, createEvent, validator, handler | facade, producer | creates events that the tool may have taught as well | one event per switch |
| Storage (`*Storage*`) | bytes, page cache | read, write, commit | Configuration | page boundaries, commit | what is read is what was written, and a loss of power spoils no other cell or page |
| Serial transport (`GridConnect.cpp`, `SerialGC.cpp`) | a line of characters, counters | available, getNextCanFrame, sendCanFrame | CAN service | lost characters, lines that run together or start in the middle | undamaged frames come out as they went in, and nothing else |
| Serial user interface, diagnostics, service base, facade | counters, text | | | | |

## The modules

| Module | Models |
|---|---|
| `OverwriteQueue` | what a ring buffer promises: a bounded FIFO whose put discards the oldest item when it is full |
| `CircularBuffer` | `CircularBuffer.h`, every operation, with byte-wide indices and counters; `RefinesQueue` is its refinement mapping |
| `BufferAndStorage_proofs` | theorems of the ring buffer and of the storage drivers |
| `VlcbNode`, `MCVlcbNode` | one whole node: main loop, queue, Minimum Node Service, identity in RAM and storage, LEDs and button, messages in and out |
| `VlcbNode_proofs` | its theorems |
| `CanEnumeration`, `MCCanEnumeration` | CAN services of several nodes on one bus |
| `CanEnumeration_proofs` | its theorems |
| `LongMessage` | senders and a receiver of long messages, one at a time, on a bus that loses frames |
| `LongMessage_proofs` | its theorems |
| `LongMessageEx`, `MCLongMessageEx` | the extended service: several contexts, round robin, CRC |
| `LongMessageEx_proofs` | its theorems |
| `EventTable` | the event slots of `Configuration`, their hashes, lookups and writes |
| `EventMap` | what teaching by event promises: a map from events to their variables |
| `EventServices`, `MCEventServices` | both teaching services, producer, consumer, own events, the timed answers about events, and the 4in4out sketch, on `EventTable`; `RefinesMap` is the refinement mapping to `EventMap` |
| `EventServices_proofs` | its theorems |
| `UserInterface` | button and LEDs with their timing over a wrapping clock, and the changes of mode that reach them |
| `UserInterface_proofs` | its theorems |
| `FrameLink` | what a transport promises the CAN service |
| `SerialGC`, `MCSerialGC` | frames as lines on a serial port; `RefinesLink` is the refinement mapping to `FrameLink` |
| `Responses`, `MCResponses` | timed responses over a wrapping clock, and the requests of the Minimum Node Service, diagnostics and node variables that use them |
| `Responses_proofs` | its theorems |
| `Storage` | the storage drivers, and what a loss of power leaves |


**CircularBuffer.** The variables are the fields of the class (`head`, `tail`,
`full`, `slot`s and the diagnostics). `Put`, `Pop`, `Peek` and `Clear` are the
methods. `Pop` and `Peek` need a non-empty buffer, as every caller in the library
checks. `NextSlot` and `Int8`/`UInt8` keep the widths of the code, with `ByteSize`
values in place of 256. `got` is what the last `pop()` or `peek()` returned, and
`discarded` a history variable that counts what `clear()` threw away.

**VlcbNode.** A pass of the loop is four steps: `Dispatch` (the action off the
queue shown to all services, with everything each puts back, in the order in
which the examples configure them), then the `process()` of the Minimum Node
Service, the user interface and the CAN service (`pc`). Splitting a pass there is
finer than the code, which cannot be interrupted except by a loss of power;
every real pass is a behaviour of the model. A handler changes RAM at once and
leaves its storage writes in `pending`, in program order; `WriteByte` does them
one by one before the loop goes on, and `PowerLoss` may come in between when
`TornWrites` holds. `Boot` is `Configuration::begin()`, including the recognition
of a virgin node and the reset that then follows; `ResetAtBoot` is the button held
at start-up. Node variables and events are one cell whose tag says whether it is
erased, of this life in Normal mode, or left from before. A node number is two
bytes of `Radix` values each. The action queue is used by its promise
(`OverwriteQueue`), which the ring buffer is proved to keep. `display` is what the LEDs
show when no pulse is on: the mode indicated last, or `DARK` after a pulse has gone to the
LED that was in use (`AfterPulse`). A message of a `TimedResponse` task, such as one of the
parameters for RQNPN with index 0, is an input like a frame and counts against `InputGap`.

**CanEnumeration.** Every node has a receive buffer (`inbox`), the actions of its
queue that concern this service (`todo`), and the fields of `CanService`. A frame
goes to all other buffers at once, in one order, as a CAN bus does; a node takes
one frame at a time. A transmission puts the id that the node has at that time
into the header, not the one it had when the message was queued, as
`CanService::sendMessage` does. There is no assumption about time: the 100 ms may be over at
any moment, with requests not yet answered and answers not yet read (`AnswerIsLate`), as they are for
a node whose loop is slow. The bus does not lose frames. `owed` and `disturbed` are history variables.

**LongMessage.** Senders run `sendLongMessage()` and the sending half of
`process()`; one receiver runs `processReceivedMessageFragment()` and the timeout.
`bus` keeps the order of frames. A frame can be lost when it is transmitted
(`process()` ignores the result of `sendMessageFragment()`) and a sender can lose
power; both count as `faults`. With `Concurrent = FALSE` a message starts only when
the bus is silent, which is the use that the service is meant for: it does not
support concurrent streams.

**LongMessageEx.** A node has `NumSend` contexts, served in turn (`turn`), and the
receiver `NumReceive`. The bytes of a message are pairs of its id and their
index, and the CRC of some bytes is those bytes: what the CRC can detect it does,
and two messages with one CRC are left out. The copy that `sendLongMessage` makes is `strdup`'s: it ends
at the first zero byte, which may be in the message or behind it (`FirstZero`); what is sent beyond
it is `Foreign`. A header carries the CRC, or `<<>>` where
the code sends 0. `overrun` is set when a message is started with all contexts in use,
where the code writes through a pointer after the last context; `Next` stops there.

**EventTable, EventServices.** A slot is its bytes: four of the event and one for
each event variable. `hash` is the table in RAM, and every lookup reads it first, as in
the code; a free slot is one with hash 0. `MakeHash` is the code's, over bytes. Each
handler is one action whose disjuncts are its early returns, in the order of the
code; `said` is what the step sends or hands to the application. Bytes go to storage
while a handler of either service, or the sketch that creates an event, runs; `PowerFailsInWrite` leaves those
of its `Writes` before a cut written and the rest as they were, and `Start` makes the hash table again. The
service is chosen in `Init`, since a module has one of the two. The sketch is the
application: it vetoes EV 1 in the validator, creates events when a switch has
none, and sends its start-of-day report from the event handler. Messages for other
nodes and the clearing of learn mode by other messages of `MinimumNodeService` are not in.

**Responses.** `tasks` is the queue of `TimedResponse` with the running task at its
head, and a task is the fields of its class; `RunStep` is the virtual `runStep()`.
`Wait` and `Step` are a call of `process()` that finds it too early, or not. `clock`
has `ClockRange` values in place of 2^32. `sent` records for every request
what was sent for it; `WholeAnswer` is what should be.

**Storage.** `medium` is what survives, `ram` the copy of the buffered
drivers, `page` the page cache of `FlashStorage`. `may` is history: the values that a
read of each cell may return, which a completed write narrows to one and an
interrupted one widens.

**UserInterface.** A pass is `Dispatch` and `Process`, as in `VlcbNode`; of the handlers
only what changes the mode or reaches the LEDs is there, in the order in which they put it on
the queue. `leds` is the mode, interval and start of each LED. `clock` has `ClockRange`
values in place of 2^32, and every difference and sum wraps as in the code. `due`, `wrapped`,
`pressed` and `asked` are history: how long a LED owes its pulses, which of them
were asked for around a wrap, and how long the button was really down. Contacts that bounce
between two passes are not seen, since `Switch` has no debouncing; those that bounce
for longer are presses.

**SerialGC.** `encodeGridConnect` and `decodeGridConnect` are the functions of the code, with
ids of 11 and 29 bits; a line is a sequence of characters. `wire` is what is on its way, and
each step of `available` takes one character, as each pass does. The next line is sent when
the wire is empty: the receiver sees a stream, so that only the order of characters matters. `intact`
is history: the frames on their way whose lines lost nothing.

**How the modules compose.** `VlcbNode` uses `OverwriteQueue` as its action queue, which
`CircularBuffer` implements. `UserInterface` takes its changes of mode from the
handlers that `VlcbNode` has in full. `CanEnumeration` assumes of its transport what `FrameLink`
says, and `SerialGC` implements that up to damaged frames. `EventServices` extends `EventTable` and uses the
queue of tasks that `Responses` looks at in time. `VlcbNode` and `EventServices` assume of
the storage that a byte is written when `write` returns and that power spoils no
other byte; `Storage` shows for which drivers that is so: for an EEPROM it is, for
flash a whole page is at risk, and for the buffered ones the last commit counts.

## The runs

| Run | Instance | Shows |
|---|---|---|
| `ring_buffer` | capacity 4, byte of 8 | FIFO refinement, indices, high water mark and counters through every wrap (355,073 states) |
| `node_modes` | queue of 8, at most 9 inputs, one every 9 passes at most, a power loss between handlers | `NoOverflow`, `NumberWasGiven`, `LedsSettle` (254,000 states) |
| `node_faults` | queue of 3, 5 inputs of any kind at any time, two power losses between any two bytes | types, `FlagTracksMode`, `RamIsStored`, `NoDataFromBefore`, `NumberChangeAnnounced` (4.8 million states) |
| `can_enum` | three nodes, one request, ids 0..3, one restart or one enumeration that ends too early | types, acknowledgement, uniqueness, end of all enumerations (980,000 states) |
| `long_message` | two senders, two streams, two faults | the five properties of `LongMessage` (406,066 states) |
| `long_message_ex` | one sender with two contexts, three streams of which two are subscribed, two receive contexts, three messages that may have a zero byte, two faults | CRC, interleaving, contexts that run out (6.1 million states) |
| `event_services` | two slots, two variables, both services, two events with one hash, a switch, a torn write | hash against slots, no duplicates, blank slots, the sketch's claim, complete reports, refinement of the map (405,000 states) |
| `responses` | three services, two tasks, three requests, a clock of 7 | whole answers, order, steps in time, progress (319,218 states) |
| `storage` | five drivers, two pages of three cells, runs of two, three writes, one loss of power | reads return what was written (3.0 million states) |
| `user_interface` | a clock of 7, a press of up to 5, passes of up to 1 | LEDs, pulses and presses (6.0 million states) |
| `serial_gc` | frames at the limits of ids and lengths, two ways to write digits, one lost character in each line | refinement of the link (56,256 states) |
| `flash_crossing` | a run of cells that crosses a page | a finding |

Each property is explained by the comment above its definition. The properties
and the hazards they are for are paired in `PROJECT.json`.

## Findings

* `flash_crossing` — `flash_write_bytes` stores byte `a` at
  `cache_page.data[buffer_index + a]` and never changes `buffer_index`
  (`FlashStorage.cpp:236–246`), so its branch for a page boundary is never taken.
  The comment at `:202` says that crossing a page is handled. In the 4in4out
  sketch, with slots of 9 cells from cell 14 on, the event of slot 55 crosses one.

More statements do not agree with the code. Their properties are in the
modules and are violated under the constants given, but no run is kept for them.

* `VlcbNode!SetupFlashes` (`node_modes`' constants) — in Setup "the green LED goes off and the Yellow LED flashes"
  (`docs/VLCB4in4out_README.md:169`). `Configuration::currentMode` is never Setup; in a Setup
  entered from Uninitialised it is Uninitialised, so `LEDUserInterface.cpp:51–53` gives
  the pulse of any activity, the module's own RQNN included, to the yellow LED. `LED::pulse`
  (`LED.cpp:80`) replaces the blinking, and after the pulse both LEDs are dark until the mode is
  indicated again. `LedsSettle` therefore allows a dark Setup, in this case only. `UserInterface`
  has the same property with the timing of the LEDs.
* `LongMessageEx!MessageIsCopied` (`long_message_ex`'s constants with `MaxFaults = 0`) —
  `sendLongMessage()` of the extended service is to "copy the message to the send content"
  (`LongMessageService.cpp:428`), and does so with `strdup((char *)msg)`. The message is counted by `msg_len` and
  may hold any bytes: the copy stops at the first zero, or goes on behind a message that has none. `msg_len` bytes are
  sent of it under the CRC of the whole message, and the receiver reports a CRC error although nothing was lost
  (without a CRC it would report the wrong bytes as complete). `NoErrorWithoutFault` therefore excepts
  a message that was not copied whole; it says that no other message suffers.
* `UserInterface!PulsesLast` (`user_interface`'s constants) — "Set the interval to the max of
  remainder of current pulse and new pulse" (`LED.cpp:70`): the sums at `:71` wrap before they are
  compared, so that around the wrap of `millis()` a new pulse is dropped or a longer one cut short.
* `SerialGC!WholeLinesCount` (`serial_gc`'s constants with `Peers = {"RTR with length"}`) — an RTR
  message ends with a digit for its length (`GridConnect.cpp:21–28`). The code writes none, and
  refuses one as half a byte of data (`:219`).
* `VlcbNode!ResetReleasesNumber` (`node_modes`' constants with `LifeFrames`) — NNRSM queues NNREL and then
  restarts the processor (`MinimumNodeService.cpp:262`), so NNREL is never sent;
  `docs/MinimumNodeService.md:45` says the module sends it first.
* `LongMessage!NoErrorWithoutFault` (`long_message`'s constants with `Concurrent = TRUE`,
  `Lens = {3, 6}`, `SeqRange = 8` and no faults) — the expected sequence number is also incremented
  for a fragment of another stream (`LongMessageService.cpp:262`), which the comment at `:255`
  says is ignored; the next own fragment is then an error.
* `VlcbNode!NewModuleHasNumberZero` (`node_faults`' constants) — a new node is
  recognised by mode 0xFF *and* number 0xFFFF (`Configuration.cpp:67`). If power fails
  after the high byte of the number has been reset, the next start takes the node for
  an Uninitialised one with number 0x00FF; `docs/MinimumNodeService.md:10` says 0x0000.
* `VlcbNode!SetupEnds` (`node_modes`' constants) — nothing ends Setup when no answer
  comes; `docs/MinimumNodeService.md:20` says it ends after 30 seconds.
* `LongMessage!NoErrorWithoutFault` (`long_message`'s constants with `SeqRange = 3`) —
  the expected number is an `unsigned int` and does not wrap with the byte in the frame,
  contrary to the comment at `LongMessageService.cpp:261`: a message of more than 255
  fragments is given up.
* `CanEnumeration!SetupGivesUniqueId` (`can_enum`'s constants, `InitialIds = {0}`,
  `Requests <- SetupRequests`) — the id that a module enumerates in Setup need not
  be unique (`docs/MinimumNodeService.md:15`). New modules all have id 0; the RQNN of
  one of them makes the others enumerate at the same time, and nodes that
  enumerate together take the same lowest free id. The conflict lasts until
  one of the two sends its next message.

The code restricts what properties can say in more places:

* While the button is held for longer than four seconds, `process()` starts the blinking anew in every
  pass, so that the yellow LED is steadily on until the release; `ModeIsShown` is about the time after it.
* `RefinesLink` holds with one lost character per line. Two can be two hexadecimal digits of the data, and
  the line is then a shorter frame: the format has no check sum.
* `rxIndex` is a static variable of `SerialGC::available()` (`SerialGC.cpp:35`): two serial
  transports in one module would write into each other's lines. The module has one.

* `OneEventPerSwitch`, the sketch's comment at `:219`, and what a torn write leaves:
  EVLRN writes the event first and its variable after it, so that a loss of
  power can leave half an event or one whose variables are unset. `OneEventPerSwitchUndamaged` is
  the same for a table without torn writes.
* `StepsInTime` holds until the clock wraps. `lastTaskTime + 5 > millis()` compares
  after the sum has wrapped or before: in the worst case the next step comes a whole
  turn of the clock later, 49 days. `AnswersEnd` says that it does come, and
  `StepsInTimeUnwrapped` that this is the only delay.
* `CompleteIsWhole` of `LongMessageEx` leaves out messages with a number that wraps
  (the 256th fragment has the number of a header) and empty ones (their CRC is 0,
  which counts as none).
* `NoErrorWithoutFault` of `LongMessage` is for one message at a time and numbers that do not wrap; the two
  violations of it above are what it leaves out.
* `LoneEnumerationIsUnique`: `CanService.cpp:257` ends after 100 ms whatever is on its way. The id of a node whose
  answer is late may be taken; the property says that of no other node is.
* `RamIsStored` and `NumberWasGiven` do not see an identity that is torn in storage: the next start loads it as it is.
  The first says no more than that RAM and storage agree, and the second is checked and proved without torn writes.
* `docs/VLCB4in4out_README.md:97–99` says that the table is filled with a default event for
  each switch on the way to Normal mode; the sketch creates one when the switch is first
  used. `:123` says that a variable is 0xFF until it is written; of an
  event that the sketch creates it is 0. The modules follow the code.
* `HandedIsPrefix` and `CompleteIsWhole` of `LongMessage` hold with one fault and not
  with two: the loss of a header and of the fragment before it can splice two messages,
  since the basic service has no CRC.
* `NothingLostInSilence` of `LongMessage` holds when the receiver subscribes to one stream. With two, a message
  whose end is lost keeps the receiver busy, which then passes over the header of a message on the other
  stream (`LongMessageService.cpp:255`), and the header of the next one on its own is then taken for an error: TLC
  finds three messages lost with one fault and one error reported.
* `AcknowledgedOnce` speaks of ENUM messages that start an enumeration: one that comes
  while another is running is dropped without an acknowledgement.

## Bounds

* *Ring buffer.* The capacity is at most half of what a byte counts, since
  `bufUse` computes the size in an `int8_t`; 4 in a byte of 8 values is exactly that
  limit. Counters wrap several times within the state space,
  so nothing bounds the number of operations.
* *VlcbNode.* `InputGap = 9` is the gap for which `QueueSuffices` proves `NoOverflow` with
  the real queue of eight (`ACTION_QUEUE_SIZE`, `Controller.h:24`). It makes the assumption
  explicit that the rest of the project relies on: a frame, an expired timer or a button press at
  most every nine passes. Nine is what the argument needs, not the least: with 30 inputs
  TLC finds an overflow for gaps of 4 and 5 (for 5 it takes more than six inputs), and none for 6 and 7. Two numbers that differ in both bytes suffice to tell a
  torn or a foreign number. Two power losses let the second strike during the
  recovery from the first. Nine inputs reach every path through the three modes and
  back; five in a burst overflow a queue of three several times over.
* *LongMessage.* `SeqRange = 4` is reached but not passed by five bytes at two per
  frame. A receive buffer of three bytes is
  filled in the middle of a fragment, at its end and not at all. Lengths start at
  one: a header with length zero leaves the receiver waiting for its timeout.
  Three messages of which two are disturbed let a third be received afterwards.
* *LongMessageEx.* Two contexts and three streams are the least for which contexts
  run out on either side. `SeqRange = 4` is reached but not passed by five bytes at two per
  frame. `FirstZero = {2, 9}` cuts the copy
  within a message, or behind all of them; a zero that comes as the last byte of a message is sent as it should be,
  and is like one behind it. Two faults are what it
  takes to lose the end of one message and the beginning of the next, which the numbers
  do not detect and the CRC does.
* *EventServices.* Two slots are full with two events, and a freed slot can be
  the first or the last. The two events taught have the same hash; one of them is the
  event that the sketch would create for its switch, and the other is a short one. One
  value of variables and two variables leave one of them unset. `TaskCapacity = 1`
  keeps each request displacing the other; the queue itself is the subject of
  `Responses`. `Cuts = {9}` tears a write in the middle of the event of the second slot
  (6 bytes each), a clearing of all slots there, and the sketch between the zeros of an event it creates
  in the first slot and the switch's number in its EV 1.
* *Responses.* `ClockRange = 7` with an interval of 2 and passes of up to 2 lets each step
  fall on either side of either wrap. Three requests with a queue of two displace one.
  The three services are one with a diagnostic, one without a service id and one
  without diagnostics.
* *Storage.* Pages of three cells and chip pages of two let runs of two cells end at, and
  cross, either. `RunLength` 4 with pages of 512 in the code are of the same kind.
* *UserInterface.* `ClockRange = 7` is the least that a press of 5 and a pass of 1 allow, so that
  presses, pulses and blinking all cross the wrap. The lengths 0, 1, 2–3 and more than 3 stand for an
  enumeration, a renegotiation, nothing, and a change of mode. A frame arrives, or the button is pressed, only
  while fewer than `Backlog` = 2 actions wait; pulses of two lengths then meet in either order.
* *SerialGC.* Ids 0, 1 and the largest of either kind, one with bits on both sides of the gap in the extended
  format, and one too large; none, two, eight and nine bytes of data. The buffer has its real
  size, and one line is longer. Nothing bounds the number of lines.
* *CanEnumeration.* Three nodes are the least for which two can be wrong about
  each other while a third asks. `InitialIds = {0, 1}` lets nodes start with the
  same id, with none, and with different ones. `MaxId` 3 is enough for an id each, and
  `MaxSettable` 2 keeps the one id that can be found and not set. One request can be
  an ENUM with the button just after it, and each conflict starts more enumerations. `MaxMishaps = 1`, of the
  module that is checked, allows one restart or one enumeration that ends while an answer is late; the
  theorems on this component have no such bound.

## Fairness

* `VlcbNode`: weak fairness of the loop, of the start and of pending writes — the
  processor runs. Inputs and power losses are never fair. A button that is held is
  released some time (strong fairness, since the release is possible only when the
  loop looks at the button); nobody holds it for ever.
* `LongMessage`: weak fairness of receiving, of the timeout and of each sender's
  next fragment, all called from `process()`. Starting messages and faults are not
  fair.
* `Responses`: weak fairness of time going on (`Wait`) and strong fairness of `Step`.
  `loop()` calls `process()` for ever. The strong part is an assumption about the length
  of passes: a step may be possible only during a part of each turn of the clock, and
  passes that always step over that part would hold a task up for ever.
* `SerialGC`: weak fairness of `available()`, which each pass calls.
* `UserInterface` has safety properties only.
* `CanEnumeration`: weak fairness of every node's actions, frames and timer: each
  pass of the loop does one of each. Requests, restarts and ends that are too early are not fair.

Runs that end because inputs are bounded switch the deadlock check off; the node
of `VlcbNode` never stops, and deadlock is checked there.

## Proofs

TLAPS proves the following for every value of the constants that the modules'
assumptions allow: any capacity, queue size, byte width, number of nodes, set of
messages, and any bound on inputs, faults or restarts, since the bounds are
constants as well.

* **`BufferAndStorage_proofs`.** `Inv` joins types, `FullMeansWrapped`,
  `OccupiedSlotsAreWritten` and `HighWaterMark`, which need each other: the use
  count is right only while `full` is, and the mark bounds it only if it is
  right. `SizeAssumption` bounds the capacity by half a byte's range. `CountersAlwaysAddUp` adds to
  `Inv` that all puts are accounted for modulo the width of the counters; each of the four wraps on its own.
  `Refinement` maps the slots from tail to head to the abstract queue and has one
  case per operation. Of the storage drivers it proves `Lands`: a cell holds what its history allows; of a
  buffered driver the copy does, and the medium holds what could be expected at the last commit; the page that
  flash has cached is a copy of the medium. The last part is what makes writes to other pages safe. Lemmas about
  `\div` and `%` put runs of cells on pages of any size.
* **`VlcbNode_proofs`.** `TypeCorrect` includes the bound on the queue.
  `FlagCorrect`: each of the handlers that change `instantMode` also calls
  `indicateMode`. `RamIsStoredAlways` strengthens the property to "storage, after
  all pending bytes have been written, is what RAM says", for that is what is kept
  while a handler's writes are under way and what a power loss breaks together with
  RAM. `NoOldData` uses `DataInv`, which follows the data cell through the scripts:
  whenever the mode byte Normal is still to be written, old data is gone or
  its erasure comes before it. `DropsAreAnnounced` is an action property: a handler that changes the number
  either has NNREL of the old one in what it queues, which the lemma `SpokenIsQueued` finds on
  the queue as long as nothing was overwritten, or has given the number up before: the invariant `SetupAnnounced` says that
  of each node in Setup. `NumbersAreGiven` needs `NumberInv`: what
  storage will hold once the script is written is a number some SNN carried, or none for a
  node that is Uninitialised. It is proved for `~TornWrites` only: with a write torn in two the
  bytes of two numbers can meet. TLC shows it for the reset of a first start that is cut short between the bytes:
  the node then runs with half a number.
  `QueueSuffices` gives each action a price twice: the passes of the loop that it and all that its
  handler queues will take, and the places on the queue that these hold at most. The prices are finite, since
  no action leads back to one of its own kind. What a queue costs is said with a witness, a sequence of partial sums,
  so that no induction over the queue is needed. `LoadInv` then says that the passes still needed fall
  as the time since the last input grows, that few are left when the next input is due, and none while the button is held.
  The lemmas about scripts classify the effect of every handler first; the invariants then
  have one case per effect.
* **`CanEnumeration_proofs`.** Types and `AcknowledgedOnce` are proved together
  (`Counted`), because what is owed stays a natural number only since each
  queued acknowledgement is owed. `LoneIsUnique` uses `LoneInv`: while a node
  enumerates undisturbed, each other node has its RTR still unread, or has its
  answer under way, or its id among the responses, or has no id. The property is
  not inductive without it: the first two cases are the late answers that it excepts. It holds
  whenever the enumeration ends, and without a bound on nodes or ids.
* **`LongMessage_proofs`.** A frame is named by its position, the message and the fragment, and an invariant has a
  witness `P`: the positions of the frame received last, of those on the bus, and of the one made next
  (`Path`). Two invariants are built on it.
  `Order` is about at most one fault: `P` has at most one gap, and what that can be follows from the
  fault (`Skips`: one frame, the rest of a message, or the header of the next). The receiver is then at rest (`Idle`), in step
  with the last frame (`Following`), or left waiting by a lost end that other streams have since followed (`Stale`).
  In all three the calls made so far are `Good`: each has given a prefix of one message, and complete ones rise.
  A gap shows as a wrong number, and the timeout, which comes only in silence, finds a receiver that waits only if there is a gap.
  From it come `PrefixesOnly`, `CompleteMeansWhole` and `NoErrorUnlessFault`.
  `Account` is for any number of faults: of the messages sent on a subscribed stream all but a set `D` are still to be
  received whole (`Hopeful`: no fragment missing from `P`), and `D` is no larger than the faults and the calls that
  ended a message. In silence nobody is hopeful, which is `NoMessageLostInSilence`.
  The loop over a payload and the joined calls are folds. Their values are pinned down by functions
  that give the result of each turn (`Turns`, `Joins`), and what holds after every turn is proved by its least counterexample, since
  no theorem of induction can be instantiated.
* **`LongMessageEx_proofs`.** `TypeInv` comes first. It also says where each sender is in its message (`Due`),
  without which the bounds on fragments and buffers are not inductive. `CompleteIsWholeAlways` (with the CRC at both ends) adds
  `WholeInv`: until a number wraps, frames on the bus and contexts are faithful to what was
  sent, and each message has one header, one context or one report at most. `ErrorsComeFromFaults` adds
  `OrderInv`. Without a fault the frames of one stream follow each other, the receiver is ready for the first
  of them, and what a sender does next follows the last; from that, each context holds a prefix of its
  message, as far as that was copied. What the CRC then finds can only be a copy that `strdup` cut short; the
  theorem leaves that one error, and shows that it spoils no other message. It assumes that senders keep to streams
  of their own (`~SharedStreams`, as the code has no way to tell two senders on one stream apart) and that a receiver
  checks a CRC if senders give one. `NothingIsLostInSilence` needs neither: it counts every message that is not yet
  complete against the frame, context, sender or fault that accounts for it.
* **`Responses_proofs`.** `StepsComeInTime` uses `Timing`, which relates the waiting to the clock since the last
  step. For the answers, `Queue` says that the waiting tasks are those of the last requests and in their
  order, and `Behind` that a task has behind it just the messages sent for its request; each `runStep()` is
  shown to send the next message of the whole answer or none, for any number of services, diagnostics, variables and parameters. The
  whole answer is a set with an order on it, so that the prover needs no induction over sequences.
* **`UserInterface_proofs`.** Lemmas about a clock that wraps, then three parts. `PressInv`: the time the code measures
  is that of the press, give or take a pass. `PulseInv`: a LED that owes a pulse is pulsing for long enough. `ModeInv`: the last
  indication on the queue is of the mode it is now. The mode shown depends on all handlers, so each of them is
  classified by what it adds to the queue.
* **`EventServices_proofs`.** `StepEffect` first says what a step can do to the table: leave it,
  unlearn one event, clear all, learn an event again or anew, create one for a switch, write a slot, tear a
  write, or start again. `Table` (types, and the hash table is that of the slots) and `TidyTable` (events are
  distinct, free slots blank, one event per switch) then have one case per effect. The hash table comes
  first, because every lookup reads it before it compares slots: that no event is stored twice
  depends on it. `NothingMissed` needs `Queue`: each task holds what it has still to report, and its place in the
  table never runs past an event that it owes. `TeachingRefines` rests on both: with a tidy table, writing a slot
  (`SlotWrittenInMap`) or clearing one (`UnlearnedInMap`) is the change of one event in the map, and the table is full only if the
  map is (`MapSize`). Each handler is an action of `EventMap` or one that only observes it; teaching by slot and torn writes are its
  `Damage`, and nothing is promised of the map from there to the next clear.

Assumed of the constants beyond the named `ASSUME`s are only these: `~TornWrites`
of `NumbersAreGiven`, a queue of eight and a gap of nine (or more) of `QueueSuffices`, CRC at both ends of
`CompleteIsWholeAlways`, streams and CRC of `ErrorsComeFromFaults`, and for `LongMessage` that one message is sent at a
time (`~Concurrent`, which is what the service is made for; see Findings) with, in the theorems from `Order`, no
message of more fragments than there are numbers (`Numbered`: 1275 bytes with the code's constants, beyond
which the numbers wrap and the code gives the message up), and in `NoMessageLostInSilence` one subscribed stream (`OneStream`).
Each is a value that a run uses.

Only model-checked:

* `RefinesLink` of `SerialGC`: encoding and decoding are folds over the characters of a line. What they give could be
  proved as the folds of `LongMessage` were, turn by turn; that has not been done.
* Liveness (`LedsSettle`, `ReceptionEnds`, `EnumerationsCease`, `AnswersEnd`), which is beyond
  this prover.

To repeat: `tlc -config <cfg> <module>` for each row of the `runs` in
`PROJECT.json`, and `tlapm <module>` for the eight modules of proofs.

## Plan

Done: the queue, the node with its modes, enumeration, long messages of both services, events,
timed responses, storage, the user interface, the serial transport, and eight modules of proofs.
Next, in this order:

1. Theorems: types and `RefinesLink` of `SerialGC`.
2. `NumberRace`: a manager and two nodes in Setup, each using the SNN handler of
   `VlcbNode`: an SNN on its way to one is taken by the other.

## What is not modelled

* Serial user interface: text, and two actions that the button has as well.
* Counters of the diagnostics services, which nothing else reads; what is sent of them is
  in `Responses`.
* What else shares the serial port: debugging output of a sketch, and characters that change in transit.
* Learn mode together with the operating mode: `VlcbNode` has no events and
  `EventServices` no modes. In the code neither ends the other.
* CAN ids in `VlcbNode` and modes in `CanEnumeration`: the two parts share only the
  action that starts an enumeration and the message that carries an id.
* EVLRN of the event FFFF:FFFF, index 0 of NVSET, and tables of 255 entries, at which
  byte-wide loops do not end (`Configuration.cpp:90`): each is excluded by an assumption or
  keeps only its answer.
* `vlcbdefs.hpp` (constants), the other example sketches, and the values of parameters.
