# A verification project for SSCP

SSCP (simple system control protocol) reads and writes 32-bit registers of
embedded devices with fixed frames of 16 ASCII characters over UART, BLE or
TCP. This directory models the repository's own code in TLA+, checks it with
TLC and proves what matters most with TLAPS. Paths below are relative to the
repository; `sscp.c` is `source/C/sscp/src/sscp.c`, `sscp.h` its header.

## The system

| Component | Source | State | Operations |
|---|---|---|---|
| C responder stack | `sscp.c`, `sscp.h` | receive buffer and its index; request FIFO (slots, put and get index, count, status word); static scratch buffers; list of register handles | `SSCP_init`, `SSCP_handleRxByte`, `SSCP_process` (with `SSCP_requestFifoPut/Get`, `SSCP_decodePacket`, `SSCP_encodePacket`, the register callbacks and `send`) |
| Wire format | `sscp.c` 158-355, `source/python/packet.py` | none | encode, decode, CRC-8 |
| BLE demo | `demos/lp_em_cc2340r5/sscp_ble/main_freertos.c`, `.../simple_gatt_profile.c` | response mailbox `SSCP_bleResponsePacket`, registers | GATT write (0xFFF6) and read (0xFFF7) callbacks, processing thread, `BLE_send`, button interrupt |
| Serial demo | `demos/lp_em_cc2340r5/sscp_serial/sscp_serial.c` | semaphore, registers | `callbackFxn`, main thread, `UART_send`, button interrupt |
| Python initiator | `source/python/initiator.py` | open link, cached registers (`parser.device`) | open, read and write a register, read and write a parameter, per link |
| Python responder | `source/python/responder.py` | sockets, registers, callback table | `process` |
| Parameter map | `source/python/parser.py` | registers and the parameters in their bits | set, get, encode, decode |
| Command server | `source/python/sscp_socket.py` | one client connection, one initiator | text commands |
| Node bridge | `source/node_server_python_bridge` | backend: a promise per request; executor: a backlog of connections, the initiator | HTTP request -> TCP connection -> `process_command` -> answer |
| Demo registers | `sscp_serial.c` 24-211, `main_freertos.c` 118-216 | a button's state and press count, a LED's command bits | register callbacks, button interrupt |
| LabVIEW initiator | `source/LabVIEW` | binary | - |

How they meet: an initiator encodes a request and writes it to a link; the link
driver's callback hands the bytes to `SSCP_handleRxByte`, which queues complete
requests; a thread calls `SSCP_process`, which takes one, writes the register,
calls the application's callback, and gives the response to the link's `send`;
the initiator reads it (serial: 16 bytes or a timeout; BLE: polls a mailbox
until it is not all zeros; socket: 16 bytes, no timeout), and stores what it
read in its own copy of the register. The command server and the Node bridge
drive an initiator from outside.

What is hard: the callback and the thread share the FIFO and a static decode
buffer without a lock; the framer has to recover from lost bytes by the early
`#` alone; a request carries nothing that ties its response to it; links lose,
delay and spoil bytes, initiators time out, poll without end, die and restart;
the FIFO keeps four redundant fields in step. `PROJECT.json` lists these
hazards at their lines, with the properties that cover them.

What makes each component correct:

* stack: the FIFO's fields agree; only whole, valid requests for this device
  are queued; nothing is lost unless the FIFO is full; requests are answered in
  order, a read with the register's content; the framer recovers;
* wire format: the two implementations agree; decoding undoes encoding;
  corrupted characters are noticed;
* demos: the above although callbacks preempt the thread; no request stays
  unprocessed; presses are counted, none twice; a LED's register says what
  the LED is;
* initiators: an operation ends, and takes the response to its own request;
* socket programs: an operation that succeeds was done by the other program and
  every operation ends, a responder that receives does not outlast its initiator,
  the callback called is the register's;
* parameter map: setting one parameter leaves the others as the device has
  them; what is set before goes along; decode undoes encode for values in range;
* command server, bridge: what is acknowledged was asked, but for a number that
  is cut; one answer per command; a request is carried out at most once, and never if it is refused;
  no browser waits for ever, unless the executor ended while it served it.

## Modules

| Module | Models | Uses |
|---|---|---|
| `RegisterService` | what a responder promises: a bounded queue of requests, served in order (abstract specification) | |
| `SscpResponder` | the C stack, one step per call | implements `RegisterService` |
| `SscpCodec`, `SscpCodec_proofs` | C and Python encoders, decoders and checksums; a frame that is disturbed | |
| `BleResponder`, `BleResponder_proofs` | the BLE demo: callbacks preempting `SSCP_process` between its memory accesses; one BLE client | |
| `SerialLink` | Python serial initiator, line, serial demo | extends `SscpResponder` |
| `SerialLink_proofs` | theorems about the C stack and the link | |
| `ParamMap`, `ParamMap_proofs` | `parser.py` and the initiator's operations on parameters and registers, with the device's registers beside the map | |
| `SocketSession`, `SocketSession_proofs` | Python initiator and Python responder over two TCP connections, from start-up to either's end | |
| `CommandServer` | `sscp_socket.py` and its one client, with the text stream between them | |
| `CallService` | what a service that carries out calls promises its callers (abstract specification) | |
| `NodeBridge` | browsers, the Node backend and the Python executor | implements `CallService` |
| `DemoRegisters`, `DemoRegisters_proofs` | the demos' button and LED: interrupt, pins, callbacks | |
| `Recursion` | lemmas: induction over numbers, existence of recursive functions | |
| `MCFrontEnds`, `FrontEnds_proofs` | `NodeBridge` or `CommandServer`, whichever program runs; the theorems about both | both |
| other `MC*` | instances for TLC | |

### SscpResponder

The variables are the fields of `SSCP_Handle`, named as in the code;
`rxByteRingBuffer` holds the first `rxByteRingBufferIndex` bytes, so the index
is its length. The static `packet` and packet-info structures of
`SSCP_process` are local to one call here. `response` is the packet last given
to `send`, `result` what `SSCP_process` last returned, and `lost` says that the
register loop ran off the list and did not come back.

One action per call: `SSCP_init`, `SSCP_handleRxByte(byte)`, `SSCP_process`.
What the hexadecimal payload of a frame says (`PacketInfo`) and which frames
have a right checksum (`CrcOK`) are constants: the stack's control depends on
nothing else, and `SscpCodec` models the computation. Frames have `FrameLen`
bytes. A callback may store any value in its own register. The loop of
`SSCP_process` (sscp.c:451) has no end test; reading past the list
(`RunOffList`) is undefined, and is modelled as either never returning, or
matching a stray word whose `pData` may be anything, one of the registers
included. That a stray write can also hit the FIFO itself is left out: no
property would survive that.

Registers are read and written as the code does: the write before the
callback, the callback for a read or a write but not for both at once, the
response's data loaded only where there is a callback (sscp.c:466-480).

### BleResponder

The TI BLE stack runs GATT callbacks in a task of a higher priority than the
processing thread (`common/config/ble_user_config.c:162`,
`main_freertos.c:333`): a callback interrupts the thread anywhere and runs to
its end. So `WriteRequest` and `ReadResponse` are one step each, and
`SSCP_process` is cut wherever a callback accesses memory that it accesses too:
status, count (load and store), slot, the static buffer of
`SSCP_decodePacket`, the response mailbox. Copies of 16 bytes are cut in two
halves, header and tail, which is what it takes for a mixture to be noticed.
`thread` names the next access. The get index is advanced with the copy, as no
callback reads it; `PacketInfo` and the framer are folded away, because the
initiator writes one whole packet per GATT write.

The client is `BLE_read_register`/`BLE_write_register`: write, then poll until
the response is not all zeros. The variable `patient`, chosen at the start, says
which client it is. An impatient one may stop while polling (a lost connection,
an interrupted program) and start again, and may write while `BLE_send` still
copies the response of which it has caught a part. A patient one never gives up,
and its next request does not arrive before that copy ends: a radio round trip
against eight bytes. Without this even a client that waits gets ahead of the
thread. `MCBleResponder` lets the impatient client ask for register 0 only, to
bound the run. What holds of both is stated without a condition.

### SerialLink

It extends `SscpResponder` and takes its calls one by one: the main thread
alternates between `ReceiveByte` (UART2_read delivers one byte to `callbackFxn`)
and `Process`; its behaviour is `LinkSpec`. An `SSCP_process` that leaves the
register list does not come back, so the thread has halted, as it has after an
error of the receiver. `EncodingAssumption` says of frames what `SscpCodec` is
checked and proved to do.
The initiator writes a request and reads one frame; `Timeout` is
`serialHandle.read(16)` returning fewer bytes. With `Impatient = FALSE` the
timeout strikes only when nothing more can come, that is, the configured
timeout is longer than any response takes; with `TRUE` it can strike at any
time. `LineNoise` drops or replaces one byte; `Restart` kills the initiator,
possibly before all it wrote is out, and starts another, which drops what has
arrived and sends `*1#`. `spoiled` is a history variable that bounds how many
requests noise may cost: the one it hits and the one after it. `Combined = FALSE`
keeps noise and restarts apart: a surplus response of a killed initiator and one lost byte leave
its successor reading across the borders of responses for ever, since nothing
resynchronises the initiator's side, and `RecoversFromNoise` does not hold then.
`ReceiveError` is an error of the UART driver, on which `callbackFxn` spins for
ever (sscp_serial.c:183-187): the device is deaf until it is reset. `Overrun`
is the driver's own loss of a byte that came too soon. `self.device.registers`
is a list indexed by the register number of the
response; the model takes the numbers for the positions, as in both
configuration files for the demos.

### SscpCodec

Characters and bytes are numbers, `regData` is four bytes. Bit operations are
written over the eight bits of a byte, checksums are unrolled over the six or
seven bytes they are taken of.
A device ID above 31 overflows the byte in C and raises an exception in Python;
`Packet` stays below it.

### ParamMap

A register's word is the set of its bits that are 1, so that masks and shifts
are set operations. `Bits` are those of a number, of a negative one in two's
complement; `Number` is the number that has the given bits. `Weight` are the
powers of two. `value` are the parameters' values, `regval` the map's copy of the
registers, `device` the device's own. As in `parser.py`, the three agree only
after certain operations: setting a parameter makes its register anew of all
parameters (`SetInMap`), getting one decodes all of its register
(`GetFromMap`), reading a register stores it without decoding.

A transfer succeeds or fails; a failed write may or may not have been executed,
a failed read leaves everything as it was (`None` over the serial link, an
exception of `packet.info` over the others). That a transfer which reports
success was the right one is not this module's subject, but `SerialLink`'s,
`BleResponder`'s and `SocketSession`'s. `fresh`, `wrote` and `asked` are
history variables. `undecoded` are the registers that `read_register` stored by
itself: their parameters follow when they are got, not before. A register that is
written as a word leaves the map as it was. `LayoutAssumption` is what the parser takes for granted: fields of a
register are disjoint and wide enough for their limits, as in both
configuration files. Left out are FLOAT parameters, which neither file has, and
the reading of the YAML file.

### SocketSession

The states of the two programs are the calls they wait in: the initiator
accepts (`initiator.py:103`), connects (114), is idle or reads; the responder
connects (`responder.py:51`), opens its port (61-71), accepts (75) or receives.
An exception nobody catches ends a program (`"ended"`), the user or the
operating system ends it otherwise (`"off"`); both can be started again, each
start with a new number, by which an end of a connection is known to belong to
a program that is still there. A connection is established as soon as the other
side listens, whether or not it is ever accepted, so both backlogs can hold
connections of programs that are gone. `recv_exact` takes the bytes in pieces
of any size. `process` is one step with its callback, which may store any value
in its register, and its response. The table of callbacks is built as
`add_register_handle` builds it, by one call after the other (`added`), and
looked up by position as `process` does. `HandledAssumption` says what the
program at the end of `responder.py` does: whenever it adds a callback, it has
added one for each lower register. A gap would shift the others.

Not modelled: that the operating system may refuse to bind a port shortly after
its last use, and both flags in one request, which no initiator sends.

### CommandServer

TCP has no borders: `recv` returns part of a command or several of them, and
the server looks for each keyword anywhere in the text, one test after the
other, and splits the whole text at its commas. A text is a sequence of
fragments, cut where `recv` may cut it, among them inside of the keywords that
contain others (`DISCONNECT`, `SET_PARAMETER_IN_DEVICE`). A name or a value is a
fragment that may be cut as well: `Halves` says into what. `ConstantsOK` says
that a name is neither a number nor one of the words, and so no name has a keyword
in it, whether the configuration file has it or not (those of the two files in
the repository have none), and that the beginning of a name is no number.

`Take` is one pass of the loop: each branch leads from a record of the pass
(alive, initiator, answers, acknowledged) to those that may follow, and an
exception ends the server. `Receive` gives it the text up to the end of a
fragment, `ReceiveHalf` up to somewhere within a name or a value, and `halved`
says that this has happened: of `SET_PARAMETER,A,11` the server may take
`SET_PARAMETER,A,1`, and do and acknowledge that. What an operation does is the links' and `ParamMap`'s
subject; here it succeeds, fails (serial) or raises (the others).

Answers are counted, not read. `CONN_INIT` is taken as part of the answer to a
CONNECT; `CONN_ERR` (`sscp_socket.py:120`) has no end of line, so that a client
that reads lines finds it at the beginning of the next answer.

### NodeBridge

`Post` is `sendCommand` of the backend: refused at once if the executor does
not listen, otherwise a connection in its backlog and a promise. The promise is
settled by the first data or by an error of the connection; there is no
handler for `close` and no timeout (`python.service.js`). The executor accepts,
receives, executes and replies, one step each, so that it, the backend or the
browser can end between any two. `Connect`, `Get`, `Set` are the branches of
`process_command` with their outcomes. `dropped` are the requests that were being
served when the executor ended; `seen` is what the device held while a request
waited. The refinement maps each request's phase to the state of a call.
HTTP itself, the pages and the text of the answers are left out.

### DemoRegisters

A register is a word of bit fields, and to store one field is to load the word
and to store it: the read callback loads pin and word (`ReadButton`) and stores
the word later (`StoreState`), and an interrupt between the two is overwritten.
That the compiler makes it so (a load, an insertion, a store) is an assumption.
A press in this window is lost; `PressesCounted`
says there is no other. `WriteLed` may be followed by the callback or not, since a request with
both flags writes the register and calls nothing. The
blinking loop is a step per toggle. Both buttons and both LEDs of both demos
are alike; one of each is modelled.

## Runs

| Run | Question | Bounds and why they suffice |
|---|---|---|
| `responder` | do framer and FIFO stay right, is the service implemented, is what waits served, for any order of bytes, processing and re-initialisation? | frames of 3 bytes (start, one payload, end): every split and merger of frames occurs; FIFO of 2, so indices wrap with 0 to 2 waiting; payloads: read and both flags of a register with a callback, write of one without, a register that is not listed, other device, wrong checksum |
| `ble` | is the demo right with a client that waits, and what holds even if requests arrive at any time? | FIFO of 2, two registers (one for the client that does not wait), two values; `MaxCount` bounds the count, which races can let grow |
| `ble_mixed` | is what is executed what was queued, with a client that gives up? (violated) | one register |
| `serial` | noise, receiver errors and restarts | one byte lost or spoiled, or two restarts; a halt at any time; one register |
| `serial_late` | late responses (violated) | no noise, no restart |
| `codec` | do the two implementations agree and round-trip, are corrupted characters noticed? | every header, every value of each single byte; two frames with all pairs of changed characters, out of digits, letters, their neighbours, framing bytes and extremes |
| `parameters` | do map and device stay in step? | a register of five bits: an unsigned parameter with limits narrower than its field, a signed one over its whole field, one bit of nobody's; inputs inside, at and outside the limits; four words that the device begins with, changes to or is written, one of them outside the limits |
| `socket` | are operations done, and do they end, whoever is killed? | two starts of each, two of them killed; frames of 3 bytes, so pieces begin, continue and complete one; registers with a callback, without one, with one added twice, and one the responder lacks |
| `socket_start` | does a session start? (violated) | one start of each, nobody killed |
| `front_ends` | is what the command server acknowledges asked for, and each command answered once, whatever TCP cuts and joins? is a browser's request carried out once, and answered, whoever ends? | the command server: three commands, two of them ahead, which is what it takes to connect and then join, cut and confuse two; a known and an unknown name, two numbers and a word; the longer number can be cut into the shorter and a rest, the unknown name into the known one and a number; SERIAL, which fails, and BLE, which raises (SOCKET has a part of BLE's outcomes). The bridge: three requests, so one is served, one waits and one comes; two values |
| `command_cut` | is what is acknowledged exactly what was asked for? (violated) | two commands |
| `demo` | do presses and commands keep the registers right? | three presses, so one before, in and after the window; blink counts 0 to 2 |

`MaxNoise`, `MaxRestarts`, `MaxBytes`, `MaxCount`, `MaxHits`, `MaxStarts`,
`MaxKills`, `MaxCommands`, `MaxAhead` and `MaxPress` are the only counters that
are capped, each in a guard (`MaxBlink` is the range of a field). The runs of
`SocketSession` say CHECK_DEADLOCK FALSE: the programs may all have ended.
`Program` says which of the two programs of `MCFrontEnds` a run is about: `front_ends`
is about either.

`Orderly` is an assumption of the `socket` run: a responder is not started while
the initiator has the connection of an earlier one to accept, or has just
accepted it. Without it `ExchangesEnd` fails: the initiator takes the dead
responder's connection for requests and connects to its successor for
responses, and both wait for ever.

`AnswersMatch` holds for one disturbed byte and no more: if the `#` of a
request is lost and the next request's `*` becomes a `#`, the old request is
completed and answered in place of the new one. Likewise a response still being
sent to a killed initiator is taken by its successor. Neither is in a run's
bounds; `serial_late` shows the same weakness without noise. On the wire, two
flipped bits in two characters can pass the CRC-8, since one flipped bit can
change several bits of a decoded byte; `ByteErrorsDetected` is stated for one
byte for that reason.

Fairness: `SSCP_process` is called in an endless loop by a thread nothing
blocks (`main_freertos.c:274`; `sscp_serial.c:262`, where the byte must come
first), hence weak fairness of it. The BLE client polls without limit
(`initiator.py:198`), hence weak fairness of `ReadResponse`; the serial
initiator's read returns at the latest with its timeout, hence weak fairness of
`ReadResponse \/ Timeout`. The two socket programs are ordinary processes, each
of which the operating system runs on whenever the call it waits in can return,
hence weak fairness of each one's steps, requests excepted. The bridge's
executor loops over its connections, and what it waits for ends
(`SerialLink`'s `OperationsEnd`), hence weak fairness of its accepting,
receiving, executing or replying. The demo's thread runs on between interrupts,
hence weak fairness of `SSCP_process` in `DemoRegisters`. Requests, presses, noise,
restarts, ends of programs and re-initialisation are never assumed to happen.

Each property of a passing run has a mutant: a changed definition of the model
(named "Mutant of ..." in its module) under which TLC finds the property
violated. Nothing else uses those definitions. Type invariants are checked where
a counter, an index or a cut of bytes could leave its range; `SerialLink`, whose
device has its own, and `SscpCodec`, which has hardly any state, have none.

## What the code does otherwise than it says

* In the BLE demo, a request that arrives while another is processed can be
  executed in place of, or mixed with, the other (`ble_mixed`).
* The serial initiator takes a late response for the answer to its next request
  (`serial_late`).
* Over sockets, the initiator may connect before the responder listens; it ends,
  and the responder waits for ever (`socket_start`).
* The command server takes what a `recv` returns for whole commands: a number that
  is cut in two is set and acknowledged for its beginning (`command_cut`).

A single client that always waits is safe from what `ble_mixed` shows
(`FifoIsRightIfPatient`). With a client that gives up, `AnswersTheRequest` fails
too: the response to the request given up is read as that to the next.
Even a patient client can read half a response, since `BLE_send` copies it while
GATT reads go on (`SendHead`, `ReadResponse`, `SendTail`); what it takes then is
what `AnswersTheRequest` leaves out by asking for a right checksum. And
`SSCP_process` returns what `send` returns, which in the BLE demo is 0, where
`sscp.h:231` promises 1 for a processed packet.

Met while modelling, without a run of their own:

* `SSCP_process` runs off the register list for a register that is not in it: the
  loop's condition is `handle->registerHandlesCount` (sscp.c:451). The
  `responder` run takes this step (`RunOffList`).
* The FIFO of the BLE demo has no lock. A request that arrives between the load and
  the store of its count (sscp.c:133) is not counted; `sscp.h:163` says "Number of
  packets in the request FIFO." One that arrives between the first assignment of
  its status and the last can leave a full FIFO OK, and one that arrives between
  the test of the count and the assignment of EMPTY (sscp.c:142-144) waits in a
  FIFO that says EMPTY. `CountExact` and `StatusExact`, which the patient client
  keeps, are violated by one that does not wait; `CountNeverNegative` is not.
* A press between the two accesses with which a read of the button stores its
  state (`sscp_serial.c:55`) is lost. `PressesCounted` leaves out this window.
* A read of a register without a callback returns 0 and not the register
  (sscp.c:466-480). No demo has such a register.
* `READ_REGISTER` and `WRITE_REGISTER` are in the command server's list of
  commands (sscp_socket.py:39) and are never answered. `DISCONNECT` contains
  `CONNECT` and reconnects. Over BLE, `CONN_DONE` is sent also when there is no
  device. A client that closes its connection leaves the server spinning.
* The bridge answers return code 0 to a set that returned `False`, and to a get
  that failed, with the value `None` (processor.py:34-56). The page says that it
  is connected whatever the answer's status (script.js:26).
* A request to the backend without a body makes `client.write` throw, which ends
  the backend. A promise whose executor ends while it is served is never settled.
* A responder that waits for its initiator to connect (responder.py:75) does so for
  ever if that has ended or been killed since it accepted the responder's
  connection, since `accept` has no timeout and nobody else connects. In the
  `socket` run it does so too: `ExchangesEnd` is about operations, and about a
  responder that receives.
* An unknown name in a `GET_PARAMETER_FROM_DEVICE`, or a value that is no integer,
  raises an exception that ends the command server (`initiator.py:498`,
  `parser.py:55`).
* A LED's command bits stay set until they are written 0: an `on` outlives a
  later `off` of a client that sets the one bit only.

## Proofs

All theorems hold for every value of the constants that satisfies the named
assumptions: sizes are positive, the start and end bytes differ, decoding yields
a packet (`SizeAssumption`, `ByteAssumption`, `RegisterAssumption`,
`DecodeAssumption` of the stack); what is encoded is decoded again, has no end
byte before its last, and the flush pattern is shorter than a frame and ends with
one (`EncodingAssumption`, `LinkAssumption` of the link); no packet has a half
of zeros, since its first and last characters are `*` and `#` (`ZeroAssumption`
of the BLE demo);
callbacks are added in the order of their registers, and `None` is neither a
packet nor a number (`HandledAssumption`, `NoneAssumption` of the socket
programs); fields are disjoint and hold their limits, users set numbers
(`LayoutAssumption`, `UserAssumption` of the map). TLC evaluates each of them on
the runs' constants.

* `SerialLink_proofs`, of the C stack. `TypeOK` is not inductive alone: that the put index
  is reached from the get index by the count, and the status word is that of
  the count, is needed to know that a put keeps the count within the FIFO's
  size and that a get does not make it negative. `Inv` joins `TypeOK` and
  `FifoConsistent`; `PutAppends` and `GetTakesHead` say what a put and a get do
  to the sequence of waiting requests, and are what `OwnRequestsOnly` and the
  refinement rest on. `Refinement`: under `Callbacks = RegID`, every step of the
  stack is a step of `RegisterService` with the queue as the packet infos of
  the waiting slots, or changes nothing there. A register
  without a callback breaks it in one way only: a read of it answers 0 and not
  its content. The `responder` run has such a register, which is
  only written, and checks the refinement there.
* `SerialLink_proofs`, of the link. Every step of the link is one of the stack
  or leaves it alone (`LinkStepsResponder`), so the stack's invariant holds here
  too, and with it `AtMostOneWaits`, on any line (`OneWaits`). The other two are
  about an initiator whose timeout strikes only when nothing more can come, and a
  line that neither loses nor spoils a byte (`~Impatient`, `MaxNoise = 0`).
  `FlushRecovers`: no operation fails while the responder runs, whatever killed
  initiators left in the framer. The invariant, `PatientInv`: what is on the line
  ends with an end byte, so that the framer of a silent line is at the start of a
  packet (`LineEnds`); while the initiator reads, its request follows an end byte,
  or is partly in the framer, or a request waits, or a response is there
  (`Pending`); and what has been sent to it are whole frames (`WholeFrames`).
  Restart keeps the first of these only because of the flush pattern.
  `AnswersAreRight`, of the first initiator, if every register has a callback, as
  in the demo: `FirstInv` follows its one request from the line through the FIFO
  to the response, which it then takes. An impatient initiator can take
  the wrong response (`serial_late`); a line with noise stays with TLC.
* `BleResponder_proofs`. `CountNeverNegative` is about every interleaving,
  including those that corrupt the count. The invariant: while the thread is
  before the decrement, the count (or the loaded value) is at least 1, because
  the status was not EMPTY and only this thread sets EMPTY, after it has seen a
  count of 0, and a put in between sets it to OK again having counted.
  Of the patient client, whatever the callbacks interrupt, two theorems:
  `PatientFifoIsRight` and `PatientIsAnswered`. `PatientInv` follows its one
  request. It is in one place at a time: in the FIFO, in the thread, or
  answered in the mailbox (`OneAtATime`); while it is somewhere the client polls,
  so no callback writes (`ClientWaits`); and at each of the thread's accesses the
  slot, the decode buffer, the packet and the mailbox hold what that request has
  become so far (`RequestMoves`).
* `SscpCodec_proofs`, for all packets, all frames and any noise. A byte is taken
  apart into its bits (`BitsOfByte`, `ByteOfBits`), on which one turn of the Python
  loop is a linear and injective map (`ShiftOutLinear`, `ShiftOutInjective`). The C table
  doubles as that map does: its entry 2k is one turn of entry k, its entry
  2k+1 differs from that by 7 (`TableDoubles`); so it is eight turns of every byte
  (`TableIsRight`), the two checksums agree, and so do the encoders
  (`EncodersAgree`). A checksum equal to the last byte clears itself, hexadecimal
  digits give back their nibbles, and the two nibbles of a byte do not overlap:
  `RoundTrip`, whichever end is written in which language. A step of the checksum
  tells two bytes apart and keeps two checksums apart (`StepTells`), so bytes that
  differ in one place do not both clear it (`ChecksumTells`); characters that
  change within one byte change no other, whatever they turn into:
  `ByteErrorsDetected`. `CodecInv` says that what has not been hit of the frame
  is as it was sent.
* `ParamMap_proofs`, for every width, layout and value. A number is its parity and
  its half's bits (`BitsOfHalf`); by induction over the width, numbers with the
  same k lowest bits differ by a multiple of 2^k (`SameBits`), and any k bits are
  those of some number below 2^k (`SomeNumber`). So decoding any word gives what
  the field can hold, and decoding what was encoded gives the limited value
  (`Decoding`, `Encoding`), for signed fields by where the multiple of 2^k must
  lie. The four action properties follow from `MapInv`, what the map knows in
  each state: a register that is fresh is the device's, and unless it was read
  and not decoded, its parameters are what it says (`FreshIsTrue`); a parameter
  that was set still has that value, and so has its field (`AskedIsKept`); what is
  known to have been written is in the device (`WroteIsThere`).
* `SocketSession_proofs`, for every frame length and any number of starts and
  kills. `CallsOwnCallback` is proved by induction over the calls of
  `add_register_handle`: the table has the registers added so far, in order.
  `SessionInv` gives the rest: connections are numbered by the starts of their
  programs (`Numbers`, `Fresh`), the responder's two connections are with the same
  initiator (`Linked`), and of a request or a response under way, what has been
  got and what is still in the stream make up exactly that packet
  (`RequestStream`, `ResponseStream`). So a read that completes has the response to
  the request asked last, which has been carried out (`SucceedsWhenDone`), and a
  read fails only when the responder's end is closed (`FailsOnlyWithPeer`). Neither
  needs `Orderly`, which is about liveness only.
* `Recursion`. The library's induction theorems take a predicate, which the
  provers cannot instantiate; here the predicate is a set of numbers. `Least`
  comes from the library's fact that the numbers are well-founded, `Induction`
  and `InductionUpTo` from `Least`, and `RecursiveFunction`, that a recursive
  definition over an interval has a function, from these.
* `FrontEnds_proofs`, of the bridge, under `ConstantsAssumption` (the values hold 0, `None` is
  neither a request nor a value). `Accounted` alone is not inductive: a request
  of the backlog might be there twice, or have been carried out. `Queued` says
  that it waits or has lost its browser, is in the backlog once, is not the one
  being served and was not carried out; `Served` that the one being served was
  carried out from "executed" on. `Refinement` rests on what follows: who waits
  and was carried out is being served, or dropped, so no 500 goes to it.
  `AllGetsAreFresh` needs besides that the result at hand is a value the device
  had while the request waited (`Reads`). These theorems are about `NodeBridge`
  alone; `FrontEndsRunTheBridge` carries them over to the module that is run.
* `FrontEnds_proofs`, of the command server, under `ConstantsOK`, for any names,
  numbers and links and however many commands a client sends, ahead or not.
  `ServerInv` is the invariant. Its two ideas:
  - What follows what. Whatever is under way is made of whole lines, and whatever
    `recv` returns is a part of that (`Composed`, kept by cutting in
    `ComposedPart` and by joining in `ComposedJoined`): a name comes after a comma
    that comes after a keyword, a number ends its line, and a name with a
    number behind it is one that the client asked for. Little is said of where
    a text begins or ends, for that is TCP's choice: also with an argument.
    The sections of a text are taken by rank (`Ranked`, `RankOfNext`,
    `SectionAt`), since the code splits at every comma and drops what is empty.
    If the second section is a name and the third a number,
    they stand next to each other at the end of the text
    (`SectionsAreArguments`): a joined line would leave its keyword in one of the
    two sections, and a line before it would have had the second section.
    The keyword found in the text is then that of the same line
    (`ArgumentsOfKeyword`), so the set is one that was asked for: `AcksAreRight`.
    A cut within an argument puts an argument in its place at the end of what is
    received and at the beginning of what is left. What is left is composed as
    before (`FirstReplaced`). What is received may end with a number that is the
    beginning of the one asked for, and the set with it is then in `Asked`
    (`LastReplaced`, `CutWithin`), from which all that is acknowledged is;
    as long as no argument was cut, all of it is in `sent`.
  - Who may answer. Each of the five branches needs a fragment that no other branch
    can use, a `CON`, `SET_` or `GET_` with what comes two fragments later
    (`KeywordHeads`, `HeadsOfBranches`). So a pass answers no more often than what
    it received has such heads (`PassesAnswer`), and each line sent has one at the
    most: answers and heads under way together never outnumber the
    commands, the first part of `OneAnswerEach`.

  The second part, `Careful`, is inductive beside `ServerInv`. A careful client
  has one line under way, and it is one of six forms (`LineForms`). Of each it
  is shown that one keyword is in it and four are not
  (`GetFromDeviceHasKeyword` and its like), and that its
  sections are its arguments (`OneArgument`, `TwoArguments`); so one branch
  answers, or raises, but never over the serial link (`ProperSettles`).
* `DemoRegisters_proofs`, for every bound of the press count and every blink
  count. `PressesCounted` and `ReadsNeverDecrease` rest on `Counted`: the
  register's count is the history's, and while a callback is between load and
  store, its word has the count that the register will have. `StateInStep` is
  not inductive while the LED blinks; it is with the parity of the toggles.

Only model-checked: `AnswersMatch` and `RecoversFromNoise` of `SerialLink` on a
line that loses or spoils a byte, which hold for one such byte only;
the refinement by a stack with a register that has no
callback; and liveness (`ServesEventually`, `AnsweredIfPatient`, `OperationsEnd`,
`ExchangesEnd`, `Settles`, `RequestsEnd`), which is out of the prover's reach.

## Not modelled, and the plan

The greater part of the tree, and nearly all of its lines, is Texas Instruments'
code for the BLE demo (stack interface, flash driver, utilities, services) and
generated configuration. It is not this program's: of it, only the two
SSCP characteristics in `simple_gatt_profile.c` and the task priorities are read
and modelled. LabVIEW's virtual instruments are binary. The tests call the stack
from one thread and print.

Of the program itself are left out: FLOAT parameters and the reading of YAML
files; BLE advertising, discovery and connecting, which the code leaves to the
stack and to `bleak`; several responders on one RS-485 line, since every device
has ID 0 and nothing in the code arbitrates the line (hazards in `PROJECT.json`);
the browser's pages.

Of the safety properties, what is left to prove is about the serial line with
noise: a bound on how far one disturbed byte reaches, for frames of any length.
