----------------------------- MODULE SerialLink -----------------------------
(***************************************************************************)
(* The Python initiator and the C responder of the serial demo at the two  *)
(* ends of a UART.  The responder is SscpResponder, driven as the demo's   *)
(* main thread drives it: read one byte, call SSCP_process, read the next. *)
(* The initiator writes a request and reads as many bytes as a response    *)
(* has, or fewer if its timeout strikes first.  Bytes are lost or spoiled  *)
(* on the way, an error of the receiver halts the responder, and the       *)
(* initiator can be killed and started again.                              *)
(***************************************************************************)
EXTENDS SscpResponder

CONSTANTS
    Encoded,      \* the frame of each packet
    FlushPattern, \* what the initiator sends when it opens the port, "*1#"
    Noise,        \* what a spoiled byte may turn into
    Impatient,    \* whether the timeout can strike before the answer came
    MaxNoise,     \* bound: bytes lost or spoiled
    MaxRestarts,  \* bound: restarts of the initiator
    Combined,     \* bound: whether noise and restarts occur together
    MaxBytes      \* bound: no request is written while more bytes are under way

(* Only the last byte of the flush pattern has to be the end byte; it is   *)
(* too short to be taken for a packet.                                     *)
ASSUME LinkAssumption ==
    /\ FlushPattern \in Seq(Byte) /\ Len(FlushPattern) \in 1..FrameLen-1
    /\ FlushPattern[Len(FlushPattern)] = EndByte
    /\ Noise \subseteq Byte
    /\ Impatient \in BOOLEAN /\ Combined \in BOOLEAN
    /\ MaxNoise \in Nat /\ MaxRestarts \in Nat /\ MaxBytes \in Nat

(* What is encoded is decoded, as SscpCodec shows, and a payload of        *)
(* hexadecimal digits has no end byte in it.                               *)
ASSUME EncodingAssumption ==
    /\ Encoded \in [Packet -> Frame]
    /\ \A packet \in Packet :
          /\ SSCP_decodePacket(Encoded[packet])
          /\ PacketInfo[Encoded[packet]] = packet
          /\ \A i \in 1..FrameLen-1 : Encoded[packet][i] # EndByte

VARIABLES
    mainThread,   \* the demo's main thread: "read", "process" or "halted"
    toDevice,     \* bytes written by the initiator, not yet received
    toHost,       \* bytes sent by the responder, not yet read
    initiator,    \* "idle" or "reading"
    asked,        \* the packet it requested last
    cache,        \* self.device.registers, the initiator's copy
    noise,        \* bytes lost or spoiled so far
    restarts,     \* restarts so far
    spoiled       \* history: how many requests noise may yet cost

deviceVars    == <<vars, mainThread>>
initiatorVars == <<initiator, asked, cache>>
faultVars     == <<noise, restarts>>
linkVars == <<deviceVars, toDevice, toHost, initiatorVars, faultVars, spoiled>>

(* What read_register and write_register send. *)
Request ==
    [deviceID : {DeviceID}, ack : {0}, read : {1}, write : {0},
     regID : RegID, regData : {0}]
    \cup [deviceID : {DeviceID}, ack : {0}, read : {0}, write : {1},
          regID : RegID, regData : Value]

(* The initiator has just opened the port. *)
LinkInit ==
    /\ Init
    /\ mainThread = "read"
    /\ toDevice = FlushPattern
    /\ toHost = <<>>
    /\ initiator = "idle"
    /\ asked = NoResponse
    /\ cache = [reg \in RegID |-> 0]
    /\ noise = 0
    /\ restarts = 0
    /\ spoiled = 0

-----------------------------------------------------------------------------
(* The responder.                                                          *)

(* Mutant of ReceiveByte: the next byte may come before SSCP_process runs. *)
ReceiveBytes ==
    /\ mainThread = "read"
    /\ toDevice # <<>>
    /\ SSCP_handleRxByte(Head(toDevice))
    /\ toDevice' = Tail(toDevice)
    /\ mainThread' \in {"read", "process"}
    /\ UNCHANGED <<toHost, initiatorVars, faultVars, spoiled>>

(* UART2_read delivers a byte to callbackFxn, which posts the semaphore.   *)
ReceiveByte ==
    /\ mainThread = "read"
    /\ toDevice # <<>>
    /\ SSCP_handleRxByte(Head(toDevice))
    /\ toDevice' = Tail(toDevice)
    /\ mainThread' = "process"
    /\ UNCHANGED <<toHost, initiatorVars, faultVars, spoiled>>

(* UART2_read reports an error instead, and callbackFxn never returns.     *)
ReceiveError ==
    /\ mainThread = "read"
    /\ toDevice # <<>>
    /\ noise < MaxNoise
    /\ Combined \/ restarts = 0
    /\ noise' = noise + 1
    /\ toDevice' = Tail(toDevice)
    /\ mainThread' = "halted"
    /\ UNCHANGED <<vars, toHost, initiatorVars, restarts, spoiled>>

(* What is sent to a responder that has halted is lost. *)
Overrun ==
    /\ mainThread = "halted"
    /\ toDevice # <<>>
    /\ toDevice' = Tail(toDevice)
    /\ UNCHANGED <<deviceVars, toHost, initiatorVars, faultVars, spoiled>>

(* The main thread calls SSCP_process; UART_send writes the response.  If  *)
(* SSCP_process has left the register list, nothing is read any more.      *)
Process ==
    /\ mainThread = "process"
    /\ SSCP_process
    /\ toHost' = IF requestFifoCount' < requestFifoCount /\ ~lost'
                 THEN toHost \o Encoded[response'] ELSE toHost
    /\ mainThread' = IF lost' THEN "halted" ELSE "read"
    /\ UNCHANGED <<toDevice, initiatorVars, faultVars, spoiled>>

-----------------------------------------------------------------------------
(* The initiator.                                                          *)

WriteRequest ==
    /\ initiator = "idle"
    /\ Len(toDevice) <= MaxBytes
    /\ \E request \in Request :
          /\ toDevice' = toDevice \o Encoded[request]
          /\ asked' = request
    /\ initiator' = "reading"
    /\ spoiled' = IF spoiled > 0 THEN spoiled - 1 ELSE 0
    /\ UNCHANGED <<deviceVars, toHost, cache, faultVars>>

(* The bytes that serialHandle.read(16) returns when so many are there.    *)
Answer == SubSeq(toHost, 1, FrameLen)

(* packet.decode accepts them.                                             *)
Answered == SSCP_decodePacket(Answer)

(* Mutant of ReadResponse: an answer that cannot be decoded is looked at   *)
(* again and again.                                                        *)
ReadUntilAnswered ==
    /\ initiator = "reading"
    /\ Len(toHost) >= FrameLen
    /\ IF Answered
       THEN /\ toHost' = SubSeq(toHost, FrameLen + 1, Len(toHost))
            /\ initiator' = "idle"
       ELSE UNCHANGED <<toHost, initiator>>
    /\ UNCHANGED <<deviceVars, toDevice, asked, cache, faultVars, spoiled>>

(* A read stores the response in the copy of the register the response     *)
(* names; a write only looks whether the response can be decoded.  Neither *)
(* compares it with the request.                                           *)
ReadResponse ==
    /\ initiator = "reading"
    /\ Len(toHost) >= FrameLen
    /\ toHost' = SubSeq(toHost, FrameLen + 1, Len(toHost))
    /\ cache' = IF /\ asked.read = 1 /\ Answered
                   /\ PacketInfo[Answer].regID \in RegID
                THEN [cache EXCEPT ![PacketInfo[Answer].regID] =
                                       PacketInfo[Answer].regData]
                ELSE cache
    /\ initiator' = "idle"
    /\ UNCHANGED <<deviceVars, toDevice, asked, faultVars, spoiled>>

(* Nothing more can come: the line is silent and no request waits, or the  *)
(* responder has halted.                                                   *)
Quiet ==
    \/ toDevice = <<>> /\ mainThread = "read" /\ requestFifoStatus = EMPTY
    \/ mainThread = "halted"

(* The timeout strikes: read(16) returns the bytes there are, and the      *)
(* operation fails.                                                        *)
Timeout ==
    /\ initiator = "reading"
    /\ Len(toHost) < FrameLen
    /\ Impatient \/ Quiet
    /\ toHost' = <<>>
    /\ initiator' = "idle"
    /\ UNCHANGED <<deviceVars, toDevice, asked, cache, faultVars, spoiled>>

-----------------------------------------------------------------------------
(* Faults.                                                                 *)

(* One byte on the line is lost, or spoiled. *)
Spoil(line) ==
    {Tail(line)} \cup {<<byte>> \o Tail(line) : byte \in Noise}

(* A spoiled request costs itself and, if the framer is left in the middle *)
(* of a packet, the next one; a spoiled response costs its own operation.  *)
LineNoise ==
    /\ noise < MaxNoise
    /\ Combined \/ restarts = 0
    /\ noise' = noise + 1
    /\ \/ /\ toDevice # <<>>
          /\ toDevice' \in Spoil(toDevice)
          /\ UNCHANGED toHost
       \/ /\ toHost # <<>>
          /\ toHost' \in Spoil(toHost)
          /\ UNCHANGED toDevice
    /\ spoiled' = 2
    /\ UNCHANGED <<deviceVars, initiatorVars, restarts>>

(* Mutant of Restart: the flush pattern is not sent. *)
RestartWithoutFlush ==
    /\ restarts < MaxRestarts
    /\ Combined \/ noise = 0
    /\ restarts' = restarts + 1
    /\ \E sent \in 0..Len(toDevice) : toDevice' = SubSeq(toDevice, 1, sent)
    /\ toHost' = <<>>
    /\ initiator' = "idle"
    /\ asked' = NoResponse
    /\ cache' = [reg \in RegID |-> 0]
    /\ spoiled' = 0
    /\ UNCHANGED <<deviceVars, noise>>

(* The initiator dies, possibly before all it wrote is out, and starts     *)
(* again: opening the port drops what was received, then the flush pattern *)
(* is sent.                                                                *)
Restart ==
    /\ restarts < MaxRestarts
    /\ Combined \/ noise = 0
    /\ restarts' = restarts + 1
    /\ \E sent \in 0..Len(toDevice) :
          toDevice' = SubSeq(toDevice, 1, sent) \o FlushPattern
    /\ toHost' = <<>>
    /\ initiator' = "idle"
    /\ asked' = NoResponse
    /\ cache' = [reg \in RegID |-> 0]
    /\ spoiled' = 0
    /\ UNCHANGED <<deviceVars, noise>>

LinkNext ==
    \/ ReceiveByte
    \/ ReceiveError
    \/ Overrun
    \/ Process
    \/ WriteRequest
    \/ ReadResponse
    \/ Timeout
    \/ LineNoise
    \/ Restart

LinkSpec == LinkInit /\ [][LinkNext]_linkVars

(* The main thread runs on, and the initiator's read returns in the end.   *)
LinkFairSpec ==
    LinkSpec /\ WF_linkVars(ReceiveByte \/ Process)
             /\ WF_linkVars(ReadResponse \/ Timeout)

-----------------------------------------------------------------------------
(* Properties.                                                             *)

(* The demo empties the FIFO after every byte, so it never holds more than *)
(* one request and never drops any, however many the initiator sends.      *)
AtMostOneWaits ==
    /\ requestFifoCount <= 1
    /\ mainThread = "read" => requestFifoCount = 0

(* The response a successful operation takes is the one the responder gave *)
(* to its request, and a read leaves the initiator with the register's     *)
(* present content: the value "from device" of sscp_socket.py:189.  (An    *)
(* initiator that was started again may take the response that was on its  *)
(* way to its predecessor.)                                                *)
AnswersMatch ==
    [][ReadResponse /\ Answered /\ restarts = 0 =>
          /\ PacketInfo[Answer] = response
          /\ response = Response(asked, response.regData)
          /\ asked.read = 1 => cache'[asked.regID] = registers[asked.regID]]_linkVars

(* An operation fails only if noise hit its request or its response, or    *)
(* the request before it: the framer loses no more than one packet after   *)
(* the one that was hit, and none after a restart, whatever the last       *)
(* initiator left in its buffer (initiator.py:127), unless the responder   *)
(* has halted.                                                             *)
RecoversFromNoise ==
    [][Timeout \/ (ReadResponse /\ ~Answered) =>
          spoiled > 0 \/ mainThread = "halted"]_linkVars

(* Every operation of the initiator comes to its end, also one whose       *)
(* responder has halted.                                                   *)
OperationsEnd == initiator = "reading" ~> initiator = "idle"
=============================================================================
