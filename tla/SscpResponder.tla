--------------------------- MODULE SscpResponder ---------------------------
(***************************************************************************)
(* The SSCP responder stack, source/C/sscp: the byte-wise framer           *)
(* (SSCP_handleRxByte), the request FIFO between the receiving callback    *)
(* and the processing thread, and SSCP_process.  Each call is one step;    *)
(* BleResponder splits the calls where another one can interrupt them.     *)
(*                                                                         *)
(* A frame is a sequence of FrameLen bytes (16 in the code).  What the     *)
(* hexadecimal payload says and whether its CRC is right are given by the  *)
(* constants PacketInfo and CrcOK; SscpCodec models that part.             *)
(***************************************************************************)
EXTENDS Integers, Sequences

CONSTANTS
    FrameLen,    \* bytes of an encoded packet: sizeof(SSCP_encodedPacket)
    FifoSize,    \* SSCP_REQUEST_FIFO_SIZE
    Byte,        \* what the link may deliver
    StartByte,   \* SSCP_START_OF_PACKET_BYTE, '*'
    EndByte,     \* SSCP_END_OF_PACKET_BYTE, '#'
    Nul,         \* the byte 0, which memset leaves in the buffers
    DeviceID,    \* handle->deviceID
    AnyDevice,   \* the device IDs a packet can name
    RegID,       \* the register IDs of handle->registerHandles
    AnyRegister, \* the register IDs a packet can name
    Callbacks,   \* the registers whose handle has a callback
    Value,       \* what a register, or the data of a packet, can hold
    SendResults, \* what handle->send may return
    PacketInfo,  \* what SSCP_decodePacket extracts from each frame
    CrcOK,       \* the frames whose checksum is right
    NoResponse   \* no response was sent yet

Frame == [1..FrameLen -> Byte]

(* SSCP_packetInfo; crc8 is recomputed by every encoder and left out.      *)
Packet == [deviceID : AnyDevice, ack : {0, 1}, read : {0, 1}, write : {0, 1},
           regID : AnyRegister, regData : Value]

ASSUME SizeAssumption ==
    /\ FrameLen \in Nat /\ FrameLen >= 2
    /\ FifoSize \in Nat /\ FifoSize >= 1

ASSUME ByteAssumption ==
    /\ StartByte \in Byte /\ EndByte \in Byte /\ Nul \in Byte
    /\ StartByte # EndByte /\ Nul # EndByte

ASSUME RegisterAssumption ==
    /\ DeviceID \in AnyDevice
    /\ RegID # {} /\ RegID \subseteq AnyRegister /\ Callbacks \subseteq RegID
    /\ 0 \in Value
    /\ SendResults \subseteq Int /\ SendResults # {}
    /\ NoResponse \notin Packet

ASSUME DecodeAssumption ==
    /\ PacketInfo \in [Frame -> Packet]
    /\ CrcOK \subseteq Frame

OK    == 0   \* SSCP_REQUEST_FIFO_OK
EMPTY == 1   \* SSCP_REQUEST_FIFO_EMPTY
FULL  == 2   \* SSCP_REQUEST_FIFO_FULL

VARIABLES
    lastRxByte,       \* handle->lastRxByte
    rxByteRingBuffer, \* the first rxByteRingBufferIndex bytes of the buffer
    requestFifo, requestFifoGetIndex, requestFifoPutIndex,
    requestFifoCount, requestFifoStatus,
    registers,        \* *pData of each register handle
    response,         \* the packet last given to handle->send
    result,           \* what SSCP_process returned last
    lost              \* SSCP_process left the register list for good

framerVars == <<lastRxByte, rxByteRingBuffer>>
fifoVars   == <<requestFifo, requestFifoGetIndex, requestFifoPutIndex,
                requestFifoCount, requestFifoStatus>>
serverVars == <<registers, response, result, lost>>
vars       == <<framerVars, fifoVars, serverVars>>

ZeroFrame == [i \in 1..FrameLen |-> Nul]

(* The SSCP_HANDLE macro; the registers are the application's variables.   *)
Init ==
    /\ lastRxByte = Nul
    /\ rxByteRingBuffer = <<>>
    /\ requestFifo = [slot \in 0..FifoSize-1 |-> ZeroFrame]
    /\ requestFifoGetIndex = 0
    /\ requestFifoPutIndex = 0
    /\ requestFifoCount = 0
    /\ requestFifoStatus = EMPTY
    /\ registers \in [RegID -> Value]
    /\ response = NoResponse
    /\ result = 0
    /\ lost = FALSE

(* SSCP_init: the handle is cleaned; the registers are not its own.        *)
SSCP_init ==
    /\ lastRxByte' = Nul
    /\ rxByteRingBuffer' = <<>>
    /\ requestFifo' = [slot \in 0..FifoSize-1 |-> ZeroFrame]
    /\ requestFifoGetIndex' = 0
    /\ requestFifoPutIndex' = 0
    /\ requestFifoCount' = 0
    /\ requestFifoStatus' = EMPTY
    /\ UNCHANGED serverVars

-----------------------------------------------------------------------------
(* The request FIFO.                                                       *)

(* Mutant of Wrap: wraps one slot late. *)
WrapLate(index) == IF index > FifoSize THEN 0 ELSE index

(* An index after its increment. *)
Wrap(index) == IF index = FifoSize THEN 0 ELSE index

(* Mutant of SSCP_requestFifoPut: a full FIFO overwrites its oldest packet. *)
PutWhenFull(packet) ==
    /\ requestFifo' = [requestFifo EXCEPT ![requestFifoPutIndex] = packet]
    /\ requestFifoPutIndex' = Wrap(requestFifoPutIndex + 1)
    /\ requestFifoCount' = IF requestFifoStatus = FULL THEN FifoSize ELSE requestFifoCount + 1
    /\ requestFifoStatus' = IF requestFifoCount' = FifoSize THEN FULL ELSE OK
    /\ UNCHANGED requestFifoGetIndex

(* SSCP_requestFifoPut: a packet that finds the FIFO full is dropped.      *)
SSCP_requestFifoPut(packet) ==
    IF requestFifoStatus = FULL
    THEN UNCHANGED fifoVars
    ELSE /\ requestFifo' = [requestFifo EXCEPT ![requestFifoPutIndex] = packet]
         /\ requestFifoPutIndex' = Wrap(requestFifoPutIndex + 1)
         /\ requestFifoCount' = requestFifoCount + 1
         /\ requestFifoStatus' = IF requestFifoCount' = FifoSize THEN FULL ELSE OK
         /\ UNCHANGED requestFifoGetIndex

(* Mutant of SSCP_requestFifoGet: forgets that the FIFO may now be empty. *)
GetNeverEmpty ==
    /\ requestFifoStatus # EMPTY
    /\ requestFifoGetIndex' = Wrap(requestFifoGetIndex + 1)
    /\ requestFifoCount' = requestFifoCount - 1
    /\ requestFifoStatus' = OK
    /\ UNCHANGED <<requestFifo, requestFifoPutIndex>>

(* SSCP_requestFifoGet; the packet it copies out is                        *)
(* requestFifo[requestFifoGetIndex].                                       *)
SSCP_requestFifoGet ==
    /\ requestFifoStatus # EMPTY
    /\ requestFifoGetIndex' = Wrap(requestFifoGetIndex + 1)
    /\ requestFifoCount' = requestFifoCount - 1
    /\ requestFifoStatus' = IF requestFifoCount' = 0 THEN EMPTY ELSE OK
    /\ UNCHANGED <<requestFifo, requestFifoPutIndex>>

-----------------------------------------------------------------------------
(* Receiving.                                                              *)

Framed(packet) == packet[1] = StartByte /\ packet[FrameLen] = EndByte

(* SSCP_decodePacket returns 1. *)
SSCP_decodePacket(packet) == Framed(packet) /\ packet \in CrcOK

(* Mutant of ForThisDevice: takes requests for every device. *)
ForAnyDevice(packet) == Framed(packet) /\ SSCP_decodePacket(packet)

(* The condition under which SSCP_handleRxByte queues a packet.            *)
ForThisDevice(packet) ==
    /\ Framed(packet)
    /\ SSCP_decodePacket(packet)
    /\ PacketInfo[packet].deviceID = DeviceID

(* Mutant of SSCP_handleRxByte: an early end byte is stored like any other. *)
HandleWithoutReset(byte) ==
    LET received == Append(rxByteRingBuffer, byte)
        complete == Len(received) = FrameLen
    IN  /\ lastRxByte' = byte
        /\ rxByteRingBuffer' = IF complete THEN <<>> ELSE received
        /\ IF complete /\ ForThisDevice(received)
           THEN SSCP_requestFifoPut(received)
           ELSE UNCHANGED fifoVars
        /\ UNCHANGED serverVars

(* SSCP_handleRxByte.  An end byte that comes early discards what was      *)
(* received; a full buffer is checked and, whatever it holds, discarded.   *)
SSCP_handleRxByte(byte) ==
    LET received == Append(rxByteRingBuffer, byte)
        complete == Len(received) = FrameLen
    IN  /\ lastRxByte' = byte
        /\ rxByteRingBuffer' =
              IF complete \/ byte = EndByte THEN <<>> ELSE received
        /\ IF complete /\ ForThisDevice(received)
           THEN SSCP_requestFifoPut(received)
           ELSE UNCHANGED fifoVars
        /\ UNCHANGED serverVars

-----------------------------------------------------------------------------
(* Processing.                                                             *)

(* Mutant of Response: a read is answered with the data of its request. *)
EchoRequest(info, readRegisterValue) == [info EXCEPT !.ack = 1]

(* The response: the request with its ACK bit set and, if it reads, with   *)
(* readRegisterValue as data.                                              *)
Response(info, readRegisterValue) ==
    [info EXCEPT !.ack = 1,
                 !.regData = IF info.read = 1 THEN readRegisterValue ELSE @]

(* A register handle matches.  The callback is called for a read or for a  *)
(* write, not for both at once; it may store anything in its register.     *)
(* readRegisterValue is loaded only if there is a callback.                *)
Execute(info) ==
    LET written == IF info.write = 1 THEN info.regData ELSE registers[info.regID]
    IN  /\ \/ /\ info.regID \in Callbacks
              /\ \E value \in (IF info.read # info.write THEN Value ELSE {written}) :
                    /\ registers' = [registers EXCEPT ![info.regID] = value]
                    /\ response' = Response(info, value)
           \/ /\ info.regID \notin Callbacks
              /\ registers' = [registers EXCEPT ![info.regID] = written]
              /\ response' = Response(info, 0)
        /\ result' \in SendResults
        /\ UNCHANGED lost

(* No register handle matches.  The loop has no end test, so it reads past *)
(* the list: it faults or never ends, or stops at a stray match, whose     *)
(* pData may be any word, one of the registers included.                   *)
RunOffList(info) ==
    \/ /\ lost' = TRUE
       /\ UNCHANGED <<registers, response, result>>
    \/ /\ \/ UNCHANGED registers
          \/ /\ info.write = 1
             /\ \E reg \in RegID :
                   registers' = [registers EXCEPT ![reg] = info.regData]
       /\ \E value \in Value : response' = Response(info, value)
       /\ result' \in SendResults
       /\ UNCHANGED lost

(* Mutant of SSCP_process: takes a full FIFO for an empty one. *)
ProcessUnlessFull ==
    /\ ~lost
    /\ IF requestFifoStatus # OK
       THEN result' = 0 /\ UNCHANGED <<fifoVars, registers, response, lost>>
       ELSE LET info == PacketInfo[requestFifo[requestFifoGetIndex]]
            IN  SSCP_requestFifoGet /\ Execute(info)
    /\ UNCHANGED framerVars

(* SSCP_process with a request waiting; an empty FIFO only returns 0.      *)
SSCP_process ==
    /\ ~lost
    /\ IF requestFifoStatus = EMPTY
       THEN result' = 0 /\ UNCHANGED <<fifoVars, registers, response, lost>>
       ELSE LET packet == requestFifo[requestFifoGetIndex]
                info   == PacketInfo[packet]
            IN  /\ SSCP_requestFifoGet
                /\ IF ~SSCP_decodePacket(packet)
                   THEN result' = 0 /\ UNCHANGED <<registers, response, lost>>
                   ELSE IF info.regID \in RegID
                        THEN Execute(info)
                        ELSE RunOffList(info)
    /\ UNCHANGED framerVars

Next ==
    \/ SSCP_init
    \/ \E byte \in Byte : SSCP_handleRxByte(byte)
    \/ SSCP_process

Spec == Init /\ [][Next]_vars

(* The processing thread calls SSCP_process again and again. *)
FairSpec == Spec /\ WF_vars(SSCP_process)

-----------------------------------------------------------------------------
(* Properties.                                                             *)

TypeOK ==
    /\ lastRxByte \in Byte
    /\ rxByteRingBuffer \in Seq(Byte) /\ Len(rxByteRingBuffer) < FrameLen
    /\ requestFifo \in [0..FifoSize-1 -> Frame]
    /\ requestFifoGetIndex \in 0..FifoSize-1
    /\ requestFifoPutIndex \in 0..FifoSize-1
    /\ requestFifoCount \in 0..FifoSize
    /\ requestFifoStatus \in {OK, EMPTY, FULL}
    /\ registers \in [RegID -> Value]
    /\ response \in Packet \cup {NoResponse}
    /\ result \in Int
    /\ lost \in BOOLEAN

(* The slot of the i-th waiting request, and that request.                 *)
Slot(i) == LET index == requestFifoGetIndex + i - 1
           IN  IF index >= FifoSize THEN index - FifoSize ELSE index

Waiting(i) == requestFifo[Slot(i)]

(* The redundant parts of the FIFO agree: the put index is the slot after  *)
(* the last waiting request and the status word says what the count says.  *)
(* SSCP_process trusts the status alone, SSCP_requestFifoPut the status    *)
(* and the put index, and nothing in sscp.c compares them.                 *)
FifoConsistent ==
    /\ requestFifoPutIndex = Slot(requestFifoCount + 1)
    /\ requestFifoStatus = EMPTY <=> requestFifoCount = 0
    /\ requestFifoStatus = FULL <=> requestFifoCount = FifoSize

(* Every waiting request was received whole, with a right checksum, and is *)
(* addressed to this device: SSCP_process, which does not look at the      *)
(* device ID again, never answers for another device, and its decoding     *)
(* never fails.                                                            *)
OwnRequestsOnly ==
    \A i \in 1..requestFifoCount :
        /\ SSCP_decodePacket(Waiting(i))
        /\ PacketInfo[Waiting(i)].deviceID = DeviceID

(* After an end byte the framer starts afresh, wherever in a frame it was, *)
(* and no frame under assembly contains one: the byte after a '#' is       *)
(* always taken for the first of a packet.                                 *)
Resynchronised ==
    /\ lastRxByte = EndByte => rxByteRingBuffer = <<>>
    /\ \A i \in 1..Len(rxByteRingBuffer) : rxByteRingBuffer[i] # EndByte

(* The stack implements the service: what waits is what was accepted, in   *)
(* order, nothing is dropped unless the FIFO is full, and each request     *)
(* served leaves the register, the response and the queue that the service *)
(* allows.                                                                 *)
Service == INSTANCE RegisterService WITH
    Capacity <- FifoSize,
    queue <- [i \in 1..requestFifoCount |-> PacketInfo[Waiting(i)]]

ImplementsService == Service!Spec

(* ... and serves what waits, if its thread keeps running.                 *)
ServesEventually == Service!Fairness
=============================================================================
