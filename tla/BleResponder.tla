---------------------------- MODULE BleResponder ----------------------------
(***************************************************************************)
(* The SSCP responder of the BLE demo under preemption.  The BLE stack's   *)
(* task runs the GATT callbacks at the highest priority: they interrupt    *)
(* the SSCP processing thread between any two of its memory accesses and   *)
(* run to their end.  So a callback is one step here, and SSCP_process,    *)
(* with the functions it calls, is one step per access to memory that a    *)
(* callback accesses too.  Nothing in sscp.c locks.                        *)
(*                                                                         *)
(* One Python initiator writes requests and polls for responses.  It is    *)
(* patient, or it loses its connection while it polls, or is interrupted,  *)
(* and starts a new operation at any time.                                 *)
(* The GATT server's write always carries one whole packet, so the framer  *)
(* is always at the start of one and SSCP_handleRxByte amounts to decoding *)
(* the packet and putting it into the FIFO.                                *)
(***************************************************************************)
EXTENDS Integers

CONSTANTS
    FifoSize,    \* SSCP_REQUEST_FIFO_SIZE
    RegID,       \* the registers, all of which have a callback in the demo
    Value,       \* what a register can hold
    Crc(_, _),   \* the CRC-8 of a header and a datum
    Zero,        \* bytes that are all 0
    MaxCount     \* bound: no request is sent while more are counted than this

ASSUME SizeAssumption ==
    /\ FifoSize \in Nat /\ FifoSize >= 1
    /\ MaxCount \in Nat
ASSUME ValueAssumption == 0 \in Value

(* A packet in two halves that are copied one after the other: its header  *)
(* ('*', flags, register ID), and its data with the CRC and '#'.           *)
Head == [ack : {0, 1}, read : {0, 1}, write : {0, 1}, regID : RegID]
Tail == [data : Value, crc : {Crc(head, data) : head \in Head, data \in Value}]
Half == [head : Head \cup {Zero}, tail : Tail \cup {Zero}]

(* A packet begins with '*' and ends with '#'. *)
ASSUME ZeroAssumption == Zero \notin Head /\ Zero \notin Tail

NoPacket == [head |-> Zero, tail |-> Zero]

Encode(head, data) ==
    [head |-> head, tail |-> [data |-> data, crc |-> Crc(head, data)]]

(* The framing bytes and the checksum are right. *)
Valid(packet) ==
    /\ packet.head # Zero /\ packet.tail # Zero
    /\ packet.tail.crc = Crc(packet.head, packet.tail.data)

(* What BLE_read_register and BLE_write_register send. *)
Request ==
    {Encode([ack |-> 0, read |-> 1, write |-> 0, regID |-> reg], 0) : reg \in RegID}
    \cup {Encode([ack |-> 0, read |-> 0, write |-> 1, regID |-> reg], data) :
             reg \in RegID, data \in Value}

OK    == 0
EMPTY == 1
FULL  == 2

VARIABLES
    requestFifo, requestFifoGetIndex, requestFifoPutIndex,
    requestFifoCount, requestFifoStatus,
    unencodedPacket,  \* the static buffer of SSCP_decodePacket
    thread,           \* the next access of the SSCP processing thread
    countRead,        \* the count it loaded to decrement it
    packet, info,     \* the packet and decodedPacketInfo of SSCP_process
    registers,
    responsePacket,   \* SSCP_bleResponsePacket
    patient,          \* whether the client never stops polling, and BLE_send,
                      \* caught in the middle by a read, ends before that
                      \* client's next request arrives
    client,           \* "idle" or "polling"
    asked             \* the request the client sent last

fifoVars   == <<requestFifo, requestFifoGetIndex, requestFifoPutIndex,
                requestFifoCount, requestFifoStatus>>
localVars  == <<countRead, packet, info>>
clientVars == <<patient, client, asked>>
vars == <<fifoVars, unencodedPacket, thread, localVars, registers,
          responsePacket, clientVars>>

Init ==
    /\ requestFifo = [slot \in 0..FifoSize-1 |-> NoPacket]
    /\ requestFifoGetIndex = 0
    /\ requestFifoPutIndex = 0
    /\ requestFifoCount = 0
    /\ requestFifoStatus = EMPTY
    /\ unencodedPacket = NoPacket
    /\ thread = "idle"
    /\ countRead = 0
    /\ packet = NoPacket
    /\ info = [head |-> Zero, data |-> 0]
    /\ registers \in [RegID -> Value]
    /\ responsePacket = NoPacket
    /\ patient \in BOOLEAN
    /\ client = "idle"
    /\ asked = NoPacket

(* Mutant of Wrap: wraps one slot late. *)
WrapLate(index) == IF index > FifoSize THEN 0 ELSE index

Wrap(index) == IF index = FifoSize THEN 0 ELSE index

-----------------------------------------------------------------------------
(* The GATT callbacks.                                                     *)

(* Mutant of SSCP_requestFifoPut: does not count the packet. *)
PutUncounted(request) ==
    IF requestFifoStatus = FULL
    THEN UNCHANGED fifoVars
    ELSE /\ requestFifo' = [requestFifo EXCEPT ![requestFifoPutIndex] = request]
         /\ requestFifoPutIndex' = Wrap(requestFifoPutIndex + 1)
         /\ requestFifoStatus' = IF requestFifoCount = FifoSize THEN FULL ELSE OK
         /\ UNCHANGED <<requestFifoCount, requestFifoGetIndex>>

SSCP_requestFifoPut(request) ==
    IF requestFifoStatus = FULL
    THEN UNCHANGED fifoVars
    ELSE /\ requestFifo' = [requestFifo EXCEPT ![requestFifoPutIndex] = request]
         /\ requestFifoPutIndex' = Wrap(requestFifoPutIndex + 1)
         /\ requestFifoCount' = requestFifoCount + 1
         /\ requestFifoStatus' = IF requestFifoCount' = FifoSize THEN FULL ELSE OK
         /\ UNCHANGED requestFifoGetIndex

(* Mutant of WriteRequest: the old response is not cleared. *)
WriteKeepsResponse ==
    /\ client = "idle"
    /\ patient => thread # "sendTail"
    /\ requestFifoCount <= MaxCount
    /\ \E request \in Request :
          /\ unencodedPacket' = request
          /\ SSCP_requestFifoPut(request)
          /\ asked' = request
    /\ client' = "polling"
    /\ UNCHANGED <<thread, localVars, registers, responsePacket, patient>>

(* The client writes a request.  The callback clears the response; the     *)
(* framer's decoding leaves the request in the static buffer.              *)
WriteRequest ==
    /\ client = "idle"
    /\ patient => thread # "sendTail"
    /\ requestFifoCount <= MaxCount
    /\ \E request \in Request :
          /\ responsePacket' = NoPacket
          /\ unencodedPacket' = request
          /\ SSCP_requestFifoPut(request)
          /\ asked' = request
    /\ client' = "polling"
    /\ UNCHANGED <<thread, localVars, registers, patient>>

(* The client polls.  Once it reads bytes that are not all zeros it is     *)
(* done with the request, whatever they are.                               *)
ReadResponse ==
    /\ client = "polling"
    /\ client' = IF responsePacket = NoPacket THEN "polling" ELSE "idle"
    /\ UNCHANGED <<fifoVars, unencodedPacket, thread, localVars, registers,
                   responsePacket, asked, patient>>

(* The connection is lost, or the user interrupts the initiator.           *)
GiveUp ==
    /\ ~patient
    /\ client = "polling"
    /\ client' = "idle"
    /\ UNCHANGED <<fifoVars, unencodedPacket, thread, localVars, registers,
                   responsePacket, asked, patient>>

-----------------------------------------------------------------------------
(* SSCP_process in the processing thread.                                  *)

At(from, to) == thread = from /\ thread' = to

(* Both tests of the status, in SSCP_process and SSCP_requestFifoGet: only *)
(* this thread sets it to EMPTY, so the second cannot fail.                *)
Poll ==
    /\ At("idle", "mark")
    /\ requestFifoStatus # EMPTY
    /\ UNCHANGED <<fifoVars, unencodedPacket, localVars, registers,
                   responsePacket, clientVars>>

MarkOK ==
    /\ At("mark", "copyHead")
    /\ requestFifoStatus' = OK
    /\ UNCHANGED <<requestFifo, requestFifoGetIndex, requestFifoPutIndex,
                   requestFifoCount, unencodedPacket, localVars, registers,
                   responsePacket, clientVars>>

(* A put reaches the slot being copied only when the FIFO overflows.       *)
CopyHead ==
    /\ At("copyHead", "copyTail")
    /\ packet' = [NoPacket EXCEPT !.head = requestFifo[requestFifoGetIndex].head]
    /\ UNCHANGED <<fifoVars, unencodedPacket, countRead, info, registers,
                   responsePacket, clientVars>>

(* No callback reads the get index: it is advanced and wrapped here.       *)
CopyTail ==
    /\ At("copyTail", "loadCount")
    /\ packet' = [packet EXCEPT !.tail = requestFifo[requestFifoGetIndex].tail]
    /\ requestFifoGetIndex' = Wrap(requestFifoGetIndex + 1)
    /\ UNCHANGED <<requestFifo, requestFifoPutIndex, requestFifoCount,
                   requestFifoStatus, unencodedPacket, countRead, info,
                   registers, responsePacket, clientVars>>

LoadCount ==
    /\ At("loadCount", "storeCount")
    /\ countRead' = requestFifoCount
    /\ UNCHANGED <<fifoVars, unencodedPacket, packet, info, registers,
                   responsePacket, clientVars>>

StoreCount ==
    /\ At("storeCount", "testEmpty")
    /\ requestFifoCount' = countRead - 1
    /\ countRead' = 0
    /\ UNCHANGED <<requestFifo, requestFifoGetIndex, requestFifoPutIndex,
                   requestFifoStatus, unencodedPacket, packet, info, registers,
                   responsePacket, clientVars>>

(* Mutant of TestEmpty: off by one. *)
TestOne ==
    /\ At("testEmpty", IF requestFifoCount = 1 THEN "setEmpty" ELSE "decodeHead")
    /\ UNCHANGED <<fifoVars, unencodedPacket, localVars, registers,
                   responsePacket, clientVars>>

TestEmpty ==
    /\ At("testEmpty", IF requestFifoCount = 0 THEN "setEmpty" ELSE "decodeHead")
    /\ UNCHANGED <<fifoVars, unencodedPacket, localVars, registers,
                   responsePacket, clientVars>>

SetEmpty ==
    /\ At("setEmpty", "decodeHead")
    /\ requestFifoStatus' = EMPTY
    /\ UNCHANGED <<requestFifo, requestFifoGetIndex, requestFifoPutIndex,
                   requestFifoCount, unencodedPacket, localVars, registers,
                   responsePacket, clientVars>>

(* SSCP_decodePacket fills its static buffer, returning 0 if the packet is *)
(* not framed, ...                                                         *)
DecodeHead ==
    /\ At("decodeHead", IF Zero \in {packet.head, packet.tail} THEN "idle" ELSE "decodeTail")
    /\ unencodedPacket' = [unencodedPacket EXCEPT !.head = packet.head]
    /\ UNCHANGED <<fifoVars, localVars, registers, responsePacket, clientVars>>

DecodeTail ==
    /\ At("decodeTail", "extractHead")
    /\ unencodedPacket' = [unencodedPacket EXCEPT !.tail = packet.tail]
    /\ UNCHANGED <<fifoVars, localVars, registers, responsePacket, clientVars>>

(* ... extracts the fields from the buffer ...                             *)
ExtractHead ==
    /\ At("extractHead", "extractTail")
    /\ info' = [info EXCEPT !.head = unencodedPacket.head]
    /\ UNCHANGED <<fifoVars, unencodedPacket, countRead, packet, registers,
                   responsePacket, clientVars>>

ExtractTail ==
    /\ At("extractTail", "check")
    /\ info' = [info EXCEPT !.data = unencodedPacket.tail.data]
    /\ UNCHANGED <<fifoVars, unencodedPacket, countRead, packet, registers,
                   responsePacket, clientVars>>

(* ... and takes the checksum of the buffer.  If it is wrong, SSCP_process *)
(* returns without a response.                                             *)
CheckCrc ==
    /\ At("check", IF Valid(unencodedPacket) THEN "execute" ELSE "idle")
    /\ UNCHANGED <<fifoVars, unencodedPacket, localVars, registers,
                   responsePacket, clientVars>>

(* Mutant of Execute: writes are not answered. *)
ExecuteWriteSilently ==
    /\ At("execute", IF info.head.read = 1 THEN "sendHead" ELSE "idle")
    /\ \E value \in Value :
          /\ registers' = [registers EXCEPT ![info.head.regID] = value]
          /\ packet' = Encode([info.head EXCEPT !.ack = 1], value)
    /\ UNCHANGED <<fifoVars, unencodedPacket, countRead, info, responsePacket,
                   clientVars>>

(* The register is written, its callback called, the response formed.      *)
Execute ==
    /\ At("execute", "sendHead")
    /\ \E value \in Value :
          /\ registers' = [registers EXCEPT ![info.head.regID] = value]
          /\ packet' = Encode([info.head EXCEPT !.ack = 1],
                              IF info.head.read = 1 THEN value ELSE info.data)
    /\ UNCHANGED <<fifoVars, unencodedPacket, countRead, info, responsePacket,
                   clientVars>>

(* BLE_send's memcpy. *)
SendHead ==
    /\ At("sendHead", "sendTail")
    /\ responsePacket' = [responsePacket EXCEPT !.head = packet.head]
    /\ UNCHANGED <<fifoVars, unencodedPacket, localVars, registers, clientVars>>

SendTail ==
    /\ At("sendTail", "idle")
    /\ responsePacket' = [responsePacket EXCEPT !.tail = packet.tail]
    /\ UNCHANGED <<fifoVars, unencodedPacket, localVars, registers, clientVars>>

SSCP_process ==
    \/ Poll \/ MarkOK \/ CopyHead \/ CopyTail
    \/ LoadCount \/ StoreCount \/ TestEmpty \/ SetEmpty \/ DecodeHead \/ DecodeTail
    \/ ExtractHead \/ ExtractTail \/ CheckCrc
    \/ Execute \/ SendHead \/ SendTail

Next ==
    \/ WriteRequest
    \/ ReadResponse
    \/ GiveUp
    \/ SSCP_process

Spec == Init /\ [][Next]_vars

(* The callbacks end, so the thread, which is never blocked, goes on; the  *)
(* client polls without a limit.                                           *)
FairSpec == Spec /\ WF_vars(SSCP_process) /\ WF_vars(ReadResponse)

-----------------------------------------------------------------------------
(* Properties.                                                             *)

Step == {"idle", "mark", "copyHead", "copyTail", "loadCount", "storeCount",
         "testEmpty", "setEmpty", "decodeHead", "decodeTail", "extractHead",
         "extractTail", "check", "execute", "sendHead", "sendTail"}

TypeOK ==
    /\ requestFifo \in [0..FifoSize-1 -> Half]
    /\ requestFifoGetIndex \in 0..FifoSize-1
    /\ requestFifoPutIndex \in 0..FifoSize-1
    /\ requestFifoCount \in Int
    /\ requestFifoStatus \in {OK, EMPTY, FULL}
    /\ unencodedPacket \in Half
    /\ thread \in Step
    /\ countRead \in Int
    /\ packet \in Half
    /\ info \in [head : Head \cup {Zero}, data : Value]
    /\ registers \in [RegID -> Value]
    /\ responsePacket \in Half
    /\ patient \in BOOLEAN
    /\ client \in {"idle", "polling"}
    /\ asked \in Half

(* Between two calls of SSCP_process, the count is the distance from the   *)
(* get index to the put index: "Number of packets in the request FIFO."    *)
(* (sscp.h:163).  A put between loading and storing the count is lost.     *)
CountExact ==
    thread = "idle" =>
        requestFifoPutIndex = (requestFifoGetIndex + requestFifoCount) % FifoSize

(* ... and the status says what the count says (sscp.h:167-171).  A FIFO   *)
(* that holds a request and is EMPTY keeps it until another arrives; one   *)
(* that is full and not FULL overwrites a request.                         *)
StatusExact ==
    thread = "idle" =>
        /\ requestFifoStatus = EMPTY <=> requestFifoCount = 0
        /\ requestFifoStatus = FULL <=> requestFifoCount = FifoSize

(* What is executed is the packet taken from the FIFO ("Decode packet got  *)
(* from FIFO.", sscp.c:438), although the static buffer in which           *)
(* SSCP_decodePacket takes it apart also serves the framer.                *)
ExecutesWhatWasQueued ==
    thread = "execute" => Encode(info.head, info.data) = packet

(* A valid response the client can read was formed for its own request:    *)
(* "Once the responder processes the request from the initiator, it has to *)
(* write a 16-byte string" (README.md:210).                                *)
AnswersTheRequest ==
    client = "polling" /\ Valid(responsePacket) =>
        /\ Encode(info.head, info.data) = asked
        /\ responsePacket.head = [asked.head EXCEPT !.ack = 1]

(* With a patient client the callbacks and the thread keep the FIFO right: *)
(* its count, its status, and what is taken from it.                       *)
FifoIsRightIfPatient ==
    patient => CountExact /\ StatusExact /\ ExecutesWhatWasQueued

(* A patient client reads the answer to its own request, and gets one. *)
AnswersIfPatient == patient => AnswersTheRequest
AnsweredIfPatient == patient /\ client = "polling" ~> client = "idle"

(* However the callbacks interrupt it, SSCP_process never takes a packet   *)
(* from a FIFO that counts none: the count never becomes negative, which   *)
(* would make a status of EMPTY unreachable.                               *)
CountNeverNegative == thread \in {"mark", "copyHead"} => requestFifoCount >= 1
=============================================================================
