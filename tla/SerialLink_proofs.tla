-------------------------- MODULE SerialLink_proofs --------------------------
(***************************************************************************)
(* Proofs about SscpResponder, for every frame length, FIFO size, set of   *)
(* registers and decoding, and about SerialLink, which drives it: for one  *)
(* that waits and a line without noise, what an initiator may take for     *)
(* the answer, and that it gets one, whoever was at the port before it.    *)
(***************************************************************************)
EXTENDS SerialLink, SequenceTheorems, TLAPS

-----------------------------------------------------------------------------
(* Facts about the operators.                                              *)

(* A buffer of FrameLen bytes is a frame. *)
LEMMA FullBufferIsFrame ==
    ASSUME NEW buffer \in Seq(Byte), Len(buffer) = FrameLen
    PROVE  buffer \in Frame
  BY DEF Frame

(* The response to a packet is a packet. *)
LEMMA ResponseIsPacket ==
    ASSUME NEW info \in Packet, NEW value \in Value
    PROVE  Response(info, value) \in Packet
  BY DEF Response, Packet

(* The indices stay inside the FIFO. *)
LEMMA WrapInRange ==
    ASSUME NEW index \in 0..FifoSize-1
    PROVE  Wrap(index + 1) \in 0..FifoSize-1
  BY SizeAssumption DEF Wrap

-----------------------------------------------------------------------------
(* The two halves of the FIFO's invariant depend on each other: the count  *)
(* stays in range because the status word agrees with it, and agrees       *)
(* because the count is in range.                                          *)
FifoInv == TypeOK /\ FifoConsistent

(* The handle as SSCP_HANDLE and SSCP_init leave it. *)
LEMMA InitFifoInv == Init => FifoInv
<1> SUFFICES ASSUME Init PROVE FifoInv
  OBVIOUS
<1> USE SizeAssumption
<1>1. ZeroFrame \in Frame
  BY ByteAssumption DEF ZeroFrame, Frame
<1>2. rxByteRingBuffer \in Seq(Byte) /\ Len(rxByteRingBuffer) < FrameLen
  BY EmptySeq DEF Init
<1>3. requestFifo \in [0..FifoSize-1 -> Frame]
  BY <1>1 DEF Init
<1>4. TypeOK
  <2>1. /\ requestFifoGetIndex \in 0..FifoSize-1
        /\ requestFifoPutIndex \in 0..FifoSize-1
        /\ requestFifoCount \in 0..FifoSize
    BY DEF Init
  <2>2. /\ lastRxByte \in Byte
        /\ requestFifoStatus \in {OK, EMPTY, FULL}
        /\ registers \in [RegID -> Value]
        /\ response \in Packet \cup {NoResponse}
        /\ result \in Int
        /\ lost \in BOOLEAN
    <3>1. lastRxByte \in Byte /\ registers \in [RegID -> Value]
      BY ByteAssumption DEF Init
    <3>2. requestFifoStatus \in {OK, EMPTY, FULL} /\ response \in Packet \cup {NoResponse}
      BY DEF Init
    <3>3. result \in Int /\ lost \in BOOLEAN
      BY DEF Init
    <3> QED
      BY <3>1, <3>2, <3>3
  <2> QED
    BY <1>2, <1>3, <2>1, <2>2 DEF TypeOK
<1>5. FifoConsistent
  BY DEF Init, FifoConsistent, Slot, EMPTY, FULL
<1> QED
  BY <1>4, <1>5 DEF FifoInv

(* SSCP_requestFifoPut keeps the FIFO in shape. *)
LEMMA PutKeepsFifo ==
    ASSUME FifoInv, NEW packet \in Frame, SSCP_requestFifoPut(packet)
    PROVE  /\ requestFifo' \in [0..FifoSize-1 -> Frame]
           /\ requestFifoGetIndex' \in 0..FifoSize-1
           /\ requestFifoPutIndex' \in 0..FifoSize-1
           /\ requestFifoCount' \in 0..FifoSize
           /\ requestFifoStatus' \in {OK, EMPTY, FULL}
           /\ FifoConsistent'
<1> USE SizeAssumption DEF FifoInv, TypeOK, FifoConsistent, SSCP_requestFifoPut, Slot
<1>1. CASE requestFifoStatus = FULL
  BY <1>1 DEF fifoVars
<1>2. CASE requestFifoStatus # FULL
  <2>1. requestFifo' \in [0..FifoSize-1 -> Frame]
    BY <1>2
  <2>2. requestFifoPutIndex' \in 0..FifoSize-1
    BY <1>2, WrapInRange
  <2>3. requestFifoCount < FifoSize
    BY <1>2
  <2>4. /\ requestFifoCount' \in 1..FifoSize
        /\ requestFifoCount' = requestFifoCount + 1
        /\ requestFifoGetIndex' = requestFifoGetIndex
        /\ requestFifoStatus' = IF requestFifoCount' = FifoSize THEN FULL ELSE OK
    BY <1>2, <2>3
  <2>5. FifoConsistent'
    BY <1>2, <2>3, <2>4 DEF Wrap, OK, EMPTY, FULL
  <2> QED
    BY <2>1, <2>2, <2>4, <2>5 DEF OK, EMPTY, FULL
<1> QED
  BY <1>1, <1>2

(* So does SSCP_requestFifoGet. *)
LEMMA GetKeepsFifo ==
    ASSUME FifoInv, SSCP_requestFifoGet
    PROVE  /\ requestFifo' \in [0..FifoSize-1 -> Frame]
           /\ requestFifoGetIndex' \in 0..FifoSize-1
           /\ requestFifoPutIndex' \in 0..FifoSize-1
           /\ requestFifoCount' \in 0..FifoSize
           /\ requestFifoStatus' \in {OK, EMPTY, FULL}
           /\ FifoConsistent'
<1> USE SizeAssumption DEF FifoInv, TypeOK, FifoConsistent, SSCP_requestFifoGet, Slot
<1> QED
  BY WrapInRange DEF Wrap, OK, EMPTY, FULL

(* Whatever a request does, registers and responses stay in their types:   *)
(* also when the lookup leaves the list.                                   *)
LEMMA ProcessTypes ==
    ASSUME FifoInv, SSCP_process
    PROVE  /\ registers' \in [RegID -> Value]
           /\ response' \in Packet \cup {NoResponse}
           /\ result' \in Int
           /\ lost' \in BOOLEAN
<1> DEFINE packet == requestFifo[requestFifoGetIndex]
           info   == PacketInfo[packet]
<1>0. /\ registers \in [RegID -> Value]
      /\ response \in Packet \cup {NoResponse}
      /\ result \in Int
      /\ lost \in BOOLEAN
  BY DEF FifoInv, TypeOK
<1>1. info \in Packet
  BY DecodeAssumption DEF FifoInv, TypeOK
<1>2. info.regData \in Value
  BY <1>1 DEF Packet
<1> HIDE DEF info
<1>3. \A value \in Value : Response(info, value) \in Packet
  BY <1>1, ResponseIsPacket
<1>4. CASE Execute(info)
  <2> DEFINE written == IF info.write = 1 THEN info.regData ELSE registers[info.regID]
  <2>1. CASE info.regID \in Callbacks
    <3>1. written \in Value
      BY <1>0, <1>2, <2>1, RegisterAssumption
    <3>2. PICK value \in (IF info.read # info.write THEN Value ELSE {written}) :
             /\ registers' = [registers EXCEPT ![info.regID] = value]
             /\ response' = Response(info, value)
      BY <1>4, <2>1 DEF Execute
    <3>3. value \in Value
      BY <3>1, <3>2
    <3> HIDE DEF written
    <3>4. registers' \in [RegID -> Value] /\ response' \in Packet
      BY <1>0, <1>3, <3>2, <3>3
    <3>5. result' \in Int /\ lost' = lost
      BY <1>4, RegisterAssumption DEF Execute
    <3> QED
      BY <1>0, <3>4, <3>5
  <2>2. CASE info.regID \notin Callbacks
    <3>1. /\ registers' = [registers EXCEPT ![info.regID] = written]
          /\ response' = Response(info, 0)
          /\ result' \in SendResults
          /\ lost' = lost
      BY <1>4, <2>2 DEF Execute
    <3>2. info.regID \in RegID => written \in Value
      BY <1>0, <1>2
    <3> HIDE DEF written
    <3>3. registers' \in [RegID -> Value]
      BY <1>0, <3>1, <3>2
    <3>4. response' \in Packet /\ result' \in Int
      BY <1>3, <3>1, RegisterAssumption
    <3> QED
      BY <1>0, <3>1, <3>3, <3>4
  <2> QED
    BY <2>1, <2>2
<1>5. CASE RunOffList(info)
  <2>1. CASE lost' = TRUE /\ UNCHANGED <<registers, response, result>>
    BY <1>0, <2>1
  <2>2. CASE /\ \/ UNCHANGED registers
                \/ /\ info.write = 1
                   /\ \E reg \in RegID :
                         registers' = [registers EXCEPT ![reg] = info.regData]
             /\ \E value \in Value : response' = Response(info, value)
             /\ result' \in SendResults
             /\ UNCHANGED lost
    <3>1. registers' \in [RegID -> Value]
      BY <1>0, <1>2, <2>2
    <3>2. response' \in Packet /\ result' \in Int
      BY <1>3, <2>2, RegisterAssumption
    <3> QED
      BY <1>0, <2>2, <3>1, <3>2
  <2> QED
    BY <1>5, <2>1, <2>2 DEF RunOffList
<1>6. CASE result' = 0 /\ UNCHANGED <<registers, response, lost>>
  BY <1>0, <1>6
<1> QED
  BY <1>4, <1>5, <1>6 DEF SSCP_process, fifoVars, info

(* The invariant is inductive: one step per call of the stack.             *)
LEMMA NextFifoInv == FifoInv /\ [Next]_vars => FifoInv'
<1> SUFFICES ASSUME FifoInv, [Next]_vars PROVE FifoInv'
  OBVIOUS
<1> DEFINE FifoPart ==
             /\ requestFifo' \in [0..FifoSize-1 -> Frame]
             /\ requestFifoGetIndex' \in 0..FifoSize-1
             /\ requestFifoPutIndex' \in 0..FifoSize-1
             /\ requestFifoCount' \in 0..FifoSize
             /\ requestFifoStatus' \in {OK, EMPTY, FULL}
             /\ FifoConsistent'
           FramerPart ==
             /\ lastRxByte' \in Byte
             /\ rxByteRingBuffer' \in Seq(Byte)
             /\ Len(rxByteRingBuffer') < FrameLen
           ServerPart ==
             /\ registers' \in [RegID -> Value]
             /\ response' \in Packet \cup {NoResponse}
             /\ result' \in Int
             /\ lost' \in BOOLEAN
<1>1. ASSUME UNCHANGED fifoVars PROVE FifoPart
  BY <1>1 DEF FifoInv, TypeOK, FifoConsistent, Slot, fifoVars
<1>2. ASSUME UNCHANGED framerVars PROVE FramerPart
  BY <1>2 DEF FifoInv, TypeOK, framerVars
<1>3. ASSUME UNCHANGED serverVars PROVE ServerPart
  BY <1>3 DEF FifoInv, TypeOK, serverVars
<1>4. ASSUME FifoPart, FramerPart, ServerPart PROVE FifoInv'
  BY <1>4 DEF FifoInv, TypeOK
<1> HIDE DEF FifoPart, FramerPart, ServerPart
<1>5. CASE SSCP_init
  <2>1. ZeroFrame \in Frame
    BY ByteAssumption DEF ZeroFrame, Frame
  <2>2. FifoPart
    BY <1>5, <2>1, SizeAssumption
    DEF SSCP_init, FifoConsistent, Slot, OK, EMPTY, FULL, FifoPart
  <2>3. FramerPart
    BY <1>5, SizeAssumption, ByteAssumption, EmptySeq DEF SSCP_init, FramerPart
  <2> QED
    BY <1>3, <1>4, <1>5, <2>2, <2>3 DEF SSCP_init
<1>6. ASSUME NEW byte \in Byte, SSCP_handleRxByte(byte) PROVE FifoInv'
  <2> DEFINE received == Append(rxByteRingBuffer, byte)
  <2>1. /\ rxByteRingBuffer \in Seq(Byte)
        /\ Len(rxByteRingBuffer) < FrameLen
    BY DEF FifoInv, TypeOK
  <2>2. received \in Seq(Byte) /\ Len(received) = Len(rxByteRingBuffer) + 1
    BY <2>1, AppendProperties
  <2>0. Len(rxByteRingBuffer) \in Nat
    BY <2>1, LenProperties
  <2> HIDE DEF received
  <2>3. /\ lastRxByte' = byte
        /\ rxByteRingBuffer' =
              IF Len(received) = FrameLen \/ byte = EndByte THEN <<>> ELSE received
        /\ IF Len(received) = FrameLen /\ ForThisDevice(received)
           THEN SSCP_requestFifoPut(received)
           ELSE UNCHANGED fifoVars
        /\ UNCHANGED serverVars
    BY <1>6 DEF SSCP_handleRxByte, received
  <2>4. FramerPart
    <3>1. CASE rxByteRingBuffer' = <<>>
      <4>1. <<>> \in Seq(Byte) /\ Len(<<>>) = 0 /\ 0 < FrameLen
        BY EmptySeq, SizeAssumption
      <4> QED
        BY <1>6, <2>3, <3>1, <4>1 DEF FramerPart
    <3>2. CASE Len(received) # FrameLen /\ rxByteRingBuffer' = received
      <4>1. Len(received) < FrameLen
        BY <2>0, <2>1, <2>2, <3>2, SizeAssumption
      <4> QED
        BY <1>6, <2>2, <2>3, <3>2, <4>1 DEF FramerPart
    <3> QED
      BY <2>3, <3>1, <3>2
  <2>5. FifoPart
    <3>1. CASE Len(received) = FrameLen /\ SSCP_requestFifoPut(received)
      BY <2>2, <3>1, FullBufferIsFrame, PutKeepsFifo DEF FifoPart
    <3> QED
      BY <1>1, <2>3, <3>1
  <2> QED
    BY <1>3, <1>4, <2>3, <2>4, <2>5
<1>7. CASE SSCP_process
  <2>1. FifoPart
    <3>1. CASE UNCHANGED fifoVars
      BY <1>1, <3>1
    <3>2. CASE SSCP_requestFifoGet
      BY <3>2, GetKeepsFifo DEF FifoPart
    <3> QED
      BY <1>7, <3>1, <3>2 DEF SSCP_process, fifoVars
  <2>2. ServerPart
    BY <1>7, ProcessTypes DEF ServerPart
  <2> QED
    BY <1>2, <1>4, <1>7, <2>1, <2>2 DEF SSCP_process
<1>8. CASE UNCHANGED vars
  BY <1>1, <1>2, <1>3, <1>4, <1>8 DEF vars
<1> QED
  BY <1>5, <1>6, <1>7, <1>8 DEF Next

(* Every variable of the stack keeps its type: the indices stay inside the *)
(* FIFO and the receive buffer never overflows.                            *)
THEOREM TypeCorrect == Spec => []TypeOK
<1>1. FifoInv => TypeOK
  BY DEF FifoInv
<1> QED
  BY <1>1, InitFifoInv, NextFifoInv, PTL DEF Spec

(* The status word and the put index never disagree with the count and the *)
(* get index.                                                              *)
THEOREM FifoCorrect == Spec => []FifoConsistent
<1>1. FifoInv => FifoConsistent
  BY DEF FifoInv
<1> QED
  BY <1>1, InitFifoInv, NextFifoInv, PTL DEF Spec

-----------------------------------------------------------------------------
(* The waiting requests as a queue: SSCP_requestFifoPut appends to it,     *)
(* SSCP_requestFifoGet takes its head.                                     *)

(* A put adds its packet after those that wait. *)
LEMMA PutAppends ==
    ASSUME FifoInv, NEW packet \in Frame, SSCP_requestFifoPut(packet),
           requestFifoStatus # FULL
    PROVE  /\ requestFifoCount < FifoSize
           /\ requestFifoCount' = requestFifoCount + 1
           /\ \A i \in 1..requestFifoCount : Waiting(i)' = Waiting(i)
           /\ \A i \in 1..FifoSize : i = requestFifoCount + 1 => Waiting(i)' = packet
<1>1. /\ FifoSize \in Nat /\ FifoSize >= 1
      /\ requestFifoCount \in 0..FifoSize
      /\ requestFifoGetIndex \in 0..FifoSize-1
      /\ requestFifo \in [0..FifoSize-1 -> Frame]
      /\ requestFifoPutIndex = Slot(requestFifoCount + 1)
      /\ requestFifoStatus = FULL <=> requestFifoCount = FifoSize
  BY SizeAssumption DEF FifoInv, TypeOK, FifoConsistent
<1>2. /\ requestFifo' = [requestFifo EXCEPT ![requestFifoPutIndex] = packet]
      /\ requestFifoCount' = requestFifoCount + 1
      /\ requestFifoGetIndex' = requestFifoGetIndex
  BY DEF SSCP_requestFifoPut
<1>3. requestFifoCount < FifoSize
  BY <1>1
<1>4. ASSUME NEW i \in 1..requestFifoCount PROVE Waiting(i)' = Waiting(i)
  <2>1. Slot(i)' = Slot(i) /\ Slot(i) # requestFifoPutIndex /\ Slot(i) \in 0..FifoSize-1
    BY <1>1, <1>2, <1>3 DEF Slot
  <2> QED
    BY <1>1, <1>2, <2>1 DEF Waiting
<1>5. ASSUME NEW i \in 1..FifoSize, i = requestFifoCount + 1
      PROVE  Waiting(i)' = packet
  <2>1. /\ Slot(i)' = requestFifoPutIndex
        /\ requestFifoPutIndex \in 0..FifoSize-1
    BY <1>1, <1>2, <1>3, <1>5 DEF Slot
  <2> QED
    BY <1>1, <1>2, <2>1 DEF Waiting
<1> QED
  BY <1>2, <1>3, <1>4, <1>5

(* A get removes the first of those that wait. *)
LEMMA GetTakesHead ==
    ASSUME FifoInv, SSCP_requestFifoGet
    PROVE  /\ requestFifoCount \in 1..FifoSize
           /\ requestFifoCount' = requestFifoCount - 1
           /\ requestFifo[requestFifoGetIndex] = Waiting(1)
           /\ \A i \in 1..requestFifoCount-1 : Waiting(i)' = Waiting(i+1)
<1>1. /\ FifoSize \in Nat /\ FifoSize >= 1
      /\ requestFifoCount \in 1..FifoSize
      /\ requestFifoGetIndex \in 0..FifoSize-1
  BY SizeAssumption DEF FifoInv, TypeOK, FifoConsistent, SSCP_requestFifoGet
<1>2. /\ requestFifo' = requestFifo
      /\ requestFifoCount' = requestFifoCount - 1
      /\ requestFifoGetIndex' = Wrap(requestFifoGetIndex + 1)
  BY DEF SSCP_requestFifoGet
<1>3. requestFifo[requestFifoGetIndex] = Waiting(1)
  BY <1>1 DEF Waiting, Slot
<1>4. ASSUME NEW i \in 1..requestFifoCount-1 PROVE Waiting(i)' = Waiting(i+1)
  <2>1. Slot(i)' = Slot(i+1)
    BY <1>1, <1>2 DEF Slot, Wrap
  <2> QED
    BY <1>2, <2>1 DEF Waiting
<1> QED
  BY <1>1, <1>2, <1>3, <1>4

-----------------------------------------------------------------------------
(* What waits was received whole and is for this device.                   *)

(* Every step keeps foreign requests out of the FIFO. *)
LEMMA NextOwnRequests ==
    FifoInv /\ OwnRequestsOnly /\ [Next]_vars => OwnRequestsOnly'
<1> SUFFICES ASSUME FifoInv, OwnRequestsOnly, [Next]_vars PROVE OwnRequestsOnly'
  OBVIOUS
<1>1. ASSUME UNCHANGED fifoVars PROVE OwnRequestsOnly'
  BY <1>1 DEF OwnRequestsOnly, Waiting, Slot, fifoVars
<1>2. CASE SSCP_init
  BY <1>2 DEF SSCP_init, OwnRequestsOnly
<1>3. ASSUME NEW byte \in Byte, SSCP_handleRxByte(byte) PROVE OwnRequestsOnly'
  <2> DEFINE received == Append(rxByteRingBuffer, byte)
  <2>1. received \in Seq(Byte)
    BY AppendProperties DEF FifoInv, TypeOK
  <2> HIDE DEF received
  <2>2. \/ UNCHANGED fifoVars
        \/ /\ Len(received) = FrameLen /\ ForThisDevice(received)
           /\ requestFifoStatus # FULL
           /\ SSCP_requestFifoPut(received)
    BY <1>3 DEF SSCP_handleRxByte, SSCP_requestFifoPut, received
  <2>3. CASE /\ Len(received) = FrameLen /\ ForThisDevice(received)
             /\ requestFifoStatus # FULL
             /\ SSCP_requestFifoPut(received)
    <3>1. received \in Frame
      BY <2>1, <2>3, FullBufferIsFrame
    <3>2. SUFFICES ASSUME NEW i \in 1..requestFifoCount'
                   PROVE  ForThisDevice(Waiting(i)')
      BY DEF OwnRequestsOnly, ForThisDevice, Framed, SSCP_decodePacket
    <3>3. /\ requestFifoCount \in Nat /\ requestFifoCount < FifoSize
          /\ requestFifoCount' = requestFifoCount + 1
          /\ \A j \in 1..requestFifoCount : Waiting(j)' = Waiting(j)
          /\ \A j \in 1..FifoSize : j = requestFifoCount + 1 => Waiting(j)' = received
      BY <2>3, <3>1, PutAppends DEF FifoInv, TypeOK
    <3>4. CASE i \in 1..requestFifoCount
      BY <3>3, <3>4 DEF OwnRequestsOnly, ForThisDevice, SSCP_decodePacket
    <3>5. CASE i = requestFifoCount + 1
      BY <2>3, <3>3, <3>5, SizeAssumption
    <3> QED
      BY <3>3, <3>4, <3>5
  <2> QED
    BY <1>1, <2>2, <2>3
<1>4. CASE SSCP_process
  <2>1. CASE SSCP_requestFifoGet
    <3>1. SUFFICES ASSUME NEW i \in 1..requestFifoCount'
                   PROVE  ForThisDevice(Waiting(i)')
      BY DEF OwnRequestsOnly, ForThisDevice, Framed, SSCP_decodePacket
    <3>2. /\ requestFifoCount \in 1..FifoSize
          /\ requestFifoCount' = requestFifoCount - 1
          /\ \A j \in 1..requestFifoCount-1 : Waiting(j)' = Waiting(j+1)
      BY <2>1, GetTakesHead
    <3>3. Waiting(i)' = Waiting(i+1) /\ i+1 \in 1..requestFifoCount
      BY <3>2, SizeAssumption
    <3> QED
      BY <3>3 DEF OwnRequestsOnly, ForThisDevice, SSCP_decodePacket
  <2> QED
    BY <1>1, <1>4, <2>1 DEF SSCP_process, fifoVars
<1>5. CASE UNCHANGED vars
  BY <1>1, <1>5 DEF vars
<1> QED
  BY <1>2, <1>3, <1>4, <1>5 DEF Next

(* At first no request waits. *)
LEMMA InitOwnRequests == Init => OwnRequestsOnly
  BY DEF Init, OwnRequestsOnly

(* SSCP_process, which does not test the device ID of what it takes from   *)
(* the FIFO, only ever takes a valid packet that is addressed to it.       *)
THEOREM OwnRequestsCorrect == Spec => []OwnRequestsOnly
  BY InitFifoInv, NextFifoInv, InitOwnRequests, NextOwnRequests, PTL DEF Spec

(* Whatever was received, a framer that has just seen an end byte is at    *)
(* the start of a packet.                                                  *)
THEOREM Resynchronises == Spec => []Resynchronised
<1>1. Init => Resynchronised
  BY ByteAssumption, EmptySeq DEF Init, Resynchronised
<1>2. FifoInv /\ Resynchronised /\ [Next]_vars => Resynchronised'
  <2> SUFFICES ASSUME FifoInv, Resynchronised, [Next]_vars PROVE Resynchronised'
    OBVIOUS
  <2>1. ASSUME UNCHANGED framerVars PROVE Resynchronised'
    BY <2>1 DEF Resynchronised, framerVars
  <2>2. CASE SSCP_init
    BY <2>2, ByteAssumption, EmptySeq DEF SSCP_init, Resynchronised
  <2>3. ASSUME NEW byte \in Byte, SSCP_handleRxByte(byte) PROVE Resynchronised'
    <3> DEFINE received == Append(rxByteRingBuffer, byte)
    <3>1. rxByteRingBuffer \in Seq(Byte)
      BY DEF FifoInv, TypeOK
    <3>2. /\ Len(rxByteRingBuffer) \in Nat
          /\ Len(received) = Len(rxByteRingBuffer) + 1
          /\ \A i \in 1..Len(rxByteRingBuffer) : received[i] = rxByteRingBuffer[i]
          /\ received[Len(rxByteRingBuffer) + 1] = byte
      BY <3>1, AppendProperties, LenProperties
    <3> HIDE DEF received
    <3>3. CASE rxByteRingBuffer' = <<>>
      BY <3>3, EmptySeq DEF Resynchronised
    <3>4. CASE byte # EndByte /\ rxByteRingBuffer' = received
      <4>1. \A i \in 1..Len(received) : received[i] # EndByte
        BY <3>2, <3>4 DEF Resynchronised
      <4>2. lastRxByte' # EndByte
        BY <2>3, <3>4 DEF SSCP_handleRxByte
      <4> QED
        BY <3>4, <4>1, <4>2 DEF Resynchronised
    <3> QED
      BY <2>3, <3>3, <3>4 DEF SSCP_handleRxByte, received
  <2>4. CASE SSCP_process
    BY <2>1, <2>4 DEF SSCP_process
  <2>5. CASE UNCHANGED vars
    BY <2>1, <2>5 DEF vars
  <2> QED
    BY <2>2, <2>3, <2>4, <2>5 DEF Next
<1> QED
  BY <1>1, <1>2, InitFifoInv, NextFifoInv, PTL DEF Spec

-----------------------------------------------------------------------------
(* The stack implements the service.                                       *)

(* The queue of the refinement mapping. *)
Queue == [i \in 1..requestFifoCount |-> PacketInfo[Waiting(i)]]

Inv == FifoInv /\ OwnRequestsOnly

(* What waits is a frame. *)
LEMMA WaitingIsFrame ==
    ASSUME FifoInv, NEW i \in 1..requestFifoCount
    PROVE  Waiting(i) \in Frame /\ PacketInfo[Waiting(i)] \in Packet
<1>1. Slot(i) \in 0..FifoSize-1
  BY SizeAssumption DEF FifoInv, TypeOK, Slot
<1> QED
  BY <1>1, DecodeAssumption DEF FifoInv, TypeOK, Waiting

(* The abstract queue is a sequence of packets. *)
LEMMA QueueIsSeq ==
    ASSUME FifoInv
    PROVE  Queue \in Seq(Packet) /\ Len(Queue) = requestFifoCount
<1>1. requestFifoCount \in Nat
  BY SizeAssumption DEF FifoInv, TypeOK
<1>2. Queue \in [1..requestFifoCount -> Packet]
  BY WaitingIsFrame DEF Queue
<1>3. Queue \in Seq(Packet)
  BY <1>1, <1>2, SeqDef
<1> QED
  BY <1>1, <1>3, LenProperties DEF Queue

(* Putting a packet is accepting the request it carries. *)
LEMMA PutIsAccept ==
    ASSUME FifoInv, FifoInv', NEW packet \in Frame, SSCP_requestFifoPut(packet)
    PROVE  Queue' = IF Len(Queue) < FifoSize
                    THEN Append(Queue, PacketInfo[packet]) ELSE Queue
<1>0. /\ FifoSize \in Nat /\ FifoSize >= 1
      /\ requestFifoCount \in 0..FifoSize
      /\ requestFifoStatus = FULL <=> requestFifoCount = FifoSize
      /\ Len(Queue) = requestFifoCount
  BY SizeAssumption, QueueIsSeq DEF FifoInv, TypeOK, FifoConsistent
<1>1. CASE requestFifoStatus = FULL
  BY <1>0, <1>1 DEF SSCP_requestFifoPut, fifoVars, Queue, Waiting, Slot
<1>2. CASE requestFifoStatus # FULL
  <2> DEFINE longer == Append(Queue, PacketInfo[packet])
  <2>1. /\ requestFifoCount < FifoSize
        /\ requestFifoCount' = requestFifoCount + 1
        /\ \A i \in 1..requestFifoCount : Waiting(i)' = Waiting(i)
        /\ \A i \in 1..FifoSize : i = requestFifoCount + 1 => Waiting(i)' = packet
    BY <1>2, PutAppends
  <2>2. /\ longer \in Seq(Packet)
        /\ Len(longer) = requestFifoCount + 1
        /\ \A i \in 1..requestFifoCount : longer[i] = Queue[i]
        /\ longer[requestFifoCount + 1] = PacketInfo[packet]
    BY <1>0, DecodeAssumption, QueueIsSeq, AppendProperties
  <2>3. Queue' \in Seq(Packet) /\ Len(Queue') = requestFifoCount + 1
    <3>1. (Queue \in Seq(Packet) /\ Len(Queue) = requestFifoCount)'
      BY QueueIsSeq, PTL
    <3> QED
      BY <2>1, <3>1
  <2> HIDE DEF longer
  <2>4. ASSUME NEW i \in 1..requestFifoCount + 1 PROVE Queue'[i] = longer[i]
    <3>1. Queue'[i] = PacketInfo[Waiting(i)']
      BY <2>1 DEF Queue
    <3>2. CASE i \in 1..requestFifoCount
      BY <2>1, <2>2, <3>1, <3>2 DEF Queue
    <3>3. CASE i = requestFifoCount + 1
      BY <1>0, <2>1, <2>2, <3>1, <3>3
    <3> QED
      BY <1>0, <3>2, <3>3
  <2>5. Queue' = longer
    BY <2>2, <2>3, <2>4, SeqEqual
  <2> QED
    BY <1>0, <2>1, <2>5 DEF longer
<1> QED
  BY <1>1, <1>2

(* Getting a packet is taking the head of the queue. *)
LEMMA GetIsTail ==
    ASSUME FifoInv, FifoInv', SSCP_requestFifoGet
    PROVE  /\ Queue # <<>>
           /\ Head(Queue) = PacketInfo[requestFifo[requestFifoGetIndex]]
           /\ Queue' = Tail(Queue)
<1>1. /\ requestFifoCount \in 1..FifoSize
      /\ requestFifoCount' = requestFifoCount - 1
      /\ requestFifo[requestFifoGetIndex] = Waiting(1)
      /\ \A i \in 1..requestFifoCount-1 : Waiting(i)' = Waiting(i+1)
  BY GetTakesHead
<1>2. Queue \in Seq(Packet) /\ Len(Queue) = requestFifoCount
  BY QueueIsSeq
<1>3. Queue' \in Seq(Packet) /\ Len(Queue') = requestFifoCount - 1
  <2>1. (Queue \in Seq(Packet) /\ Len(Queue) = requestFifoCount)'
    BY QueueIsSeq, PTL
  <2> QED
    BY <1>1, <2>1
<1>4. Queue # <<>>
  BY <1>1, <1>2, EmptySeq
<1>5. Head(Queue) = Queue[1]
  BY <1>2, <1>4
<1>6. Head(Queue) = PacketInfo[requestFifo[requestFifoGetIndex]]
  BY <1>1, <1>5, SizeAssumption DEF Queue
<1>7. /\ Tail(Queue) \in Seq(Packet)
      /\ Len(Tail(Queue)) = requestFifoCount - 1
      /\ \A i \in 1..requestFifoCount-1 : Tail(Queue)[i] = Queue[i+1]
  BY <1>2, <1>4, HeadTailProperties
<1>8. ASSUME NEW i \in 1..requestFifoCount-1 PROVE Queue'[i] = Tail(Queue)[i]
  <2>1. Queue'[i] = PacketInfo[Waiting(i)']
    BY <1>1 DEF Queue
  <2>2. Queue[i+1] = PacketInfo[Waiting(i+1)]
    BY <1>1, SizeAssumption DEF Queue
  <2> QED
    BY <1>1, <1>7, <2>1, <2>2
<1> QED
  BY <1>3, <1>4, <1>6, <1>7, <1>8, SeqEqual

(* The invariant holds at first. *)
LEMMA InitInv == Init => Inv
  BY InitFifoInv, InitOwnRequests DEF Inv

(* Every step keeps the invariant. *)
LEMMA NextInv == Inv /\ [Next]_vars => Inv'
  BY NextFifoInv, NextOwnRequests DEF Inv

(* Carrying out a request is serving the head of the queue. *)
LEMMA ExecuteIsServe ==
    ASSUME FifoInv, NEW info \in Packet, info.regID \in RegID, Execute(info),
           Callbacks = RegID \/ info.read = 0
    PROVE  /\ \E value \in (IF info.regID \in Callbacks /\ info.read # info.write
                            THEN Value
                            ELSE {IF info.write = 1 THEN info.regData
                                  ELSE registers[info.regID]}) :
                 /\ registers' = [registers EXCEPT ![info.regID] = value]
                 /\ response' = Response(info, value)
           /\ lost' = lost
<1> DEFINE written == IF info.write = 1 THEN info.regData ELSE registers[info.regID]
<1>1. lost' = lost
  BY DEF Execute
<1>2. CASE info.regID \in Callbacks
  <2>1. PICK value \in (IF info.read # info.write THEN Value ELSE {written}) :
          /\ registers' = [registers EXCEPT ![info.regID] = value]
          /\ response' = Response(info, value)
    BY <1>2 DEF Execute
  <2> QED
    BY <1>1, <1>2, <2>1
<1>3. CASE info.regID \notin Callbacks
  <2>1. /\ registers' = [registers EXCEPT ![info.regID] = written]
        /\ response' = Response(info, 0)
    BY <1>3 DEF Execute
  <2>2. info.read = 0
    BY <1>3
  <2>3. Response(info, 0) = Response(info, written)
    BY <2>2 DEF Response
  <2> QED
    BY <1>1, <1>3, <2>1, <2>3
<1> QED
  BY <1>2, <1>3

(* A device all of whose registers have a callback implements the service: *)
(* nothing but a full FIFO loses a request, requests are served in order,  *)
(* and a read answers with the register's content.  What SSCP_process does *)
(* for a register it does not have is within what the service leaves open. *)
THEOREM Refinement == Callbacks = RegID => (Spec => ImplementsService)
<1> SUFFICES ASSUME Callbacks = RegID PROVE Spec => ImplementsService
  OBVIOUS
<1>1. Init => Service!Init
  BY SizeAssumption DEF Init, Service!Init
<1>2. Inv /\ Inv' /\ [Next]_vars => [Service!Next]_Service!vars
  <2> SUFFICES ASSUME Inv, Inv', [Next]_vars PROVE [Service!Next]_Service!vars
    OBVIOUS
  <2>1. CASE SSCP_init
    <3>1. Queue' = <<>> /\ UNCHANGED <<registers, response, lost>>
      BY <2>1 DEF SSCP_init, Queue, serverVars
    <3> QED
      BY <3>1 DEF Service!Next, Service!Reset, Queue
  <2>2. ASSUME UNCHANGED fifoVars, UNCHANGED <<registers, response, lost>>
        PROVE  UNCHANGED Service!vars
    BY <2>2 DEF fifoVars, Service!vars, Waiting, Slot
  <2>3. ASSUME NEW byte \in Byte, SSCP_handleRxByte(byte)
        PROVE  [Service!Next]_Service!vars
    <3> DEFINE received == Append(rxByteRingBuffer, byte)
    <3>1. received \in Seq(Byte)
      BY AppendProperties DEF Inv, FifoInv, TypeOK
    <3> HIDE DEF received
    <3>2. UNCHANGED <<registers, response, lost>>
      BY <2>3 DEF SSCP_handleRxByte, serverVars
    <3>3. CASE UNCHANGED fifoVars
      BY <2>2, <3>2, <3>3
    <3>4. CASE Len(received) = FrameLen /\ SSCP_requestFifoPut(received)
      <4>1. received \in Frame
        BY <3>1, <3>4, FullBufferIsFrame
      <4>2. Queue' = IF Len(Queue) < FifoSize
                     THEN Append(Queue, PacketInfo[received]) ELSE Queue
        BY <3>4, <4>1, PutIsAccept DEF Inv
      <4>3. Service!Accept(PacketInfo[received])
        BY <3>2, <4>2 DEF Service!Accept, Queue
      <4>4. PacketInfo[received] \in Packet
        BY <4>1, DecodeAssumption
      <4> QED
        BY <4>3, <4>4 DEF Service!Next
    <3> QED
      BY <2>3, <3>3, <3>4 DEF SSCP_handleRxByte, received
  <2>4. CASE SSCP_process
    <3> DEFINE packet == requestFifo[requestFifoGetIndex]
               info   == PacketInfo[packet]
    <3>1. CASE requestFifoStatus = EMPTY
      BY <2>2, <2>4, <3>1 DEF SSCP_process
    <3>2. CASE requestFifoStatus # EMPTY
      <4>1. SSCP_requestFifoGet /\ ~lost
        BY <2>4, <3>2 DEF SSCP_process
      <4>2. Queue # <<>> /\ Head(Queue) = info /\ Queue' = Tail(Queue)
        BY <4>1, GetIsTail DEF Inv
      <4>3. info \in Packet /\ SSCP_decodePacket(packet)
        <5>1. packet = Waiting(1) /\ requestFifoCount \in 1..FifoSize
          BY <4>1, GetTakesHead DEF Inv
        <5> QED
          BY <5>1, WaitingIsFrame, SizeAssumption
          DEF Inv, OwnRequestsOnly, ForThisDevice
      <4>4. IF info.regID \in RegID THEN Execute(info) ELSE RunOffList(info)
        BY <2>4, <3>2, <4>3 DEF SSCP_process
      <4>5. CASE info.regID \in RegID
        <5>1. Execute(info)
          BY <4>4, <4>5
        <5> HIDE DEF info
        <5>2. PICK value \in (IF info.regID \in Callbacks /\ info.read # info.write
                              THEN Value
                              ELSE {IF info.write = 1 THEN info.regData
                                    ELSE registers[info.regID]}) :
                /\ registers' = [registers EXCEPT ![info.regID] = value]
                /\ response' = Response(info, value)
          BY <4>3, <4>5, <5>1, ExecuteIsServe DEF Inv
        <5>3. lost' = lost
          BY <5>1 DEF Execute
        <5>4. value \in Service!Outcome(info)
          BY <5>2 DEF Service!Outcome
        <5>5. response' = Service!Answer(info, value)
          BY <5>2 DEF Response, Service!Answer
        <5>6. Service!Serve
          BY <4>1, <4>2, <4>5, <5>2, <5>3, <5>4, <5>5 DEF Service!Serve, Queue
        <5> QED
          BY <5>6 DEF Service!Next
      <4>6. CASE info.regID \notin RegID
        <5>1. RunOffList(info)
          BY <4>4, <4>6
        <5>2. registers' \in [RegID -> Value] /\ lost' \in BOOLEAN
          BY <2>4, ProcessTypes DEF Inv
        <5> HIDE DEF info
        <5>3. response' \in {response} \cup {Service!Answer(info, value) : value \in Value}
          BY <5>1 DEF RunOffList, Response, Service!Answer
        <5>4. Service!ServeUnlisted
          BY <4>1, <4>2, <4>6, <5>2, <5>3 DEF Service!ServeUnlisted, Queue
        <5> QED
          BY <5>4 DEF Service!Next
      <4> QED
        BY <4>5, <4>6
    <3> QED
      BY <3>1, <3>2
  <2>5. CASE UNCHANGED vars
    BY <2>2, <2>5 DEF vars, serverVars
  <2> QED
    BY <2>1, <2>3, <2>4, <2>5 DEF Next
<1> QED
  BY <1>1, <1>2, InitInv, NextInv, PTL DEF Spec, ImplementsService, Service!Spec
-----------------------------------------------------------------------------
(* The serial link: what every line and every initiator keeps.             *)

LinkTypes ==
    /\ mainThread \in {"read", "process", "halted"}
    /\ toDevice \in Seq(Byte) /\ toHost \in Seq(Byte)
    /\ initiator \in {"idle", "reading"}
    /\ asked \in Request \cup {NoResponse}
    /\ initiator = "reading" => asked \in Request
    /\ cache \in [RegID -> Value]
    /\ noise \in 0..MaxNoise /\ restarts \in Nat

LinkInv == Inv /\ LinkTypes /\ AtMostOneWaits

(* What the initiator asks is a packet that names a listed register. *)
LEMMA RequestFacts ==
    ASSUME NEW request \in Request
    PROVE  /\ request \in Packet /\ request.regID \in RegID
           /\ request.deviceID = DeviceID
  BY RegisterAssumption DEF Request, Packet

(* An encoded packet is as long as a frame, and decoded to the packet. *)
LEMMA EncodedFacts ==
    ASSUME NEW packet \in Packet
    PROVE  /\ Encoded[packet] \in Frame /\ Encoded[packet] \in Seq(Byte)
           /\ Len(Encoded[packet]) = FrameLen
           /\ SSCP_decodePacket(Encoded[packet])
           /\ PacketInfo[Encoded[packet]] = packet
           /\ Encoded[packet][FrameLen] = EndByte
           /\ \A i \in 1..FrameLen-1 : Encoded[packet][i] # EndByte
<1>1. Encoded[packet] \in Frame
  BY EncodingAssumption
<1>2. /\ SSCP_decodePacket(Encoded[packet])
      /\ PacketInfo[Encoded[packet]] = packet
      /\ \A i \in 1..FrameLen-1 : Encoded[packet][i] # EndByte
  BY EncodingAssumption
<1>3. Encoded[packet] \in Seq(Byte) /\ Len(Encoded[packet]) = FrameLen
  BY <1>1, SizeAssumption DEF Frame
<1> QED
  BY <1>1, <1>2, <1>3 DEF SSCP_decodePacket, Framed

(* A byte that was received completes at most one request. *)
LEMMA OneByte ==
    ASSUME Inv, NEW byte \in Byte, SSCP_handleRxByte(byte)
    PROVE  /\ requestFifoCount' \in {requestFifoCount, requestFifoCount + 1}
           /\ UNCHANGED serverVars
<1>1. UNCHANGED serverVars
  BY DEF SSCP_handleRxByte
<1>2. CASE UNCHANGED fifoVars
  BY <1>1, <1>2 DEF fifoVars
<1>3. CASE SSCP_requestFifoPut(Append(rxByteRingBuffer, byte))
  BY <1>1, <1>3 DEF SSCP_requestFifoPut, fifoVars
<1> QED
  BY <1>2, <1>3 DEF SSCP_handleRxByte

(* A call of SSCP_process takes the first request that waits, if any.  Its *)
(* decoding does not fail.                                                 *)
LEMMA OneCall ==
    ASSUME Inv, SSCP_process
    PROVE  /\ ~lost
           /\ requestFifoCount = 0 =>
                 UNCHANGED <<fifoVars, registers, response, lost>>
           /\ requestFifoCount > 0 =>
                 /\ requestFifoCount' = requestFifoCount - 1
                 /\ PacketInfo[Waiting(1)] \in Packet
                 /\ IF PacketInfo[Waiting(1)].regID \in RegID
                    THEN Execute(PacketInfo[Waiting(1)])
                    ELSE RunOffList(PacketInfo[Waiting(1)])
<1>1. /\ requestFifoCount \in Nat
      /\ requestFifoStatus = EMPTY <=> requestFifoCount = 0
  BY SizeAssumption DEF Inv, FifoInv, TypeOK, FifoConsistent
<1>2. ASSUME requestFifoCount = 0
      PROVE  UNCHANGED <<fifoVars, registers, response, lost>>
  BY <1>1, <1>2 DEF SSCP_process
<1>3. ASSUME requestFifoCount > 0
      PROVE  /\ requestFifoCount' = requestFifoCount - 1
             /\ PacketInfo[Waiting(1)] \in Packet
             /\ IF PacketInfo[Waiting(1)].regID \in RegID
                THEN Execute(PacketInfo[Waiting(1)])
                ELSE RunOffList(PacketInfo[Waiting(1)])
  <2>1. requestFifoStatus # EMPTY /\ SSCP_requestFifoGet
    BY <1>1, <1>3 DEF SSCP_process
  <2>2. /\ requestFifo[requestFifoGetIndex] = Waiting(1)
        /\ requestFifoCount' = requestFifoCount - 1
    BY <2>1, GetTakesHead DEF Inv
  <2>3. 1 \in 1..requestFifoCount
    BY <1>1, <1>3
  <2>4. SSCP_decodePacket(Waiting(1)) /\ PacketInfo[Waiting(1)] \in Packet
    BY <2>3, WaitingIsFrame DEF Inv, OwnRequestsOnly
  <2> QED
    BY <2>1, <2>2, <2>4 DEF SSCP_process
<1> QED
  BY <1>2, <1>3 DEF SSCP_process

(* Unless it leaves the register list for good, the call gives a response. *)
LEMMA OneCallAnswers ==
    ASSUME Inv, SSCP_process, requestFifoCount > 0, ~lost'
    PROVE  response' \in Packet
<1> DEFINE info == PacketInfo[Waiting(1)]
<1>1. info \in Packet /\ (Execute(info) \/ RunOffList(info))
  BY OneCall
<1> HIDE DEF info
<1>2. \A value \in Value : Response(info, value) \in Packet
  BY <1>1, ResponseIsPacket
<1>3. response' \in {Response(info, value) : value \in Value}
                   \cup {Response(info, 0)}
  <2>1. CASE RunOffList(info)
    BY <2>1 DEF RunOffList
  <2>2. CASE Execute(info) /\ info.regID \notin Callbacks
    BY <2>2 DEF Execute
  <2>3. CASE Execute(info) /\ info.regID \in Callbacks
    <3> DEFINE written == IF info.write = 1 THEN info.regData ELSE registers[info.regID]
    <3>1. written \in Value
      <4>1. info.regData \in Value
        BY <1>1 DEF Packet
      <4>2. registers[info.regID] \in Value
        BY <2>3, RegisterAssumption DEF Inv, FifoInv, TypeOK
      <4> QED
        BY <4>1, <4>2
    <3>2. PICK value \in (IF info.read # info.write THEN Value ELSE {written}) :
             response' = Response(info, value)
      BY <2>3 DEF Execute
    <3> QED
      BY <3>1, <3>2
  <2> QED
    BY <1>1, <2>1, <2>2, <2>3
<1> QED
  BY <1>2, <1>3, RegisterAssumption

(* Every step of the link is one of the responder, or leaves it alone. *)
LEMMA LinkStepsResponder ==
    ASSUME LinkTypes, [LinkNext]_linkVars
    PROVE  [Next]_vars
<1>1. CASE ReceiveByte
  <2>1. Head(toDevice) \in Byte
    BY <1>1 DEF ReceiveByte, LinkTypes
  <2> QED
    BY <1>1, <2>1 DEF ReceiveByte, Next
<1>2. CASE Process
  BY <1>2 DEF Process, Next
<1>3. CASE ReceiveError \/ Overrun \/ WriteRequest \/ ReadResponse \/ Timeout
           \/ LineNoise \/ Restart
  BY <1>3 DEF ReceiveError, Overrun, WriteRequest, ReadResponse, Timeout,
              LineNoise, Restart, deviceVars
<1>4. CASE UNCHANGED linkVars
  BY <1>4 DEF linkVars, deviceVars
<1> QED
  BY <1>1, <1>2, <1>3, <1>4 DEF LinkNext

(* A line that lost a byte, or had one spoiled, still carries bytes. *)
LEMMA SpoilFacts ==
    ASSUME NEW line \in Seq(Byte), line # <<>>, NEW other \in Spoil(line)
    PROVE  other \in Seq(Byte)
<1>1. Tail(line) \in Seq(Byte)
  BY HeadTailProperties
<1>2. \A byte \in Noise : <<byte>> \in Seq(Byte)
  BY LinkAssumption
<1>3. \A byte \in Noise : <<byte>> \o Tail(line) \in Seq(Byte)
  BY <1>1, <1>2, ConcatProperties
<1> QED
  BY <1>1, <1>3 DEF Spoil

(* What is read of a line, what is left of it, and what was written of a   *)
(* request when the initiator died.                                        *)
LEMMA CutFacts ==
    ASSUME NEW line \in Seq(Byte), NEW n \in 0..Len(line)
    PROVE  /\ SubSeq(line, 1, n) \in Seq(Byte)
           /\ Len(SubSeq(line, 1, n)) = n
           /\ \A i \in 1..n : SubSeq(line, 1, n)[i] = line[i]
           /\ SubSeq(line, n + 1, Len(line)) \in Seq(Byte)
           /\ Len(SubSeq(line, n + 1, Len(line))) = Len(line) - n
           /\ \A i \in 1..Len(line)-n : SubSeq(line, n + 1, Len(line))[i] = line[n + i]
<1>1. Len(line) \in Nat /\ \A i \in 1..Len(line) : line[i] \in Byte
  BY ElementOfSeq, LenProperties
<1>2. /\ SubSeq(line, 1, n) \in Seq(Byte)
      /\ Len(SubSeq(line, 1, n)) = IF 1 <= n THEN n - 1 + 1 ELSE 0
      /\ \A i \in 1..n-1+1 : SubSeq(line, 1, n)[i] = line[1 + i - 1]
  BY <1>1, SubSeqProperties
<1>3. /\ SubSeq(line, n + 1, Len(line)) \in Seq(Byte)
      /\ Len(SubSeq(line, n + 1, Len(line))) =
            IF n + 1 <= Len(line) THEN Len(line) - (n + 1) + 1 ELSE 0
      /\ \A i \in 1..Len(line)-(n+1)+1 :
            SubSeq(line, n + 1, Len(line))[i] = line[n + 1 + i - 1]
  BY <1>1, SubSeqProperties
<1> QED
  BY <1>1, <1>2, <1>3

(* The first frame that was received. *)
LEMMA AnswerIsFrame ==
    ASSUME toHost \in Seq(Byte), Len(toHost) >= FrameLen
    PROVE  /\ Answer \in Frame /\ PacketInfo[Answer] \in Packet
           /\ SubSeq(toHost, FrameLen + 1, Len(toHost)) \in Seq(Byte)
<1>1. FrameLen \in 0..Len(toHost)
  BY SizeAssumption, LenProperties
<1>2. Answer \in Seq(Byte) /\ Len(Answer) = FrameLen
  BY <1>1, CutFacts DEF Answer
<1>3. Answer \in Frame
  BY <1>2, FullBufferIsFrame
<1> QED
  BY <1>1, <1>3, CutFacts, DecodeAssumption

(* Types and the responder's invariant hold from the start, ... *)
LEMMA InitLink == LinkInit => LinkInv
<1> SUFFICES ASSUME LinkInit PROVE LinkInv
  OBVIOUS
<1>1. Inv
  BY InitInv DEF LinkInit
<1>2. LinkTypes
  <2>1. cache \in [RegID -> Value]
    BY RegisterAssumption DEF LinkInit
  <2> QED
    BY <2>1, LinkAssumption DEF LinkInit, LinkTypes
<1>3. AtMostOneWaits
  BY DEF LinkInit, Init, AtMostOneWaits
<1> QED
  BY <1>1, <1>2, <1>3 DEF LinkInv

(* ... and every step keeps them. *)
LEMMA NextTypes == LinkInv /\ [LinkNext]_linkVars => LinkTypes'
<1> SUFFICES ASSUME LinkInv, [LinkNext]_linkVars PROVE LinkTypes'
  OBVIOUS
<1> USE DEF LinkInv, LinkTypes, deviceVars, initiatorVars, faultVars
<1>1. \A request \in Request : request \in Packet
  BY RequestFacts
<1>2. toDevice # <<>> => Head(toDevice) \in Byte /\ Tail(toDevice) \in Seq(Byte)
  BY HeadTailProperties
<1>3. CASE ReceiveByte
  BY <1>2, <1>3 DEF ReceiveByte
<1>4. CASE ReceiveError
  BY <1>2, <1>4, LinkAssumption DEF ReceiveError
<1>5. CASE Overrun
  BY <1>2, <1>5 DEF Overrun
<1>6. CASE Process
  <2>1. toHost' \in Seq(Byte)
    <3>1. CASE toHost' = toHost
      BY <3>1
    <3>2. CASE requestFifoCount' < requestFifoCount /\ ~lost' /\ toHost' = toHost \o Encoded[response']
      <4>1. requestFifoCount > 0
        <5>1. requestFifoCount \in Nat /\ (requestFifoCount = 0 => requestFifoCount' = requestFifoCount)
          BY <1>6, OneCall, SizeAssumption DEF Process, Inv, FifoInv, TypeOK, fifoVars
        <5> QED
          BY <3>2, <5>1
      <4>2. response' \in Packet
        BY <1>6, <3>2, <4>1, OneCall, OneCallAnswers DEF Process
      <4> QED
        BY <3>2, <4>2, EncodedFacts, ConcatProperties
    <3> QED
      BY <1>6, <3>1, <3>2 DEF Process
  <2> QED
    BY <1>6, <2>1 DEF Process
<1>7. CASE WriteRequest
  <2>1. PICK request \in Request :
           toDevice' = toDevice \o Encoded[request] /\ asked' = request
    BY <1>7 DEF WriteRequest
  <2>2. toDevice' \in Seq(Byte)
    BY <1>1, <2>1, EncodedFacts, ConcatProperties
  <2> QED
    BY <1>7, <2>1, <2>2 DEF WriteRequest
<1>8. CASE ReadResponse
  <2>1. toHost' \in Seq(Byte) /\ PacketInfo[Answer].regData \in Value
    BY <1>8, AnswerIsFrame DEF ReadResponse, Packet
  <2>2. cache' \in [RegID -> Value]
    BY <1>8, <2>1 DEF ReadResponse
  <2> QED
    BY <1>8, <2>1, <2>2 DEF ReadResponse
<1>9. CASE Timeout
  BY <1>9, EmptySeq DEF Timeout
<1>10. CASE LineNoise
  <2>1. noise' \in 0..MaxNoise
    BY <1>10, LinkAssumption DEF LineNoise
  <2>2. toDevice' \in Seq(Byte) /\ toHost' \in Seq(Byte)
    BY <1>10, SpoilFacts DEF LineNoise
  <2> QED
    BY <1>10, <2>1, <2>2 DEF LineNoise
<1>11. CASE Restart
  <2>1. PICK sent \in 0..Len(toDevice) : toDevice' = SubSeq(toDevice, 1, sent) \o FlushPattern
    BY <1>11 DEF Restart
  <2>2. toDevice' \in Seq(Byte)
    BY <2>1, CutFacts, LinkAssumption, ConcatProperties
  <2>3. cache' \in [RegID -> Value]
    BY <1>11, RegisterAssumption DEF Restart
  <2> QED
    BY <1>11, <2>2, <2>3, EmptySeq DEF Restart
<1>12. CASE UNCHANGED linkVars
  BY <1>12 DEF linkVars, deviceVars
<1> QED
  BY <1>3, <1>4, <1>5, <1>6, <1>7, <1>8, <1>9, <1>10, <1>11, <1>12 DEF LinkNext

LEMMA NextLink == LinkInv /\ [LinkNext]_linkVars => LinkInv'
<1> SUFFICES ASSUME LinkInv, [LinkNext]_linkVars PROVE LinkInv'
  OBVIOUS
<1>1. LinkTypes'
  BY NextTypes
<1>2. Inv'
  BY LinkStepsResponder, NextInv DEF LinkInv
<1>3. requestFifoCount \in Nat /\ requestFifoCount <= 1
  BY SizeAssumption DEF LinkInv, AtMostOneWaits, Inv, FifoInv, TypeOK
<1>4. AtMostOneWaits'
  <2>1. CASE ReceiveByte
    <3>1. Head(toDevice) \in Byte /\ SSCP_handleRxByte(Head(toDevice))
      BY <2>1, HeadTailProperties DEF ReceiveByte, LinkInv, LinkTypes
    <3> QED
      BY <1>3, <2>1, <3>1, OneByte DEF ReceiveByte, LinkInv, AtMostOneWaits
  <2>2. CASE Process
    <3>1. requestFifoCount' = 0
      BY <1>3, <2>2, OneCall DEF Process, LinkInv, fifoVars
    <3> QED
      BY <3>1 DEF AtMostOneWaits
  <2>3. CASE ReceiveError
    BY <2>3 DEF ReceiveError, LinkInv, AtMostOneWaits, vars, fifoVars
  <2>4. CASE Overrun \/ WriteRequest \/ ReadResponse \/ Timeout \/ LineNoise \/ Restart
    BY <2>4 DEF Overrun, WriteRequest, ReadResponse, Timeout, LineNoise, Restart,
                LinkInv, AtMostOneWaits, deviceVars, vars, fifoVars
  <2>5. CASE UNCHANGED linkVars
    BY <2>5 DEF linkVars, LinkInv, AtMostOneWaits, deviceVars, vars, fifoVars
  <2> QED
    BY <2>1, <2>2, <2>3, <2>4, <2>5 DEF LinkNext
<1> QED
  BY <1>1, <1>2, <1>4 DEF LinkInv

(* A demo that empties its FIFO after each byte has one request waiting at *)
(* most, however many an initiator, or those before it, have sent, and     *)
(* whatever the line makes of them.                                        *)
THEOREM OneWaits == LinkSpec => []AtMostOneWaits
<1>1. LinkInv => AtMostOneWaits
  BY DEF LinkInv
<1> QED
  BY <1>1, InitLink, NextLink, PTL DEF LinkSpec
-----------------------------------------------------------------------------
(* An initiator that waits for its answer, on a line without noise: its    *)
(* operations do not fail, not even one that follows a restart.            *)

(* The request of the operation that is under way has in part been         *)
(* received, from its first byte on, and the rest is on the line; or all   *)
(* of it is on the line, after n bytes the last of which is an end byte.   *)
PartlyReceived ==
    /\ Len(rxByteRingBuffer) + Len(toDevice) = FrameLen
    /\ \A i \in 1..Len(rxByteRingBuffer) : rxByteRingBuffer[i] = Encoded[asked][i]
    /\ \A i \in 1..Len(toDevice) :
          toDevice[i] = Encoded[asked][Len(rxByteRingBuffer) + i]

Behind(n) ==
    /\ Len(toDevice) = n + FrameLen
    /\ toDevice[n] = EndByte
    /\ \A i \in 1..FrameLen : toDevice[n + i] = Encoded[asked][i]

OnItsWay == PartlyReceived \/ \E n \in 1..Len(toDevice) : Behind(n)

(* What was written, cut short or not, ends with an end byte, so that the  *)
(* framer of a line that is silent is at the start of a packet.            *)
LineEnds ==
    IF toDevice = <<>> THEN rxByteRingBuffer = <<>>
    ELSE toDevice[Len(toDevice)] = EndByte

(* While the initiator waits, its request is on its way, or one waits in   *)
(* the FIFO, or a response is there.                                       *)
Pending ==
    initiator = "reading" =>
        toHost # <<>> \/ requestFifoCount > 0 \/ OnItsWay

(* What was sent to the initiator are whole responses.                     *)
IsFrameAt(line, start) ==
    \E packet \in Packet :
        \A i \in 1..FrameLen : line[start + i] = Encoded[packet][i]

WholeFrames(line) ==
    \E n \in Nat :
        /\ Len(line) = n * FrameLen
        /\ \A k \in 0..n-1 : IsFrameAt(line, k * FrameLen)

PatientInv ==
    /\ noise = 0
    /\ mainThread # "halted" => LineEnds /\ Pending
    /\ WholeFrames(toHost)

(* What one byte does to the line and to the receive buffer. *)
LEMMA ReceiveFacts ==
    ASSUME LinkInv, ReceiveByte
    PROVE  /\ Len(toDevice) \in Nat \ {0} /\ Len(rxByteRingBuffer) \in 0..FrameLen-1
           /\ toDevice[1] \in Byte /\ SSCP_handleRxByte(toDevice[1])
           /\ toDevice' \in Seq(Byte) /\ Len(toDevice') = Len(toDevice) - 1
           /\ \A i \in 1..Len(toDevice)-1 : toDevice'[i] = toDevice[i + 1]
           /\ Len(rxByteRingBuffer) + 1 = FrameLen \/ toDevice[1] = EndByte =>
                 rxByteRingBuffer' = <<>>
           /\ Len(rxByteRingBuffer) + 1 # FrameLen /\ toDevice[1] # EndByte =>
                 /\ Len(rxByteRingBuffer') = Len(rxByteRingBuffer) + 1
                 /\ \A i \in 1..Len(rxByteRingBuffer) :
                       rxByteRingBuffer'[i] = rxByteRingBuffer[i]
                 /\ rxByteRingBuffer'[Len(rxByteRingBuffer) + 1] = toDevice[1]
           /\ Len(rxByteRingBuffer) + 1 # FrameLen => UNCHANGED fifoVars
           /\ requestFifoCount = 0 /\ requestFifoStatus # FULL
<1>1. toDevice \in Seq(Byte) /\ toDevice # <<>>
  BY DEF ReceiveByte, LinkInv, LinkTypes
<1>2. /\ Head(toDevice) = toDevice[1] /\ toDevice[1] \in Byte
      /\ Len(toDevice) \in Nat \ {0}
      /\ toDevice' \in Seq(Byte) /\ Len(toDevice') = Len(toDevice) - 1
      /\ \A i \in 1..Len(toDevice)-1 : toDevice'[i] = toDevice[i + 1]
  <2>1. toDevice' = Tail(toDevice)
    BY DEF ReceiveByte
  <2>2. Len(toDevice) \in Nat \ {0} /\ Head(toDevice) = toDevice[1]
    BY <1>1
  <2> QED
    BY <1>1, <2>1, <2>2, HeadTailProperties
<1>3. SSCP_handleRxByte(toDevice[1])
  BY <1>2 DEF ReceiveByte
<1> DEFINE received == Append(rxByteRingBuffer, toDevice[1])
<1>4. /\ rxByteRingBuffer \in Seq(Byte) /\ Len(rxByteRingBuffer) \in 0..FrameLen-1
      /\ Len(received) = Len(rxByteRingBuffer) + 1
      /\ \A i \in 1..Len(rxByteRingBuffer) : received[i] = rxByteRingBuffer[i]
      /\ received[Len(rxByteRingBuffer) + 1] = toDevice[1]
  <2>1. rxByteRingBuffer \in Seq(Byte) /\ Len(rxByteRingBuffer) < FrameLen
    BY DEF LinkInv, Inv, FifoInv, TypeOK
  <2> QED
    BY <1>2, <2>1, AppendProperties, LenProperties, SizeAssumption
<1> HIDE DEF received
<1>5. /\ rxByteRingBuffer' = IF Len(received) = FrameLen \/ toDevice[1] = EndByte
                             THEN <<>> ELSE received
      /\ Len(received) # FrameLen => UNCHANGED fifoVars
  BY <1>3 DEF SSCP_handleRxByte, received
<1>6. requestFifoCount = 0 /\ requestFifoStatus # FULL
  BY SizeAssumption DEF ReceiveByte, LinkInv, AtMostOneWaits, Inv, FifoInv,
                        FifoConsistent, EMPTY, FULL
<1> QED
  BY <1>2, <1>3, <1>4, <1>5, <1>6

(* The next byte of the request under way: its last one queues it. *)
LEMMA ReceivePartly ==
    ASSUME LinkInv, asked \in Request, ReceiveByte, PartlyReceived
    PROVE  \/ PartlyReceived' /\ UNCHANGED fifoVars
           \/ /\ rxByteRingBuffer' = <<>> /\ toDevice' = <<>>
              /\ requestFifoCount' = 1 /\ Waiting(1)' = Encoded[asked]
<1> DEFINE frame    == Encoded[asked]
           received == Append(rxByteRingBuffer, toDevice[1])
<1>1. /\ frame \in Frame /\ frame \in Seq(Byte) /\ Len(frame) = FrameLen
      /\ SSCP_decodePacket(frame) /\ PacketInfo[frame].deviceID = DeviceID
      /\ frame[FrameLen] = EndByte
      /\ \A i \in 1..FrameLen-1 : frame[i] # EndByte
  BY RequestFacts, EncodedFacts
<1>2. asked' = asked
  BY DEF ReceiveByte, initiatorVars
<1> HIDE DEF frame
<1>3. /\ Len(rxByteRingBuffer) + Len(toDevice) = FrameLen
      /\ \A i \in 1..Len(rxByteRingBuffer) : rxByteRingBuffer[i] = frame[i]
      /\ \A i \in 1..Len(toDevice) : toDevice[i] = frame[Len(rxByteRingBuffer) + i]
  BY DEF PartlyReceived, frame
<1>4. toDevice[1] = frame[Len(rxByteRingBuffer) + 1]
  BY <1>3, ReceiveFacts
<1>5. CASE Len(rxByteRingBuffer) + 1 # FrameLen
  <2>1. toDevice[1] # EndByte
    BY <1>1, <1>4, <1>5, ReceiveFacts
  <2>2. /\ Len(rxByteRingBuffer') + Len(toDevice') = FrameLen
        /\ \A i \in 1..Len(rxByteRingBuffer') : rxByteRingBuffer'[i] = frame[i]
        /\ \A i \in 1..Len(toDevice') :
              toDevice'[i] = frame[Len(rxByteRingBuffer') + i]
    <3>1. /\ Len(rxByteRingBuffer') = Len(rxByteRingBuffer) + 1
          /\ \A i \in 1..Len(rxByteRingBuffer) :
                rxByteRingBuffer'[i] = rxByteRingBuffer[i]
          /\ rxByteRingBuffer'[Len(rxByteRingBuffer) + 1] = toDevice[1]
      BY <1>5, <2>1, ReceiveFacts
    <3>2. /\ Len(rxByteRingBuffer) \in Nat /\ Len(toDevice) \in Nat \ {0}
          /\ Len(toDevice') = Len(toDevice) - 1
          /\ \A i \in 1..Len(toDevice)-1 : toDevice'[i] = toDevice[i + 1]
      BY ReceiveFacts, SizeAssumption
    <3>3. \A i \in 1..Len(rxByteRingBuffer') : rxByteRingBuffer'[i] = frame[i]
      <4> SUFFICES ASSUME NEW i \in 1..Len(rxByteRingBuffer) + 1
                   PROVE  rxByteRingBuffer'[i] = frame[i]
        BY <3>1
      <4>1. CASE i = Len(rxByteRingBuffer) + 1
        BY <1>4, <3>1, <4>1
      <4>2. CASE i \in 1..Len(rxByteRingBuffer)
        BY <1>3, <3>1, <4>2
      <4> QED
        BY <3>2, <4>1, <4>2
    <3>4. \A i \in 1..Len(toDevice') :
             toDevice'[i] = frame[Len(rxByteRingBuffer') + i]
      <4> SUFFICES ASSUME NEW i \in 1..Len(toDevice)-1
                   PROVE  toDevice'[i] = frame[Len(rxByteRingBuffer') + i]
        BY <3>2
      <4>1. /\ i + 1 \in 1..Len(toDevice)
            /\ Len(rxByteRingBuffer) + (i + 1) = Len(rxByteRingBuffer') + i
        BY <3>1, <3>2
      <4> QED
        BY <1>3, <3>2, <4>1
    <3> QED
      BY <1>3, <3>1, <3>2, <3>3, <3>4, SizeAssumption
  <2>3. UNCHANGED fifoVars
    BY <1>5, ReceiveFacts
  <2> QED
    BY <1>2, <2>2, <2>3 DEF PartlyReceived, frame
<1>6. CASE Len(rxByteRingBuffer) + 1 = FrameLen
  <2>1. /\ Len(toDevice) = 1 /\ Len(toDevice') = 0 /\ toDevice' \in Seq(Byte)
        /\ rxByteRingBuffer' = <<>>
    BY <1>3, <1>6, ReceiveFacts, SizeAssumption
  <2>2. toDevice' = <<>>
    BY <2>1, EmptySeq
  <2>3. received = frame
    <3>1. rxByteRingBuffer \in Seq(Byte)
      BY DEF LinkInv, Inv, FifoInv, TypeOK
    <3>2. /\ received \in Seq(Byte) /\ Len(received) = FrameLen
          /\ \A i \in 1..Len(rxByteRingBuffer) : received[i] = rxByteRingBuffer[i]
          /\ received[FrameLen] = toDevice[1]
      BY <1>6, <3>1, ReceiveFacts, AppendProperties
    <3>3. \A i \in 1..Len(received) : received[i] = frame[i]
      BY <1>3, <1>4, <1>6, <3>2, ReceiveFacts, SizeAssumption
    <3> QED
      BY <1>1, <3>2, <3>3, SeqEqual
  <2>4. ForThisDevice(received)
    BY <1>1, <2>3 DEF ForThisDevice, SSCP_decodePacket
  <2>5. SSCP_requestFifoPut(frame)
    <3>1. SSCP_handleRxByte(toDevice[1])
      BY ReceiveFacts
    <3> QED
      BY <1>1, <2>3, <2>4, <3>1 DEF SSCP_handleRxByte, received
  <2>6. /\ requestFifoCount' = 0 + 1
        /\ \A i \in 1..FifoSize : i = 0 + 1 => Waiting(i)' = frame
    BY <1>1, <2>5, PutAppends, ReceiveFacts DEF LinkInv, Inv
  <2> QED
    BY <2>1, <2>2, <2>6, SizeAssumption DEF frame
<1> QED
  BY <1>5, <1>6

(* A byte of what is on the line before the request. *)
LEMMA ReceiveBehind ==
    ASSUME LinkInv, asked \in Request, ReceiveByte,
           NEW n \in 1..Len(toDevice), Behind(n)
    PROVE  /\ IF n = 1 THEN PartlyReceived' ELSE Behind(n - 1)'
           /\ Len(rxByteRingBuffer) + n < FrameLen =>
                 /\ UNCHANGED fifoVars
                 /\ Len(rxByteRingBuffer') + (n - 1) < FrameLen
<1>1. asked' = asked
  BY DEF ReceiveByte, initiatorVars
<1>2. /\ Len(toDevice) = n + FrameLen /\ toDevice[n] = EndByte
      /\ \A i \in 1..FrameLen : toDevice[n + i] = Encoded[asked][i]
  BY DEF Behind
<1>3. CASE n = 1
  <2>1. rxByteRingBuffer' = <<>> /\ Len(rxByteRingBuffer') = 0
    BY <1>2, <1>3, ReceiveFacts, EmptySeq
  <2>2. PartlyReceived'
    BY <1>1, <1>2, <1>3, <2>1, ReceiveFacts, SizeAssumption DEF PartlyReceived
  <2> QED
    BY <1>3, <2>1, <2>2, ReceiveFacts, SizeAssumption
<1>4. CASE n # 1
  <2>1. n - 1 \in 1..Len(toDevice)-1
    BY <1>4, ReceiveFacts
  <2>2. toDevice'[n - 1] = toDevice[n]
    BY <2>1, ReceiveFacts
  <2>3. \A i \in 1..FrameLen : toDevice'[n - 1 + i] = toDevice[n + i]
    <3> SUFFICES ASSUME NEW i \in 1..FrameLen PROVE toDevice'[n - 1 + i] = toDevice[n + i]
      OBVIOUS
    <3>1. n - 1 + i \in 1..Len(toDevice)-1 /\ (n - 1 + i) + 1 = n + i
      BY <1>2, <2>1, SizeAssumption
    <3> QED
      BY <3>1, ReceiveFacts
  <2>4. Behind(n - 1)'
    <3>1. Len(toDevice') = n - 1 + FrameLen
      BY <1>2, ReceiveFacts, SizeAssumption
    <3> QED
      BY <1>1, <1>2, <2>2, <2>3, <3>1 DEF Behind
  <2>5. ASSUME Len(rxByteRingBuffer) + n < FrameLen
        PROVE  UNCHANGED fifoVars /\ Len(rxByteRingBuffer') + (n - 1) < FrameLen
    <3>1. Len(rxByteRingBuffer) + 1 # FrameLen
      BY <2>5, ReceiveFacts, SizeAssumption
    <3>2. CASE toDevice[1] = EndByte
      <4>1. Len(rxByteRingBuffer') = 0
        BY <3>2, ReceiveFacts, EmptySeq
      <4> QED
        BY <2>5, <3>1, <4>1, ReceiveFacts, SizeAssumption
    <3>3. CASE toDevice[1] # EndByte
      BY <2>5, <3>1, <3>3, ReceiveFacts, SizeAssumption
    <3> QED
      BY <3>2, <3>3
  <2> QED
    BY <1>4, <2>4, <2>5
<1> QED
  BY <1>3, <1>4

(* Whole frames: multiples of their length, ... *)
LEMMA Multiples ==
    ASSUME NEW k \in Nat, NEW n \in Nat
    PROVE  /\ k * FrameLen \in Nat /\ 0 * FrameLen = 0
           /\ (k + 1) * FrameLen = k * FrameLen + FrameLen
           /\ k < n => k * FrameLen + FrameLen <= n * FrameLen
<1>1. FrameLen \in Nat
  BY SizeAssumption
<1>2. (k + 1) * FrameLen = k * FrameLen + FrameLen
  BY <1>1
<1>3. ASSUME k < n PROVE k * FrameLen + FrameLen <= n * FrameLen
  <2>1. PICK d \in Nat : n = (k + 1) + d
    <3>1. n - (k + 1) \in Nat /\ n = (k + 1) + (n - (k + 1))
      BY <1>3
    <3> QED
      BY <3>1
  <2>2. n * FrameLen = (k + 1) * FrameLen + d * FrameLen
    BY <1>1, <2>1
  <2>3. d * FrameLen \in Nat /\ (k + 1) * FrameLen \in Nat
    BY <1>1, <2>1
  <2> QED
    BY <1>2, <2>2, <2>3
<1> QED
  BY <1>1, <1>2, <1>3

(* ... one more that is sent, ... *)
LEMMA SendFrame ==
    ASSUME NEW line \in Seq(Byte), WholeFrames(line), NEW packet \in Packet
    PROVE  WholeFrames(line \o Encoded[packet])
<1> DEFINE longer == line \o Encoded[packet]
<1>1. /\ Len(longer) = Len(line) + FrameLen
      /\ \A i \in 1..Len(line) : longer[i] = line[i]
      /\ \A i \in 1..FrameLen : longer[Len(line) + i] = Encoded[packet][i]
  <2>1. /\ Len(longer) = Len(line) + FrameLen
        /\ \A i \in 1..Len(line) + FrameLen :
              longer[i] = IF i <= Len(line) THEN line[i] ELSE Encoded[packet][i - Len(line)]
    <3> DEFINE frame == Encoded[packet]
    <3>1. frame \in Seq(Byte) /\ Len(frame) = FrameLen
      BY EncodedFacts
    <3> HIDE DEF frame
    <3>2. /\ Len(line \o frame) = Len(line) + Len(frame)
          /\ \A i \in 1..Len(line) + Len(frame) :
                (line \o frame)[i] = IF i <= Len(line) THEN line[i]
                                     ELSE frame[i - Len(line)]
      BY <3>1, ConcatProperties
    <3> QED
      BY <3>1, <3>2 DEF frame
  <2>2. Len(line) \in Nat
    BY LenProperties
  <2> QED
    BY <2>1, <2>2, SizeAssumption
<1> HIDE DEF longer
<1>2. PICK n \in Nat : /\ Len(line) = n * FrameLen
                       /\ \A k \in 0..n-1 : IsFrameAt(line, k * FrameLen)
  BY DEF WholeFrames
<1>3. Len(longer) = (n + 1) * FrameLen
  BY <1>1, <1>2, Multiples
<1>4. ASSUME NEW k \in 0..n PROVE IsFrameAt(longer, k * FrameLen)
  <2>1. CASE k = n
    BY <1>1, <1>2, <2>1 DEF IsFrameAt
  <2>2. CASE k \in 0..n-1
    <3>1. PICK p \in Packet :
             \A i \in 1..FrameLen : line[k * FrameLen + i] = Encoded[p][i]
      BY <1>2, <2>2 DEF IsFrameAt
    <3>2. k * FrameLen \in Nat /\ k * FrameLen + FrameLen <= Len(line)
      <4>1. k \in Nat /\ k < n
        BY <2>2
      <4>2. k * FrameLen \in Nat /\ k * FrameLen + FrameLen <= n * FrameLen
        BY <4>1, Multiples
      <4> QED
        BY <1>2, <4>2
    <3>3. \A i \in 1..FrameLen : k * FrameLen + i \in 1..Len(line)
      <4> DEFINE start == k * FrameLen
      <4>1. start \in Nat /\ start + FrameLen <= Len(line) /\ Len(line) \in Nat
        BY <3>2, LenProperties
      <4> HIDE DEF start
      <4>2. \A i \in 1..FrameLen : start + i \in 1..Len(line)
        BY <4>1, SizeAssumption
      <4> QED
        BY <4>2 DEF start
    <3>4. \A i \in 1..FrameLen : longer[k * FrameLen + i] = Encoded[p][i]
      BY <1>1, <3>1, <3>3
    <3> QED
      BY <3>4 DEF IsFrameAt
  <2> QED
    BY <2>1, <2>2
<1>5. n + 1 \in Nat /\ \A k \in 0..(n + 1)-1 : IsFrameAt(longer, k * FrameLen)
  BY <1>4
<1>6. WholeFrames(longer)
  BY <1>3, <1>5 DEF WholeFrames
<1> QED
  BY <1>6 DEF longer

(* ... and the first of them, which is read. *)
LEMMA ReadFrame ==
    ASSUME NEW line \in Seq(Byte), WholeFrames(line), line # <<>>
    PROVE  /\ Len(line) >= FrameLen /\ IsFrameAt(line, 0)
           /\ WholeFrames(SubSeq(line, FrameLen + 1, Len(line)))
<1> DEFINE rest == SubSeq(line, FrameLen + 1, Len(line))
<1>1. PICK n \in Nat : /\ Len(line) = n * FrameLen
                       /\ \A k \in 0..n-1 : IsFrameAt(line, k * FrameLen)
  BY DEF WholeFrames
<1>2. n # 0
  <2>1. Len(line) # 0
    BY EmptySeq
  <2> QED
    BY <1>1, <2>1, Multiples
<1>3. Len(line) >= FrameLen /\ IsFrameAt(line, 0)
  <2>1. 0 * FrameLen = 0 /\ 0 * FrameLen + FrameLen <= n * FrameLen
    BY <1>2, Multiples
  <2>2. IsFrameAt(line, 0 * FrameLen)
    BY <1>1, <1>2
  <2> QED
    BY <1>1, <2>1, <2>2, SizeAssumption
<1>4. /\ rest \in Seq(Byte) /\ Len(rest) = Len(line) - FrameLen
      /\ \A i \in 1..Len(line)-FrameLen : rest[i] = line[FrameLen + i]
  <2>1. FrameLen \in 0..Len(line)
    BY <1>3, SizeAssumption, LenProperties
  <2> QED
    BY <2>1, CutFacts
<1> HIDE DEF rest
<1>5. n - 1 \in Nat /\ Len(rest) = (n - 1) * FrameLen
  <2>1. n - 1 \in Nat /\ (n - 1) + 1 = n
    BY <1>2
  <2>2. n * FrameLen = (n - 1) * FrameLen + FrameLen /\ (n - 1) * FrameLen \in Nat
    BY <2>1, Multiples
  <2> QED
    BY <1>1, <1>4, <2>1, <2>2, SizeAssumption
<1>6. ASSUME NEW k \in 0..n-2 PROVE IsFrameAt(rest, k * FrameLen)
  <2>1. PICK p \in Packet :
           \A i \in 1..FrameLen : line[(k + 1) * FrameLen + i] = Encoded[p][i]
    <3>1. k + 1 \in 0..n-1
      BY <1>2
    <3> QED
      BY <1>1, <3>1 DEF IsFrameAt
  <2> DEFINE start == k * FrameLen
  <2>2. /\ start \in Nat /\ (k + 1) * FrameLen = start + FrameLen
        /\ start + FrameLen <= Len(line) - FrameLen
    <3>1. /\ k \in Nat /\ n - 1 \in Nat /\ k < n - 1
      BY <1>2
    <3>2. /\ start \in Nat /\ (k + 1) * FrameLen = start + FrameLen
          /\ start + FrameLen <= (n - 1) * FrameLen
      BY <3>1, Multiples
    <3> QED
      BY <1>4, <1>5, <3>2
  <2> HIDE DEF start
  <2>3. \A i \in 1..FrameLen : rest[start + i] = Encoded[p][i]
    <3> SUFFICES ASSUME NEW i \in 1..FrameLen PROVE rest[start + i] = Encoded[p][i]
      OBVIOUS
    <3>1. start + i \in 1..Len(line)-FrameLen
      BY <2>2, SizeAssumption, LenProperties
    <3>2. rest[start + i] = line[FrameLen + (start + i)]
      BY <1>4, <3>1
    <3>3. FrameLen + (start + i) = (start + FrameLen) + i
      BY <2>2, SizeAssumption
    <3> QED
      BY <2>1, <2>2, <3>2, <3>3
  <2> QED
    BY <2>3 DEF IsFrameAt, start
<1>7. WholeFrames(rest)
  <2>1. \A k \in 0..(n - 1)-1 : IsFrameAt(rest, k * FrameLen)
    BY <1>6
  <2> QED
    BY <1>5, <2>1 DEF WholeFrames
<1> QED
  BY <1>3, <1>7 DEF rest

(* What is read is decoded to the packet that was sent. *)
LEMMA AnswerIsDecoded ==
    ASSUME toHost \in Seq(Byte), Len(toHost) >= FrameLen, NEW packet \in Packet,
           \A i \in 1..FrameLen : toHost[0 + i] = Encoded[packet][i]
    PROVE  Answer = Encoded[packet] /\ Answered /\ PacketInfo[Answer] = packet
<1>1. FrameLen \in 0..Len(toHost)
  BY SizeAssumption, LenProperties
<1>2. /\ Answer \in Seq(Byte) /\ Len(Answer) = FrameLen
      /\ \A i \in 1..FrameLen : Answer[i] = toHost[i]
  BY <1>1, CutFacts DEF Answer
<1>3. \A i \in 1..Len(Answer) : Answer[i] = Encoded[packet][i]
  BY <1>2, SizeAssumption
<1>4. Answer = Encoded[packet]
  BY <1>2, <1>3, EncodedFacts, SeqEqual
<1> QED
  BY <1>4, EncodedFacts DEF Answered

LEMMA InitPatient == LinkInit => PatientInv
<1> SUFFICES ASSUME LinkInit PROVE PatientInv
  OBVIOUS
<1>1. toDevice # <<>> /\ toDevice[Len(toDevice)] = EndByte
  BY LinkAssumption DEF LinkInit
<1>2. WholeFrames(toHost)
  <2>1. 0 \in Nat /\ Len(<<>>) = 0 * FrameLen
    BY SizeAssumption
  <2> QED
    BY <2>1 DEF LinkInit, WholeFrames
<1> QED
  BY <1>1, <1>2 DEF LinkInit, PatientInv, LineEnds, Pending

(* A byte that is received keeps the request on its way, or queues it. *)
LEMMA ReceiveKeepsPatient ==
    ASSUME LinkInv, PatientInv, ReceiveByte
    PROVE  LineEnds' /\ Pending'
<1>1. LineEnds /\ Pending
  BY DEF ReceiveByte, PatientInv
<1>2. LineEnds'
  <2>1. toDevice' \in Seq(Byte) /\ Len(toDevice') = Len(toDevice) - 1
    BY ReceiveFacts
  <2>2. toDevice[Len(toDevice)] = EndByte
    BY <1>1 DEF LineEnds, ReceiveByte
  <2>3. CASE Len(toDevice) = 1
    <3>1. toDevice' = <<>> /\ rxByteRingBuffer' = <<>>
      BY <2>1, <2>2, <2>3, ReceiveFacts, EmptySeq
    <3> QED
      BY <3>1 DEF LineEnds
  <2>4. CASE Len(toDevice) # 1
    <3>1. Len(toDevice) - 1 \in 1..Len(toDevice)-1 /\ Len(toDevice) - 1 + 1 = Len(toDevice)
      BY <2>4, ReceiveFacts
    <3>2. toDevice'[Len(toDevice')] = EndByte
      BY <2>1, <2>2, <3>1, ReceiveFacts
    <3>3. toDevice' # <<>>
      BY <2>1, <3>1, EmptySeq
    <3> QED
      BY <3>2, <3>3 DEF LineEnds
  <2> QED
    BY <2>3, <2>4
<1>3. Pending'
  <2>1. SUFFICES ASSUME initiator' = "reading", toHost' = <<>>
                 PROVE  requestFifoCount' > 0 \/ OnItsWay'
    BY DEF Pending
  <2>2. initiator = "reading" /\ toHost = <<>> /\ requestFifoCount = 0
    BY <2>1, ReceiveFacts DEF ReceiveByte, initiatorVars
  <2>3. asked \in Request /\ OnItsWay
    BY <1>1, <2>2 DEF Pending, LinkInv, LinkTypes
  <2>4. CASE PartlyReceived
    <3>1. PartlyReceived' \/ requestFifoCount' = 1
      BY <2>3, <2>4, ReceivePartly
    <3> QED
      BY <3>1 DEF OnItsWay
  <2>5. ASSUME NEW n \in 1..Len(toDevice), Behind(n) PROVE OnItsWay'
    <3>1. IF n = 1 THEN PartlyReceived' ELSE Behind(n - 1)'
      BY <2>3, <2>5, ReceiveBehind
    <3>2. n # 1 => n - 1 \in 1..Len(toDevice')
      BY ReceiveFacts
    <3> QED
      BY <3>1, <3>2 DEF OnItsWay
  <2> QED
    BY <2>3, <2>4, <2>5 DEF OnItsWay
<1> QED
  BY <1>2, <1>3

(* A request that is written follows an end byte, or what the framer has   *)
(* received so far is nothing.                                             *)
LEMMA WriteKeepsPatient ==
    ASSUME LinkInv, LineEnds, WriteRequest
    PROVE  /\ LineEnds'
           /\ IF toDevice = <<>> THEN PartlyReceived'
              ELSE \A n \in Nat : n = Len(toDevice) => Behind(n)'
           /\ Len(toDevice') = Len(toDevice) + FrameLen
<1>1. PICK request \in Request :
         toDevice' = toDevice \o Encoded[request] /\ asked' = request
  BY DEF WriteRequest
<1> DEFINE frame == Encoded[request]
<1>2. frame \in Seq(Byte) /\ Len(frame) = FrameLen /\ frame[FrameLen] = EndByte
  BY RequestFacts, EncodedFacts
<1>3. frame = Encoded[asked']
  BY <1>1
<1> HIDE DEF frame
<1>4. /\ toDevice \in Seq(Byte) /\ Len(toDevice) \in Nat
      /\ toDevice' = toDevice \o frame
  BY <1>1, LenProperties DEF LinkInv, LinkTypes, frame
<1>5. /\ Len(toDevice') = Len(toDevice) + FrameLen
      /\ \A i \in 1..Len(toDevice) : toDevice'[i] = toDevice[i]
      /\ \A i \in 1..FrameLen : toDevice'[Len(toDevice) + i] = frame[i]
  <2>1. /\ Len(toDevice') = Len(toDevice) + Len(frame)
        /\ \A i \in 1..Len(toDevice) + Len(frame) :
              toDevice'[i] = IF i <= Len(toDevice) THEN toDevice[i]
                             ELSE frame[i - Len(toDevice)]
    BY <1>2, <1>4, ConcatProperties
  <2> QED
    BY <1>2, <1>4, <2>1, SizeAssumption
<1>6. rxByteRingBuffer' = rxByteRingBuffer
  BY DEF WriteRequest, deviceVars, vars, framerVars
<1>7. LineEnds'
  <2>1. toDevice' # <<>>
    BY <1>4, <1>5, SizeAssumption, EmptySeq
  <2>2. toDevice'[Len(toDevice')] = EndByte
    BY <1>2, <1>5, SizeAssumption
  <2> QED
    BY <2>1, <2>2 DEF LineEnds
<1>8. CASE toDevice = <<>>
  <2>1. Len(toDevice) = 0 /\ rxByteRingBuffer' = <<>> /\ Len(rxByteRingBuffer') = 0
    BY <1>6, <1>8, EmptySeq DEF LineEnds
  <2>2. PartlyReceived'
    BY <1>3, <1>4, <1>5, <2>1, SizeAssumption DEF PartlyReceived
  <2> QED
    BY <1>5, <1>7, <1>8, <2>2
<1>9. CASE toDevice # <<>>
  <2>1. Len(toDevice) \in 1..Len(toDevice) /\ toDevice[Len(toDevice)] = EndByte
    BY <1>4, <1>9, EmptySeq DEF LineEnds
  <2>2. toDevice'[Len(toDevice)] = EndByte
    BY <1>5, <2>1
  <2>3. ASSUME NEW n \in Nat, n = Len(toDevice) PROVE Behind(n)'
    BY <1>3, <1>5, <2>2, <2>3 DEF Behind
  <2> QED
    BY <1>5, <1>7, <1>9, <2>3
<1> QED
  BY <1>8, <1>9

LEMMA NextPatient ==
    ASSUME MaxNoise = 0, LinkInv, PatientInv, [LinkNext]_linkVars
    PROVE  PatientInv'
<1>0. MaxNoise = 0 /\ noise = 0
  BY DEF PatientInv
<1>1. CASE ReceiveByte
  <2>1. noise' = noise /\ toHost' = toHost
    BY <1>1 DEF ReceiveByte, faultVars
  <2> QED
    BY <1>1, <2>1, ReceiveKeepsPatient DEF PatientInv, WholeFrames, IsFrameAt
<1>2. CASE Process
  <2>1. /\ noise' = noise /\ toDevice' = toDevice /\ asked' = asked
        /\ initiator' = initiator /\ rxByteRingBuffer' = rxByteRingBuffer
        /\ mainThread = "process" /\ SSCP_process
    BY <1>2 DEF Process, SSCP_process, initiatorVars, faultVars, framerVars
  <2>2. requestFifoCount \in Nat
    BY SizeAssumption DEF LinkInv, Inv, FifoInv, TypeOK
  <2>3. WholeFrames(toHost)'
    <3>1. CASE toHost' = toHost
      BY <3>1 DEF PatientInv, WholeFrames, IsFrameAt
    <3>2. CASE toHost' # toHost
      <4>1. /\ requestFifoCount' < requestFifoCount /\ ~lost'
            /\ toHost' = toHost \o Encoded[response']
        BY <1>2, <3>2 DEF Process
      <4>2. requestFifoCount > 0
        BY <2>1, <2>2, <4>1, OneCall DEF LinkInv, fifoVars
      <4>3. response' \in Packet
        BY <2>1, <4>1, <4>2, OneCallAnswers DEF LinkInv
      <4>4. WholeFrames(toHost \o Encoded[response'])
        BY <4>3, SendFrame DEF LinkInv, LinkTypes, PatientInv
      <4> QED
        BY <4>1, <4>4 DEF WholeFrames, IsFrameAt
    <3> QED
      BY <3>1, <3>2
  <2>4. ASSUME mainThread' # "halted" PROVE LineEnds' /\ Pending'
    <3>1. LineEnds /\ Pending /\ ~lost'
      BY <1>2, <2>1, <2>4 DEF PatientInv, Process
    <3>2. CASE requestFifoCount = 0
      <4>1. requestFifoCount' = requestFifoCount /\ toHost' = toHost
        BY <1>2, <2>1, <3>2, OneCall DEF LinkInv, fifoVars, Process
      <4> QED
        BY <2>1, <3>1, <4>1 DEF LineEnds, Pending, OnItsWay, PartlyReceived, Behind
    <3>3. CASE requestFifoCount > 0
      <4>1. requestFifoCount' < requestFifoCount /\ response' \in Packet
        BY <2>1, <2>2, <3>1, <3>3, OneCall, OneCallAnswers DEF LinkInv
      <4>2. toHost' = toHost \o Encoded[response']
        BY <1>2, <3>1, <4>1 DEF Process
      <4>3. toHost' # <<>>
        <5>1. /\ toHost \in Seq(Byte) /\ Encoded[response'] \in Seq(Byte)
              /\ Len(Encoded[response']) = FrameLen
          BY <4>1, EncodedFacts DEF LinkInv, LinkTypes
        <5>2. Len(toHost') = Len(toHost) + FrameLen /\ Len(toHost) \in Nat
          BY <4>2, <5>1, ConcatProperties, LenProperties
        <5> QED
          BY <5>2, SizeAssumption, EmptySeq
      <4> QED
        BY <2>1, <3>1, <4>3 DEF LineEnds, Pending
    <3> QED
      BY <2>2, <3>2, <3>3
  <2> QED
    BY <1>0, <2>1, <2>3, <2>4 DEF PatientInv
<1>3. CASE WriteRequest
  <2>1. /\ noise' = noise /\ toHost' = toHost /\ mainThread' = mainThread
    BY <1>3 DEF WriteRequest, faultVars, deviceVars
  <2>2. ASSUME mainThread # "halted" PROVE LineEnds' /\ Pending'
    <3>1. LineEnds
      BY <2>2 DEF PatientInv
    <3>2. /\ LineEnds'
          /\ IF toDevice = <<>> THEN PartlyReceived'
             ELSE \A n \in Nat : n = Len(toDevice) => Behind(n)'
          /\ Len(toDevice') = Len(toDevice) + FrameLen
      BY <1>3, <3>1, WriteKeepsPatient
    <3>3. toDevice # <<>> => Len(toDevice) \in Nat \ {0}
      BY LenProperties, EmptySeq DEF LinkInv, LinkTypes
    <3>4. OnItsWay'
      <4>1. ASSUME toDevice # <<>>
            PROVE  \E n \in Nat : n \in 1..Len(toDevice') /\ Behind(n)'
        <5>1. Len(toDevice) \in 1..Len(toDevice')
          BY <3>2, <3>3, <4>1, SizeAssumption
        <5> QED
          BY <3>2, <3>3, <4>1, <5>1
      <4> QED
        BY <3>2, <4>1 DEF OnItsWay
    <3> QED
      BY <3>2, <3>4 DEF Pending
  <2> QED
    BY <2>1, <2>2 DEF PatientInv, WholeFrames, IsFrameAt
<1>4. CASE ReadResponse
  <2>1. /\ noise' = noise /\ mainThread' = mainThread /\ toDevice' = toDevice
        /\ rxByteRingBuffer' = rxByteRingBuffer /\ initiator' = "idle"
        /\ toHost' = SubSeq(toHost, FrameLen + 1, Len(toHost))
        /\ Len(toHost) >= FrameLen
    BY <1>4 DEF ReadResponse, faultVars, deviceVars, vars, framerVars
  <2>2. toHost # <<>>
    BY <2>1, SizeAssumption, EmptySeq
  <2>3. WholeFrames(SubSeq(toHost, FrameLen + 1, Len(toHost)))
    BY <2>2, ReadFrame DEF LinkInv, LinkTypes, PatientInv
  <2>4. WholeFrames(toHost)'
    BY <2>1, <2>3 DEF WholeFrames, IsFrameAt
  <2> QED
    BY <2>1, <2>4 DEF PatientInv, LineEnds, Pending
<1>5. ASSUME noise' = noise, toHost' = <<>>, initiator' = "idle",
             mainThread' # "halted" => LineEnds'
      PROVE  PatientInv'
  <2>1. 0 \in Nat /\ Len(<<>>) = 0 * FrameLen
    BY SizeAssumption
  <2>2. WholeFrames(toHost)'
    BY <1>5, <2>1 DEF WholeFrames
  <2> QED
    BY <1>5, <2>2 DEF PatientInv, Pending
<1>6. CASE Timeout
  <2>1. /\ noise' = noise /\ toHost' = <<>> /\ initiator' = "idle"
        /\ mainThread' = mainThread /\ toDevice' = toDevice
        /\ rxByteRingBuffer' = rxByteRingBuffer
    BY <1>6 DEF Timeout, faultVars, deviceVars, vars, framerVars
  <2> QED
    BY <1>5, <2>1 DEF PatientInv, LineEnds
<1>7. CASE Restart
  <2>1. PICK sent \in 0..Len(toDevice) :
           toDevice' = SubSeq(toDevice, 1, sent) \o FlushPattern
    BY <1>7 DEF Restart
  <2> DEFINE written == SubSeq(toDevice, 1, sent)
  <2>2. written \in Seq(Byte) /\ Len(written) \in Nat
    BY CutFacts, LenProperties DEF LinkInv, LinkTypes
  <2> HIDE DEF written
  <2>3. /\ Len(toDevice') = Len(written) + Len(FlushPattern)
        /\ \A i \in 1..Len(written) + Len(FlushPattern) :
              toDevice'[i] = IF i <= Len(written) THEN written[i]
                             ELSE FlushPattern[i - Len(written)]
    BY <2>1, <2>2, LinkAssumption, ConcatProperties DEF written
  <2>4. Len(FlushPattern) \in Nat \ {0} /\ FlushPattern[Len(FlushPattern)] = EndByte
    BY LinkAssumption, SizeAssumption
  <2>5. toDevice'[Len(toDevice')] = EndByte
    <3>1. /\ Len(toDevice') \in 1..Len(written) + Len(FlushPattern)
          /\ ~(Len(toDevice') <= Len(written))
          /\ Len(toDevice') - Len(written) = Len(FlushPattern)
      BY <2>2, <2>3, <2>4
    <3> QED
      BY <2>3, <2>4, <3>1
  <2>6. toDevice' # <<>>
    BY <2>2, <2>3, <2>4, EmptySeq
  <2>7. LineEnds'
    BY <2>5, <2>6 DEF LineEnds
  <2> QED
    BY <1>5, <1>7, <2>7 DEF Restart
<1>8. CASE Overrun
  <2>1. /\ noise' = noise /\ toHost' = toHost /\ mainThread' = "halted"
    BY <1>8 DEF Overrun, faultVars, deviceVars
  <2> QED
    BY <2>1 DEF PatientInv, WholeFrames, IsFrameAt
<1>9. ~ReceiveError /\ ~LineNoise
  BY <1>0 DEF ReceiveError, LineNoise
<1>10. CASE UNCHANGED linkVars
  BY <1>10 DEF linkVars, deviceVars, vars, framerVars, fifoVars, initiatorVars, faultVars,
       PatientInv, LineEnds, Pending, OnItsWay, PartlyReceived, Behind, WholeFrames, IsFrameAt
<1> QED
  BY <1>1, <1>2, <1>3, <1>4, <1>6, <1>7, <1>8, <1>9, <1>10 DEF LinkNext

(* On a line without noise no operation of a patient initiator fails while *)
(* the responder runs, however often the initiator was killed in the       *)
(* middle of a write and started again: the flush pattern, and nothing     *)
(* else, separates what it asks from what the last one left.               *)
THEOREM FlushRecovers ==
    MaxNoise = 0 /\ ~Impatient => (LinkSpec => RecoversFromNoise)
<1> SUFFICES ASSUME MaxNoise = 0, ~Impatient PROVE LinkSpec => RecoversFromNoise
  OBVIOUS
<1>1. LinkInv /\ PatientInv /\ [LinkNext]_linkVars =>
         (Timeout \/ (ReadResponse /\ ~Answered) => mainThread = "halted")
  <2> SUFFICES ASSUME LinkInv, PatientInv, mainThread # "halted"
               PROVE  ~Timeout /\ ~(ReadResponse /\ ~Answered)
    OBVIOUS
  <2>1. toHost \in Seq(Byte) /\ WholeFrames(toHost) /\ Pending
    BY DEF LinkInv, LinkTypes, PatientInv
  <2>2. toHost # <<>> => Len(toHost) >= FrameLen /\ IsFrameAt(toHost, 0)
    BY <2>1, ReadFrame
  <2>3. ASSUME Timeout PROVE FALSE
    <3>1. /\ initiator = "reading" /\ Len(toHost) < FrameLen
          /\ toDevice = <<>> /\ requestFifoStatus = EMPTY
      BY <2>3 DEF Timeout, Quiet
    <3>2. Len(toHost) \in Nat /\ Len(rxByteRingBuffer) \in Nat
          /\ Len(rxByteRingBuffer) < FrameLen
      BY <2>1, LenProperties DEF LinkInv, Inv, FifoInv, TypeOK
    <3>3. toHost = <<>>
      BY <2>2, <3>1, <3>2, SizeAssumption
    <3>4. requestFifoCount = 0
      BY <3>1 DEF LinkInv, Inv, FifoInv, FifoConsistent
    <3>5. OnItsWay /\ Len(toDevice) = 0
      BY <2>1, <3>1, <3>3, <3>4 DEF Pending
    <3>6. ~PartlyReceived
      BY <3>2, <3>5, SizeAssumption DEF PartlyReceived
    <3> QED
      BY <3>5, <3>6 DEF OnItsWay
  <2>4. ASSUME ReadResponse PROVE Answered
    <3>1. Len(toHost) >= FrameLen /\ toHost # <<>>
      BY <2>4, SizeAssumption, EmptySeq DEF ReadResponse
    <3>2. PICK packet \in Packet :
             \A i \in 1..FrameLen : toHost[0 + i] = Encoded[packet][i]
      BY <2>2, <3>1 DEF IsFrameAt
    <3> QED
      BY <2>1, <3>1, <3>2, AnswerIsDecoded
  <2> QED
    BY <2>3, <2>4
<1>2. PatientInv /\ LinkInv /\ [LinkNext]_linkVars => PatientInv'
  BY NextPatient
<1> QED
  BY <1>1, <1>2, InitLink, NextLink, InitPatient, PTL DEF LinkSpec, RecoversFromNoise
-----------------------------------------------------------------------------
(* The first initiator at the port gets the answer to what it asked.       *)

(* Before any restart: no request yet, or the last operation has ended; it *)
(* has been written; it waits in the FIFO; it was answered.                *)
Resting ==
    /\ initiator = "idle" /\ toHost = <<>> /\ requestFifoCount = 0
    /\ Len(rxByteRingBuffer) + Len(toDevice) < FrameLen

Written ==
    /\ initiator = "reading" /\ toHost = <<>> /\ requestFifoCount = 0
    /\ \/ PartlyReceived
       \/ \E n \in 1..Len(toDevice) : Behind(n) /\ Len(rxByteRingBuffer) + n < FrameLen

Queued ==
    /\ initiator = "reading" /\ toHost = <<>>
    /\ rxByteRingBuffer = <<>> /\ toDevice = <<>>
    /\ requestFifoCount = 1 /\ Waiting(1) = Encoded[asked]

Served ==
    /\ initiator = "reading" /\ requestFifoCount = 0
    /\ rxByteRingBuffer = <<>> /\ toDevice = <<>>
    /\ response \in Packet /\ toHost = Encoded[response]
    /\ response = Response(asked, response.regData)
    /\ asked.read = 1 => response.regData = registers[asked.regID]

FirstInv ==
    restarts = 0 =>
        /\ mainThread # "halted"
        /\ Resting \/ Written \/ Queued \/ Served

LEMMA InitFirst == LinkInit => FirstInv
<1> SUFFICES ASSUME LinkInit PROVE Resting /\ mainThread # "halted"
  BY DEF FirstInv
<1>1. Len(rxByteRingBuffer) + Len(toDevice) < FrameLen
  BY LinkAssumption, SizeAssumption, EmptySeq DEF LinkInit, Init
<1> QED
  BY <1>1 DEF LinkInit, Init, Resting

LEMMA ReceiveKeepsFirst ==
    ASSUME LinkInv, LineEnds, ReceiveByte,
           Resting \/ Written \/ Queued \/ Served
    PROVE  (Resting \/ Written \/ Queued)'
<1>1. /\ initiator' = initiator /\ toHost' = toHost /\ asked' = asked
  BY DEF ReceiveByte, initiatorVars
<1>2. Resting \/ Written
  <2>1. toDevice # <<>> /\ Len(toDevice) # 0
    BY ReceiveFacts DEF ReceiveByte
  <2> QED
    BY <2>1 DEF Queued, Served
<1>3. CASE Resting
  <2>1. /\ Len(rxByteRingBuffer) + 1 # FrameLen
        /\ Len(rxByteRingBuffer') + Len(toDevice') < FrameLen
    <3>1. Len(rxByteRingBuffer) + Len(toDevice) < FrameLen
      BY <1>3 DEF Resting
    <3>2. Len(rxByteRingBuffer) + 1 # FrameLen
      BY <3>1, ReceiveFacts, SizeAssumption
    <3>3. Len(rxByteRingBuffer') \in {0, Len(rxByteRingBuffer) + 1}
      BY <3>2, ReceiveFacts, EmptySeq
    <3> QED
      BY <3>1, <3>2, <3>3, ReceiveFacts, SizeAssumption
  <2>2. requestFifoCount' = 0
    BY <2>1, ReceiveFacts DEF fifoVars
  <2> QED
    BY <1>1, <1>3, <2>1, <2>2 DEF Resting
<1>4. CASE Written
  <2>1. /\ asked \in Request /\ initiator = "reading" /\ toHost = <<>>
    BY <1>4 DEF Written, LinkInv, LinkTypes
  <2>2. CASE PartlyReceived
    <3>1. \/ PartlyReceived' /\ UNCHANGED fifoVars
          \/ /\ rxByteRingBuffer' = <<>> /\ toDevice' = <<>>
             /\ requestFifoCount' = 1 /\ Waiting(1)' = Encoded[asked]
      BY <2>1, <2>2, ReceivePartly
    <3> QED
      BY <1>1, <1>4, <2>1, <3>1 DEF Written, Queued, fifoVars
  <2>3. ASSUME NEW n \in 1..Len(toDevice), Behind(n),
               Len(rxByteRingBuffer) + n < FrameLen
        PROVE  Written'
    <3>1. /\ IF n = 1 THEN PartlyReceived' ELSE Behind(n - 1)'
          /\ UNCHANGED fifoVars /\ Len(rxByteRingBuffer') + (n - 1) < FrameLen
      BY <2>1, <2>3, ReceiveBehind
    <3>2. n # 1 => n - 1 \in 1..Len(toDevice')
      BY ReceiveFacts
    <3> QED
      BY <1>1, <1>4, <2>1, <3>1, <3>2 DEF Written, fifoVars
  <2> QED
    BY <1>4, <2>2, <2>3 DEF Written
<1> QED
  BY <1>2, <1>3, <1>4

(* The request of the initiator is carried out, and answered. *)
LEMMA ProcessKeepsFirst ==
    ASSUME Callbacks = RegID, LinkInv, Process,
           Resting \/ Written \/ Queued \/ Served
    PROVE  (Resting \/ Written \/ Served)' /\ mainThread' # "halted"
<1>1. /\ initiator' = initiator /\ toDevice' = toDevice /\ asked' = asked
      /\ rxByteRingBuffer' = rxByteRingBuffer /\ SSCP_process
      /\ mainThread' = IF lost' THEN "halted" ELSE "read"
      /\ toHost' = IF requestFifoCount' < requestFifoCount /\ ~lost'
                   THEN toHost \o Encoded[response'] ELSE toHost
  BY DEF Process, SSCP_process, initiatorVars, framerVars
<1>2. CASE Resting \/ Written \/ Served
  <2>1. /\ requestFifoCount' = requestFifoCount /\ toHost' = toHost /\ ~lost'
        /\ response' = response /\ registers' = registers
    BY <1>1, <1>2, OneCall DEF LinkInv, Resting, Written, Served, fifoVars
  <2> QED
    BY <1>1, <1>2, <2>1 DEF Resting, Written, Served, PartlyReceived, Behind
<1>3. CASE Queued
  <2> DEFINE info == PacketInfo[Waiting(1)]
  <2>1. asked \in Request /\ asked \in Packet /\ asked.regID \in RegID
    BY <1>3, RequestFacts DEF Queued, LinkInv, LinkTypes
  <2>2. info = asked
    BY <1>3, <2>1, EncodedFacts DEF Queued
  <2>3. requestFifoCount' = 0 /\ Execute(asked) /\ ~lost
    BY <1>1, <1>3, <2>1, <2>2, OneCall DEF Queued, LinkInv
  <2>4. ~lost'
    BY <2>3 DEF Execute
  <2>5. response' \in Packet
    BY <1>1, <1>3, <2>4, OneCallAnswers DEF Queued, LinkInv
  <2>6. PICK value : /\ registers' = [registers EXCEPT ![asked.regID] = value]
                     /\ response' = Response(asked, value)
    BY <2>1, <2>3 DEF Execute
  <2>7. registers'[asked.regID] = value
    BY <2>1, <2>6 DEF LinkInv, Inv, FifoInv, TypeOK
  <2>8. asked.read = 1 => response'.regData = value
    BY <2>1, <2>6 DEF Response, Packet
  <2>9. response' = Response(asked, response'.regData)
    BY <2>1, <2>6 DEF Response, Packet
  <2>10. toHost' = Encoded[response']
    <3>1. toHost' = <<>> \o Encoded[response']
      BY <1>1, <1>3, <2>3, <2>4 DEF Queued
    <3>2. Encoded[response'] \in Seq(Byte)
      BY <2>5, EncodedFacts
    <3> QED
      BY <3>1, <3>2, ConcatEmptySeq
  <2>11. Served'
    BY <1>1, <1>3, <2>3, <2>5, <2>7, <2>8, <2>9, <2>10 DEF Served, Queued
  <2> QED
    BY <1>1, <2>4, <2>11
<1> QED
  BY <1>2, <1>3

(* It has the answer to its own request if a response is there. *)
LEMMA FirstAnswer ==
    ASSUME LinkInv, Resting \/ Written \/ Queued \/ Served, ReadResponse
    PROVE  /\ Served /\ Answered /\ Answer = Encoded[response]
           /\ PacketInfo[Answer] = response
           /\ SubSeq(toHost, FrameLen + 1, Len(toHost)) = <<>>
<1>1. Len(toHost) >= FrameLen /\ toHost # <<>>
  BY SizeAssumption, EmptySeq DEF ReadResponse
<1>2. Served
  BY <1>1 DEF Resting, Written, Queued
<1>3. response \in Packet /\ toHost = Encoded[response]
  BY <1>2 DEF Served
<1>4. toHost \in Seq(Byte) /\ Len(toHost) = FrameLen
  BY <1>3, EncodedFacts
<1>5. \A i \in 1..FrameLen : toHost[0 + i] = Encoded[response][i]
  BY <1>3
<1>6. Answer = Encoded[response] /\ Answered /\ PacketInfo[Answer] = response
  BY <1>1, <1>3, <1>4, <1>5, AnswerIsDecoded
<1>7. SubSeq(toHost, FrameLen + 1, Len(toHost)) = <<>>
  BY <1>4, SizeAssumption, SubSeqEmpty
<1> QED
  BY <1>2, <1>6, <1>7

LEMMA NextFirst ==
    ASSUME MaxNoise = 0, ~Impatient, Callbacks = RegID,
           LinkInv, PatientInv, FirstInv, [LinkNext]_linkVars
    PROVE  FirstInv'
<1> SUFFICES ASSUME restarts' = 0
             PROVE  mainThread' # "halted" /\ (Resting \/ Written \/ Queued \/ Served)'
  BY DEF FirstInv
<1>0. MaxNoise = 0 /\ noise = 0 /\ ~Impatient /\ Callbacks = RegID
  BY DEF PatientInv
<1>1. ~Restart
  BY DEF Restart, LinkInv, LinkTypes
<1>2. restarts = 0
  BY <1>1 DEF LinkNext, linkVars, faultVars, ReceiveByte, ReceiveError, Overrun,
       Process, WriteRequest, ReadResponse, Timeout, LineNoise
<1>3. mainThread # "halted" /\ (Resting \/ Written \/ Queued \/ Served) /\ LineEnds
  BY <1>2 DEF FirstInv, PatientInv
<1>4. CASE ReceiveByte
  <2>1. (Resting \/ Written \/ Queued)'
    BY <1>3, <1>4, ReceiveKeepsFirst
  <2> QED
    BY <1>4, <2>1 DEF ReceiveByte
<1>5. CASE Process
  BY <1>0, <1>3, <1>5, ProcessKeepsFirst
<1>6. CASE WriteRequest
  <2>1. /\ mainThread' = mainThread /\ toHost' = toHost /\ initiator' = "reading"
        /\ requestFifoCount' = requestFifoCount /\ rxByteRingBuffer' = rxByteRingBuffer
    BY <1>6 DEF WriteRequest, deviceVars, vars, framerVars, fifoVars
  <2>2. /\ toHost = <<>> /\ requestFifoCount = 0
        /\ Len(rxByteRingBuffer) + Len(toDevice) < FrameLen
    BY <1>3, <1>6 DEF Resting, Written, Queued, Served, WriteRequest
  <2>3. /\ IF toDevice = <<>> THEN PartlyReceived'
           ELSE \A n \in Nat : n = Len(toDevice) => Behind(n)'
        /\ Len(toDevice') = Len(toDevice) + FrameLen
    BY <1>3, <1>6, WriteKeepsPatient
  <2>4. toDevice # <<>> => Len(toDevice) \in Nat \ {0}
    BY LenProperties, EmptySeq DEF LinkInv, LinkTypes
  <2>5. ASSUME toDevice # <<>>
        PROVE  \E n \in 1..Len(toDevice') : Behind(n)' /\ Len(rxByteRingBuffer') + n < FrameLen
    <3>1. Len(toDevice) \in 1..Len(toDevice')
      BY <2>3, <2>4, <2>5, SizeAssumption
    <3> QED
      BY <2>1, <2>2, <2>3, <2>4, <2>5, <3>1
  <2>6. Written'
    BY <2>1, <2>2, <2>3, <2>5 DEF Written
  <2> QED
    BY <1>3, <2>1, <2>6
<1>7. CASE ReadResponse
  <2>1. Served /\ SubSeq(toHost, FrameLen + 1, Len(toHost)) = <<>>
    BY <1>3, <1>7, FirstAnswer
  <2>2. Resting'
    BY <1>7, <2>1, SizeAssumption, EmptySeq
    DEF ReadResponse, Served, Resting, deviceVars, vars, framerVars, fifoVars
  <2> QED
    BY <1>3, <1>7, <2>2 DEF ReadResponse, deviceVars
<1>8. ~Timeout
  <2> SUFFICES ASSUME Timeout PROVE FALSE
    OBVIOUS
  <2>1. /\ initiator = "reading" /\ Len(toHost) < FrameLen
        /\ toDevice = <<>> /\ requestFifoStatus = EMPTY
    BY <1>0, <1>3 DEF Timeout, Quiet
  <2>2. requestFifoCount = 0 /\ Len(toDevice) = 0
    BY <2>1, EmptySeq DEF LinkInv, Inv, FifoInv, FifoConsistent
  <2>3. ~Resting /\ ~Queued
    BY <2>1, <2>2 DEF Resting, Queued
  <2>4. ~Served
    BY <2>1, EncodedFacts, SizeAssumption DEF Served
  <2>5. Len(rxByteRingBuffer) \in Nat /\ Len(rxByteRingBuffer) < FrameLen
    BY LenProperties DEF LinkInv, Inv, FifoInv, TypeOK
  <2>6. ~Written
    BY <2>2, <2>5, SizeAssumption DEF Written, PartlyReceived
  <2> QED
    BY <1>3, <2>3, <2>4, <2>6
<1>9. ~ReceiveError /\ ~LineNoise /\ ~Overrun
  BY <1>0, <1>3 DEF ReceiveError, LineNoise, Overrun
<1>10. CASE UNCHANGED linkVars
  BY <1>3, <1>10 DEF linkVars, deviceVars, vars, framerVars, fifoVars, serverVars,
       initiatorVars, faultVars, Resting, Written, Queued, Served,
       PartlyReceived, Behind, Waiting, Slot
<1> QED
  BY <1>1, <1>4, <1>5, <1>6, <1>7, <1>8, <1>9, <1>10 DEF LinkNext

(* A patient initiator, the first at its port, on a line without noise:    *)
(* the response that it takes, unseen, for the answer to its request is    *)
(* that answer, and what it then holds is what the register holds.  The    *)
(* responder's registers have callbacks, as the demo's have: the value of  *)
(* one without is never loaded.                                            *)
THEOREM AnswersAreRight ==
    MaxNoise = 0 /\ ~Impatient /\ Callbacks = RegID => (LinkSpec => AnswersMatch)
<1> SUFFICES ASSUME MaxNoise = 0, ~Impatient, Callbacks = RegID
             PROVE  LinkSpec => AnswersMatch
  OBVIOUS
<1>1. LinkInv /\ FirstInv /\ [LinkNext]_linkVars =>
         (ReadResponse /\ Answered /\ restarts = 0 =>
            /\ PacketInfo[Answer] = response
            /\ response = Response(asked, response.regData)
            /\ asked.read = 1 => cache'[asked.regID] = registers[asked.regID])
  <2> SUFFICES ASSUME LinkInv, FirstInv, ReadResponse, Answered, restarts = 0
               PROVE  /\ PacketInfo[Answer] = response
                      /\ response = Response(asked, response.regData)
                      /\ asked.read = 1 => cache'[asked.regID] = registers[asked.regID]
    OBVIOUS
  <2>1. Served /\ PacketInfo[Answer] = response
    BY FirstAnswer DEF FirstInv
  <2>2. /\ response = Response(asked, response.regData) /\ response \in Packet
        /\ asked.read = 1 => response.regData = registers[asked.regID]
        /\ asked \in Request
    BY <2>1 DEF Served, LinkInv, LinkTypes
  <2>3. response.regID = asked.regID /\ asked.regID \in RegID
    BY <2>2, RequestFacts DEF Response, Packet
  <2>4. ASSUME asked.read = 1 PROVE cache'[asked.regID] = registers[asked.regID]
    <3>1. cache' = [cache EXCEPT ![response.regID] = response.regData]
      BY <2>1, <2>3, <2>4 DEF ReadResponse
    <3> QED
      BY <2>2, <2>3, <2>4, <3>1 DEF LinkInv, LinkTypes
  <2> QED
    BY <2>1, <2>2, <2>4
<1>2. LinkInv /\ PatientInv /\ [LinkNext]_linkVars => PatientInv'
  BY NextPatient
<1>3. LinkInv /\ PatientInv /\ FirstInv /\ [LinkNext]_linkVars => FirstInv'
  BY NextFirst
<1> QED
  BY <1>1, <1>2, <1>3, InitLink, NextLink, InitPatient, InitFirst, PTL
  DEF LinkSpec, AnswersMatch
=============================================================================
