------------------------ MODULE BleResponder_proofs ------------------------
(***************************************************************************)
(* What holds of the BLE responder however the GATT callbacks interrupt    *)
(* the processing thread and whatever the client does: no index leaves the *)
(* FIFO, and no packet is taken from a FIFO that counts none.  For every   *)
(* FIFO size, set of registers and checksum.                               *)
(***************************************************************************)
EXTENDS BleResponder, TLAPS

(* Requests and responses are whole packets. *)
Whole == [head : Head, tail : Tail]

(* What Encode builds is a packet without zeroed halves. *)
LEMMA EncodeIsWhole ==
    ASSUME NEW head \in Head, NEW data \in Value
    PROVE  Encode(head, data) \in Whole
  BY DEF Encode, Whole, Tail

(* A client sends no zeroed halves. *)
LEMMA RequestIsWhole == Request \subseteq Whole
<1>1. ASSUME NEW reg \in RegID, NEW data \in Value
      PROVE  /\ Encode([ack |-> 0, read |-> 1, write |-> 0, regID |-> reg], 0) \in Whole
             /\ Encode([ack |-> 0, read |-> 0, write |-> 1, regID |-> reg], data) \in Whole
  <2>1. /\ [ack |-> 0, read |-> 1, write |-> 0, regID |-> reg] \in Head
        /\ [ack |-> 0, read |-> 0, write |-> 1, regID |-> reg] \in Head
    BY DEF Head
  <2> QED
    BY <2>1, EncodeIsWhole, ValueAssumption
<1>2. SUFFICES ASSUME NEW request \in Request PROVE request \in Whole
  OBVIOUS
<1>3. CASE \E reg \in RegID :
             request = Encode([ack |-> 0, read |-> 1, write |-> 0, regID |-> reg], 0)
  BY <1>1, <1>3, ValueAssumption
<1>4. CASE \E reg \in RegID, data \in Value :
             request = Encode([ack |-> 0, read |-> 0, write |-> 1, regID |-> reg], data)
  BY <1>1, <1>4
<1> QED
  BY <1>3, <1>4 DEF Request

(* Steps at which the thread has begun to take a packet and has not yet    *)
(* loaded the count, and those at which status and count have been settled *)
(* or not yet been touched.                                                *)
Taking  == {"mark", "copyHead", "copyTail", "loadCount"}
Settled == Step \ (Taking \cup {"storeCount", "testEmpty", "setEmpty"})

(* The count, with what the thread relies on at each step: a status other  *)
(* than EMPTY promises a counted packet, and a callback, which only adds,  *)
(* cannot take it back.                                                    *)
CountInv ==
    /\ requestFifoCount \in Nat
    /\ thread \in Taking => requestFifoCount >= 1
    /\ thread = "storeCount" => countRead \in Nat /\ countRead >= 1
    /\ thread \in Settled /\ requestFifoStatus # EMPTY => requestFifoCount >= 1

IndexInv ==
    /\ thread \in Step
    /\ requestFifoGetIndex \in 0..FifoSize-1
    /\ requestFifoPutIndex \in 0..FifoSize-1
    /\ requestFifoStatus \in {OK, EMPTY, FULL}

(* An index stays in the ring after its increment. *)
LEMMA WrapInRange ==
    ASSUME NEW index \in 0..FifoSize-1
    PROVE  Wrap(index + 1) \in 0..FifoSize-1
  BY SizeAssumption DEF Wrap

(* The count is right at first. *)
LEMMA InitCountInv == Init => IndexInv /\ CountInv
  BY SizeAssumption DEF Init, IndexInv, CountInv, Taking, Settled, Step, OK, EMPTY, FULL

(* A put by a callback only adds to the count. *)
LEMMA PutKeepsCount ==
    ASSUME IndexInv, CountInv, NEW request, SSCP_requestFifoPut(request),
           UNCHANGED <<thread, countRead>>
    PROVE  IndexInv' /\ CountInv'
<1>1. CASE requestFifoStatus = FULL
  BY <1>1 DEF SSCP_requestFifoPut, fifoVars, IndexInv, CountInv
<1>2. CASE requestFifoStatus # FULL
  <2>1. /\ requestFifoPutIndex' \in 0..FifoSize-1
        /\ requestFifoCount' = requestFifoCount + 1
        /\ requestFifoStatus' \in {OK, FULL}
        /\ UNCHANGED <<requestFifoGetIndex, thread, countRead>>
    BY <1>2, WrapInRange DEF SSCP_requestFifoPut, IndexInv
  <2> QED
    BY <2>1 DEF IndexInv, CountInv, OK, EMPTY, FULL
<1> QED
  BY <1>1, <1>2

(* Every step keeps the count right. *)
LEMMA NextCountInv ==
    IndexInv /\ CountInv /\ [Next]_vars => IndexInv' /\ CountInv'
<1> SUFFICES ASSUME IndexInv, CountInv, [Next]_vars
             PROVE  IndexInv' /\ CountInv'
  OBVIOUS
<1> USE DEF At
<1>1. CASE WriteRequest
  BY <1>1, PutKeepsCount DEF WriteRequest, localVars
<1>2. CASE ReadResponse \/ GiveUp
  BY <1>2 DEF ReadResponse, GiveUp, IndexInv, CountInv, fifoVars, localVars
<1>3. CASE Poll
  BY <1>3 DEF Poll, IndexInv, CountInv, Taking, Settled, Step, fifoVars, localVars
<1>4. CASE MarkOK
  BY <1>4 DEF MarkOK, IndexInv, CountInv, Taking, Settled, Step, localVars, OK, EMPTY
<1>5. CASE CopyHead
  BY <1>5 DEF CopyHead, IndexInv, CountInv, Taking, Settled, Step, fifoVars
<1>6. CASE CopyTail
  BY <1>6, WrapInRange DEF CopyTail, IndexInv, CountInv, Taking, Settled, Step
<1>7. CASE LoadCount
  BY <1>7 DEF LoadCount, IndexInv, CountInv, Taking, Settled, Step, fifoVars
<1>8. CASE StoreCount
  BY <1>8 DEF StoreCount, IndexInv, CountInv, Taking, Settled, Step
<1>9. CASE TestEmpty
  BY <1>9 DEF TestEmpty, IndexInv, CountInv, Taking, Settled, Step, fifoVars, localVars
<1>10. CASE SetEmpty
  BY <1>10 DEF SetEmpty, IndexInv, CountInv, Taking, Settled, Step, localVars, EMPTY
<1>11. CASE \/ DecodeHead \/ DecodeTail \/ ExtractHead \/ ExtractTail
            \/ CheckCrc \/ Execute \/ SendHead \/ SendTail
  <2>1. /\ thread \in Settled /\ thread' \in Settled
        /\ UNCHANGED fifoVars
    BY <1>11 DEF DecodeHead, DecodeTail, ExtractHead, ExtractTail, CheckCrc,
                 Execute, SendHead, SendTail, Taking, Settled, Step
  <2> QED
    BY <2>1 DEF IndexInv, CountInv, Taking, Settled, fifoVars
<1>12. CASE UNCHANGED vars
  BY <1>12 DEF vars, fifoVars, localVars, IndexInv, CountInv
<1> QED
  BY <1>1, <1>2, <1>3, <1>4, <1>5, <1>6, <1>7, <1>8, <1>9, <1>10, <1>11, <1>12
  DEF Next, SSCP_process

(* SSCP_process never takes a packet from a FIFO that counts none. *)
THEOREM CountCorrect == Spec => []CountNeverNegative
<1>1. IndexInv /\ CountInv => CountNeverNegative
  BY DEF CountInv, CountNeverNegative, Taking
<1> QED
  BY <1>1, InitCountInv, NextCountInv, PTL DEF Spec

-----------------------------------------------------------------------------
(* Type correctness.  The framing test of SSCP_decodePacket, and the fact  *)
(* that callbacks only ever write whole packets, keep zeros out of the     *)
(* fields that are extracted.                                              *)

FormInv ==
    /\ requestFifo \in [0..FifoSize-1 -> Half]
    /\ unencodedPacket \in Half
    /\ packet \in Half
    /\ info \in [head : Head \cup {Zero}, data : Value]
    /\ thread = "decodeTail" => packet \in Whole
    /\ thread \in {"extractHead", "extractTail", "check"} => unencodedPacket \in Whole
    /\ thread = "decodeTail" => unencodedPacket.head \in Head
    /\ thread \in {"extractTail", "check", "execute"} => info.head \in Head

DataInv ==
    /\ requestFifoCount \in Int /\ countRead \in Int
    /\ registers \in [RegID -> Value]
    /\ responsePacket \in Half
    /\ patient \in BOOLEAN
    /\ client \in {"idle", "polling"}
    /\ asked \in Half

(* The cleared buffer is a pair of halves. *)
LEMMA NoPacketIsHalf == NoPacket \in Half
  BY DEF NoPacket, Half

(* So is every packet. *)
LEMMA WholeIsHalf == Whole \subseteq Half
  BY DEF Whole, Half

(* The buffers have their form at first. *)
LEMMA InitFormInv == Init => FormInv /\ DataInv
<1> SUFFICES ASSUME Init PROVE FormInv /\ DataInv
  OBVIOUS
<1>1. FormInv
  BY NoPacketIsHalf, ValueAssumption DEF Init, FormInv
<1>2. DataInv
  BY NoPacketIsHalf DEF Init, DataInv
<1> QED
  BY <1>1, <1>2

(* A callback that puts a request leaves whole packets everywhere. *)
LEMMA WriteKeepsForm ==
    ASSUME IndexInv, FormInv, DataInv, WriteRequest
    PROVE  FormInv' /\ DataInv'
<1>1. PICK request \in Request :
        /\ responsePacket' = NoPacket
        /\ unencodedPacket' = request
        /\ SSCP_requestFifoPut(request)
        /\ asked' = request
  BY DEF WriteRequest
<1>2. request \in Whole /\ request \in Half
  BY RequestIsWhole, WholeIsHalf
<1>3. /\ client' = "polling"
      /\ UNCHANGED <<thread, countRead, packet, info, registers, patient>>
  BY DEF WriteRequest, localVars
<1>4. /\ requestFifo' \in [0..FifoSize-1 -> Half]
      /\ requestFifoCount' \in Int
  <2>1. CASE requestFifoStatus = FULL
    BY <1>1, <2>1 DEF SSCP_requestFifoPut, fifoVars, FormInv, DataInv
  <2>2. CASE requestFifoStatus # FULL
    BY <1>1, <1>2, <2>2 DEF SSCP_requestFifoPut, FormInv, DataInv, IndexInv
  <2> QED
    BY <2>1, <2>2
<1>5. FormInv'
  BY <1>1, <1>2, <1>3, <1>4 DEF FormInv, Whole
<1>6. DataInv'
  BY <1>1, <1>2, <1>3, <1>4, NoPacketIsHalf DEF DataInv
<1> QED
  BY <1>5, <1>6

(* Every step keeps the form of the buffers. *)
LEMMA NextFormInv ==
    IndexInv /\ FormInv /\ DataInv /\ [Next]_vars => FormInv' /\ DataInv'
<1> SUFFICES ASSUME IndexInv, FormInv, DataInv, [Next]_vars
             PROVE  FormInv' /\ DataInv'
  OBVIOUS
<1> USE DEF At
<1>1. CASE WriteRequest
  BY <1>1, WriteKeepsForm
<1>2. CASE ReadResponse \/ GiveUp
  BY <1>2 DEF ReadResponse, GiveUp, FormInv, DataInv, fifoVars, localVars
<1>3. CASE Poll \/ MarkOK \/ TestEmpty \/ SetEmpty
  <2>1. /\ thread' \in {"mark", "copyHead", "setEmpty", "decodeHead"}
        /\ UNCHANGED <<requestFifo, requestFifoCount, unencodedPacket, localVars,
                       registers, responsePacket, clientVars>>
    BY <1>3 DEF Poll, MarkOK, TestEmpty, SetEmpty, fifoVars
  <2> QED
    BY <2>1 DEF FormInv, DataInv, localVars, clientVars
<1>4. CASE CopyHead
  <2>1. requestFifo[requestFifoGetIndex] \in Half
    BY DEF FormInv, IndexInv
  <2>2. packet' \in Half
    BY <1>4, <2>1, NoPacketIsHalf DEF CopyHead, Half, NoPacket
  <2> QED
    BY <1>4, <2>2 DEF CopyHead, FormInv, DataInv, fifoVars, clientVars
<1>5. CASE CopyTail
  <2>1. requestFifo[requestFifoGetIndex] \in Half
    BY DEF FormInv, IndexInv
  <2>2. packet' \in Half
    BY <1>5, <2>1 DEF CopyTail, FormInv, Half
  <2> QED
    BY <1>5, <2>2 DEF CopyTail, FormInv, DataInv, clientVars
<1>6. CASE LoadCount
  BY <1>6 DEF LoadCount, FormInv, DataInv, fifoVars, clientVars
<1>7. CASE StoreCount
  BY <1>7 DEF StoreCount, FormInv, DataInv, clientVars
<1>8. CASE DecodeHead
  <2>1. /\ unencodedPacket' = [unencodedPacket EXCEPT !.head = packet.head]
        /\ thread' = IF Zero \in {packet.head, packet.tail} THEN "idle" ELSE "decodeTail"
        /\ UNCHANGED <<fifoVars, localVars, registers, responsePacket, clientVars>>
    BY <1>8 DEF DecodeHead
  <2>2. packet \in Half /\ unencodedPacket \in Half
    BY DEF FormInv
  <2>3. unencodedPacket' \in Half /\ unencodedPacket'.head = packet.head
    BY <2>1, <2>2 DEF Half
  <2>4. thread' = "decodeTail" => packet \in Whole /\ packet.head \in Head
    BY <2>1, <2>2 DEF Half, Whole
  <2> QED
    BY <2>1, <2>3, <2>4 DEF FormInv, DataInv, fifoVars, localVars, clientVars
<1>9. CASE DecodeTail
  <2>1. packet \in Whole /\ unencodedPacket \in Half /\ unencodedPacket.head \in Head
    BY <1>9 DEF DecodeTail, FormInv
  <2>2. unencodedPacket' \in Whole
    BY <1>9, <2>1 DEF DecodeTail, Whole, Half
  <2> QED
    BY <1>9, <2>2, WholeIsHalf
    DEF DecodeTail, FormInv, DataInv, fifoVars, localVars, clientVars
<1>10. CASE ExtractHead
  <2>1. unencodedPacket \in Whole
    BY <1>10 DEF ExtractHead, FormInv
  <2>2. /\ info' \in [head : Head \cup {Zero}, data : Value]
        /\ info'.head \in Head
    BY <1>10, <2>1 DEF ExtractHead, FormInv, Whole
  <2> QED
    BY <1>10, <2>1, <2>2 DEF ExtractHead, FormInv, DataInv, fifoVars, clientVars
<1>11. CASE ExtractTail
  <2>1. unencodedPacket \in Whole /\ info.head \in Head
    BY <1>11 DEF ExtractTail, FormInv
  <2>2. /\ info' \in [head : Head \cup {Zero}, data : Value]
        /\ info'.head \in Head
    BY <1>11, <2>1 DEF ExtractTail, FormInv, Whole, Tail
  <2> QED
    BY <1>11, <2>1, <2>2 DEF ExtractTail, FormInv, DataInv, fifoVars, clientVars
<1>12. CASE CheckCrc
  BY <1>12 DEF CheckCrc, FormInv, DataInv, fifoVars, localVars, clientVars
<1>13. CASE Execute
  <2>1. info.head \in Head /\ info.data \in Value
    BY <1>13 DEF Execute, FormInv
  <2>2. PICK value \in Value :
          /\ registers' = [registers EXCEPT ![info.head.regID] = value]
          /\ packet' = Encode([info.head EXCEPT !.ack = 1],
                              IF info.head.read = 1 THEN value ELSE info.data)
    BY <1>13 DEF Execute
  <2>3. [info.head EXCEPT !.ack = 1] \in Head
    BY <2>1 DEF Head
  <2>4. packet' \in Half
    BY <2>1, <2>2, <2>3, EncodeIsWhole, WholeIsHalf
  <2>5. registers' \in [RegID -> Value]
    BY <2>2 DEF DataInv
  <2> QED
    BY <1>13, <2>4, <2>5 DEF Execute, FormInv, DataInv, fifoVars, clientVars
<1>14. CASE SendHead
  <2>1. responsePacket' \in Half
    BY <1>14 DEF SendHead, FormInv, DataInv, Half
  <2> QED
    BY <1>14, <2>1 DEF SendHead, FormInv, DataInv, fifoVars, localVars, clientVars
<1>15. CASE SendTail
  <2>1. responsePacket' \in Half
    BY <1>15 DEF SendTail, FormInv, DataInv, Half
  <2> QED
    BY <1>15, <2>1 DEF SendTail, FormInv, DataInv, fifoVars, localVars, clientVars
<1>16. CASE UNCHANGED vars
  BY <1>16 DEF vars, fifoVars, localVars, clientVars, FormInv, DataInv
<1> QED
  BY <1>1, <1>2, <1>3, <1>4, <1>5, <1>6, <1>7, <1>8, <1>9, <1>10, <1>11,
     <1>12, <1>13, <1>14, <1>15, <1>16
  DEF Next, SSCP_process

(* Every variable keeps its type under every preemption: in particular,    *)
(* the FIFO's indices stay inside it whatever happens to the count.        *)
THEOREM TypeCorrect == Spec => []TypeOK
<1>1. IndexInv /\ FormInv /\ DataInv => TypeOK
  BY DEF IndexInv, FormInv, DataInv, TypeOK
<1> QED
  BY <1>1, InitCountInv, NextCountInv, InitFormInv, NextFormInv, PTL DEF Spec
-----------------------------------------------------------------------------
(* A patient client.  It has one request at a time under way, and nothing  *)
(* else moves meanwhile: the thread's loads and stores of the FIFO fall    *)
(* between its write and the response, so no put comes between them.       *)

(* The steps of SSCP_process after a request was taken from the FIFO.      *)
Decoding == {"decodeHead", "decodeTail", "extractHead", "extractTail", "check"}
Taken    == {"loadCount", "storeCount", "testEmpty", "setEmpty"} \cup Decoding

FifoIsEmpty ==
    /\ requestFifoCount = 0 /\ requestFifoStatus = EMPTY
    /\ requestFifoPutIndex = requestFifoGetIndex

AskedWaits ==
    /\ requestFifoCount = 1
    /\ requestFifoPutIndex = Wrap(requestFifoGetIndex + 1)
    /\ requestFifo[requestFifoGetIndex] = asked

(* The FIFO at each step. *)
OneAtATime ==
    /\ thread = "idle" =>
          \/ FifoIsEmpty
          \/ AskedWaits /\ requestFifoStatus = (IF FifoSize = 1 THEN FULL ELSE OK)
    /\ thread = "mark" => AskedWaits
    /\ thread \in {"copyHead", "copyTail"} => AskedWaits /\ requestFifoStatus = OK
    /\ thread \in {"loadCount", "storeCount", "testEmpty", "setEmpty"} =>
           requestFifoStatus = OK /\ requestFifoPutIndex = requestFifoGetIndex
    /\ thread \in {"loadCount", "storeCount"} => requestFifoCount = 1
    /\ thread = "storeCount" => countRead = 1
    /\ thread \in {"testEmpty", "setEmpty"} => requestFifoCount = 0
    /\ thread \in Decoding \cup {"execute", "sendHead", "sendTail"} => FifoIsEmpty

(* The client's request is on its way to the response. *)
UnderWay == thread \notin {"idle", "sendTail"} \/ requestFifoCount = 1

ClientWaits ==
    UnderWay => /\ client = "polling" /\ responsePacket = NoPacket
                /\ asked \in Request /\ unencodedPacket = asked

(* Where the request is, and what has been made of it. *)
Answering == packet.head = [asked.head EXCEPT !.ack = 1]
Executed  == info.head = asked.head /\ info.data = asked.tail.data

RequestMoves ==
    /\ thread = "copyTail" => packet.head = asked.head
    /\ thread \in Taken \cup {"execute"} => packet = asked
    /\ thread = "extractTail" => info.head = asked.head
    /\ thread \in {"check", "execute"} => Executed
    /\ thread = "sendHead" => Executed /\ Answering
    /\ ~UnderWay /\ client = "polling" =>
           /\ asked \in Request /\ Executed
           /\ responsePacket.head = [asked.head EXCEPT !.ack = 1]

PatientInv == patient => OneAtATime /\ ClientWaits /\ RequestMoves

(* What is asked is a whole packet whose checksum is right. *)
LEMMA RequestIsValid ==
    ASSUME NEW request \in Request
    PROVE  /\ Valid(request) /\ request \in Whole
           /\ request = Encode(request.head, request.tail.data)
<1>1. request \in Whole
  BY RequestIsWhole
<1>2. \E head \in Head, data \in Value : request = Encode(head, data)
  <2> DEFINE Asks(r, w, reg) == [ack |-> 0, read |-> r, write |-> w, regID |-> reg]
  <2>1. CASE \E reg \in RegID : request = Encode(Asks(1, 0, reg), 0)
    <3>1. \A reg \in RegID : Asks(1, 0, reg) \in Head
      BY DEF Head
    <3> QED
      BY <2>1, <3>1, ValueAssumption
  <2>2. CASE \E reg \in RegID, data \in Value : request = Encode(Asks(0, 1, reg), data)
    <3>1. \A reg \in RegID : Asks(0, 1, reg) \in Head
      BY DEF Head
    <3> QED
      BY <2>2, <3>1
  <2> QED
    BY <2>1, <2>2 DEF Request
<1>3. PICK head \in Head, data \in Value : request = Encode(head, data)
  BY <1>2
<1>4. /\ request.head = head /\ request.tail.data = data
      /\ request.tail.crc = Crc(head, data)
  BY <1>3 DEF Encode
<1> QED
  BY <1>1, <1>3, <1>4, ZeroAssumption DEF Valid, Whole

(* At first nothing is under way. *)
LEMMA PatientInit == Init => PatientInv
  BY DEF Init, PatientInv, OneAtATime, ClientWaits, RequestMoves, FifoIsEmpty,
     UnderWay, Taken, Decoding

(* The client writes only when the FIFO is empty and the thread idle. *)
LEMMA PatientWrite ==
    ASSUME IndexInv, FormInv, OneAtATime, ClientWaits, RequestMoves, patient, WriteRequest
    PROVE  (OneAtATime /\ ClientWaits /\ RequestMoves)'
<1>1. PICK request \in Request :
        /\ responsePacket' = NoPacket
        /\ unencodedPacket' = request
        /\ SSCP_requestFifoPut(request)
        /\ asked' = request
  BY DEF WriteRequest
<1>2. client = "idle" /\ client' = "polling" /\ thread # "sendTail"
      /\ UNCHANGED <<thread, countRead, packet, info>>
  BY DEF WriteRequest, localVars
<1>3. thread = "idle" /\ FifoIsEmpty
  BY <1>2 DEF ClientWaits, UnderWay, OneAtATime, AskedWaits
<1>4. /\ requestFifo' = [requestFifo EXCEPT ![requestFifoPutIndex] = request]
      /\ requestFifoPutIndex' = Wrap(requestFifoPutIndex + 1)
      /\ requestFifoCount' = 1
      /\ requestFifoStatus' = IF FifoSize = 1 THEN FULL ELSE OK
      /\ requestFifoGetIndex' = requestFifoGetIndex
  BY <1>1, <1>3, SizeAssumption DEF SSCP_requestFifoPut, FifoIsEmpty, EMPTY, FULL
<1>5. requestFifo'[requestFifoGetIndex'] = asked'
  BY <1>1, <1>3, <1>4 DEF FifoIsEmpty, FormInv, IndexInv
<1>6. AskedWaits'
  BY <1>3, <1>4, <1>5 DEF AskedWaits, FifoIsEmpty, Wrap
<1>7. OneAtATime'
  BY <1>2, <1>3, <1>4, <1>6 DEF OneAtATime, Decoding
<1>8. ClientWaits'
  BY <1>1, <1>2 DEF ClientWaits
<1>9. RequestMoves'
  BY <1>2, <1>3, <1>4 DEF RequestMoves, UnderWay, Taken, Decoding
<1> QED
  BY <1>7, <1>8, <1>9

(* The client does not take the cleared buffer for a response. *)
LEMMA PatientRead ==
    ASSUME OneAtATime, ClientWaits, RequestMoves, patient, ReadResponse \/ GiveUp
    PROVE  (OneAtATime /\ ClientWaits /\ RequestMoves)'
<1>1. /\ client = "polling" /\ client' \in {"idle", "polling"}
      /\ responsePacket = NoPacket => client' = "polling"
      /\ UNCHANGED <<fifoVars, unencodedPacket, thread, localVars, responsePacket, asked>>
  BY DEF ReadResponse, GiveUp
<1>2. OneAtATime'
  BY <1>1 DEF OneAtATime, FifoIsEmpty, AskedWaits, fifoVars, localVars, Wrap
<1>3. ClientWaits'
  BY <1>1 DEF ClientWaits, UnderWay, fifoVars
<1>4. RequestMoves'
  BY <1>1 DEF RequestMoves, UnderWay, Executed, Answering, fifoVars, localVars
<1> QED
  BY <1>2, <1>3, <1>4

(* The thread takes the request from the FIFO, undisturbed. *)
LEMMA PatientTakes ==
    ASSUME IndexInv, FormInv, OneAtATime, ClientWaits, RequestMoves,
           \/ Poll \/ MarkOK \/ CopyHead \/ CopyTail
           \/ LoadCount \/ StoreCount \/ TestEmpty \/ SetEmpty
    PROVE  (OneAtATime /\ ClientWaits /\ RequestMoves)'
<1> USE DEF At, OneAtATime, FifoIsEmpty, AskedWaits, ClientWaits, RequestMoves,
        UnderWay, Taken, Decoding, fifoVars, localVars, clientVars
<1>1. CASE Poll
  BY <1>1 DEF Poll, Wrap
<1>2. CASE MarkOK
  BY <1>2 DEF MarkOK, Wrap
<1>3. CASE CopyHead
  <2>1. packet'.head = asked.head
    BY <1>3 DEF CopyHead, NoPacket
  <2> QED
    BY <1>3, <2>1 DEF CopyHead, Wrap
<1>4. CASE CopyTail
  <2>1. packet' = [packet EXCEPT !.tail = asked.tail]
    BY <1>4 DEF CopyTail
  <2>2. asked \in Whole /\ packet \in Half
    BY <1>4, RequestIsValid DEF CopyTail, FormInv
  <2>3. packet' = asked
    BY <1>4, <2>1, <2>2 DEF CopyTail, Whole, Half
  <2> QED
    BY <1>4, <2>3 DEF CopyTail, Wrap
<1>5. CASE LoadCount
  BY <1>5 DEF LoadCount
<1>6. CASE StoreCount
  BY <1>6 DEF StoreCount
<1>7. CASE TestEmpty
  BY <1>7 DEF TestEmpty
<1>8. CASE SetEmpty
  BY <1>8 DEF SetEmpty
<1> QED
  BY <1>1, <1>2, <1>3, <1>4, <1>5, <1>6, <1>7, <1>8

(* The static buffer holds what is decoded from the first, and no callback *)
(* writes another request into it.                                         *)
LEMMA PatientDecodes ==
    ASSUME FormInv, OneAtATime, ClientWaits, RequestMoves,
           DecodeHead \/ DecodeTail \/ ExtractHead \/ ExtractTail \/ CheckCrc
    PROVE  (OneAtATime /\ ClientWaits /\ RequestMoves)'
<1> USE DEF At, OneAtATime, FifoIsEmpty, ClientWaits, RequestMoves, Executed,
        UnderWay, Taken, Decoding, fifoVars, localVars, clientVars
<1>1. /\ thread \in Decoding /\ packet = asked /\ unencodedPacket = asked
      /\ asked \in Request
  BY DEF DecodeHead, DecodeTail, ExtractHead, ExtractTail, CheckCrc
<1>2. Valid(asked) /\ asked \in Whole
  BY <1>1, RequestIsValid
<1>3. info \in [head : Head \cup {Zero}, data : Value]
  BY DEF FormInv
<1>4. CASE DecodeHead
  <2>1. thread' = "decodeTail"
    BY <1>1, <1>2, <1>4 DEF DecodeHead, Valid
  <2>2. unencodedPacket' = asked
    BY <1>1, <1>2, <1>4 DEF DecodeHead, Whole
  <2> QED
    BY <1>1, <1>4, <2>1, <2>2 DEF DecodeHead
<1>5. CASE DecodeTail
  <2>1. unencodedPacket' = asked
    BY <1>1, <1>2, <1>5 DEF DecodeTail, Whole
  <2> QED
    BY <1>1, <1>5, <2>1 DEF DecodeTail
<1>6. CASE ExtractHead
  <2>1. info'.head = asked.head
    BY <1>1, <1>3, <1>6 DEF ExtractHead
  <2> QED
    BY <1>1, <1>6, <2>1 DEF ExtractHead
<1>7. CASE ExtractTail
  <2>1. info'.head = asked.head /\ info'.data = asked.tail.data
    BY <1>1, <1>3, <1>7 DEF ExtractTail
  <2> QED
    BY <1>1, <1>7, <2>1 DEF ExtractTail
<1>8. CASE CheckCrc
  <2>1. thread' = "execute"
    BY <1>1, <1>2, <1>8 DEF CheckCrc
  <2> QED
    BY <1>1, <1>8, <2>1 DEF CheckCrc
<1> QED
  BY <1>4, <1>5, <1>6, <1>7, <1>8

(* The response is formed from what was asked and sent. *)
LEMMA PatientAnswers ==
    ASSUME FormInv, DataInv, OneAtATime, ClientWaits, RequestMoves,
           Execute \/ SendHead \/ SendTail
    PROVE  (OneAtATime /\ ClientWaits /\ RequestMoves)'
<1> USE DEF At, OneAtATime, FifoIsEmpty, ClientWaits, RequestMoves, Executed,
        UnderWay, Taken, Decoding, Answering, fifoVars, localVars, clientVars
<1>1. CASE Execute
  <2>1. packet'.head = [asked.head EXCEPT !.ack = 1]
    BY <1>1 DEF Execute, Encode
  <2> QED
    BY <1>1, <2>1 DEF Execute
<1>2. CASE SendHead
  <2>1. responsePacket'.head = packet.head
    BY <1>2 DEF SendHead, DataInv, Half
  <2> QED
    BY <1>2, <2>1 DEF SendHead
<1>3. CASE SendTail
  <2>1. responsePacket'.head = responsePacket.head
    BY <1>3 DEF SendTail, DataInv, Half
  <2> QED
    BY <1>3, <2>1 DEF SendTail
<1> QED
  BY <1>1, <1>2, <1>3

(* So every step keeps the invariant. *)
LEMMA PatientNext ==
    IndexInv /\ FormInv /\ DataInv /\ PatientInv /\ [Next]_vars => PatientInv'
<1> SUFFICES ASSUME IndexInv, FormInv, DataInv, PatientInv, [Next]_vars
             PROVE  PatientInv'
  OBVIOUS
<1>0. patient' = patient
  <2>1. CASE UNCHANGED vars \/ WriteRequest \/ ReadResponse \/ GiveUp
    BY <2>1 DEF vars, clientVars, WriteRequest, ReadResponse, GiveUp
  <2>2. CASE SSCP_process
    <3>1. UNCHANGED clientVars
      <4>1. CASE \/ Poll \/ MarkOK \/ CopyHead \/ CopyTail
                 \/ LoadCount \/ StoreCount \/ TestEmpty \/ SetEmpty
        BY <4>1, Zenon DEF Poll, MarkOK, CopyHead, CopyTail, LoadCount, StoreCount,
           TestEmpty, SetEmpty
      <4>2. CASE \/ DecodeHead \/ DecodeTail \/ ExtractHead \/ ExtractTail
                 \/ CheckCrc \/ Execute \/ SendHead \/ SendTail
        BY <4>2, Zenon DEF DecodeHead, DecodeTail, ExtractHead, ExtractTail,
           CheckCrc, Execute, SendHead, SendTail
      <4> QED
        BY <2>2, <4>1, <4>2, Zenon DEF SSCP_process
    <3> QED
      BY <3>1 DEF clientVars
  <2> QED
    BY <2>1, <2>2 DEF Next
<1> SUFFICES ASSUME patient
             PROVE  (OneAtATime /\ ClientWaits /\ RequestMoves)'
  BY <1>0 DEF PatientInv
<1>1. OneAtATime /\ ClientWaits /\ RequestMoves
  BY DEF PatientInv
<1>2. CASE UNCHANGED vars
  BY <1>1, <1>2 DEF vars, fifoVars, localVars, clientVars, OneAtATime, ClientWaits,
     RequestMoves, FifoIsEmpty, AskedWaits, UnderWay, Executed, Answering, Wrap
<1>3. CASE Next
  BY <1>1, <1>3, PatientWrite, PatientRead, PatientTakes, PatientDecodes, PatientAnswers
  DEF Next, SSCP_process
<1> QED
  BY <1>2, <1>3

LEMMA PatientCorrect == Spec => [](IndexInv /\ FormInv /\ DataInv /\ PatientInv)
  BY InitCountInv, NextCountInv, InitFormInv, NextFormInv, PatientInit, PatientNext,
     PTL DEF Spec

(* The ring's arithmetic. *)
LEMMA Ring ==
    ASSUME NEW index \in 0..FifoSize-1
    PROVE  /\ (index + 0) % FifoSize = index
           /\ (index + 1) % FifoSize = Wrap(index + 1)
  BY SizeAssumption DEF Wrap

(* A patient client's requests neither corrupt the FIFO's count or status  *)
(* nor get into the place of one that is decoded.                          *)
THEOREM PatientFifoIsRight == Spec => []FifoIsRightIfPatient
<1>1. IndexInv /\ PatientInv => FifoIsRightIfPatient
  <2> SUFFICES ASSUME IndexInv, OneAtATime, ClientWaits, RequestMoves
               PROVE  CountExact /\ StatusExact /\ ExecutesWhatWasQueued
    BY DEF PatientInv, FifoIsRightIfPatient
  <2>1. CountExact
    BY Ring DEF CountExact, OneAtATime, FifoIsEmpty, AskedWaits, IndexInv
  <2>2. StatusExact
    BY SizeAssumption DEF StatusExact, OneAtATime, FifoIsEmpty, AskedWaits, OK, EMPTY, FULL
  <2>3. ExecutesWhatWasQueued
    <3> SUFFICES ASSUME thread = "execute" PROVE Encode(info.head, info.data) = packet
      BY DEF ExecutesWhatWasQueued
    <3>1. asked \in Request /\ packet = asked /\ Executed
      BY DEF RequestMoves, ClientWaits, UnderWay
    <3>2. asked = Encode(asked.head, asked.tail.data)
      BY <3>1, RequestIsValid
    <3> QED
      BY <3>1, <3>2 DEF Executed
  <2> QED
    BY <2>1, <2>2, <2>3
<1> QED
  BY <1>1, PatientCorrect, PTL

(* What a patient client reads, and can decode, is the answer to what it   *)
(* asked.                                                                  *)
THEOREM PatientIsAnswered == Spec => []AnswersIfPatient
<1>1. PatientInv => AnswersIfPatient
  <2> SUFFICES ASSUME ClientWaits, RequestMoves, client = "polling", Valid(responsePacket)
               PROVE  /\ Encode(info.head, info.data) = asked
                      /\ responsePacket.head = [asked.head EXCEPT !.ack = 1]
    BY DEF PatientInv, AnswersIfPatient, AnswersTheRequest
  <2>1. ~UnderWay
    BY DEF ClientWaits, Valid, NoPacket
  <2>2. asked \in Request /\ Executed
    BY <2>1 DEF RequestMoves
  <2>3. asked = Encode(asked.head, asked.tail.data)
    BY <2>2, RequestIsValid
  <2> QED
    BY <2>1, <2>2, <2>3 DEF RequestMoves, Executed
<1> QED
  BY <1>1, PatientCorrect, PTL
=============================================================================
