------------------------ MODULE SocketSession_proofs ------------------------
(***************************************************************************)
(* What SocketSession promises, for every frame length, every set of       *)
(* registers and however often the programs are started and killed:        *)
(* variables stay in their types, an operation of the initiator fails only *)
(* when the responder is gone and succeeds only when it has been done, and *)
(* a request calls the callback that was added for its register.           *)
(***************************************************************************)
EXTENDS SocketSession, SequenceTheorems, Recursion, TLAPS

-----------------------------------------------------------------------------
(* Packets and bytes.                                                      *)

Byte == [at : 1..FrameLen, of : Packet]

LEMMA BytesOfByte == Bytes = Seq(Byte)
  BY DEF Bytes, Byte

(* A packet has FrameLen bytes and is decoded to itself. *)
LEMMA EncodedDecoded ==
    ASSUME NEW packet \in Packet
    PROVE  /\ Encoded(packet) \in Seq(Byte) /\ Len(Encoded(packet)) = FrameLen
           /\ Encoded(packet) # <<>>
           /\ Decoded(Encoded(packet)) = packet
<1>1. \A at \in 1..FrameLen : [at |-> at, of |-> packet] \in Byte
  BY DEF Byte
<1>2. Encoded(packet) \in Seq(Byte) /\ Len(Encoded(packet)) = FrameLen
  <2>1. Encoded(packet) \in [1..FrameLen -> Byte]
    BY <1>1 DEF Encoded
  <2>2. Encoded(packet) \in Seq(Byte)
    BY <2>1, SeqDef, SessionAssumption
  <2> QED
    BY <2>1, <2>2, LenProperties, SessionAssumption
<1>3. Encoded(packet) # <<>> /\ Encoded(packet)[1].of = packet
  <2>1. Encoded(packet) # <<>>
    BY <1>2, SessionAssumption, EmptySeq
  <2>2. 1 \in 1..FrameLen
    BY SessionAssumption
  <2> QED
    BY <2>1, <2>2 DEF Encoded
<1> QED
  BY <1>2, <1>3 DEF Decoded

(* What is decoded is a packet, or nothing. *)
LEMMA DecodedType ==
    ASSUME NEW bytes \in Seq(Byte)
    PROVE  Decoded(bytes) \in Packet \cup {None}
<1>1. CASE bytes = <<>>
  BY <1>1 DEF Decoded
<1>2. CASE bytes # <<>>
  <2>1. bytes[1] \in Byte
    BY <1>2
  <2> QED
    BY <2>1 DEF Decoded, Byte
<1> QED
  BY <1>1, <1>2

(* A sequence is its first n elements and the rest. *)
LEMMA Split ==
    ASSUME NEW S, NEW stream \in Seq(S), NEW n \in 1..Len(stream)
    PROVE  /\ SubSeq(stream, 1, n) \in Seq(S) /\ Len(SubSeq(stream, 1, n)) = n
           /\ SubSeq(stream, n+1, Len(stream)) \in Seq(S)
           /\ SubSeq(stream, 1, n) \o SubSeq(stream, n+1, Len(stream)) = stream
  BY SubSeqProperties, ConcatAdjacentSubSeq, SubSeqFull

(* recv moves them to what has been got: none is lost. *)
LEMMA Moved ==
    ASSUME NEW S, NEW got \in Seq(S), NEW front \in Seq(S), NEW rest \in Seq(S)
    PROVE  /\ got \o front \in Seq(S) /\ Len(got \o front) = Len(got) + Len(front)
           /\ (got \o front) \o rest = got \o (front \o rest)
  OBVIOUS

(* The sequence with as many elements as both have is the first of them. *)
LEMMA AllOfIt ==
    ASSUME NEW S, NEW got \in Seq(S), NEW rest \in Seq(S), NEW whole \in Seq(S),
           got \o rest = whole, Len(got) = Len(whole)
    PROVE  got = whole /\ rest = <<>>
<1>1. Len(rest) = 0
  BY ConcatProperties, LenProperties
<1>2. rest = <<>>
  BY <1>1, EmptySeq
<1> QED
  BY <1>2, ConcatEmptySeq

(* What recv_exact has got after a call of recv, and what is left. *)
LEMMA PieceTaken ==
    ASSUME NEW got \in Seq(Byte), NEW stream \in Seq(Byte), Len(got) < FrameLen,
           NEW piece \in Pieces(got, stream)
    PROVE  /\ piece.got \in Seq(Byte)
           /\ SubSeq(stream, piece.rest, Len(stream)) \in Seq(Byte)
           /\ piece.all \in BOOLEAN
           /\ piece.all => Len(piece.got) = FrameLen
           /\ ~piece.all => Len(piece.got) < FrameLen
           /\ piece.got \o SubSeq(stream, piece.rest, Len(stream)) = got \o stream
<1>1. PICK n \in 1..FrameLen - Len(got) :
        /\ n <= Len(stream)
        /\ piece = [got |-> got \o SubSeq(stream, 1, n),
                    all |-> Len(got) + n = FrameLen, rest |-> n+1]
  BY DEF Pieces
<1>2. Len(got) \in Nat /\ Len(stream) \in Nat /\ FrameLen \in Nat
  BY SessionAssumption, LenProperties
<1>3. n \in 1..Len(stream) /\ n <= FrameLen - Len(got)
  BY <1>1, <1>2
<1>4. /\ piece.got = got \o SubSeq(stream, 1, n) /\ piece.rest = n+1
      /\ piece.all = (Len(got) + n = FrameLen)
  BY <1>1
<1> DEFINE front == SubSeq(stream, 1, n)
           rest  == SubSeq(stream, n+1, Len(stream))
<1>5. /\ front \in Seq(Byte) /\ Len(front) = n /\ rest \in Seq(Byte)
      /\ front \o rest = stream
  BY <1>3, Split
<1>6. /\ piece.got = got \o front
      /\ SubSeq(stream, piece.rest, Len(stream)) = rest
  BY <1>4
<1> HIDE DEF front, rest
<1>7. /\ got \o front \in Seq(Byte) /\ Len(got \o front) = Len(got) + n
      /\ (got \o front) \o rest = got \o stream
  <2>1. /\ got \o front \in Seq(Byte) /\ Len(got \o front) = Len(got) + Len(front)
        /\ (got \o front) \o rest = got \o (front \o rest)
    <3>1. front \in Seq(Byte) /\ rest \in Seq(Byte)
      BY <1>5
    <3> QED
      BY <3>1, Moved
  <2> QED
    BY <1>5, <2>1, Zenon
<1>8. /\ piece.got \in Seq(Byte) /\ Len(piece.got) = Len(got) + n
      /\ piece.got \o rest = got \o stream
  BY <1>6, <1>7, Zenon
<1>9. (piece.all => Len(piece.got) = FrameLen) /\ (~piece.all => Len(piece.got) < FrameLen)
  <2>1. CASE Len(got) + n = FrameLen
    BY <1>4, <1>8, <2>1
  <2>2. CASE Len(got) + n # FrameLen
    <3>1. Len(got) + n < FrameLen
      BY <1>2, <1>3, <2>2
    <3>2. piece.all = FALSE
      BY <1>4, <2>2
    <3>3. Len(piece.got) < FrameLen
      BY <1>8, <3>1, Zenon
    <3> QED
      BY <3>2, <3>3
  <2> QED
    BY <2>1, <2>2
<1> QED
  BY <1>4, <1>5, <1>6, <1>8, <1>9, Zenon

-----------------------------------------------------------------------------
(* Types.                                                                  *)

(* A request is a packet. *)
LEMMA RequestIsPacket == Request \subseteq Packet
  BY SessionAssumption DEF Request, Packet

(* The answer to a packet is a packet. *)
LEMMA AnswerType ==
    ASSUME NEW packet \in Packet, packet.reg \in Register,
           registers' \in [Register -> Value]
    PROVE  Answer(packet) \in Packet
  BY DEF Answer, Packet

LEMMA TypeInit == Init => TypeOK
  BY SessionAssumption DEF Init, TypeOK, Gone, Nobody, Bytes, Register

(* A whole request changes the registers and sends bytes within their types. *)
LEMMA ProcessType ==
    ASSUME TypeOK, NEW packet \in Packet \cup {None}, Process(packet)
    PROVE  /\ responder' \in Gone \cup {"connecting", "opening", "accepting", "receiving"}
           /\ registers' \in [Register -> Value]
           /\ toInitiator' \in Bytes
<1>1. CASE packet = None \/ packet.reg \notin Register
  BY <1>1 DEF Process, TypeOK, Gone
<1>2. CASE ~(packet = None \/ packet.reg \notin Register)
  <2>1. packet \in Packet /\ packet.reg \in Register
    BY <1>2
  <2>2. /\ Call(packet, IF packet.write = 1 THEN packet.value ELSE registers[packet.reg])
        /\ SendResponse(Answer(packet))
    BY <1>2 DEF Process
  <2>3. registers' \in [Register -> Value]
    <3>1. \E value \in Value : registers' = [registers EXCEPT ![packet.reg] = value]
      <4>1. (IF packet.write = 1 THEN packet.value ELSE registers[packet.reg]) \in Value
        BY <2>1 DEF Packet, TypeOK
      <4> QED
        BY <2>2, <4>1 DEF Call
    <3> QED
      BY <3>1 DEF TypeOK
  <2>4. Encoded(Answer(packet)) \in Seq(Byte)
    BY <2>1, <2>3, AnswerType, EncodedDecoded
  <2>5. toInitiator \in Seq(Byte)
    BY BytesOfByte DEF TypeOK
  <2>6. /\ responder' \in {"receiving", "ended"}
        /\ toInitiator' \in {toInitiator \o Encoded(Answer(packet)), toInitiator}
    BY <2>2 DEF SendResponse
  <2>7. toInitiator \o Encoded(Answer(packet)) \in Seq(Byte)
    BY <2>4, <2>5, ConcatProperties
  <2> QED
    BY <2>3, <2>5, <2>6, <2>7, BytesOfByte DEF Gone
<1> QED
  BY <1>1, <1>2

(* The types in three parts: who is connected to whom, ... *)
Numbering == [initiator : 0..MaxStarts, responder : 0..MaxStarts]

ConnectionsOK ==
    /\ starts \in Numbering /\ iwrrEnds \in Numbering /\ irrwEnds \in Numbering
    /\ iwrrBacklog \in Seq(1..MaxStarts) /\ irrwBacklog \in Seq(1..MaxStarts)

(* ... what is on its way, ... *)
StreamsOK ==
    /\ toResponder \in Bytes /\ toInitiator \in Bytes
    /\ received \in [initiator : Bytes, responder : Bytes]
    /\ Len(received.initiator) < FrameLen /\ Len(received.responder) < FrameLen

(* ... and the programs themselves. *)
ProgramsOK ==
    /\ initiator \in Gone \cup {"accepting", "connecting", "idle", "reading"}
    /\ responder \in Gone \cup {"connecting", "opening", "accepting", "receiving"}
    /\ kills \in 0..MaxKills
    /\ asked \in Request \cup {None}
    /\ cache \in [Requested -> Value] /\ registers \in [Register -> Value]

LEMMA TypeParts ==
    /\ TypeOK <=> ConnectionsOK /\ StreamsOK /\ ProgramsOK
    /\ TypeOK' <=> (ConnectionsOK /\ StreamsOK /\ ProgramsOK)'
<1>1. ASSUME NEW N PROVE {starts, iwrrEnds, irrwEnds} \subseteq N
                         <=> starts \in N /\ iwrrEnds \in N /\ irrwEnds \in N
  OBVIOUS
<1>2. ASSUME NEW N PROVE {starts', iwrrEnds', irrwEnds'} \subseteq N
                         <=> starts' \in N /\ iwrrEnds' \in N /\ irrwEnds' \in N
  OBVIOUS
<1> QED
  BY <1>1, <1>2, Zenon DEF TypeOK, ConnectionsOK, StreamsOK, ProgramsOK, Numbering

(* A program that runs has a number other than 0. *)
Started ==
    /\ initiator \notin Gone => starts.initiator > 0
    /\ responder \notin Gone => starts.responder > 0

(* A program gets another number, or another end. *)
LEMMA NumberChanged ==
    ASSUME NEW ends \in Numbering, NEW n \in 0..MaxStarts
    PROVE  /\ [ends EXCEPT !.initiator = n] \in Numbering
           /\ [ends EXCEPT !.responder = n] \in Numbering
  BY DEF Numbering

LEMMA NumberType ==
    ASSUME ConnectionsOK
    PROVE  /\ MaxStarts \in Nat
           /\ starts.initiator \in 0..MaxStarts /\ starts.responder \in 0..MaxStarts
           /\ iwrrEnds.initiator \in 0..MaxStarts /\ iwrrEnds.responder \in 0..MaxStarts
           /\ irrwEnds.initiator \in 0..MaxStarts /\ irrwEnds.responder \in 0..MaxStarts
  BY SessionAssumption DEF ConnectionsOK, Numbering

(* What a program has got of a packet is all, none or part of it. *)
LEMMA ReceivedChanged ==
    ASSUME StreamsOK, NEW got \in Bytes, Len(got) < FrameLen,
           \/ received' = [received EXCEPT !.initiator = got]
           \/ received' = [received EXCEPT !.responder = got]
    PROVE  /\ received' \in [initiator : Bytes, responder : Bytes]
           /\ Len(received'.initiator) < FrameLen /\ Len(received'.responder) < FrameLen
  BY DEF StreamsOK

LEMMA NothingReceived == <<>> \in Bytes /\ Len(<<>>) < FrameLen
  BY SessionAssumption, EmptySeq DEF Bytes

(* Starting a program, accepting and connecting. *)
LEMMA ConnectionsChange ==
    ASSUME ConnectionsOK, Started,
           \/ StartInitiator \/ InitiatorAccepts \/ InitiatorConnects
           \/ StartResponder \/ ResponderConnects \/ ResponderListens \/ ResponderAccepts
    PROVE  ConnectionsOK'
<1>0. /\ 0 \in 0..MaxStarts /\ MaxStarts \in Nat
      /\ starts.initiator \in 0..MaxStarts /\ starts.responder \in 0..MaxStarts
  BY NumberType
<1> USE DEF ConnectionsOK
<1>1. CASE StartInitiator
  <2>1. starts.initiator + 1 \in 0..MaxStarts
    BY <1>0, <1>1 DEF StartInitiator
  <2> QED
    BY <1>0, <1>1, <2>1, NumberChanged, EmptySeq DEF StartInitiator
<1>2. CASE InitiatorAccepts
  <2>1. Head(iwrrBacklog) \in 1..MaxStarts /\ Tail(iwrrBacklog) \in Seq(1..MaxStarts)
    BY <1>2, HeadTailProperties DEF InitiatorAccepts
  <2>2. Head(iwrrBacklog) \in 0..MaxStarts
    BY <1>0, <2>1
  <2> QED
    BY <1>2, <2>1, <2>2, NumberChanged DEF InitiatorAccepts, faultVars
<1>3. CASE InitiatorConnects
  <2>1. starts.initiator \in 1..MaxStarts
    BY <1>0, <1>3 DEF InitiatorConnects, Started, Gone
  <2>2. Append(irrwBacklog, starts.initiator) \in Seq(1..MaxStarts)
    BY <2>1, AppendProperties
  <2> QED
    BY <1>0, <1>3, <2>2, NumberChanged DEF InitiatorConnects, faultVars
<1>4. CASE StartResponder
  <2>1. starts.responder + 1 \in 0..MaxStarts
    BY <1>0, <1>4 DEF StartResponder
  <2> QED
    BY <1>0, <1>4, <2>1, NumberChanged, EmptySeq DEF StartResponder
<1>5. CASE ResponderConnects
  <2>1. starts.responder \in 1..MaxStarts
    BY <1>0, <1>5 DEF ResponderConnects, Started, Gone
  <2>2. Append(iwrrBacklog, starts.responder) \in Seq(1..MaxStarts)
    BY <2>1, AppendProperties
  <2> QED
    BY <1>0, <1>5, <2>2, NumberChanged DEF ResponderConnects, faultVars
<1>6. CASE ResponderListens
  BY <1>6 DEF ResponderListens, connectionVars, faultVars
<1>7. CASE ResponderAccepts
  <2>1. Head(irrwBacklog) \in 1..MaxStarts /\ Tail(irrwBacklog) \in Seq(1..MaxStarts)
    BY <1>7, HeadTailProperties DEF ResponderAccepts
  <2>2. Head(irrwBacklog) \in 0..MaxStarts
    BY <1>0, <2>1
  <2> QED
    BY <1>7, <2>1, <2>2, NumberChanged DEF ResponderAccepts, faultVars
<1> QED
  BY <1>1, <1>2, <1>3, <1>4, <1>5, <1>6, <1>7

LEMMA TypeConnect ==
    ASSUME TypeOK, Started,
           \/ StartInitiator \/ InitiatorAccepts \/ InitiatorConnects
           \/ StartResponder \/ ResponderConnects \/ ResponderListens \/ ResponderAccepts
    PROVE  (TypeOK /\ Started)'
<1>1. ConnectionsOK /\ StreamsOK /\ ProgramsOK
  BY TypeParts
<1>2. ConnectionsOK'
  BY <1>1, ConnectionsChange
<1> USE DEF StartInitiator, InitiatorAccepts, InitiatorConnects, StartResponder,
        ResponderConnects, ResponderListens, ResponderAccepts, initiatorVars,
        responderVars, streamVars, faultVars
<1>3. StreamsOK'
  <2>1. CASE StartInitiator
    BY <1>1, <2>1, NothingReceived, ReceivedChanged DEF StreamsOK
  <2>2. CASE StartResponder
    BY <1>1, <2>2, NothingReceived, ReceivedChanged DEF StreamsOK
  <2>3. CASE ~StartInitiator /\ ~StartResponder
    BY <1>1, <2>3 DEF StreamsOK
  <2> QED
    BY <2>1, <2>2, <2>3
<1>4. ProgramsOK'
  <2> USE DEF ProgramsOK, Gone
  <2>1. CASE StartInitiator
    BY <1>1, <2>1, SessionAssumption
  <2>2. CASE InitiatorAccepts \/ InitiatorConnects
    BY <1>1, <2>2
  <2>3. CASE StartResponder
    BY <1>1, <2>3, SessionAssumption DEF Register
  <2>4. CASE ResponderConnects \/ ResponderListens \/ ResponderAccepts
    BY <1>1, <2>4
  <2> QED
    BY <2>1, <2>2, <2>3, <2>4, Zenon
<1>5. Started'
  <2> USE <1>1, NumberType DEF Started, Gone
  <2>1. CASE StartInitiator
    BY <2>1 DEF ConnectionsOK, Numbering
  <2>2. CASE InitiatorAccepts \/ InitiatorConnects
    BY <2>2
  <2>3. CASE StartResponder
    BY <2>3 DEF ConnectionsOK, Numbering
  <2>4. CASE ResponderConnects \/ ResponderListens \/ ResponderAccepts
    BY <2>4
  <2> QED
    BY <2>1, <2>2, <2>3, <2>4, Zenon
<1> QED
  BY <1>2, <1>3, <1>4, <1>5, TypeParts

(* Requests and responses. *)
LEMMA TypeSend ==
    ASSUME TypeOK, SendRequest
    PROVE  TypeOK'
<1>1. asked' \in Packet /\ asked' \in Request
  BY RequestIsPacket DEF SendRequest
<1>2. toResponder \o Encoded(asked') \in Bytes
  BY <1>1, EncodedDecoded, ConcatProperties, BytesOfByte DEF TypeOK
<1>3. ConnectionsOK /\ StreamsOK /\ ProgramsOK
  BY TypeParts
<1>4. ConnectionsOK' /\ StreamsOK' /\ ProgramsOK'
  BY <1>1, <1>2, <1>3 DEF SendRequest, ConnectionsOK, StreamsOK, ProgramsOK, Gone,
     responderVars, connectionVars, faultVars
<1> QED
  BY <1>4, TypeParts

LEMMA TypeRead ==
    ASSUME TypeOK, ReadResponse
    PROVE  TypeOK' /\ initiator' \in {"ended", "idle", "reading"}
<1>1. PICK piece \in Pieces(received.initiator, toInitiator) :
        /\ toInitiator' = SubSeq(toInitiator, piece.rest, Len(toInitiator))
        /\ IF piece.all
           THEN /\ TakeResponse(Decoded(piece.got))
                /\ received' = [received EXCEPT !.initiator = <<>>]
           ELSE /\ received' = [received EXCEPT !.initiator = piece.got]
                /\ UNCHANGED <<initiator, cache>>
  BY Zenon DEF ReadResponse
<1>2. /\ received.initiator \in Seq(Byte) /\ toInitiator \in Seq(Byte)
      /\ Len(received.initiator) < FrameLen
  BY BytesOfByte DEF TypeOK
<1>3. /\ piece.got \in Bytes /\ toInitiator' \in Bytes
      /\ ~piece.all => Len(piece.got) < FrameLen
  BY <1>1, <1>2, PieceTaken, BytesOfByte
<1>4. ConnectionsOK /\ StreamsOK /\ ProgramsOK
  BY TypeParts
<1>5. Decoded(piece.got) \in Packet \cup {None}
  BY <1>3, BytesOfByte, DecodedType
<1>6. initiator = "reading" /\ toResponder' = toResponder
      /\ UNCHANGED <<asked, responderVars, connectionVars, faultVars>>
  BY DEF ReadResponse
<1>7. /\ StreamsOK'
      /\ initiator' \in {"ended", "idle", "reading"} /\ cache' \in [Requested -> Value]
  <2>1. CASE ~piece.all
    <3>1. received' = [received EXCEPT !.initiator = piece.got]
          /\ UNCHANGED <<initiator, cache>>
      BY <1>1, <2>1
    <3> QED
      BY <1>3, <1>4, <1>6, <2>1, <3>1, ReceivedChanged DEF StreamsOK, ProgramsOK
  <2>2. CASE piece.all
    <3>1. TakeResponse(Decoded(piece.got)) /\ received' = [received EXCEPT !.initiator = <<>>]
      BY <1>1, <2>2
    <3>2. initiator' \in {"ended", "idle", "reading"} /\ cache' \in [Requested -> Value]
      BY <1>4, <1>5, <3>1 DEF TakeResponse, ProgramsOK, Packet
    <3> QED
      BY <1>3, <1>4, <1>6, <3>1, <3>2, ReceivedChanged, NothingReceived DEF StreamsOK
  <2> QED
    BY <2>1, <2>2
<1>8. ConnectionsOK' /\ ProgramsOK'
  BY <1>4, <1>6, <1>7 DEF ConnectionsOK, ProgramsOK, Gone, responderVars, connectionVars,
     faultVars
<1> QED
  BY <1>7, <1>8, TypeParts

LEMMA TypeReceive ==
    ASSUME TypeOK, ReceiveRequest
    PROVE  TypeOK'
<1>1. PICK piece \in Pieces(received.responder, toResponder) :
        /\ toResponder' = SubSeq(toResponder, piece.rest, Len(toResponder))
        /\ IF piece.all
           THEN /\ Process(Decoded(piece.got))
                /\ received' = [received EXCEPT !.responder = <<>>]
           ELSE /\ received' = [received EXCEPT !.responder = piece.got]
                /\ UNCHANGED <<responderVars, toInitiator>>
  BY Zenon DEF ReceiveRequest
<1>2. /\ received.responder \in Seq(Byte) /\ toResponder \in Seq(Byte)
      /\ Len(received.responder) < FrameLen
  BY BytesOfByte DEF TypeOK
<1>3. /\ piece.got \in Bytes /\ toResponder' \in Bytes
      /\ ~piece.all => Len(piece.got) < FrameLen
  BY <1>1, <1>2, PieceTaken, BytesOfByte
<1>4. ConnectionsOK /\ StreamsOK /\ ProgramsOK
  BY TypeParts
<1>5. Decoded(piece.got) \in Packet \cup {None}
  BY <1>3, BytesOfByte, DecodedType
<1>6. UNCHANGED <<initiatorVars, connectionVars, faultVars>>
  BY DEF ReceiveRequest
<1>7. /\ received' \in [initiator : Bytes, responder : Bytes]
      /\ Len(received'.initiator) < FrameLen /\ Len(received'.responder) < FrameLen
      /\ responder' \in Gone \cup {"connecting", "opening", "accepting", "receiving"}
      /\ registers' \in [Register -> Value] /\ toInitiator' \in Bytes
  <2>1. CASE ~piece.all
    <3>1. received' = [received EXCEPT !.responder = piece.got]
          /\ UNCHANGED <<responderVars, toInitiator>>
      BY <1>1, <2>1
    <3> QED
      BY <1>3, <1>4, <2>1, <3>1, ReceivedChanged DEF StreamsOK, ProgramsOK, responderVars
  <2>2. CASE piece.all
    <3>1. Process(Decoded(piece.got)) /\ received' = [received EXCEPT !.responder = <<>>]
      BY <1>1, <2>2
    <3> QED
      BY <1>4, <1>5, <3>1, ReceivedChanged, NothingReceived, ProcessType
  <2> QED
    BY <2>1, <2>2
<1>8. ConnectionsOK' /\ StreamsOK' /\ ProgramsOK'
  BY <1>3, <1>4, <1>6, <1>7 DEF ConnectionsOK, StreamsOK, ProgramsOK, Gone,
     initiatorVars, connectionVars, faultVars
<1> QED
  BY <1>8, TypeParts

(* Ends, and what remains of the bytes on their way. *)
LEMMA TypeEnd ==
    ASSUME TypeOK, ResponderIsGone \/ InitiatorIsGone \/ KillInitiator \/ KillResponder
    PROVE  TypeOK'
<1>1. ConnectionsOK /\ StreamsOK /\ ProgramsOK
  BY TypeParts
<1>2. ASSUME NEW stream \in Bytes, NEW n \in 0..Len(stream)
      PROVE  SubSeq(stream, 1, n) \in Bytes
  BY BytesOfByte, SubSeqProperties, LenProperties, ElementOfSeq
<1>3. toResponder' \in Bytes /\ toInitiator' \in Bytes
  BY <1>1, <1>2 DEF StreamsOK, ResponderIsGone, InitiatorIsGone, KillInitiator,
     KillResponder, streamVars
<1>4. /\ UNCHANGED <<connectionVars, received, asked, cache, starts, registers>>
      /\ kills' = kills \/ (kills < MaxKills /\ kills' = kills + 1)
      /\ initiator' \in {initiator, "off", "ended"} /\ responder' \in {responder, "off", "ended"}
  BY DEF ResponderIsGone, InitiatorIsGone, KillInitiator, KillResponder, streamVars,
     initiatorVars, responderVars, faultVars
<1>5. ConnectionsOK' /\ StreamsOK'
  BY <1>1, <1>3, <1>4 DEF ConnectionsOK, StreamsOK, connectionVars
<1>6. ProgramsOK'
  BY <1>1, <1>4, SessionAssumption DEF ProgramsOK, Gone
<1> QED
  BY <1>5, <1>6, TypeParts

(* Whoever runs afterwards ran before. *)
LEMMA StillStarted ==
    ASSUME Started,
           \/ SendRequest \/ ReadResponse \/ ResponderIsGone
           \/ ReceiveRequest \/ InitiatorIsGone
           \/ KillInitiator \/ KillResponder
    PROVE  Started'
<1>1. starts' = starts
  BY Zenon DEF SendRequest, ReadResponse, ResponderIsGone, ReceiveRequest, InitiatorIsGone,
     KillInitiator, KillResponder, faultVars
<1>2. initiator' \notin Gone => initiator \notin Gone
  BY DEF SendRequest, ReadResponse, ResponderIsGone, ReceiveRequest, InitiatorIsGone,
     KillInitiator, KillResponder, Gone, initiatorVars
<1>3. responder' \notin Gone => responder \notin Gone
  BY DEF SendRequest, ReadResponse, ResponderIsGone, ReceiveRequest, InitiatorIsGone,
     KillInitiator, KillResponder, Gone, responderVars
<1> QED
  BY <1>1, <1>2, <1>3 DEF Started

LEMMA TypeNext == TypeOK /\ Started /\ [Next]_vars => (TypeOK /\ Started)'
<1> SUFFICES ASSUME TypeOK, Started, [Next]_vars PROVE (TypeOK /\ Started)'
  OBVIOUS
<1>1. CASE UNCHANGED vars
  BY <1>1 DEF vars, TypeOK, Started, initiatorVars, responderVars, connectionVars,
     streamVars, faultVars
<1>2. CASE Next
  BY <1>2, TypeConnect, TypeSend, TypeRead, TypeReceive, TypeEnd, StillStarted
  DEF Next, InitiatorSteps, ResponderSteps
<1> QED
  BY <1>1, <1>2

LEMMA TypeInv == Spec => [](TypeOK /\ Started)
<1>1. Init => Started
  BY DEF Init, Started, Gone
<1> QED
  BY <1>1, TypeInit, TypeNext, PTL DEF Spec

(* However the programs are started and killed, and however TCP cuts what  *)
(* they send, their variables stay in their types.                         *)
THEOREM TypeCorrect == Spec => []TypeOK
  BY TypeInv, PTL

-----------------------------------------------------------------------------
(* The table of callbacks.                                                 *)

(* The table after each call is a table, made from the one before. *)
LEMMA AddedIsATable ==
    /\ added \in [0..Len(Handled) -> Seq(Nat)]
    /\ added[0] = <<>>
    /\ \A k \in 1..Len(Handled) : added[k] = add_register_handle(added[k-1], Handled[k])
<1> DEFINE N == Len(Handled)
           step == [call \in Seq(Nat) \X (1..N) |->
                       add_register_handle(call[1], Handled[call[2]])]
<1>1. N \in Nat /\ \A k \in 1..N : Handled[k] \in Nat
  BY SessionAssumption, LenProperties, ElementOfSeq
<1>2. <<>> \in Seq(Nat)
  BY EmptySeq
<1>3. \A table \in Seq(Nat), k \in 1..N : add_register_handle(table, Handled[k]) \in Seq(Nat)
  BY <1>1, AppendProperties DEF add_register_handle
<1>4. step \in [Seq(Nat) \X (1..N) -> Seq(Nat)]
  BY <1>3
<1>5. \A table \in Seq(Nat), k \in 1..N :
        step[<<table, k>>] = add_register_handle(table, Handled[k])
  OBVIOUS
<1> HIDE DEF step, N
<1>6. PICK f \in [0..N -> Seq(Nat)] :
        f[0] = <<>> /\ \A k \in 1..N : f[k] = step[<<f[k-1], k>>]
  <2>1. N \in Nat
    BY <1>1
  <2>2. \E f \in [0..N -> Seq(Nat)] : Follows(f, N, <<>>, step)
    BY <1>2, <1>4, <2>1, RecursiveFunction
  <2> QED
    BY <2>2 DEF Follows
<1>7. \A k \in 1..N : f[k] = add_register_handle(f[k-1], Handled[k])
  <2> SUFFICES ASSUME NEW k \in 1..N
               PROVE  f[k] = add_register_handle(f[k-1], Handled[k])
    OBVIOUS
  <2>1. f[k-1] \in Seq(Nat)
    BY <1>1, <1>6
  <2> QED
    BY <1>5, <1>6, <2>1
<1>8. f = [k \in 0..N |-> IF k = 0 THEN <<>> ELSE add_register_handle(f[k-1], Handled[k])]
  <2>1. \A k \in 0..N :
          f[k] = IF k = 0 THEN <<>> ELSE add_register_handle(f[k-1], Handled[k])
    BY <1>1, <1>6, <1>7
  <2> QED
    BY <1>6, <2>1
<1>9. added = [k \in 0..N |-> IF k = 0 THEN <<>> ELSE add_register_handle(added[k-1], Handled[k])]
  BY <1>8 DEF added, N
<1>10. added[0] = <<>> /\ \A k \in 1..N : added[k] = add_register_handle(added[k-1], Handled[k])
  <2>1. \A k \in 0..N :
          added[k] = IF k = 0 THEN <<>> ELSE add_register_handle(added[k-1], Handled[k])
    BY <1>9, Zenon
  <2>2. 0 \in 0..N /\ \A k \in 1..N : k \in 0..N /\ k # 0
    BY <1>1
  <2> QED
    BY <2>1, <2>2, Zenon
<1> DEFINE T == {k \in 0..N : added[k] \in Seq(Nat)}
<1>11. 0 \in T
  <2>1. 0 \in 0..N /\ added[0] \in Seq(Nat)
    BY <1>1, <1>2, <1>10
  <2> QED
    BY <2>1
<1>12. ASSUME NEW k \in 0..N-1, k \in T PROVE k+1 \in T
  <2>1. k+1 \in 1..N /\ (k+1)-1 = k
    BY <1>1
  <2>2. added[k+1] = add_register_handle(added[k], Handled[k+1])
    BY <1>10, <2>1
  <2> QED
    BY <1>3, <1>12, <2>1, <2>2
<1>13. 0..N \subseteq T
  <2> HIDE DEF T
  <2> QED
    BY <1>1, <1>11, <1>12, InductionUpTo
<1>14. added \in [0..N -> Seq(Nat)]
  BY <1>9, <1>13
<1> QED
  BY <1>10, <1>14 DEF N

(* The table that has the registers from 0 on at their positions. *)
InOrder(table, n) ==
    /\ table \in Seq(Nat) /\ Len(table) = n
    /\ \A k \in 1..n : table[k] = k-1

(* A register that is added is in such a table already, or extends it. *)
LEMMA AddInOrder ==
    ASSUME NEW n \in Nat, NEW table, InOrder(table, n), NEW reg \in 0..n
    PROVE  InOrder(add_register_handle(table, reg), IF reg = n THEN n+1 ELSE n)
<1>0. DOMAIN table = 1..n /\ table \in Seq(Nat) /\ Len(table) = n
  BY LenProperties DEF InOrder
<1>1. CASE reg = n
  <2>1. ~\E k \in DOMAIN table : table[k] = reg
    BY <1>0, <1>1 DEF InOrder
  <2>2. add_register_handle(table, reg) = Append(table, n)
    BY <1>1, <2>1 DEF add_register_handle
  <2>3. /\ Append(table, n) \in Seq(Nat) /\ Len(Append(table, n)) = n+1
        /\ \A k \in 1..n : Append(table, n)[k] = table[k]
        /\ Append(table, n)[n+1] = n
    BY <1>0, AppendProperties
  <2>4. \A k \in 1..n+1 : Append(table, n)[k] = k-1
    BY <2>3 DEF InOrder
  <2> QED
    BY <1>1, <2>2, <2>3, <2>4 DEF InOrder
<1>2. CASE reg < n
  <2>1. reg+1 \in DOMAIN table /\ table[reg+1] = reg
    BY <1>0, <1>2 DEF InOrder
  <2>2. add_register_handle(table, reg) = table
    BY <2>1 DEF add_register_handle
  <2> QED
    BY <1>2, <2>2
<1> QED
  BY <1>1, <1>2

(* responder.py's table has the registers with a handle at their positions. *)
LEMMA TableInOrder ==
    \E n \in Nat : /\ InOrder(callback_table, n)
                  /\ {Handled[k] : k \in DOMAIN Handled} = 0..n-1
<1> DEFINE N == Len(Handled)
           Before(k) == {Handled[j] : j \in 1..k}
           T == {k \in 0..N : \E n \in Nat : InOrder(added[k], n) /\ Before(k) = 0..n-1}
<1>0. N \in Nat /\ DOMAIN Handled = 1..N /\ \A k \in 1..N : Handled[k] \in Nat
  BY SessionAssumption, LenProperties, ElementOfSeq
<1>1. 0 \in T
  <2>1. added[0] = <<>> /\ <<>> \in Seq(Nat) /\ Len(<<>>) = 0
    BY AddedIsATable, EmptySeq
  <2>2. InOrder(added[0], 0)
    BY <2>1 DEF InOrder
  <2>3. Before(0) = 0..0-1
    OBVIOUS
  <2>4. 0 \in 0..N
    BY <1>0
  <2> QED
    BY <2>2, <2>3, <2>4
<1>2. ASSUME NEW k \in 0..N-1, k \in T PROVE k+1 \in T
  <2>1. PICK n \in Nat : InOrder(added[k], n) /\ Before(k) = 0..n-1
    BY <1>2
  <2>2. k+1 \in 1..N /\ (k+1)-1 = k
    BY <1>0
  <2>3. Handled[k+1] \in 0..n
    <3>1. Handled[k+1] = 0 \/ \E j \in 1..k : Handled[j] = Handled[k+1] - 1
      BY <1>0, <2>2, HandledAssumption
    <3>2. Handled[k+1] = 0 \/ Handled[k+1] - 1 \in 0..n-1
      BY <2>1, <3>1
    <3> QED
      BY <1>0, <2>2, <3>2
  <2> DEFINE m == IF Handled[k+1] = n THEN n+1 ELSE n
  <2>4. InOrder(added[k+1], m)
    <3>1. added[k+1] = add_register_handle(added[k], Handled[k+1])
      BY <2>2, AddedIsATable
    <3> QED
      BY <2>1, <2>3, <3>1, AddInOrder
  <2>5. Before(k+1) = 0..m-1
    <3>1. Before(k+1) = Before(k) \cup {Handled[k+1]}
      <4>1. 1..k+1 = 1..k \cup {k+1}
        OBVIOUS
      <4> QED
        BY <4>1
    <3> QED
      BY <2>1, <2>3, <3>1
  <2> HIDE DEF Before
  <2> QED
    BY <2>2, <2>4, <2>5
<1>3. N \in T
  <2>1. 0..N \subseteq T
    <3> HIDE DEF T
    <3> QED
      BY <1>0, <1>1, <1>2, InductionUpTo
  <2> QED
    BY <1>0, <2>1
<1> QED
  BY <1>0, <1>3 DEF callback_table

(* So a register has its own callback, or none and keeps what was written. *)
LEMMA CallRight ==
    ASSUME NEW packet, packet.reg \in Register, NEW content, Call(packet, content)
    PROVE  /\ called' = [reg |-> packet.reg,
                         callback |-> IF \E k \in DOMAIN Handled : Handled[k] = packet.reg
                                      THEN packet.reg ELSE None]
           /\ (~\E k \in DOMAIN Handled : Handled[k] = packet.reg) =>
                  registers' = [registers EXCEPT ![packet.reg] = content]
<1>1. PICK n \in Nat : /\ InOrder(callback_table, n)
                       /\ {Handled[k] : k \in DOMAIN Handled} = 0..n-1
  BY TableInOrder
<1>2. packet.reg \in Nat
  BY SessionAssumption DEF Register
<1>3. packet.reg < n <=> \E k \in DOMAIN Handled : Handled[k] = packet.reg
  BY <1>1, <1>2
<1>4. Len(callback_table) = n
  BY <1>1 DEF InOrder
<1>5. packet.reg < n => callback_table[packet.reg + 1] = packet.reg
  BY <1>1, <1>2 DEF InOrder
<1>6. CASE packet.reg < n
  BY <1>3, <1>4, <1>5, <1>6 DEF Call
<1>7. CASE ~(packet.reg < n)
  BY <1>3, <1>4, <1>7 DEF Call
<1> QED
  BY <1>6, <1>7

(* A request calls the callback that was added for its register, and none  *)
(* if none was, whatever callbacks are added from register 0 on.           *)
THEOREM CallsAreRight == Spec => []CallsOwnCallback
<1>1. Init => CallsOwnCallback
  BY DEF Init, CallsOwnCallback
<1>2. CallsOwnCallback /\ [Next]_vars => CallsOwnCallback'
  <2> SUFFICES ASSUME CallsOwnCallback, [Next]_vars PROVE CallsOwnCallback'
    OBVIOUS
  <2>1. called' = called \/ called' = None \/ ReceiveRequest
    <3>1. CASE StartInitiator \/ StartResponder \/ InitiatorSteps \/ SendRequest
      BY <3>1 DEF StartInitiator, StartResponder, InitiatorSteps, SendRequest,
         InitiatorAccepts, InitiatorConnects, ReadResponse, ResponderIsGone, responderVars
    <3>2. CASE ResponderSteps \/ KillInitiator \/ KillResponder \/ UNCHANGED vars
      BY <3>2 DEF ResponderSteps, KillInitiator, KillResponder, vars, ResponderConnects,
         ResponderListens, ResponderAccepts, InitiatorIsGone, responderVars
    <3> QED
      BY <3>1, <3>2 DEF Next
  <2>2. CASE called' = called \/ called' = None
    BY <2>2 DEF CallsOwnCallback
  <2>3. CASE ReceiveRequest
    <3>1. called' = called \/ \E packet : Process(packet)
      BY <2>3, Zenon DEF ReceiveRequest, responderVars
    <3>2. ASSUME NEW packet, Process(packet), called' # called
          PROVE  CallsOwnCallback'
      <4>1. ~(packet = None \/ packet.reg \notin Register)
        BY <3>2, Zenon DEF Process
      <4>2. Call(packet, IF packet.write = 1 THEN packet.value ELSE registers[packet.reg])
        BY <3>2, <4>1, Zenon DEF Process
      <4> QED
        BY <4>1, <4>2, CallRight DEF CallsOwnCallback
    <3> QED
      BY <2>2, <3>1, <3>2
  <2> QED
    BY <2>1, <2>2, <2>3
<1> QED
  BY <1>1, <1>2, PTL DEF Spec

-----------------------------------------------------------------------------
(* Operations.  An operation has one packet under way: its request or the  *)
(* answer to it, part of which the receiver has got already.               *)

Up == {"opening", "accepting", "receiving"}

NoRequest  == received.responder = <<>> /\ toResponder = <<>>
NoResponse == received.initiator = <<>> /\ toInitiator = <<>>

(* The numbers of the programs at the other ends. *)
Numbers ==
    /\ iwrrEnds.initiator <= starts.responder /\ irrwEnds.initiator <= starts.responder
    /\ iwrrEnds.responder <= starts.initiator
    /\ \A k \in DOMAIN iwrrBacklog : iwrrBacklog[k] <= starts.responder
    /\ initiator = "accepting" => iwrrEnds.initiator = 0
    /\ initiator \in {"accepting", "connecting"} => irrwEnds.initiator = 0
    /\ initiator \in {"connecting", "idle", "reading"} => iwrrEnds.initiator > 0
    /\ initiator \in {"idle", "reading"} => iwrrEnds.initiator <= irrwEnds.initiator

(* Nothing of an earlier session reaches a program. *)
Fresh ==
    /\ initiator \in {"accepting", "connecting"} => NoResponse
    /\ responder = "connecting" =>
          /\ NoRequest /\ irrwBacklog = <<>> /\ iwrrEnds.initiator # starts.responder
          /\ \A k \in DOMAIN iwrrBacklog : iwrrBacklog[k] # starts.responder

(* A responder's two connections are with the same initiator. *)
Linked ==
    responder \in Up =>
       /\ initiator \notin Gone /\ (iwrrBacklog # <<>> \/ iwrrEnds.initiator # 0)
             => iwrrEnds.responder = starts.initiator
       /\ \A k \in DOMAIN irrwBacklog : irrwBacklog[k] = iwrrEnds.responder
       /\ responder = "receiving" => irrwEnds.responder = iwrrEnds.responder

(* What a responder has to read from an initiator that runs. *)
RequestStream ==
    responder \in Up /\ InitiatorRuns(iwrrEnds.responder) =>
       \/ NoRequest
       \/ /\ initiator = "reading" /\ NoResponse
          /\ received.responder \o toResponder = Encoded(asked)
          /\ iwrrEnds.initiator = starts.responder /\ irrwEnds.initiator = starts.responder

(* What an initiator has to read from a responder that runs: the value is  *)
(* still that of the register, as no other request is under way.           *)
Answered == [asked EXCEPT !.ack = 1, !.value = registers[asked.reg]]
HasHandle(reg) == \E k \in DOMAIN Handled : Handled[k] = reg

ResponseStream ==
    initiator \notin Gone /\ ResponderRuns(irrwEnds.initiator) =>
       \/ NoResponse
       \/ /\ initiator = "reading" /\ NoRequest /\ asked.reg \in Register
          /\ received.initiator \o toInitiator = Encoded(Answered)
          /\ asked.write = 1 /\ ~HasHandle(asked.reg) => registers[asked.reg] = asked.value

SessionInv ==
    /\ Numbers /\ Fresh /\ Linked /\ RequestStream /\ ResponseStream
    /\ initiator = "reading" => asked \in Request

LEMMA SessionInit == Init => SessionInv
  BY DEF Init, SessionInv, Numbers, Fresh, Linked, RequestStream, ResponseStream, Gone, Up,
     Nobody, NoRequest, NoResponse

LEMMA BacklogType ==
    ASSUME ConnectionsOK
    PROVE  /\ DOMAIN iwrrBacklog = 1..Len(iwrrBacklog) /\ Len(iwrrBacklog) \in Nat
           /\ \A k \in DOMAIN iwrrBacklog : iwrrBacklog[k] \in Nat /\ iwrrBacklog[k] > 0
           /\ DOMAIN irrwBacklog = 1..Len(irrwBacklog) /\ Len(irrwBacklog) \in Nat
<1>1. iwrrBacklog \in Seq(1..MaxStarts) /\ irrwBacklog \in Seq(1..MaxStarts)
  BY DEF ConnectionsOK
<1>2. DOMAIN iwrrBacklog = 1..Len(iwrrBacklog) /\ Len(iwrrBacklog) \in Nat
      /\ DOMAIN irrwBacklog = 1..Len(irrwBacklog) /\ Len(irrwBacklog) \in Nat
  BY <1>1, LenProperties
<1>3. \A k \in DOMAIN iwrrBacklog : iwrrBacklog[k] \in 1..MaxStarts
  BY <1>1, <1>2, ElementOfSeq
<1>4. \A k \in DOMAIN iwrrBacklog : iwrrBacklog[k] \in Nat /\ iwrrBacklog[k] > 0
  BY <1>3, SessionAssumption
<1> QED
  BY <1>2, <1>4

(* The backlogs when the first is taken, and when another comes. *)
LEMMA FirstTaken ==
    ASSUME NEW S, NEW backlog \in Seq(S), backlog # <<>>
    PROVE  /\ 1 \in DOMAIN backlog /\ Head(backlog) = backlog[1]
           /\ \A k \in DOMAIN Tail(backlog) : k+1 \in DOMAIN backlog
                                             /\ Tail(backlog)[k] = backlog[k+1]
  OBVIOUS

LEMMA OneMore ==
    ASSUME NEW S, NEW backlog \in Seq(S), NEW number \in S
    PROVE  \A k \in DOMAIN Append(backlog, number) :
              \/ k \in DOMAIN backlog /\ Append(backlog, number)[k] = backlog[k]
              \/ Append(backlog, number)[k] = number
  OBVIOUS

(* A program that starts has nothing to do with what was before. *)
LEMMA SessionStartInitiator ==
    ASSUME TypeOK, Started, SessionInv, StartInitiator
    PROVE  SessionInv'
<1>1. /\ initiator \in Gone /\ initiator' = "accepting" /\ iwrrBacklog' = <<>>
      /\ toInitiator' = <<>> /\ UNCHANGED <<responder, irrwBacklog, toResponder, registers>>
  BY DEF StartInitiator, responderVars
<1>2. /\ starts'.initiator = starts.initiator + 1 /\ starts'.responder = starts.responder
      /\ iwrrEnds'.initiator = 0 /\ iwrrEnds'.responder = iwrrEnds.responder
      /\ irrwEnds'.initiator = 0 /\ irrwEnds'.responder = irrwEnds.responder
      /\ received'.initiator = <<>> /\ received'.responder = received.responder
  BY TypeParts DEF StartInitiator, ConnectionsOK, StreamsOK, Numbering
<1>3. /\ starts.initiator \in Nat /\ starts.responder \in Nat
      /\ iwrrEnds.responder \in Nat /\ iwrrEnds.initiator \in Nat
  BY TypeParts, NumberType
<1>4. Numbers'
  BY <1>1, <1>2, <1>3 DEF SessionInv, Numbers, Gone
<1>5. Fresh'
  BY <1>1, <1>2, <1>3 DEF SessionInv, Fresh, NoRequest, NoResponse, Started, Gone
<1>6. Linked'
  BY <1>1, <1>2 DEF SessionInv, Linked
<1>7. RequestStream'
  BY <1>1, <1>2, <1>3 DEF SessionInv, Numbers, RequestStream, InitiatorRuns
<1>8. ResponseStream'
  BY <1>1, <1>2, <1>3 DEF ResponseStream, ResponderRuns, Started
<1> QED
  BY <1>1, <1>4, <1>5, <1>6, <1>7, <1>8 DEF SessionInv

LEMMA SessionStartResponder ==
    ASSUME TypeOK, Started, SessionInv, StartResponder
    PROVE  SessionInv'
<1>1. /\ responder \in Gone /\ responder' = "connecting" /\ irrwBacklog' = <<>>
      /\ toResponder' = <<>> /\ UNCHANGED <<initiator, asked, iwrrBacklog, toInitiator>>
  BY DEF StartResponder, initiatorVars
<1>2. /\ starts'.responder = starts.responder + 1 /\ starts'.initiator = starts.initiator
      /\ iwrrEnds'.responder = 0 /\ iwrrEnds'.initiator = iwrrEnds.initiator
      /\ irrwEnds'.responder = 0 /\ irrwEnds'.initiator = irrwEnds.initiator
      /\ received'.responder = <<>> /\ received'.initiator = received.initiator
  BY TypeParts DEF StartResponder, ConnectionsOK, StreamsOK, Numbering
<1>3. /\ starts.initiator \in Nat /\ starts.responder \in Nat
      /\ iwrrEnds.initiator \in Nat /\ irrwEnds.initiator \in Nat
  BY TypeParts, NumberType
<1>4. \A k \in DOMAIN iwrrBacklog : iwrrBacklog[k] \in Nat
  BY TypeParts, BacklogType
<1>5. Numbers'
  BY <1>1, <1>2, <1>3, <1>4 DEF SessionInv, Numbers
<1>6. Fresh'
  BY <1>1, <1>2, <1>3, <1>4 DEF SessionInv, Numbers, Fresh, NoRequest, NoResponse
<1>7. Linked'
  BY <1>1 DEF Linked, Up
<1>8. RequestStream' /\ ResponseStream'
  BY <1>1, <1>2, <1>3 DEF SessionInv, Numbers, RequestStream, ResponseStream, ResponderRuns, Up
<1> QED
  BY <1>1, <1>5, <1>6, <1>7, <1>8 DEF SessionInv

(* Accepting and connecting. *)
LEMMA SessionInitiatorAccepts ==
    ASSUME TypeOK, Started, SessionInv, InitiatorAccepts
    PROVE  SessionInv'
<1>1. /\ initiator = "accepting" /\ initiator' = "connecting" /\ iwrrBacklog # <<>>
      /\ iwrrBacklog' = Tail(iwrrBacklog)
      /\ UNCHANGED <<responder, registers, asked, irrwBacklog, irrwEnds, toResponder,
                     toInitiator, received, starts>>
  BY DEF InitiatorAccepts, responderVars, streamVars, faultVars
<1>2. iwrrEnds'.initiator = Head(iwrrBacklog) /\ iwrrEnds'.responder = iwrrEnds.responder
  BY TypeParts DEF InitiatorAccepts, ConnectionsOK, Numbering
<1>3. /\ iwrrBacklog \in Seq(1..MaxStarts)
      /\ 1 \in DOMAIN iwrrBacklog /\ Head(iwrrBacklog) = iwrrBacklog[1]
      /\ \A k \in DOMAIN iwrrBacklog' : \E j \in DOMAIN iwrrBacklog :
                                            iwrrBacklog'[k] = iwrrBacklog[j]
  BY <1>1, TypeParts, FirstTaken DEF ConnectionsOK
<1>4. iwrrBacklog[1] \in Nat /\ iwrrBacklog[1] > 0
  BY <1>3, TypeParts, BacklogType
<1>5. Numbers'
  BY <1>1, <1>2, <1>3, <1>4 DEF SessionInv, Numbers
<1>6. Fresh'
  BY <1>1, <1>2, <1>3 DEF SessionInv, Fresh, NoRequest, NoResponse
<1>7. Linked'
  BY <1>1, <1>2, <1>3 DEF SessionInv, Linked, Gone
<1>8. RequestStream'
  BY <1>1, <1>2 DEF SessionInv, RequestStream, InitiatorRuns, NoRequest, Gone
<1>9. ResponseStream'
  BY <1>1 DEF SessionInv, Fresh, ResponseStream, NoResponse
<1> QED
  BY <1>1, <1>5, <1>6, <1>7, <1>8, <1>9 DEF SessionInv

LEMMA SessionInitiatorConnects ==
    ASSUME TypeOK, Started, SessionInv, InitiatorConnects
    PROVE  SessionInv'
<1>1. /\ initiator = "connecting" /\ initiator' \in {"idle", "ended"}
      /\ UNCHANGED <<responder, registers, asked, iwrrBacklog, iwrrEnds, toResponder,
                     toInitiator, received, starts>>
  BY DEF InitiatorConnects, responderVars, streamVars, faultVars
<1>2. /\ starts.responder \in Nat /\ starts.initiator \in Nat
      /\ iwrrEnds.initiator \in Nat
  BY TypeParts, NumberType
<1>3. CASE responder \in {"accepting", "receiving"}
  <2>1. /\ initiator' = "idle" /\ irrwBacklog' = Append(irrwBacklog, starts.initiator)
        /\ irrwEnds'.initiator = starts.responder /\ irrwEnds'.responder = irrwEnds.responder
    BY <1>3, TypeParts DEF InitiatorConnects, ConnectionsOK, Numbering
  <2>2. iwrrEnds.responder = starts.initiator
    BY <1>1, <1>2, <1>3 DEF SessionInv, Linked, Numbers, Up, Gone
  <2>3. starts.initiator \in 1..MaxStarts
    BY <1>1, TypeParts, NumberType DEF Started, Gone
  <2>4. \A k \in DOMAIN irrwBacklog' : irrwBacklog'[k] = iwrrEnds.responder
    <3>1. \A k \in DOMAIN irrwBacklog : irrwBacklog[k] = iwrrEnds.responder
      BY <1>3 DEF SessionInv, Linked, Up
    <3>2. irrwBacklog \in Seq(1..MaxStarts)
      BY TypeParts DEF ConnectionsOK
    <3> QED
      BY <2>1, <2>2, <2>3, <3>1, <3>2, OneMore
  <2>5. Numbers'
    BY <1>1, <1>2, <2>1 DEF SessionInv, Numbers
  <2>6. Fresh'
    BY <1>1, <1>3, <2>1 DEF Fresh
  <2>7. Linked'
    BY <1>1, <2>1, <2>2, <2>4 DEF SessionInv, Linked
  <2>8. RequestStream'
    BY <1>1, <2>1 DEF SessionInv, RequestStream, InitiatorRuns, NoRequest, Gone
  <2>9. ResponseStream'
    BY <1>1, <2>1 DEF SessionInv, Fresh, ResponseStream, NoResponse
  <2> QED
    BY <2>1, <2>5, <2>6, <2>7, <2>8, <2>9 DEF SessionInv
<1>4. CASE responder \notin {"accepting", "receiving"}
  <2>1. initiator' = "ended" /\ UNCHANGED <<irrwBacklog, irrwEnds>>
    BY <1>4 DEF InitiatorConnects
  <2> QED
    BY <1>1, <2>1 DEF SessionInv, Numbers, Fresh, Linked, RequestStream, ResponseStream,
       InitiatorRuns, NoRequest, NoResponse, Gone
<1> QED
  BY <1>3, <1>4

LEMMA SessionResponderConnects ==
    ASSUME TypeOK, Started, SessionInv, ResponderConnects
    PROVE  SessionInv'
<1>1. /\ responder = "connecting" /\ responder' \in {"opening", "ended"}
      /\ UNCHANGED <<initiator, asked, registers, irrwBacklog, irrwEnds, toResponder,
                     toInitiator, received, starts>>
  BY DEF ResponderConnects, initiatorVars, streamVars, faultVars
<1>2. /\ starts.responder \in Nat /\ starts.initiator \in Nat
      /\ iwrrEnds.initiator \in Nat
  BY TypeParts, NumberType
<1>3. CASE initiator \notin Gone
  <2>1. /\ responder' = "opening" /\ iwrrBacklog' = Append(iwrrBacklog, starts.responder)
        /\ iwrrEnds'.responder = starts.initiator /\ iwrrEnds'.initiator = iwrrEnds.initiator
    BY <1>3, TypeParts DEF ResponderConnects, ConnectionsOK, Numbering
  <2>2. starts.responder \in 1..MaxStarts
    BY <1>1, TypeParts, NumberType DEF Started, Gone
  <2>3. \A k \in DOMAIN iwrrBacklog' : iwrrBacklog'[k] <= starts.responder
    <3>1. \A k \in DOMAIN iwrrBacklog : iwrrBacklog[k] <= starts.responder
      BY DEF SessionInv, Numbers
    <3>2. iwrrBacklog \in Seq(1..MaxStarts)
      BY TypeParts DEF ConnectionsOK
    <3> QED
      BY <1>2, <2>1, <2>2, <3>1, <3>2, OneMore
  <2>4. Numbers'
    BY <1>1, <1>2, <2>1, <2>3 DEF SessionInv, Numbers
  <2>5. Fresh'
    BY <1>1, <2>1 DEF SessionInv, Fresh, NoResponse
  <2>6. Linked'
    BY <1>1, <2>1 DEF SessionInv, Fresh, Linked
  <2>7. RequestStream'
    BY <1>1 DEF SessionInv, Fresh, RequestStream, NoRequest
  <2>8. ResponseStream'
    BY <1>1, <2>1 DEF SessionInv, ResponseStream, ResponderRuns, NoRequest, NoResponse,
       Answered, Gone
  <2> QED
    BY <1>1, <2>4, <2>5, <2>6, <2>7, <2>8 DEF SessionInv
<1>4. CASE initiator \in Gone
  <2>1. responder' = "ended" /\ UNCHANGED <<iwrrBacklog, iwrrEnds>>
    BY <1>4 DEF ResponderConnects
  <2> QED
    BY <1>1, <1>4, <2>1 DEF SessionInv, Numbers, Fresh, Linked, RequestStream, ResponseStream,
       NoRequest, NoResponse, Gone, Up
<1> QED
  BY <1>3, <1>4

LEMMA SessionResponderAccepts ==
    ASSUME TypeOK, SessionInv, ResponderListens \/ ResponderAccepts
    PROVE  SessionInv'
<1>1. /\ responder \in Up /\ responder' \in Up
      /\ UNCHANGED <<initiator, asked, registers, iwrrBacklog, iwrrEnds, toResponder,
                     toInitiator, received, starts>>
      /\ irrwEnds'.initiator = irrwEnds.initiator
  BY TypeParts DEF ResponderListens, ResponderAccepts, initiatorVars, connectionVars,
     streamVars, faultVars, ConnectionsOK, Numbering, Up
<1>2. Linked'
  <2>1. CASE ResponderListens
    BY <1>1, <2>1 DEF SessionInv, Linked, ResponderListens, connectionVars
  <2>2. CASE ResponderAccepts
    <3>1. /\ irrwBacklog # <<>> /\ irrwBacklog' = Tail(irrwBacklog)
          /\ irrwEnds'.responder = Head(irrwBacklog)
      BY <2>2, TypeParts DEF ResponderAccepts, ConnectionsOK, Numbering
    <3>2. /\ 1 \in DOMAIN irrwBacklog /\ Head(irrwBacklog) = irrwBacklog[1]
          /\ \A k \in DOMAIN irrwBacklog' : \E j \in DOMAIN irrwBacklog :
                                                irrwBacklog'[k] = irrwBacklog[j]
      BY <3>1, TypeParts, FirstTaken DEF ConnectionsOK
    <3> QED
      BY <1>1, <3>1, <3>2 DEF SessionInv, Linked
  <2> QED
    BY <2>1, <2>2
<1>3. Numbers' /\ Fresh'
  BY <1>1 DEF SessionInv, Numbers, Fresh, NoRequest, NoResponse, Up
<1>4. RequestStream' /\ ResponseStream'
  BY <1>1 DEF SessionInv, RequestStream, ResponseStream, InitiatorRuns, ResponderRuns,
     NoRequest, NoResponse, Answered, Up, Gone
<1> QED
  BY <1>1, <1>2, <1>3, <1>4 DEF SessionInv

(* A request is sent when none is under way. *)
LEMMA SessionSend ==
    ASSUME TypeOK, Started, SessionInv, SendRequest
    PROVE  SessionInv'
<1>1. /\ initiator = "idle" /\ initiator' \in {"reading", "ended"} /\ asked' \in Request
      /\ UNCHANGED <<responder, registers, iwrrBacklog, irrwBacklog, iwrrEnds, irrwEnds,
                     toInitiator, received, starts>>
  BY DEF SendRequest, responderVars, connectionVars, faultVars
<1>2. Numbers' /\ Linked'
  BY <1>1 DEF SessionInv, Numbers, Linked, Gone
<1>3. responder \in Up /\ InitiatorRuns(iwrrEnds.responder) => NoRequest
  BY <1>1 DEF SessionInv, RequestStream
<1>4. ResponderRuns(irrwEnds.initiator) => NoResponse
  BY <1>1 DEF SessionInv, ResponseStream, Gone
<1>5. ResponseStream'
  BY <1>1, <1>4 DEF ResponseStream, ResponderRuns, NoResponse
<1>6. CASE ResponderRuns(iwrrEnds.initiator)
  <2>1. initiator' = "reading" /\ toResponder' = toResponder \o Encoded(asked')
    BY <1>6 DEF SendRequest
  <2>2. /\ responder \in Up /\ iwrrEnds.initiator = starts.responder
        /\ starts.initiator = iwrrEnds.responder /\ starts.responder > 0
    BY <1>1, <1>6, TypeParts DEF SessionInv, Fresh, Linked, Numbers, ResponderRuns, Up, Gone,
       ProgramsOK, Started
  <2>3. irrwEnds.initiator = starts.responder
    BY <1>1, <2>2, TypeParts, NumberType DEF SessionInv, Numbers
  <2>4. NoRequest /\ NoResponse
    BY <1>1, <1>3, <1>4, <1>6, <2>2, <2>3 DEF InitiatorRuns, ResponderRuns, Gone
  <2>5. received'.responder \o toResponder' = Encoded(asked')
    <3>1. Encoded(asked') \in Seq(Byte)
      BY <1>1, RequestIsPacket, EncodedDecoded
    <3> QED
      BY <1>1, <2>1, <2>4, <3>1, ConcatEmptySeq DEF NoRequest
  <2>6. RequestStream'
    BY <1>1, <2>1, <2>2, <2>3, <2>4, <2>5 DEF RequestStream, NoResponse
  <2>7. Fresh'
    BY <1>1, <2>1, <2>2 DEF Fresh, Up
  <2> QED
    BY <1>1, <1>2, <1>5, <2>6, <2>7 DEF SessionInv
<1>7. CASE ~ResponderRuns(iwrrEnds.initiator)
  <2>1. toResponder' = toResponder
    BY <1>7 DEF SendRequest
  <2>2. RequestStream'
    BY <1>1, <1>3, <2>1 DEF RequestStream, InitiatorRuns, NoRequest, Gone
  <2>3. Fresh'
    BY <1>1, <2>1 DEF SessionInv, Fresh, NoRequest
  <2> QED
    BY <1>1, <1>2, <1>5, <2>2, <2>3 DEF SessionInv
<1> QED
  BY <1>6, <1>7

(* Nothing is received when nothing is on its way. *)
LEMMA NoPieces == Pieces(<<>>, <<>>) = {}
  BY SessionAssumption, EmptySeq DEF Pieces

(* The answer is a packet like the request. *)
LEMMA AnsweredType ==
    ASSUME TypeOK, asked \in Request, asked.reg \in Register
    PROVE  /\ Answered \in Packet
           /\ Answered.reg = asked.reg /\ Answered.value = registers[asked.reg]
<1>1. asked \in Packet /\ registers[asked.reg] \in Value
  BY RequestIsPacket DEF TypeOK
<1> QED
  BY <1>1 DEF Packet, Answered

(* What the initiator reads from a responder that runs is, once it is a    *)
(* whole packet, the answer to its request.                                *)
LEMMA ReadsAnswer ==
    ASSUME TypeOK, SessionInv, ResponderRuns(irrwEnds.initiator), initiator = "reading",
           NEW piece \in Pieces(received.initiator, toInitiator)
    PROVE  /\ NoRequest /\ asked \in Request /\ asked.reg \in Register
           /\ asked.write = 1 /\ ~HasHandle(asked.reg) => registers[asked.reg] = asked.value
           /\ piece.got \o SubSeq(toInitiator, piece.rest, Len(toInitiator)) = Encoded(Answered)
           /\ piece.all => /\ Decoded(piece.got) = Answered
                           /\ SubSeq(toInitiator, piece.rest, Len(toInitiator)) = <<>>
<1>1. ~NoResponse
  BY NoPieces DEF NoResponse
<1>2. /\ NoRequest /\ asked \in Request /\ asked.reg \in Register
      /\ asked.write = 1 /\ ~HasHandle(asked.reg) => registers[asked.reg] = asked.value
      /\ received.initiator \o toInitiator = Encoded(Answered)
  BY <1>1 DEF SessionInv, ResponseStream, Gone
<1>3. /\ received.initiator \in Seq(Byte) /\ toInitiator \in Seq(Byte)
      /\ Len(received.initiator) < FrameLen
  BY BytesOfByte DEF TypeOK
<1> DEFINE rest == SubSeq(toInitiator, piece.rest, Len(toInitiator))
<1>4. /\ piece.got \in Seq(Byte) /\ rest \in Seq(Byte)
      /\ piece.all => Len(piece.got) = FrameLen
      /\ piece.got \o rest = Encoded(Answered)
  <2> HIDE DEF rest
  <2>1. /\ piece.got \in Seq(Byte) /\ rest \in Seq(Byte)
        /\ piece.all => Len(piece.got) = FrameLen
        /\ piece.got \o rest = received.initiator \o toInitiator
    BY <1>3, PieceTaken DEF rest
  <2> QED
    BY <1>2, <2>1, Zenon
<1>5. /\ Encoded(Answered) \in Seq(Byte) /\ Len(Encoded(Answered)) = FrameLen
      /\ Decoded(Encoded(Answered)) = Answered
  BY <1>2, AnsweredType, EncodedDecoded
<1>6. ASSUME piece.all PROVE Decoded(piece.got) = Answered /\ rest = <<>>
  <2> HIDE DEF rest
  <2>1. piece.got = Encoded(Answered) /\ rest = <<>>
    <3>1. Len(piece.got) = Len(Encoded(Answered))
      BY <1>4, <1>5, <1>6, Zenon
    <3> QED
      BY <1>4, <1>5, <3>1, AllOfIt, Zenon
  <2> QED
    BY <1>5, <2>1
<1> QED
  BY <1>2, <1>4, <1>6, Zenon

(* The same of the request that the responder reads. *)
LEMMA ReadsRequest ==
    ASSUME TypeOK, SessionInv, InitiatorRuns(iwrrEnds.responder), responder = "receiving",
           NEW piece \in Pieces(received.responder, toResponder)
    PROVE  /\ NoResponse /\ initiator = "reading" /\ asked \in Request
           /\ iwrrEnds.initiator = starts.responder /\ irrwEnds.initiator = starts.responder
           /\ piece.got \o SubSeq(toResponder, piece.rest, Len(toResponder)) = Encoded(asked)
           /\ piece.all => /\ Decoded(piece.got) = asked
                           /\ SubSeq(toResponder, piece.rest, Len(toResponder)) = <<>>
<1>1. ~NoRequest
  BY NoPieces DEF NoRequest
<1>2. /\ NoResponse /\ initiator = "reading" /\ asked \in Request
      /\ iwrrEnds.initiator = starts.responder /\ irrwEnds.initiator = starts.responder
      /\ received.responder \o toResponder = Encoded(asked)
  BY <1>1 DEF SessionInv, RequestStream, Up
<1>3. /\ received.responder \in Seq(Byte) /\ toResponder \in Seq(Byte)
      /\ Len(received.responder) < FrameLen
  BY BytesOfByte DEF TypeOK
<1> DEFINE rest == SubSeq(toResponder, piece.rest, Len(toResponder))
<1>4. /\ piece.got \in Seq(Byte) /\ rest \in Seq(Byte)
      /\ piece.all => Len(piece.got) = FrameLen
      /\ piece.got \o rest = Encoded(asked)
  <2> HIDE DEF rest
  <2>1. /\ piece.got \in Seq(Byte) /\ rest \in Seq(Byte)
        /\ piece.all => Len(piece.got) = FrameLen
        /\ piece.got \o rest = received.responder \o toResponder
    BY <1>3, PieceTaken DEF rest
  <2> QED
    BY <1>2, <2>1, Zenon
<1>5. /\ Encoded(asked) \in Seq(Byte) /\ Len(Encoded(asked)) = FrameLen
      /\ Decoded(Encoded(asked)) = asked
  BY <1>2, RequestIsPacket, EncodedDecoded
<1>6. ASSUME piece.all PROVE Decoded(piece.got) = asked /\ rest = <<>>
  <2> HIDE DEF rest
  <2>1. piece.got = Encoded(asked) /\ rest = <<>>
    <3>1. Len(piece.got) = Len(Encoded(asked))
      BY <1>4, <1>5, <1>6, Zenon
    <3> QED
      BY <1>4, <1>5, <3>1, AllOfIt, Zenon
  <2> QED
    BY <1>5, <2>1
<1> QED
  BY <1>2, <1>4, <1>6, Zenon

(* The initiator goes on reading, or its operation is over. *)
LEMMA SessionRead ==
    ASSUME TypeOK, SessionInv, ReadResponse
    PROVE  SessionInv'
<1>1. PICK piece \in Pieces(received.initiator, toInitiator) :
        /\ toInitiator' = SubSeq(toInitiator, piece.rest, Len(toInitiator))
        /\ IF piece.all
           THEN /\ TakeResponse(Decoded(piece.got))
                /\ received' = [received EXCEPT !.initiator = <<>>]
           ELSE /\ received' = [received EXCEPT !.initiator = piece.got]
                /\ UNCHANGED <<initiator, cache>>
  BY Zenon DEF ReadResponse
<1>2. /\ initiator = "reading" /\ initiator' \in {"ended", "idle", "reading"}
      /\ UNCHANGED <<responder, registers, asked, iwrrBacklog, irrwBacklog, iwrrEnds,
                     irrwEnds, toResponder, starts>>
  BY TypeRead DEF ReadResponse, responderVars, connectionVars, faultVars
<1>3. received'.responder = received.responder
      /\ received'.initiator = IF piece.all THEN <<>> ELSE piece.got
  BY <1>1 DEF TypeOK
<1>4. Numbers' /\ Linked'
  BY <1>2 DEF SessionInv, Numbers, Linked, Gone
<1>5. Fresh'
  BY <1>2, <1>3 DEF SessionInv, Fresh, NoRequest
<1>6. RequestStream'
  <2>1. ~NoResponse
    BY <1>1, NoPieces DEF NoResponse
  <2> QED
    BY <1>2, <1>3, <2>1 DEF SessionInv, RequestStream, InitiatorRuns, NoRequest, Gone
<1>7. ResponseStream'
  <2> SUFFICES ASSUME ResponderRuns(irrwEnds.initiator)
               PROVE  ResponseStream'
    BY <1>2 DEF ResponseStream, ResponderRuns
  <2>1. /\ NoRequest /\ asked.reg \in Register
        /\ asked.write = 1 /\ ~HasHandle(asked.reg) => registers[asked.reg] = asked.value
        /\ piece.got \o toInitiator' = Encoded(Answered)
        /\ piece.all => toInitiator' = <<>>
    BY <1>1, <1>2, ReadsAnswer
  <2>2. CASE piece.all
    BY <1>3, <2>1, <2>2 DEF ResponseStream, NoResponse
  <2>3. CASE ~piece.all
    <3>1. initiator' = "reading"
      BY <1>1, <1>2, <2>3
    <3>2. received'.initiator \o toInitiator' = Encoded(Answered)
      BY <1>3, <2>1, <2>3
    <3>3. Answered' = Answered
      BY <1>2 DEF Answered
    <3>4. Encoded(Answered)' = Encoded(Answered)
      BY <3>3 DEF Encoded
    <3>5. NoRequest'
      BY <1>2, <1>3, <2>1 DEF NoRequest
    <3> QED
      BY <1>2, <2>1, <3>1, <3>2, <3>4, <3>5 DEF ResponseStream
  <2> QED
    BY <2>2, <2>3
<1> QED
  BY <1>2, <1>4, <1>5, <1>6, <1>7 DEF SessionInv

(* The responder goes on reading, or answers. *)
LEMMA SessionReceive ==
    ASSUME TypeOK, Started, SessionInv, ReceiveRequest
    PROVE  SessionInv'
<1>1. PICK piece \in Pieces(received.responder, toResponder) :
        /\ toResponder' = SubSeq(toResponder, piece.rest, Len(toResponder))
        /\ IF piece.all
           THEN /\ Process(Decoded(piece.got))
                /\ received' = [received EXCEPT !.responder = <<>>]
           ELSE /\ received' = [received EXCEPT !.responder = piece.got]
                /\ UNCHANGED <<responderVars, toInitiator>>
  BY Zenon DEF ReceiveRequest
<1>2. /\ responder = "receiving"
      /\ UNCHANGED <<initiator, asked, iwrrBacklog, irrwBacklog, iwrrEnds, irrwEnds, starts>>
  BY DEF ReceiveRequest, initiatorVars, connectionVars, faultVars
<1>3. responder' \in {"receiving", "ended"}
  <2>1. CASE ~piece.all
    BY <1>1, <1>2, <2>1 DEF responderVars
  <2>2. CASE piece.all
    BY <1>1, <2>2 DEF Process, SendResponse
  <2> QED
    BY <2>1, <2>2
<1>4. received'.initiator = received.initiator
      /\ received'.responder = IF piece.all THEN <<>> ELSE piece.got
  BY <1>1 DEF TypeOK
<1>5. Numbers' /\ Linked'
  BY <1>2, <1>3 DEF SessionInv, Numbers, Linked, Up
<1>6. irrwEnds.responder = iwrrEnds.responder
  BY <1>2 DEF SessionInv, Linked, Up
<1>7. CASE InitiatorRuns(iwrrEnds.responder)
  <2>1. /\ NoResponse /\ initiator = "reading" /\ asked \in Request
        /\ iwrrEnds.initiator = starts.responder /\ irrwEnds.initiator = starts.responder
        /\ piece.got \o toResponder' = Encoded(asked)
        /\ piece.all => Decoded(piece.got) = asked /\ toResponder' = <<>>
    BY <1>1, <1>2, <1>7, ReadsRequest
  <2>2. Fresh'
    BY <1>2, <1>3, <2>1 DEF Fresh
  <2>3. CASE ~piece.all
    <3>1. responder' = "receiving" /\ toInitiator' = toInitiator
      BY <1>1, <1>2, <2>3 DEF responderVars
    <3>2. NoResponse'
      BY <1>4, <2>1, <3>1 DEF NoResponse
    <3>3. received'.responder \o toResponder' = Encoded(asked)
      BY <1>4, <2>1, <2>3
    <3>4. Encoded(asked)' = Encoded(asked)
      BY <1>2 DEF Encoded
    <3>5. RequestStream'
      BY <1>2, <2>1, <3>2, <3>3, <3>4 DEF RequestStream
    <3>6. ResponseStream'
      BY <3>2 DEF ResponseStream
    <3> QED
      BY <1>2, <1>5, <2>1, <2>2, <3>5, <3>6 DEF SessionInv
  <2>4. CASE piece.all
    <3>1. NoRequest' /\ Process(asked)
      BY <1>1, <1>4, <2>1, <2>4 DEF NoRequest
    <3>2. RequestStream'
      BY <3>1 DEF RequestStream
    <3>3. ResponseStream'
      <4> SUFFICES ASSUME responder' = "receiving" PROVE ResponseStream'
        BY <1>3 DEF ResponseStream, ResponderRuns, Gone
      <4>1. asked # None /\ asked.reg \in Register
        BY <3>1, Zenon DEF Process
      <4>2. /\ Call(asked, IF asked.write = 1 THEN asked.value ELSE registers[asked.reg])
            /\ SendResponse(Answer(asked))
        BY <3>1, <4>1, Zenon DEF Process
      <4>3. toInitiator' = toInitiator \o Encoded(Answer(asked))
        BY <1>6, <1>7, <4>2 DEF SendResponse
      <4>4. Answer(asked) = Answered'
        BY <1>2 DEF Answer, Answered
      <4>5. Answer(asked) \in Packet
        BY <2>1, <4>1, TypeReceive, RequestIsPacket, AnswerType DEF TypeOK
      <4>6. received'.initiator \o toInitiator' = Encoded(Answer(asked))
        BY <1>4, <2>1, <4>3, <4>5, EncodedDecoded, ConcatEmptySeq DEF NoResponse
      <4>7. asked.write = 1 /\ ~HasHandle(asked.reg) => registers'[asked.reg] = asked.value
        BY <4>1, <4>2, CallRight DEF HasHandle, TypeOK
      <4>8. Encoded(Answered)' = Encoded(Answer(asked))
        BY <4>4 DEF Encoded
      <4> QED
        BY <1>2, <2>1, <3>1, <4>1, <4>6, <4>7, <4>8 DEF ResponseStream
    <3> QED
      BY <1>2, <1>5, <2>1, <2>2, <3>2, <3>3 DEF SessionInv
  <2> QED
    BY <2>3, <2>4
<1>8. CASE ~InitiatorRuns(iwrrEnds.responder)
  <2>1. toInitiator' = toInitiator
    <3>1. CASE ~piece.all
      BY <1>1, <3>1
    <3>2. CASE piece.all
      BY <1>1, <1>6, <1>8, <3>2 DEF Process, SendResponse
    <3> QED
      BY <3>1, <3>2
  <2>2. RequestStream'
    BY <1>2, <1>8 DEF RequestStream, InitiatorRuns
  <2>3. ~(initiator \notin Gone /\ ResponderRuns(irrwEnds.initiator))
    <3> SUFFICES ASSUME initiator \notin Gone, irrwEnds.initiator = starts.responder
                 PROVE  FALSE
      BY DEF ResponderRuns
    <3>1. irrwEnds.initiator > 0
      BY <1>2 DEF Started, Gone
    <3>2. initiator \in {"idle", "reading"}
      BY <3>1, TypeParts DEF SessionInv, Numbers, ProgramsOK
    <3>3. iwrrEnds.initiator # 0
      BY <3>2 DEF SessionInv, Numbers
    <3>4. iwrrEnds.responder = starts.initiator
      BY <1>2, <3>3 DEF SessionInv, Linked, Up
    <3> QED
      BY <1>8, <3>4 DEF InitiatorRuns
  <2>4. ResponseStream'
    BY <1>2, <1>3, <2>3 DEF ResponseStream, ResponderRuns, Gone
  <2>5. Fresh'
    BY <1>2, <1>3, <1>4, <2>1 DEF SessionInv, Fresh, NoResponse
  <2> QED
    BY <1>2, <1>5, <2>2, <2>4, <2>5 DEF SessionInv
<1> QED
  BY <1>7, <1>8

(* A program ends, and perhaps takes bytes with it that it had sent. *)
LEMMA SessionEnd ==
    ASSUME TypeOK, SessionInv,
           ResponderIsGone \/ InitiatorIsGone \/ KillInitiator \/ KillResponder
    PROVE  SessionInv'
<1>1. \A n \in 0..Len(<<>>) : SubSeq(<<>>, 1, n) = <<>>
  BY EmptySeq
<1>2. UNCHANGED <<asked, registers, iwrrBacklog, irrwBacklog, iwrrEnds, irrwEnds,
                  received, starts>>
  BY DEF ResponderIsGone, InitiatorIsGone, KillInitiator, KillResponder, initiatorVars,
     responderVars, connectionVars, streamVars, faultVars
<1>3. CASE ResponderIsGone \/ KillInitiator
  <2>1. /\ initiator' \in Gone /\ responder' = responder /\ toInitiator' = toInitiator
        /\ toResponder = <<>> => toResponder' = <<>>
    BY <1>1, <1>3 DEF ResponderIsGone, KillInitiator, Gone, responderVars, streamVars
  <2>2. Numbers' /\ Fresh' /\ Linked'
    BY <1>2, <2>1 DEF SessionInv, Numbers, Fresh, Linked, NoRequest, NoResponse, Gone
  <2>3. RequestStream' /\ ResponseStream'
    BY <2>1 DEF RequestStream, ResponseStream, InitiatorRuns
  <2> QED
    BY <2>1, <2>2, <2>3 DEF SessionInv, Gone
<1>4. CASE InitiatorIsGone \/ KillResponder
  <2>1. /\ responder' \in Gone /\ initiator' = initiator /\ toResponder' = toResponder
        /\ toInitiator = <<>> => toInitiator' = <<>>
    BY <1>1, <1>4 DEF InitiatorIsGone, KillResponder, Gone, initiatorVars, streamVars
  <2>2. Numbers' /\ Fresh' /\ Linked'
    BY <1>2, <2>1 DEF SessionInv, Numbers, Fresh, Linked, NoRequest, NoResponse, Gone, Up
  <2>3. RequestStream' /\ ResponseStream'
    BY <2>1 DEF RequestStream, ResponseStream, ResponderRuns, Up, Gone
  <2> QED
    BY <1>2, <2>1, <2>2, <2>3 DEF SessionInv
<1> QED
  BY <1>3, <1>4

LEMMA SessionNext ==
    TypeOK /\ Started /\ SessionInv /\ [Next]_vars => SessionInv'
<1> SUFFICES ASSUME TypeOK, Started, SessionInv, [Next]_vars PROVE SessionInv'
  OBVIOUS
<1>1. CASE UNCHANGED vars
  BY <1>1 DEF vars, initiatorVars, responderVars, connectionVars, streamVars, faultVars,
     SessionInv, Numbers, Fresh, Linked, RequestStream, ResponseStream, NoRequest, NoResponse,
     InitiatorRuns, ResponderRuns, Answered, Encoded
<1>2. CASE Next
  BY <1>2, SessionStartInitiator, SessionStartResponder, SessionInitiatorAccepts,
     SessionInitiatorConnects, SessionResponderConnects, SessionResponderAccepts,
     SessionSend, SessionRead, SessionReceive, SessionEnd
  DEF Next, InitiatorSteps, ResponderSteps
<1> QED
  BY <1>1, <1>2

LEMMA SessionCorrect == Spec => [](TypeOK /\ Started /\ SessionInv)
<1>1. Init => TypeOK /\ Started /\ SessionInv
  BY TypeInit, SessionInit DEF Init, Started, Gone
<1>2. TypeOK /\ Started /\ SessionInv /\ [Next]_vars => (TypeOK /\ Started /\ SessionInv)'
  BY TypeNext, SessionNext
<1> QED
  BY <1>1, <1>2, PTL DEF Spec

(* Which steps end an operation, and which a program. *)
LEMMA ReadingEnds ==
    ASSUME [Next]_vars, initiator = "reading", initiator' \in {"idle", "ended"}
    PROVE  ReadResponse \/ (ResponderIsGone /\ initiator' = "ended")
<1>1. CASE UNCHANGED vars
  BY <1>1 DEF vars, initiatorVars
<1>2. CASE StartInitiator \/ StartResponder \/ SendRequest \/ KillInitiator \/ KillResponder
  BY <1>2 DEF StartInitiator, StartResponder, SendRequest, KillInitiator, KillResponder, Gone,
     initiatorVars
<1>3. CASE ResponderSteps
  BY <1>3 DEF ResponderSteps, ResponderConnects, ResponderListens, ResponderAccepts,
     ReceiveRequest, InitiatorIsGone, initiatorVars
<1>4. CASE InitiatorSteps
  BY <1>4 DEF InitiatorSteps, InitiatorAccepts, InitiatorConnects, ResponderIsGone
<1> QED
  BY <1>1, <1>2, <1>3, <1>4 DEF Next

LEMMA ReceivingEnds ==
    ASSUME [Next]_vars, responder = "receiving", responder' = "ended"
    PROVE  ReceiveRequest \/ InitiatorIsGone
<1>1. CASE UNCHANGED vars
  BY <1>1 DEF vars, responderVars
<1>2. CASE StartInitiator \/ StartResponder \/ SendRequest \/ KillInitiator \/ KillResponder
  BY <1>2 DEF StartInitiator, StartResponder, SendRequest, KillInitiator, KillResponder, Gone,
     responderVars
<1>3. CASE InitiatorSteps
  BY <1>3 DEF InitiatorSteps, InitiatorAccepts, InitiatorConnects, ReadResponse,
     ResponderIsGone, responderVars
<1>4. CASE ResponderSteps
  BY <1>4 DEF ResponderSteps, ResponderConnects, ResponderListens, ResponderAccepts
<1> QED
  BY <1>1, <1>2, <1>3, <1>4 DEF Next

(* When an operation ends with the responder there, what has been read is  *)
(* the answer, and it is taken.                                            *)
LEMMA AnswerTaken ==
    ASSUME TypeOK, SessionInv, ReadResponse, ResponderRuns(irrwEnds.initiator),
           initiator' # "reading"
    PROVE  /\ asked \in Request /\ asked.reg \in Register
           /\ asked.write = 1 /\ ~HasHandle(asked.reg) => registers[asked.reg] = asked.value
           /\ TakeResponse(Answered)
<1>1. initiator = "reading"
  BY DEF ReadResponse
<1>2. PICK piece \in Pieces(received.initiator, toInitiator) :
        IF piece.all THEN TakeResponse(Decoded(piece.got))
                     ELSE UNCHANGED <<initiator, cache>>
  BY Zenon DEF ReadResponse
<1>3. piece.all
  BY <1>1, <1>2
<1>4. Decoded(piece.got) = Answered
  BY <1>1, <1>3, ReadsAnswer
<1>5. TakeResponse(Answered)
  BY <1>2, <1>3, <1>4
<1> QED
  BY <1>1, <1>5, ReadsAnswer

(* Answered is no exception: it is decoded, and its register is known. *)
LEMMA AnswerAccepted ==
    ASSUME TypeOK, asked \in Request, asked.reg \in Register, TakeResponse(Answered)
    PROVE  /\ initiator' = "idle"
           /\ asked.read = 1 => cache'[asked.reg] = registers[asked.reg]
<1>1. /\ Answered \in Packet /\ Answered.reg = asked.reg
      /\ Answered.value = registers[asked.reg]
  BY AnsweredType
<1>2. Answered # None /\ Answered.reg \in Requested
  BY <1>1, NoneAssumption DEF Packet
<1>3. initiator' = "idle"
      /\ cache' = IF asked.read = 1
                  THEN [cache EXCEPT ![Answered.reg] = Answered.value] ELSE cache
  BY <1>2, Zenon DEF TakeResponse
<1>4. cache \in [Requested -> Value]
  BY DEF TypeOK
<1> HIDE DEF Answered
<1> QED
  BY <1>1, <1>2, <1>3, <1>4

(* When an operation of the initiator succeeds, the responder it is        *)
(* connected to has done it, whatever was started or killed before and     *)
(* wherever TCP cuts the bytes.                                            *)
THEOREM SuccessIsDone == Spec => SucceedsWhenDone
<1>1. TypeOK /\ SessionInv /\ [Next]_vars =>
        (initiator = "reading" /\ initiator' = "idle" /\ ResponderRuns(irrwEnds.initiator)
         => /\ asked.read = 1 => cache'[asked.reg] = registers[asked.reg]
            /\ asked.write = 1 /\ asked.reg \notin {Handled[k] : k \in DOMAIN Handled}
               => registers[asked.reg] = asked.value)
  <2> SUFFICES ASSUME TypeOK, SessionInv, [Next]_vars, initiator = "reading",
                      initiator' = "idle", ResponderRuns(irrwEnds.initiator)
               PROVE  /\ asked.read = 1 => cache'[asked.reg] = registers[asked.reg]
                      /\ asked.write = 1 /\ asked.reg \notin {Handled[k] : k \in DOMAIN Handled}
                         => registers[asked.reg] = asked.value
    OBVIOUS
  <2>1. ReadResponse
    BY ReadingEnds
  <2>2. /\ asked \in Request /\ asked.reg \in Register /\ TakeResponse(Answered)
        /\ asked.write = 1 /\ ~HasHandle(asked.reg) => registers[asked.reg] = asked.value
    BY <2>1, AnswerTaken
  <2>3. asked.reg \notin {Handled[k] : k \in DOMAIN Handled} => ~HasHandle(asked.reg)
    BY DEF HasHandle
  <2> QED
    BY <2>2, <2>3, AnswerAccepted
<1> QED
  BY <1>1, SessionCorrect, PTL DEF Spec, SucceedsWhenDone

(* Neither program fails in an operation unless the other is gone, or has  *)
(* been asked for a register it does not have, wherever TCP cuts the bytes *)
(* and whatever connections earlier programs have left.                    *)
THEOREM FailsOnlyAlone == Spec => FailsOnlyWithPeer
<1>1. ASSUME TypeOK, SessionInv, [Next]_vars, initiator = "reading", initiator' = "ended"
      PROVE  ~ResponderRuns(irrwEnds.initiator)
  <2>1. CASE ResponderIsGone
    BY <2>1 DEF ResponderIsGone
  <2>2. CASE ReadResponse
    <3> SUFFICES ASSUME ResponderRuns(irrwEnds.initiator) PROVE FALSE
      OBVIOUS
    <3>1. asked \in Request /\ asked.reg \in Register /\ TakeResponse(Answered)
      BY <1>1, <2>2, AnswerTaken
    <3>2. initiator' = "idle"
      BY <1>1, <3>1, AnswerAccepted
    <3> QED
      BY <1>1, <3>2
  <2> QED
    BY <1>1, <2>1, <2>2, ReadingEnds
<1>2. ASSUME TypeOK, SessionInv, [Next]_vars, responder = "receiving", responder' = "ended",
             InitiatorRuns(iwrrEnds.responder), asked.reg \in Register
      PROVE  FALSE
  <2>1. ReceiveRequest
    BY <1>2, ReceivingEnds DEF InitiatorIsGone
  <2>2. PICK piece \in Pieces(received.responder, toResponder) :
          IF piece.all THEN Process(Decoded(piece.got)) ELSE responder' = responder
    BY <2>1, Zenon DEF ReceiveRequest, responderVars
  <2>3. piece.all /\ Process(asked) /\ asked \in Request
    BY <1>2, <2>2, ReadsRequest
  <2>4. asked # None
    BY <2>3, RequestIsPacket, NoneAssumption
  <2>5. SendResponse(Answer(asked))
    BY <1>2, <2>3, <2>4, Zenon DEF Process
  <2>6. irrwEnds.responder = iwrrEnds.responder
    BY <1>2 DEF SessionInv, Linked, Up
  <2>7. responder' = "receiving"
    BY <1>2, <2>5, <2>6 DEF SendResponse
  <2> QED
    BY <1>2, <2>7
<1>3. TypeOK /\ SessionInv /\ [Next]_vars =>
        /\ initiator = "reading" /\ initiator' = "ended"
              => ~ResponderRuns(irrwEnds.initiator)
        /\ responder = "receiving" /\ responder' = "ended"
              => ~InitiatorRuns(iwrrEnds.responder) \/ asked.reg \notin Register
  BY <1>1, <1>2
<1> QED
  BY <1>3, SessionCorrect, PTL DEF Spec, FailsOnlyWithPeer

=============================================================================
