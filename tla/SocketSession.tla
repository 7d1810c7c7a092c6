--------------------------- MODULE SocketSession ---------------------------
(***************************************************************************)
(* The Python initiator and the Python responder over two TCP connections. *)
(* The responder connects to the initiator's port, on which requests go    *)
(* (iwrr), and then opens a port of its own, to which the initiator        *)
(* connects for the responses (irrw).  Both programs end with an exception *)
(* when anything fails, both can be killed and started again, and a        *)
(* connection of a program that is gone is still accepted by the other.    *)
(*                                                                         *)
(* Programs are told apart by the number of the start.  TCP keeps the      *)
(* order of bytes, delivers them in pieces of any size, and may lose the   *)
(* last ones of a program that is killed.                                  *)
(***************************************************************************)
EXTENDS Integers, Sequences

CONSTANTS
    FrameLen,    \* bytes of an encoded packet, 16 in the code
    Registers,   \* how many registers the responder's YAML file has
    Requested,   \* numbers of the registers in the initiator's YAML file
    Handled,     \* the registers add_register_handle is called for, in order
    Value,       \* what a register may hold
    None,
    Orderly,     \* whether a responder is started only when the initiator has
                 \* no connection of an earlier one left to accept
    MaxStarts,   \* bound: starts of each program
    MaxKills     \* bound: programs killed

ASSUME SessionAssumption ==
    /\ FrameLen \in Nat \ {0} /\ Registers \in Nat
    /\ Requested \subseteq Nat /\ Handled \in Seq(Nat)
    /\ 0 \in Value
    /\ Orderly \in BOOLEAN /\ MaxStarts \in Nat /\ MaxKills \in Nat

(* responder.py adds its handles in the order of the registers, from 0 on. *)
ASSUME HandledAssumption ==
    \A k \in DOMAIN Handled :
        Handled[k] = 0 \/ \E j \in 1..k-1 : Handled[j] = Handled[k] - 1

Register == 0..Registers-1

Request ==
    [ack : {0}, read : {1}, write : {0}, reg : Requested, value : {0}]
    \cup [ack : {0}, read : {0}, write : {1}, reg : Requested, value : Value]

Packet == [ack : {0, 1}, read : {0, 1}, write : {0, 1}, reg : Requested, value : Value]

(* None is no packet, and the name of no register. *)
ASSUME NoneAssumption == None \notin Packet /\ None \notin Nat

(* The bytes of a packet, and packet.decode of as many bytes: None if it   *)
(* returns False.                                                          *)
Encoded(packet) == [at \in 1..FrameLen |-> [at |-> at, of |-> packet]]
Decoded(bytes) ==
    IF bytes # <<>> /\ bytes = Encoded(bytes[1].of) THEN bytes[1].of ELSE None

(* Mutant of add_register_handle: a register may be added twice.           *)
AddAgain(table, reg) == Append(table, reg)

add_register_handle(table, reg) ==
    IF \E k \in DOMAIN table : table[k] = reg THEN table ELSE Append(table, reg)

(* The table after so many calls. *)
added[k \in 0..Len(Handled)] ==
    IF k = 0 THEN <<>> ELSE add_register_handle(added[k-1], Handled[k])

callback_table == added[Len(Handled)]

VARIABLES
    initiator,    \* "off" or "ended", "accepting", "connecting", "idle", "reading"
    responder,    \* "off" or "ended", "connecting", "opening", "accepting",
                  \* "receiving"
    starts,       \* how often each of the two was started
    kills,        \* how many programs were killed
    iwrrBacklog,  \* responders whose connections the initiator has to accept
    irrwBacklog,  \* initiators whose connections the responder has to accept
    iwrrEnds,     \* the other ends of the two programs' iwrr_socket
    irrwEnds,     \* and of their irrw_socket
    toResponder,  \* bytes on their way to the running responder
    toInitiator,  \* bytes on their way to the running initiator
    received,     \* what recv_exact of each program has got so far
    asked,        \* the initiator's request
    cache,        \* the initiator's registers
    registers,    \* the responder's registers
    called        \* history: the register of the last request, and the one
                  \* that the callback called for it was added for

initiatorVars  == <<initiator, asked, cache>>
responderVars  == <<responder, registers, called>>
connectionVars == <<iwrrBacklog, irrwBacklog, iwrrEnds, irrwEnds>>
streamVars     == <<toResponder, toInitiator, received>>
faultVars      == <<starts, kills>>
vars == <<initiatorVars, responderVars, connectionVars, streamVars, faultVars>>

Gone == {"off", "ended"}

(* Whether the program of that number is still there. *)
InitiatorRuns(number) == number = starts.initiator /\ initiator \notin Gone
ResponderRuns(number) == number = starts.responder /\ responder \notin Gone

Nobody == [initiator |-> 0, responder |-> 0]

Init ==
    /\ initiator = "off" /\ responder = "off"
    /\ starts = Nobody /\ kills = 0
    /\ iwrrBacklog = <<>> /\ irrwBacklog = <<>>
    /\ iwrrEnds = Nobody /\ irrwEnds = Nobody
    /\ toResponder = <<>> /\ toInitiator = <<>>
    /\ received = [initiator |-> <<>>, responder |-> <<>>]
    /\ asked = None
    /\ cache = [reg \in Requested |-> 0]
    /\ registers = [reg \in Register |-> 0]
    /\ called = None

-----------------------------------------------------------------------------
(* Starting the two programs.                                              *)

(* Up to listen on the port for requests. *)
StartInitiator ==
    /\ initiator \in Gone /\ starts.initiator < MaxStarts
    /\ starts' = [starts EXCEPT !.initiator = @ + 1]
    /\ initiator' = "accepting"
    /\ cache' = [reg \in Requested |-> 0]
    /\ asked' = None
    /\ iwrrBacklog' = <<>>
    /\ iwrrEnds' = [iwrrEnds EXCEPT !.initiator = 0]
    /\ irrwEnds' = [irrwEnds EXCEPT !.initiator = 0]
    /\ toInitiator' = <<>>
    /\ received' = [received EXCEPT !.initiator = <<>>]
    /\ UNCHANGED <<responderVars, irrwBacklog, toResponder, kills>>

InitiatorAccepts ==
    /\ initiator = "accepting" /\ iwrrBacklog # <<>>
    /\ iwrrEnds' = [iwrrEnds EXCEPT !.initiator = Head(iwrrBacklog)]
    /\ iwrrBacklog' = Tail(iwrrBacklog)
    /\ initiator' = "connecting"
    /\ UNCHANGED <<asked, cache, responderVars, irrwBacklog, irrwEnds,
                   streamVars, faultVars>>

(* The connection is refused unless the responder listens by now. *)
InitiatorConnects ==
    /\ initiator = "connecting"
    /\ IF responder \in {"accepting", "receiving"}
       THEN /\ irrwBacklog' = Append(irrwBacklog, starts.initiator)
            /\ irrwEnds' = [irrwEnds EXCEPT !.initiator = starts.responder]
            /\ initiator' = "idle"
       ELSE /\ initiator' = "ended"
            /\ UNCHANGED <<irrwBacklog, irrwEnds>>
    /\ UNCHANGED <<asked, cache, responderVars, iwrrBacklog, iwrrEnds,
                   streamVars, faultVars>>

StartResponder ==
    /\ responder \in Gone /\ starts.responder < MaxStarts
    /\ Orderly => iwrrBacklog = <<>> /\ initiator # "connecting"
    /\ starts' = [starts EXCEPT !.responder = @ + 1]
    /\ responder' = "connecting"
    /\ registers' = [reg \in Register |-> 0]
    /\ called' = None
    /\ irrwBacklog' = <<>>
    /\ iwrrEnds' = [iwrrEnds EXCEPT !.responder = 0]
    /\ irrwEnds' = [irrwEnds EXCEPT !.responder = 0]
    /\ toResponder' = <<>>
    /\ received' = [received EXCEPT !.responder = <<>>]
    /\ UNCHANGED <<initiatorVars, iwrrBacklog, toInitiator, kills>>

(* The connection is there as soon as the initiator listens: the initiator *)
(* need not have accepted it, and never does if it has one already.        *)
ResponderConnects ==
    /\ responder = "connecting"
    /\ IF initiator \notin Gone
       THEN /\ iwrrBacklog' = Append(iwrrBacklog, starts.responder)
            /\ iwrrEnds' = [iwrrEnds EXCEPT !.responder = starts.initiator]
            /\ responder' = "opening"
       ELSE /\ responder' = "ended"
            /\ UNCHANGED <<iwrrBacklog, iwrrEnds>>
    /\ UNCHANGED <<registers, called, initiatorVars, irrwBacklog, irrwEnds,
                   streamVars, faultVars>>

(* bind and listen *)
ResponderListens ==
    /\ responder = "opening"
    /\ responder' = "accepting"
    /\ UNCHANGED <<registers, called, initiatorVars, connectionVars, streamVars,
                   faultVars>>

ResponderAccepts ==
    /\ responder = "accepting" /\ irrwBacklog # <<>>
    /\ irrwEnds' = [irrwEnds EXCEPT !.responder = Head(irrwBacklog)]
    /\ irrwBacklog' = Tail(irrwBacklog)
    /\ responder' = "receiving"
    /\ UNCHANGED <<registers, called, initiatorVars, iwrrBacklog, iwrrEnds,
                   streamVars, faultVars>>

-----------------------------------------------------------------------------
(* Requests and responses.                                                 *)

(* read_register and write_register up to sendall, which may or may not    *)
(* raise an exception if the other end is gone.                            *)
SendRequest ==
    /\ initiator = "idle"
    /\ asked' \in Request
    /\ IF ResponderRuns(iwrrEnds.initiator)
       THEN /\ initiator' = "reading"
            /\ toResponder' = toResponder \o Encoded(asked')
       ELSE /\ initiator' \in {"reading", "ended"}
            /\ UNCHANGED toResponder
    /\ UNCHANGED <<cache, responderVars, connectionVars, toInitiator, received,
                   faultVars>>

(* Mutant of Pieces: one call of recv is taken for all.                    *)
OnePiece(got, stream) ==
    {[got |-> SubSeq(stream, 1, n), all |-> TRUE, rest |-> n+1] :
        n \in {k \in 1..FrameLen : k <= Len(stream)}}

(* Mutant of Pieces: the loop goes on while there are not too many bytes.  *)
PiecesTooMany(got, stream) ==
    {[got |-> got \o SubSeq(stream, 1, n), all |-> Len(got) + n > FrameLen,
      rest |-> n+1] :
        n \in {k \in 1..FrameLen - Len(got) : k <= Len(stream)}}

(* What recv_exact can make of what it has got and what has arrived: what  *)
(* it then has, whether that is all, and where what is left begins.        *)
Pieces(got, stream) ==
    {[got |-> got \o SubSeq(stream, 1, n), all |-> Len(got) + n = FrameLen,
      rest |-> n+1] :
        n \in {k \in 1..FrameLen - Len(got) : k <= Len(stream)}}

(* What read_register or write_register does with a whole response; one    *)
(* that cannot be decoded makes packet.info raise an exception, as does    *)
(* one for a register the initiator does not have when it is to be stored. *)
TakeResponse(packet) ==
    IF packet = None \/ (asked.read = 1 /\ packet.reg \notin Requested)
    THEN initiator' = "ended" /\ UNCHANGED cache
    ELSE /\ initiator' = "idle"
         /\ cache' = IF asked.read = 1
                     THEN [cache EXCEPT ![packet.reg] = packet.value] ELSE cache

ReadResponse ==
    /\ initiator = "reading"
    /\ \E piece \in Pieces(received.initiator, toInitiator) :
          /\ toInitiator' = SubSeq(toInitiator, piece.rest, Len(toInitiator))
          /\ IF piece.all
             THEN /\ TakeResponse(Decoded(piece.got))
                  /\ received' = [received EXCEPT !.initiator = <<>>]
             ELSE /\ received' = [received EXCEPT !.initiator = piece.got]
                  /\ UNCHANGED <<initiator, cache>>
    /\ UNCHANGED <<asked, responderVars, connectionVars, toResponder, faultVars>>

(* Mutant of ResponderIsGone: recv is called again when it returns nothing. *)
KeepsReading ==
    /\ initiator = "reading" /\ toInitiator = <<>>
    /\ ~ResponderRuns(irrwEnds.initiator)
    /\ UNCHANGED vars

(* "Socket closed" *)
ResponderIsGone ==
    /\ initiator = "reading" /\ toInitiator = <<>>
    /\ ~ResponderRuns(irrwEnds.initiator)
    /\ initiator' = "ended"
    /\ UNCHANGED <<asked, cache, responderVars, connectionVars, streamVars, faultVars>>

(* The callback at the register's position in the table, which is in the   *)
(* order of the calls of add_register_handle, may do anything to that      *)
(* register; without one, the exception is caught.                         *)
Call(packet, content) ==
    IF packet.reg < Len(callback_table)
    THEN /\ called' = [reg |-> packet.reg, callback |-> callback_table[packet.reg + 1]]
         /\ \E value \in Value : registers' = [registers EXCEPT ![packet.reg] = value]
    ELSE /\ called' = [reg |-> packet.reg, callback |-> None]
         /\ registers' = [registers EXCEPT ![packet.reg] = content]

(* Mutant of Answer: the register is read before the callback is called.   *)
AnswerEarly(packet) ==
    [packet EXCEPT !.ack = 1, !.value = registers[packet.reg]]

Answer(packet) ==
    [packet EXCEPT !.ack = 1, !.value = registers'[packet.reg]]

(* sendall, with its exception caught: the loop around process ends.       *)
SendResponse(packet) ==
    IF InitiatorRuns(irrwEnds.responder)
    THEN /\ toInitiator' = toInitiator \o Encoded(packet)
         /\ responder' = "receiving"
    ELSE /\ responder' \in {"receiving", "ended"}
         /\ UNCHANGED toInitiator

(* process with a whole request.  The exceptions of a request that cannot  *)
(* be decoded, and of a register the responder does not have, end it.      *)
Process(packet) ==
    IF packet = None \/ packet.reg \notin Register
    THEN responder' = "ended" /\ UNCHANGED <<registers, called, toInitiator>>
    ELSE /\ Call(packet, IF packet.write = 1 THEN packet.value
                         ELSE registers[packet.reg])
         /\ SendResponse(Answer(packet))

ReceiveRequest ==
    /\ responder = "receiving"
    /\ \E piece \in Pieces(received.responder, toResponder) :
          /\ toResponder' = SubSeq(toResponder, piece.rest, Len(toResponder))
          /\ IF piece.all
             THEN /\ Process(Decoded(piece.got))
                  /\ received' = [received EXCEPT !.responder = <<>>]
             ELSE /\ received' = [received EXCEPT !.responder = piece.got]
                  /\ UNCHANGED <<responderVars, toInitiator>>
    /\ UNCHANGED <<initiatorVars, connectionVars, faultVars>>

(* "Connection closed by initiator" *)
InitiatorIsGone ==
    /\ responder = "receiving" /\ toResponder = <<>>
    /\ ~InitiatorRuns(iwrrEnds.responder)
    /\ responder' = "ended"
    /\ UNCHANGED <<registers, called, initiatorVars, connectionVars, streamVars,
                   faultVars>>

-----------------------------------------------------------------------------
(* A program is killed.  The last bytes it sent may be lost.               *)

KillInitiator ==
    /\ initiator \notin Gone /\ kills < MaxKills
    /\ kills' = kills + 1
    /\ initiator' = "off"
    /\ IF InitiatorRuns(iwrrEnds.responder)
       THEN \E n \in 0..Len(toResponder) : toResponder' = SubSeq(toResponder, 1, n)
       ELSE UNCHANGED toResponder
    /\ UNCHANGED <<asked, cache, responderVars, connectionVars, toInitiator,
                   received, starts>>

KillResponder ==
    /\ responder \notin Gone /\ kills < MaxKills
    /\ kills' = kills + 1
    /\ responder' = "off"
    /\ IF ResponderRuns(irrwEnds.initiator)
       THEN \E n \in 0..Len(toInitiator) : toInitiator' = SubSeq(toInitiator, 1, n)
       ELSE UNCHANGED toInitiator
    /\ UNCHANGED <<registers, called, initiatorVars, connectionVars, toResponder,
                   received, starts>>

InitiatorSteps == InitiatorAccepts \/ InitiatorConnects \/ ReadResponse \/ ResponderIsGone
ResponderSteps ==
    \/ ResponderConnects \/ ResponderListens \/ ResponderAccepts
    \/ ReceiveRequest \/ InitiatorIsGone

Next ==
    \/ StartInitiator \/ StartResponder
    \/ InitiatorSteps \/ SendRequest
    \/ ResponderSteps
    \/ KillInitiator \/ KillResponder

Spec == Init /\ [][Next]_vars

(* Both programs run on once they are started; requests need not be made.  *)
FairSpec == Spec /\ WF_vars(InitiatorSteps) /\ WF_vars(ResponderSteps)

-----------------------------------------------------------------------------
(* Properties.                                                             *)

Bytes == Seq([at : 1..FrameLen, of : Packet])

TypeOK ==
    /\ initiator \in Gone \cup {"accepting", "connecting", "idle", "reading"}
    /\ responder \in Gone \cup {"connecting", "opening", "accepting", "receiving"}
    /\ {starts, iwrrEnds, irrwEnds} \subseteq
           [initiator : 0..MaxStarts, responder : 0..MaxStarts]
    /\ kills \in 0..MaxKills
    /\ iwrrBacklog \in Seq(1..MaxStarts) /\ irrwBacklog \in Seq(1..MaxStarts)
    /\ toResponder \in Bytes /\ toInitiator \in Bytes
    /\ received \in [initiator : Bytes, responder : Bytes]
    /\ Len(received.initiator) < FrameLen /\ Len(received.responder) < FrameLen
    /\ asked \in Request \cup {None}
    /\ cache \in [Requested -> Value] /\ registers \in [Register -> Value]

(* When an operation of the initiator succeeds, it has been done by the    *)
(* responder it is connected to: what read_register stores is what the     *)
(* register holds, and what write_register wrote is in the register unless *)
(* a callback changed it.                                                  *)
SucceedsWhenDone ==
    [][initiator = "reading" /\ initiator' = "idle" /\ ResponderRuns(irrwEnds.initiator)
       => /\ asked.read = 1 => cache'[asked.reg] = registers[asked.reg]
          /\ asked.write = 1 /\ asked.reg \notin {Handled[k] : k \in DOMAIN Handled}
             => registers[asked.reg] = asked.value]_vars

(* However the bytes are cut, neither program fails in an operation unless *)
(* the other is gone, or has been asked for a register it does not have.   *)
FailsOnlyWithPeer ==
    [][/\ initiator = "reading" /\ initiator' = "ended"
          => ~ResponderRuns(irrwEnds.initiator)
       /\ responder = "receiving" /\ responder' = "ended"
          => ~InitiatorRuns(iwrrEnds.responder) \/ asked.reg \notin Register]_vars

(* A request calls the callback that was added for its register, and none  *)
(* if none was.  The table is looked up by position, so this asks that     *)
(* registers are added from 0 on without a gap, as responder.py does.      *)
CallsOwnCallback ==
    called # None =>
        called.callback = IF \E k \in DOMAIN Handled : Handled[k] = called.reg
                          THEN called.reg ELSE None

(* Although neither program has a timeout and both may be killed at any    *)
(* time, an operation of the initiator ends, and so does a responder that  *)
(* waits for the requests of an initiator that is gone.  One that still    *)
(* waits for its initiator to connect (responder.py:75) does so for ever   *)
(* if that has ended: SessionStarts.                                       *)
ExchangesEnd ==
    /\ initiator = "reading" ~> initiator # "reading"
    /\ responder = "receiving" /\ ~InitiatorRuns(iwrrEnds.responder)
          ~> responder # "receiving"

(* "The responder receives a packet over port number `M + 2*N`" (README.md *)
(* line 170), once it has connected to that port.                          *)
SessionStarts == responder = "opening" ~> responder = "receiving"
=============================================================================
