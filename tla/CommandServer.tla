---------------------------- MODULE CommandServer ----------------------------
(***************************************************************************)
(* The command server (sscp_socket.py): one TCP client sends text commands *)
(* that an initiator carries out.  TCP has no borders: one recv returns    *)
(* whatever has arrived, part of a command or several of them, and the     *)
(* server looks for each keyword anywhere in it, one after the other, and  *)
(* splits all of it at its commas for the arguments.                       *)
(*                                                                         *)
(* A text is a sequence of fragments: the pieces of keywords that tell     *)
(* commands apart (a cut within one is like a cut beside it: no keyword is *)
(* found) and arguments, which recv may cut in two as well.  What the      *)
(* initiator makes of an operation is ParamMap's and the links' subject;   *)
(* here it succeeds, fails or raises an exception.                         *)
(***************************************************************************)
EXTENDS Integers, Sequences, FiniteSets, SequencesExt

CONSTANTS
    Parameter,     \* names in the configuration file
    Unknown,       \* a name that is not
    Number,        \* what int() accepts
    Halves,        \* how names and values can be cut in two
    InterfaceType, \* what sys.argv[3] can name
    MaxCommands,   \* bound: commands sent to one server
    MaxAhead       \* bound: commands sent before the first is received

Name == Parameter \cup {Unknown}
Literal == Number \cup {"x"}

(* What commands are made of besides names and values; "comma" and         *)
(* "newline" are characters.                                               *)
Word == {"CON", "NECT", "DIS", "SET_", "GET_", "PARAMETER", "_IN_DEVICE",
         "_FROM_DEVICE", "comma", "newline"}
Fragment == Word \cup Name \cup Literal

(* A name has no keyword in it, and neither it nor its beginning is a      *)
(* number; the end of either may be anything.                              *)
ConstantsOK ==
    /\ {MaxCommands, MaxAhead} \subseteq Nat
    /\ Unknown \notin Parameter
    /\ Name \cap Literal = {} /\ (Name \cup Literal) \cap Word = {}
    /\ "x" \notin Number
    /\ \A half \in Halves :
          /\ \/ {half.whole, half.begin} \subseteq Name
             \/ {half.whole, half.begin} \subseteq Literal
          /\ half.end \in Name \cup Literal
    /\ InterfaceType \subseteq {"SERIAL", "SOCKET", "BLE"}

CONNECT                   == <<"CON", "NECT">>
DISCONNECT                == <<"DIS", "CON", "NECT">>
SET_PARAMETER             == <<"SET_", "PARAMETER">>
SET_PARAMETER_IN_DEVICE   == <<"SET_", "PARAMETER", "_IN_DEVICE">>
GET_PARAMETER             == <<"GET_", "PARAMETER">>
GET_PARAMETER_FROM_DEVICE == <<"GET_", "PARAMETER", "_FROM_DEVICE">>

Get(word, name) == word \o <<"comma", name>>
Set(word, name, number) == word \o <<"comma", name, "comma", number>>

(* The lines a client sends. *)
Command ==
    {CONNECT, DISCONNECT}
    \cup {Get(word, name) :
             word \in {GET_PARAMETER, GET_PARAMETER_FROM_DEVICE}, name \in Name}
    \cup {Set(word, name, number) :
             word \in {SET_PARAMETER, SET_PARAMETER_IN_DEVICE},
             name \in Name, number \in Literal}
Line(command) == command \o <<"newline">>
Lines(text) == Cardinality({i \in 1..Len(text) : text[i] = "newline"})

(* word in text *)
In(word, text) ==
    \E i \in 0..Len(text) - Len(word) : SubSeq(text, i + 1, i + Len(word)) = word

(* [item.strip() for item in text.split(",") if item.strip() != ""]: what  *)
(* is between two commas, or one and an end of the text, without the end   *)
(* of a line before or after it, if anything is left.                      *)
Bounds(text) == {0, Len(text) + 1} \cup {i \in 1..Len(text) : text[i] = "comma"}
Strip(item) ==
    LET n == Len(item)
    IN  SubSeq(item, IF n > 0 /\ item[1] = "newline" THEN 2 ELSE 1,
                     IF n > 0 /\ item[n] = "newline" THEN n - 1 ELSE n)
Item(text, bound) ==
    Strip(SubSeq(text, bound + 1, Min({j \in Bounds(text) : j > bound}) - 1))
Begins(text) == {i \in Bounds(text) \ {Len(text) + 1} : Item(text, i) # <<>>}
Sections(text) ==
    LET begins == Begins(text)
    IN  [k \in 1..Cardinality(begins) |->
            Item(text, CHOOSE i \in begins :
                           Cardinality({j \in begins : j < i}) = k - 1)]

VARIABLES
    server,         \* "down", "accepting", "serving", "ended"
    interfaceType,  \* sys.argv[3]
    sscpInitiator,  \* "undefined", "linked", or, over BLE, "unlinked"
    client,         \* "away", "connected", "closed"
    stream,         \* sent by the client, not yet received
    commands, answers,  \* counters; what answers an operation counts
    sent,           \* history: the sets the client sent
    acked,          \* history: the ones the server acknowledged
    halved,         \* history: a recv has ended within a name or a value
    careful         \* history: whenever the server received something, it was
                    \* one whole command, with arguments it can take, and none
                    \* but CONNECT before the initiator was there

vars == <<server, interfaceType, sscpInitiator, client, stream,
          commands, answers, sent, acked, halved, careful>>

Init ==
    /\ server = "down"
    /\ interfaceType \in InterfaceType
    /\ sscpInitiator = "undefined"
    /\ client = "away"
    /\ stream = <<>>
    /\ commands = 0 /\ answers = 0
    /\ sent = {} /\ acked = {}
    /\ halved = FALSE /\ careful = TRUE

(* A new server terminates the one that has the port.  Binding it fails as *)
(* long as the system keeps the old one's connection.                      *)
Start ==
    /\ server' \in {"accepting"} \cup (IF server = "serving" THEN {"down"} ELSE {})
    /\ interfaceType' \in InterfaceType
    /\ sscpInitiator' = "undefined"
    /\ client' = "away"
    /\ stream' = <<>>
    /\ commands' = 0 /\ answers' = 0
    /\ sent' = {} /\ acked' = {}
    /\ halved' = FALSE /\ careful' = TRUE

(* The server accepts one client, once. *)
Accept ==
    /\ server = "accepting"
    /\ server' = "serving"
    /\ client' = "connected"
    /\ UNCHANGED <<interfaceType, sscpInitiator, stream, commands,
                   answers, sent, acked, halved, careful>>

Send ==
    /\ client = "connected" /\ server = "serving"
    /\ commands < MaxCommands /\ Lines(stream) < MaxAhead
    /\ \E command \in Command :
          /\ stream' = stream \o Line(command)
          /\ sent' = IF Head(command) = "SET_" THEN sent \cup {command} ELSE sent
    /\ commands' = commands + 1
    /\ UNCHANGED <<server, interfaceType, sscpInitiator, client, answers,
                   acked, halved, careful>>

Close ==
    /\ client = "connected"
    /\ client' = "closed"
    /\ UNCHANGED <<server, interfaceType, sscpInitiator, stream,
                   commands, answers, sent, acked, halved, careful>>

-----------------------------------------------------------------------------
(* One pass of the loop.  A record says how far it has come: whether no    *)
(* exception has ended the server, what sscpInitiator is, how many answers *)
(* operations have had, which of them were acknowledgements.  Each branch  *)
(* leads from a record to those that may follow.                           *)

Skipped(pass, keyword, request) == ~pass.alive \/ ~In(keyword, request)

Raised(pass) == {[pass EXCEPT !.alive = FALSE]}
Answered(pass) == {[pass EXCEPT !.answers = @ + 1]}
Acknowledged(pass, command) ==
    {[new EXCEPT !.acked = @ \cup {command}] : new \in Answered(pass)}

Names(item) == \E name \in Parameter : item = <<name>>
IsNumber(item) == \E number \in Number : item = <<number>>

(* A new initiator takes the place of the old one unless its constructor   *)
(* raises.  BLE_init raises nothing if it does not find the device.        *)
Connect(pass, request) ==
    IF Skipped(pass, CONNECT, request) THEN {pass}
    ELSE Answered(pass)
         \cup Answered([pass EXCEPT !.initiator = "linked"])
         \cup IF interfaceType = "BLE"
              THEN Answered([pass EXCEPT !.initiator = "unlinked"]) ELSE {}

(* Mutant of SetInMap: the number is taken from the end of the text.       *)
SetFromTheEnd(pass, request) ==
    LET items == Sections(request)
    IN  IF Skipped(pass, SET_PARAMETER \o <<"comma">>, request) THEN {pass}
        ELSE IF Len(items) < 3 \/ pass.initiator = "undefined" THEN Raised(pass)
        ELSE IF ~Names(items[2]) THEN Answered(pass)
        ELSE IF ~IsNumber(Last(items)) THEN Raised(pass)
        ELSE Acknowledged(pass, Set(SET_PARAMETER, items[2][1], Last(items)[1]))

SetInMap(pass, request) ==
    LET items == Sections(request)
    IN  IF Skipped(pass, SET_PARAMETER \o <<"comma">>, request) THEN {pass}
        ELSE IF Len(items) < 3 \/ pass.initiator = "undefined" THEN Raised(pass)
        ELSE IF ~Names(items[2]) THEN Answered(pass)
        ELSE IF ~IsNumber(items[3]) THEN Raised(pass)
        ELSE Acknowledged(pass, Set(SET_PARAMETER, items[2][1], items[3][1]))

(* A transfer that fails is told from one that succeeds over the serial    *)
(* link only; over the others it raises.                                   *)
SetInDevice(pass, request) ==
    LET items == Sections(request)
    IN  IF Skipped(pass, SET_PARAMETER_IN_DEVICE, request) THEN {pass}
        ELSE IF Len(items) < 3 \/ pass.initiator = "undefined" THEN Raised(pass)
        ELSE IF ~Names(items[2]) THEN Answered(pass)
        ELSE IF ~IsNumber(items[3]) \/ pass.initiator = "unlinked" THEN Raised(pass)
        ELSE Acknowledged(pass, Set(SET_PARAMETER_IN_DEVICE, items[2][1], items[3][1]))
             \cup IF interfaceType = "SERIAL" THEN Answered(pass) ELSE Raised(pass)

(* Mutant of GetFromMap: its keyword begins that of GetFromDevice.         *)
GetFromMapToo(pass, request) ==
    IF Skipped(pass, GET_PARAMETER, request) THEN {pass}
    ELSE IF Len(Sections(request)) < 2 \/ pass.initiator = "undefined" THEN Raised(pass)
    ELSE Answered(pass)

GetFromMap(pass, request) ==
    IF Skipped(pass, GET_PARAMETER \o <<"comma">>, request) THEN {pass}
    ELSE IF Len(Sections(request)) < 2 \/ pass.initiator = "undefined" THEN Raised(pass)
    ELSE Answered(pass)

GetFromDevice(pass, request) ==
    LET items == Sections(request)
    IN  IF Skipped(pass, GET_PARAMETER_FROM_DEVICE, request) THEN {pass}
        ELSE IF Len(items) < 2 \/ pass.initiator # "linked" THEN Raised(pass)
        ELSE IF ~Names(items[2]) THEN Raised(pass)
        ELSE Answered(pass) \cup IF interfaceType = "SERIAL" THEN {} ELSE Raised(pass)

Passes(request) ==
    LET start     == [alive |-> TRUE, initiator |-> sscpInitiator,
                      answers |-> answers, acked |-> acked]
        connected == Connect(start, request)
        set       == UNION {SetInMap(pass, request) : pass \in connected}
        setDevice == UNION {SetInDevice(pass, request) : pass \in set}
        got       == UNION {GetFromMap(pass, request) : pass \in setDevice}
    IN  UNION {GetFromDevice(pass, request) : pass \in got}

(* One whole command that a client may send at this point. *)
Proper(request) ==
    \E command \in Command :
        /\ request = Line(command)
        /\ ~In(<<"x">>, command) /\ ~In(<<Unknown>>, command)
        /\ In(CONNECT, command) \/ sscpInitiator = "linked"

(* The loop with what recv has returned, and what is left.  Answering a    *)
(* client that has closed its connection may raise.  With the server ends  *)
(* the connection.                                                         *)
Take(request, rest) ==
    /\ server = "serving"
    /\ careful' = (careful /\ rest = <<>> /\ Proper(request))
    /\ \E pass \in Passes(request) :
          /\ sscpInitiator' = pass.initiator
          /\ answers' = pass.answers
          /\ acked' = pass.acked
          /\ \/ pass.alive /\ UNCHANGED server
             \/ /\ ~pass.alive \/ (client = "closed" /\ pass.answers # answers)
                /\ server' = "ended"
    /\ stream' = IF server' = "ended" THEN <<>> ELSE rest
    /\ UNCHANGED <<interfaceType, client, commands, sent>>

(* recv returns some of what has arrived, up to the end of a fragment, *)
Receive ==
    /\ \E n \in 1..Len(stream) :
          Take(SubSeq(stream, 1, n), SubSeq(stream, n + 1, Len(stream)))
    /\ UNCHANGED halved

(* or up to somewhere within a name or a value. *)
ReceiveHalf ==
    /\ \E n \in 1..Len(stream), half \in Halves :
          /\ stream[n] = half.whole
          /\ Take(SubSeq(stream, 1, n - 1) \o <<half.begin>>,
                  <<half.end>> \o SubSeq(stream, n + 1, Len(stream)))
    /\ halved' = TRUE

Next == Start \/ Accept \/ Send \/ Close \/ Receive \/ ReceiveHalf

Spec == Init /\ [][Next]_vars

-----------------------------------------------------------------------------
(* Properties.                                                             *)

TypeOK ==
    /\ server \in {"down", "accepting", "serving", "ended"}
    /\ interfaceType \in InterfaceType
    /\ sscpInitiator \in {"undefined", "linked", "unlinked"}
    /\ client \in {"away", "connected", "closed"}
    /\ stream \in Seq(Fragment)
    /\ commands \in 0..MaxCommands /\ answers \in Nat
    /\ sent \subseteq Command
    /\ halved \in BOOLEAN /\ careful \in BOOLEAN

(* It is one of the client's sets with its number cut short. *)
CutShort(command) ==
    \E word \in {SET_PARAMETER, SET_PARAMETER_IN_DEVICE}, name \in Name, half \in Halves :
        /\ command = Set(word, name, half.begin)
        /\ Set(word, name, half.whole) \in sent

(* An acknowledged set is one that the client asked for, with that name    *)
(* and that number, as long as no recv ends within an argument, however    *)
(* else TCP cuts and joins the commands: what joins them never passes for  *)
(* an argument.  Where one does, a set may be acknowledged with the        *)
(* beginning of its number, but with nothing else.                         *)
AcksAreRight ==
    \A command \in acked : command \in sent \/ (halved /\ CutShort(command))

(* "SET_PARAMETER request done" (sscp_socket.py:135): what was acknowledged *)
(* is what was requested, in whatever pieces it arrived.                   *)
AcksAreExact == acked \subseteq sent

(* The client never gets more answers than it sent commands, so it cannot  *)
(* take one for the answer to its next command: no text passes two tests,  *)
(* although the names of some commands contain those of others.  A client  *)
(* whose commands arrive one at a time, name what there is and follow a    *)
(* CONNECT gets one answer to each, and over the serial link the server    *)
(* goes on, whatever CONNECT and the device do.                            *)
OneAnswerEach ==
    /\ answers <= commands
    /\ careful /\ client # "closed" =>
          /\ server # "ended" => answers + Lines(stream) = commands
          /\ interfaceType = "SERIAL" => server # "ended"
=============================================================================
