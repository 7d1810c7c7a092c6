----------------------------- MODULE MCFrontEnds -----------------------------
(***************************************************************************)
(* The programs that carry out the commands of others, one of which runs:  *)
(* the command server, or the bridge from a browser (NodeBridge).          *)
(***************************************************************************)
EXTENDS NodeBridge

CONSTANTS
    Program,   \* the ones that may be run
    Parameter, Unknown, Number, Halves, InterfaceType, MaxCommands, MaxAhead

VARIABLES
    program,   \* which one runs
    server, interfaceType, sscpInitiator, client, stream,
    commands, answers, sent, acked, halved, careful

Server == INSTANCE CommandServer

serverVars == <<server, interfaceType, sscpInitiator, client, stream,
                commands, answers, sent, acked, halved, careful>>

ASSUME ServerAssumption == Server!ConstantsOK

(* A number that begins with another, and an unknown name that begins with *)
(* a known one.                                                            *)
MCHalves == {[whole |-> "11", begin |-> "1", end |-> "1"],
             [whole |-> "A1", begin |-> "A", end |-> "1"]}

MCInit ==
    /\ Init
    /\ Server!Init
    /\ program \in Program
    /\ \/ program = "server" /\ device = 0
       \/ program = "bridge" /\ interfaceType = "SERIAL"

MCNext ==
    /\ UNCHANGED program
    /\ \/ program = "bridge" /\ Next /\ UNCHANGED serverVars
       \/ program = "server" /\ Server!Next /\ UNCHANGED vars

MCSpec ==
    /\ MCInit
    /\ [][MCNext]_<<program, vars, serverVars>>
    /\ Fairness

(* The types of the bridge's variables, and of the server's. *)
FrontEndsTypeOK == TypeOK /\ Server!TypeOK

(* Sets that the command server acknowledges are those that it was asked,  *)
(* but for numbers that recv cut in two.                                   *)
AcksAreRight == Server!AcksAreRight

(* They are those that it was asked. *)
AcksAreExact == Server!AcksAreExact

(* It answers once, and goes on. *)
OneAnswerEach == Server!OneAnswerEach
=============================================================================
