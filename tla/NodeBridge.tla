------------------------------ MODULE NodeBridge ------------------------------
(***************************************************************************)
(* The bridge from a browser to a device: the Node backend turns each HTTP *)
(* request into a TCP connection to the Python executor, which takes one   *)
(* connection after the other, receives one command in JSON and carries it *)
(* out with its one serial initiator.                                      *)
(*                                                                         *)
(* A request's promise is settled by the first data that come back, or by  *)
(* an error of the connection, a reset; that the other side closes it      *)
(* settles nothing (python.service.js).  Commands and answers are shorter  *)
(* than one segment, and arrive in one piece.                              *)
(***************************************************************************)
EXTENDS Integers, Sequences

CONSTANTS
    Request,   \* HTTP requests
    Value,     \* what the parameter in the device can be
    None

ASSUME ConstantsAssumption ==
    0 \in Value /\ None \notin Request /\ None \notin Value

(* What the frontend and others send: a "broken" command has no type, or   *)
(* lacks one of its arguments, an "other" has a type that is not known.    *)
Command == [type : {"connect", "get", "other", "broken"}, value : {0}]
           \cup [type : {"set"}, value : Value]
Result == [rc : {0, -1}, value : Value \cup {None}]
NoCommand == [type |-> "none", value |-> 0]
NoResult  == [rc |-> 0, value |-> None]

VARIABLES
    phase,      \* of each request: "new", "waiting", "answered", "failed", "lost"
    answer,     \* what it was answered, if it was a get
    backlog,    \* connections the executor has not accepted yet
    executor,   \* "down", "accepting", "accepted", "received", "executed"
    conn,       \* the request of the connection it serves
    command,    \* what that asks for, once it has been received
    result,     \* what it is about to answer
    processor_initiator,  \* whether there is one
    cached,     \* the parameter in the initiator's map
    device,     \* the parameter in the device
    executed,   \* history: requests that were carried out
    dropped,    \* history: requests that were served when the executor ended
    seen        \* history: what the device's parameter was during each request

requestVars == <<phase, answer>>
servedVars  == <<executor, conn, command, result>>
deviceVars  == <<processor_initiator, cached, device, seen>>
vars == <<requestVars, backlog, servedVars, deviceVars, executed, dropped>>

Init ==
    /\ phase = [r \in Request |-> "new"]
    /\ answer = [r \in Request |-> NoResult]
    /\ backlog = <<>>
    /\ executor = "down" /\ conn = None /\ command = NoCommand /\ result = NoResult
    /\ processor_initiator = FALSE /\ cached = 0
    /\ device \in Value
    /\ executed = {} /\ dropped = {}
    /\ seen = [r \in Request |-> {}]

Waiting == {r \in Request : phase[r] = "waiting"}
Settle(requests, to) ==
    phase' = [r \in Request |-> IF r \in requests THEN to ELSE phase[r]]

-----------------------------------------------------------------------------
(* The Node backend.                                                       *)

(* Mutant of Post: nobody handles the error of a connection.               *)
PostUnhandled(r) ==
    /\ phase[r] = "new"
    /\ Settle({r}, "waiting")
    /\ backlog' = IF executor = "down" THEN backlog ELSE Append(backlog, r)
    /\ seen' = [seen EXCEPT ![r] = {device}]
    /\ UNCHANGED <<answer, servedVars, processor_initiator, cached, device,
                   executed, dropped>>

(* sendCommand connects and writes; nobody listens if the executor is down.*)
Post(r) ==
    /\ phase[r] = "new"
    /\ IF executor = "down"
       THEN Settle({r}, "failed") /\ UNCHANGED backlog
       ELSE Settle({r}, "waiting") /\ backlog' = Append(backlog, r)
    /\ seen' = [seen EXCEPT ![r] = {device}]
    /\ UNCHANGED <<answer, servedVars, processor_initiator, cached, device,
                   executed, dropped>>

(* The backend is stopped, or ends by an exception: client.write throws on *)
(* a request without a body.  Connections that are open close.             *)
NodeEnds ==
    /\ Waiting # {}
    /\ Settle(Waiting, "lost")
    /\ UNCHANGED <<answer, backlog, servedVars, deviceVars, executed, dropped>>

-----------------------------------------------------------------------------
(* The Python executor.                                                    *)

Start ==
    /\ executor = "down"
    /\ executor' = "accepting"
    /\ processor_initiator' = FALSE /\ cached' = 0
    /\ UNCHANGED <<requestVars, backlog, conn, command, result, device, seen,
                   executed, dropped>>

Accept ==
    /\ executor = "accepting" /\ backlog # <<>>
    /\ executor' = "accepted"
    /\ conn' = Head(backlog)
    /\ backlog' = Tail(backlog)
    /\ UNCHANGED <<requestVars, command, result, deviceVars, executed, dropped>>

(* Mutant of Idle: the connection that was served is still at hand.        *)
IdleWithConnection(state) ==
    /\ executor' = state /\ UNCHANGED conn
    /\ command' = NoCommand /\ result' = NoResult

Idle(state) ==
    /\ executor' = state /\ conn' = None
    /\ command' = NoCommand /\ result' = NoResult

(* The executor's process ends.  Connections in its backlog are reset; a   *)
(* connection that is closed settles nothing.                              *)
End(closed) ==
    /\ Idle("down") /\ backlog' = <<>>
    /\ Settle(Waiting \ (dropped \cup closed), "failed")
    /\ dropped' = dropped \cup (closed \cap Waiting)
    /\ UNCHANGED <<answer, deviceVars, executed>>

(* Mutant of Receive: the request is answered before it is carried out.    *)
ReceiveAndAnswer ==
    /\ executor = "accepted"
    /\ executor' = "received"
    /\ command' \in {c \in Command : c.type # "broken"}
    /\ Settle({conn} \cap Waiting, "answered")
    /\ UNCHANGED <<answer, backlog, conn, result, deviceVars, executed, dropped>>

(* A command without its parts raises KeyError, which nobody catches.  A   *)
(* backend that is gone has sent it, or nothing, or reset the connection.  *)
Receive ==
    /\ executor = "accepted"
    /\ \/ \E c \in Command :
             IF c.type = "broken" THEN End({conn})
             ELSE /\ executor' = "received" /\ command' = c
                  /\ UNCHANGED <<requestVars, backlog, conn, result, deviceVars,
                                 executed, dropped>>
       \/ /\ phase[conn] = "lost"
          /\ Idle("accepting")
          /\ UNCHANGED <<requestVars, backlog, deviceVars, executed, dropped>>
       \/ phase[conn] = "lost" /\ End({})

(* Each branch of process_command: what the initiator and the device are   *)
(* after it and what is answered.  "connect" keeps the old initiator if    *)
(* its constructor raises, and otherwise starts with an empty map.         *)
Connect ==
    /\ UNCHANGED device
    /\ \/ processor_initiator' = TRUE /\ cached' = 0 /\ result' = NoResult
       \/ UNCHANGED <<processor_initiator, cached>> /\ result' = [NoResult EXCEPT !.rc = -1]

(* Mutant of Get: a read that failed is not told from one that did not.    *)
GetUnchecked ==
    /\ UNCHANGED <<processor_initiator, device>>
    /\ \/ UNCHANGED cached /\ result' = [rc |-> -1, value |-> 0]
       \/ /\ processor_initiator
          /\ cached' \in {cached, device}
          /\ result' = [rc |-> 0, value |-> cached']

(* An initiator that is not there, a name it does not know and Ctrl+C are  *)
(* all one exception to the bare except, and 0 is the argument's default;  *)
(* a read that failed is None, with return code 0.                         *)
Get ==
    /\ UNCHANGED <<processor_initiator, device>>
    /\ \/ UNCHANGED cached /\ result' = [rc |-> -1, value |-> 0]
       \/ processor_initiator /\ cached' = device /\ result' = [rc |-> 0, value |-> device]
       \/ processor_initiator /\ UNCHANGED cached /\ result' = NoResult

(* The map is set first.  That the initiator returns False, for a name it  *)
(* does not know or a write that failed, is not looked at; the request or  *)
(* its response may have been lost, or Ctrl+C come at any time.            *)
Set(v) ==
    /\ UNCHANGED processor_initiator
    /\ result' \in [rc : {0, -1}, value : {v}]
    /\ \/ UNCHANGED <<cached, device>> /\ (processor_initiator \/ result'.rc = -1)
       \/ processor_initiator /\ cached' = v /\ device' \in {v, device}

Execute ==
    /\ executor = "received"
    /\ executor' = "executed"
    /\ \/ command.type = "connect" /\ Connect
       \/ command.type = "get" /\ Get
       \/ command.type = "set" /\ Set(command.value)
       \/ /\ command.type = "other"
          /\ result' = NoResult /\ UNCHANGED <<processor_initiator, cached, device>>
    /\ executed' = executed \cup {conn}
    /\ seen' = [r \in Request |-> IF r \in Waiting THEN seen[r] \cup {device'} ELSE seen[r]]
    /\ UNCHANGED <<requestVars, backlog, conn, command, dropped>>

Answer(requests) ==
    /\ Settle(requests, "answered")
    /\ answer' = [r \in Request |->
                     IF r \in requests /\ command.type = "get" THEN result ELSE answer[r]]

(* Mutant of Reply: there is nothing to say of a type that is not known.   *)
ReplyIfAnything ==
    /\ executor = "executed"
    /\ Answer(IF command.type = "other" THEN {} ELSE {conn} \cap Waiting)
    /\ Idle("accepting")
    /\ UNCHANGED <<backlog, deviceVars, executed, dropped>>

Reply ==
    /\ executor = "executed"
    /\ Answer({conn} \cap Waiting)
    /\ Idle("accepting")
    /\ UNCHANGED <<backlog, deviceVars, executed, dropped>>

(* Ctrl+C ends the executor, which may reset the connection it serves as   *)
(* long as nothing has been read from it; in the middle of the reply it    *)
(* passes for an error of formatting it, and only the reply is lost.       *)
Interrupt ==
    \/ executor # "down" /\ End({conn} \ {None})
    \/ executor = "accepted" /\ End({})
    \/ /\ executor = "executed"
       /\ dropped' = dropped \cup ({conn} \cap Waiting)
       /\ Idle("accepting")
       /\ UNCHANGED <<requestVars, backlog, deviceVars, executed>>

Next ==
    \/ \E r \in Request : Post(r)
    \/ NodeEnds \/ Start \/ Accept \/ Receive \/ Execute \/ Reply \/ Interrupt

Spec == Init /\ [][Next]_vars

(* The executor's loop goes on; what it waits for ends, SerialLink shows.  *)
Fairness == WF_vars(Accept \/ Receive \/ Execute \/ Reply)

-----------------------------------------------------------------------------
(* Properties.                                                             *)

TypeOK ==
    /\ phase \in [Request -> {"new", "waiting", "answered", "failed", "lost"}]
    /\ answer \in [Request -> Result]
    /\ backlog \in Seq(Request)
    /\ executor \in {"down", "accepting", "accepted", "received", "executed"}
    /\ conn \in Request \cup {None}
    /\ conn = None <=> executor \in {"down", "accepting"}
    /\ command \in Command \cup {NoCommand} /\ result \in Result
    /\ processor_initiator \in BOOLEAN
    /\ cached \in Value /\ device \in Value
    /\ executed \subseteq Request /\ dropped \subseteq Request
    /\ seen \in [Request -> SUBSET Value]

Service == INSTANCE CallService WITH
    Call  <- Request,
    state <- [r \in Request |->
                CASE phase[r] = "waiting" -> "open"
                  [] phase[r] = "failed"  -> "refused"
                  [] OTHER                -> phase[r]]

(* A request is carried out at most once, before it is answered, and a     *)
(* 500 means that it was not carried out, whatever ends between the steps. *)
ImplementsService == Service!Spec

(* A browser waits for what the executor has yet to serve, and otherwise   *)
(* only if the executor was ended while it served just that request: the   *)
(* promise in python.service.js has no timeout and no handler for "close". *)
Accounted ==
    \A r \in Waiting :
        (\E i \in DOMAIN backlog : backlog[i] = r) \/ r = conn \/ r \in dropped

(* Every request is settled but those.                                     *)
Settles ==
    \A r \in Request : phase[r] = "waiting" ~> phase[r] # "waiting" \/ r \in dropped

(* What a get answers was the device's value at some time since it was     *)
(* posted: never one from the map, which a failed set leaves behind, and   *)
(* never one that was overwritten before.                                  *)
GetsAreFresh ==
    \A r \in Request :
        answer[r].rc = 0 /\ answer[r].value # None =>
            answer[r].value \in seen[r]
=============================================================================
