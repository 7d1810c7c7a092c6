-------------------------- MODULE RegisterService --------------------------
(***************************************************************************)
(* What an SSCP responder promises to its initiators, with framing, ring   *)
(* indices and status words left out.  Requests for this device wait in    *)
(* one bounded queue; a request is dropped only when the queue is full;    *)
(* requests are served one at a time, in the order of arrival; a write     *)
(* stores the packet's data in the register, a callback may then change    *)
(* that register and no other, and a read is answered with the content of  *)
(* the register after its callback.                                        *)
(***************************************************************************)
EXTENDS Integers, Sequences

CONSTANTS
    Capacity,    \* how many requests may wait
    Packet,      \* the decoded packets: records with the fields
                 \* deviceID, ack, read, write, regID, regData
    RegID,       \* the registers the device has
    Callbacks,   \* those of them that have a callback
    Value,       \* what a register may hold
    NoResponse   \* nothing was sent yet

VARIABLES
    queue,       \* the requests waiting, oldest first
    registers,   \* the content of each register
    response,    \* the last response sent
    lost         \* serving a register the device does not have never ended

vars == <<queue, registers, response, lost>>

Init ==
    /\ queue = <<>>
    /\ registers \in [RegID -> Value]
    /\ response = NoResponse
    /\ lost = FALSE

(* A request arrives: it is queued, or dropped when the queue is full.     *)
Accept(request) ==
    /\ queue' = IF Len(queue) < Capacity THEN Append(queue, request) ELSE queue
    /\ UNCHANGED <<registers, response, lost>>

Answer(request, value) ==
    [request EXCEPT !.ack = 1,
                    !.regData = IF request.read = 1 THEN value ELSE @]

(* The content a request leaves in its register: its data if it is a       *)
(* write, and whatever the callback makes of it, if one is called.         *)
Outcome(request) ==
    IF request.regID \in Callbacks /\ request.read # request.write
    THEN Value
    ELSE {IF request.write = 1 THEN request.regData ELSE registers[request.regID]}

Serve ==
    /\ ~lost
    /\ queue # <<>>
    /\ Head(queue).regID \in RegID
    /\ queue' = Tail(queue)
    /\ \E value \in Outcome(Head(queue)) :
          /\ registers' = [registers EXCEPT ![Head(queue).regID] = value]
          /\ response' = Answer(Head(queue), value)
    /\ UNCHANGED lost

(* Nothing is promised about a register the device does not have.          *)
ServeUnlisted ==
    /\ ~lost
    /\ queue # <<>>
    /\ Head(queue).regID \notin RegID
    /\ queue' = Tail(queue)
    /\ registers' \in [RegID -> Value]
    /\ response' \in {response} \cup {Answer(Head(queue), value) : value \in Value}
    /\ lost' \in BOOLEAN

(* The stack is initialised anew: waiting requests are forgotten.          *)
Reset ==
    /\ queue' = <<>>
    /\ UNCHANGED <<registers, response, lost>>

Next ==
    \/ \E request \in Packet : Accept(request)
    \/ Serve
    \/ ServeUnlisted
    \/ Reset

Spec == Init /\ [][Next]_vars

(* What waits is served, as long as serving is possible. *)
Fairness == WF_vars(Serve \/ ServeUnlisted)
=============================================================================
