-------------------------- MODULE MCSscpResponder --------------------------
(* Instances of SscpResponder for TLC: a frame has one payload byte, which *)
(* stands for everything between '*' and '#'.                              *)
EXTENDS SscpResponder

Request(device, read, write, reg, data) ==
    [deviceID |-> device, ack |-> 0, read |-> read, write |-> write,
     regID |-> reg, regData |-> data]

(* What each payload byte says. "bad" is a request with a wrong checksum,  *)
(* "other" one for another device; register 2 has no callback; "stray"     *)
(* names a register without a handle.                                      *)
MCRequests ==
    [read   |-> Request(0, 1, 0, 1, 0),
     write  |-> Request(0, 0, 1, 1, 1),
     both   |-> Request(0, 1, 1, 1, 0),
     other  |-> Request(1, 0, 1, 1, 1),
     bad    |-> Request(0, 0, 1, 1, 0),
     write2 |-> Request(0, 0, 1, 2, 1),
     stray  |-> Request(0, 0, 1, 3, 1)]

MCPayload == {"read", "both", "write2", "stray", "other", "bad"}

MCByte == {"*", "#"} \cup MCPayload

(* A byte outside the table decodes to something, too.                     *)
MCInfo(frame) ==
    IF frame[2] \in DOMAIN MCRequests THEN MCRequests[frame[2]] ELSE MCRequests["bad"]

MCPacketInfo == [frame \in Frame |-> MCInfo(frame)]
MCCrcOK == {frame \in Frame : frame[2] \in DOMAIN MCRequests \ {"bad"}}
=============================================================================
