---------------------------- MODULE MCSerialLink ----------------------------
(* Instances of SerialLink for TLC: the payload of a frame is a header     *)
(* byte and a data byte, which stands for the checksum as well.            *)
EXTENDS SerialLink

(* Headers say what a packet does: nothing, read, write or both.  Capitals *)
(* are acknowledged.                                                       *)
Header == {"n", "r", "w", "b", "N", "R", "W", "B"}
Data   == {"0", "1"}
Bit(header, headers) == IF header \in headers THEN 1 ELSE 0
Flags(header) == [ack   |-> Bit(header, {"N", "R", "W", "B"}),
                  read  |-> Bit(header, {"r", "b", "R", "B"}),
                  write |-> Bit(header, {"w", "b", "W", "B"})]

MCByte == {"*", "#", "bad"} \cup Header \cup Data
MCNoise == {"bad", "*", "#"}
MCFlushPattern == <<"*", "1", "#">>

MCEncoded ==
    [packet \in Packet |->
        <<"*",
          CHOOSE header \in Header :
              Flags(header) = [ack |-> packet.ack, read |-> packet.read,
                               write |-> packet.write],
          IF packet.regData = 1 THEN "1" ELSE "0", "#">>]

MCCrcOK == {frame \in Frame : frame[2] \in Header /\ frame[3] \in Data}

MCPacketInfo ==
    [frame \in Frame |->
        [deviceID |-> 0, ack |-> Flags(frame[2]).ack, read |-> Flags(frame[2]).read,
         write |-> Flags(frame[2]).write, regID |-> 1,
         regData |-> IF frame[3] = "1" THEN 1 ELSE 0]]
=============================================================================
