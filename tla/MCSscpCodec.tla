---------------------------- MODULE MCSscpCodec ----------------------------
(* Instances of SscpCodec for TLC.                                         *)
EXTENDS SscpCodec

MCInfo(device, ack, read, write, reg, data) ==
    [deviceID |-> device, ack |-> ack, read |-> read, write |-> write,
     regID |-> reg, regData |-> data]

(* Every header; every value of every byte; all bits set.                  *)
MCSample ==
    {MCInfo(device, ack, read, write, 1, <<0, 0, 0, 0>>) :
        device \in 0..31, ack \in {0, 1}, read \in {0, 1}, write \in {0, 1}}
    \cup {MCInfo(0, 0, 1, 0, reg, <<0, 0, 0, 0>>) : reg \in Byte}
    \cup {MCInfo(0, 0, 0, 1, 3, [<<0, 0, 0, 0>> EXCEPT ![i] = byte]) :
             i \in 1..4, byte \in Byte}
    \cup {MCInfo(31, 1, 1, 1, 255, <<255, 255, 255, 255>>)}

(* Two of them are disturbed on their way: a read of button 0, and a       *)
(* response with every hexadecimal digit.                                  *)
MCDisturbed ==
    {MCInfo(0, 0, 1, 0, 2, <<0, 0, 0, 0>>),
     MCInfo(18, 1, 0, 1, 52, <<86, 120, 154, 188>>)}

MCSent == MCSample \cup MCDisturbed

MCMaxHits == [info \in MCSent |-> IF info \in MCDisturbed THEN 2 ELSE 0]

(* The first and last digits and letters and their neighbours, a lower     *)
(* case letter, the framing bytes and the ends of the range.               *)
MCChars ==
    {0, 35, 42, 47, 48, 49, 57, 58, 64, 65, 66, 70, 71, 97, 255}
=============================================================================
