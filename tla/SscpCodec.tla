----------------------------- MODULE SscpCodec -----------------------------
(***************************************************************************)
(* The wire format of SSCP, written twice in the repository: in C          *)
(* (SSCP_encodePacket, SSCP_decodePacket and a table-driven CRC-8) and in  *)
(* Python (class packet and a bit-wise CRC-8).  One end encodes a packet,  *)
(* the other decodes the frame; on the way some characters may change.     *)
(*                                                                         *)
(* A character is its code.  regData is its four bytes, most significant   *)
(* first, in the order both encoders extract them.                         *)
(***************************************************************************)
EXTENDS Integers, Sequences, FiniteSets

CONSTANTS
    Sample,   \* the packets that are sent
    Noise,    \* what a character may turn into
    MaxHits   \* bound: how many characters of each packet's frame change

Byte == 0..255

Packet == [deviceID : 0..31, ack : {0, 1}, read : {0, 1}, write : {0, 1},
           regID : Byte, regData : [1..4 -> Byte]]

ASSUME CodecAssumption ==
    Sample \subseteq Packet /\ Noise \subseteq Byte /\ MaxHits \in [Sample -> Nat]

StartByte == 42   \* '*'
EndByte   == 35   \* '#'

Coders == {"C", "Python"}

-----------------------------------------------------------------------------
(* Bytes.                                                                  *)

Weight == [i \in 0..7 |-> <<1, 2, 4, 8, 16, 32, 64, 128>>[i + 1]]
Bit(x, i) == (x \div Weight[i]) % 2
FromBits(b) == b[0] + 2 * b[1] + 4 * b[2] + 8 * b[3]
               + 16 * b[4] + 32 * b[5] + 64 * b[6] + 128 * b[7]

Xor(x, y) == FromBits([i \in 0..7 |-> (Bit(x, i) + Bit(y, i)) % 2])
Or(x, y)  == FromBits([i \in 0..7 |-> IF Bit(x, i) + Bit(y, i) = 0 THEN 0 ELSE 1])

-----------------------------------------------------------------------------
(* The checksums.                                                          *)

crc8_ccitt_table ==
    << 0,   7,  14,   9,  28,  27,  18,  21,  56,  63,  54,  49,  36,  35,  42,  45,
       112, 119, 126, 121, 108, 107,  98, 101,  72,  79,  70,  65,  84,  83,  90,  93,
       224, 231, 238, 233, 252, 251, 242, 245, 216, 223, 214, 209, 196, 195, 202, 205,
       144, 151, 158, 153, 140, 139, 130, 133, 168, 175, 166, 161, 180, 179, 186, 189,
       199, 192, 201, 206, 219, 220, 213, 210, 255, 248, 241, 246, 227, 228, 237, 234,
       183, 176, 185, 190, 171, 172, 165, 162, 143, 136, 129, 134, 147, 148, 157, 154,
        39,  32,  41,  46,  59,  60,  53,  50,  31,  24,  17,  22,   3,   4,  13,  10,
        87,  80,  89,  94,  75,  76,  69,  66, 111, 104,  97, 102, 115, 116, 125, 122,
       137, 142, 135, 128, 149, 146, 155, 156, 177, 182, 191, 184, 173, 170, 163, 164,
       249, 254, 247, 240, 229, 226, 235, 236, 193, 198, 207, 200, 221, 218, 211, 212,
       105, 110, 103,  96, 117, 114, 123, 124,  81,  86,  95,  88,  77,  74,  67,  68,
        25,  30,  23,  16,   5,   2,  11,  12,  33,  38,  47,  40,  61,  58,  51,  52,
        78,  73,  64,  71,  82,  85,  92,  91, 118, 113, 120, 127, 106, 109, 100,  99,
        62,  57,  48,  55,  34,  37,  44,  43,   6,   1,   8,  15,  26,  29,  20,  19,
       174, 169, 160, 167, 178, 181, 188, 187, 150, 145, 152, 159, 138, 141, 132, 131,
       222, 217, 208, 215, 194, 197, 204, 203, 230, 225, 232, 239, 250, 253, 244, 243 >>

TableStep(crc, byte) == crc8_ccitt_table[Xor(crc, byte) + 1]

(* Mutant of ShiftOut: tests the top bit wrongly. *)
ShiftOutAbove(crc) ==
    IF crc > 128 THEN Xor((2 * crc) % 256, 7) ELSE (2 * crc) % 256

(* One turn of the inner loop of crc8_ccitt, and the eight of them.        *)
ShiftOut(crc) ==
    IF crc >= 128 THEN Xor((2 * crc) % 256, 7) ELSE (2 * crc) % 256

ShiftStep(crc, byte) ==
    ShiftOut(ShiftOut(ShiftOut(ShiftOut(
        ShiftOut(ShiftOut(ShiftOut(ShiftOut(Xor(crc, byte)))))))))

CrcStep(coder, crc, byte) ==
    IF coder = "C" THEN TableStep(crc, byte) ELSE ShiftStep(crc, byte)

(* Encoders take the checksum of six bytes, decoders of seven.             *)
Checksum6(coder, bytes) ==
    LET Step(crc, byte) == CrcStep(coder, crc, byte)
    IN  Step(Step(Step(Step(Step(Step(0, bytes[1]), bytes[2]), bytes[3]),
                       bytes[4]), bytes[5]), bytes[6])

Checksum7(coder, bytes) == CrcStep(coder, Checksum6(coder, bytes), bytes[7])

-----------------------------------------------------------------------------
(* Encoding.                                                               *)

(* Bytes 1 to 6 of the unencoded packet; a device ID has five bits. *)
Payload(info) ==
    <<8 * info.deviceID + 4 * info.ack + 2 * info.read + info.write, info.regID,
      info.regData[1], info.regData[2], info.regData[3], info.regData[4]>>

NibbleToHexchar(nibble) == IF nibble < 10 THEN 48 + nibble ELSE 55 + nibble

(* The frame of the unencoded bytes 1 to 7. *)
Hexadecimal(bytes) ==
    [i \in 0..15 |->
        IF i = 0 THEN StartByte
        ELSE IF i = 15 THEN EndByte
        ELSE IF i % 2 = 1 THEN NibbleToHexchar(bytes[(i + 1) \div 2] \div 16)
        ELSE NibbleToHexchar(bytes[i \div 2] % 16)]

SSCP_encodePacket(info) ==
    Hexadecimal(Append(Payload(info), Checksum6("C", Payload(info))))

packet_encode(info) ==
    Hexadecimal(Append(Payload(info), Checksum6("Python", Payload(info))))

Encode(coder, info) ==
    IF coder = "C" THEN SSCP_encodePacket(info) ELSE packet_encode(info)

-----------------------------------------------------------------------------
(* Decoding.                                                               *)

Rejected == [rejected |-> TRUE]
Nothing  == [rejected |-> FALSE]   \* nothing was received yet

(* What is not a digit below 'A' wraps around; what is not a hexadecimal   *)
(* letter counts on.                                                       *)
SSCP_HEXCHAR_TO_NIBBLE(char) ==
    IF char < 65 THEN (char - 48) % 256 ELSE (char - 55) % 256

(* Mutant of hexchar_to_int: 'A' counts as 0. *)
HexcharFromZero(char) ==
    IF char \in 48..57 THEN char - 48
    ELSE IF char \in 65..70 THEN char - 65
    ELSE 0

hexchar_to_int(char) ==
    IF char \in 48..57 THEN char - 48
    ELSE IF char \in 65..70 THEN char - 55
    ELSE 0

Fields(bytes) ==
    [deviceID |-> (bytes[1] \div 8) % 32, ack |-> (bytes[1] \div 4) % 2,
     read |-> (bytes[1] \div 2) % 2, write |-> bytes[1] % 2,
     regID |-> bytes[2], regData |-> [i \in 1..4 |-> bytes[i + 2]]]

Framed(frame) == frame[0] = StartByte /\ frame[15] = EndByte

(* Mutant of SSCP_decodePacket: the checksum does not decide. *)
DecodeUnchecked(frame) ==
    LET unencodedPacket ==
            [i \in 1..7 |->
                Or((16 * SSCP_HEXCHAR_TO_NIBBLE(frame[2 * i - 1])) % 256,
                   SSCP_HEXCHAR_TO_NIBBLE(frame[2 * i]))]
    IN  IF Framed(frame) THEN Fields(unencodedPacket) ELSE Rejected

SSCP_decodePacket(frame) ==
    LET unencodedPacket ==
            [i \in 1..7 |->
                Or((16 * SSCP_HEXCHAR_TO_NIBBLE(frame[2 * i - 1])) % 256,
                   SSCP_HEXCHAR_TO_NIBBLE(frame[2 * i]))]
    IN  IF Framed(frame) /\ Checksum7("C", unencodedPacket) = 0
        THEN Fields(unencodedPacket)
        ELSE Rejected

packet_decode(frame) ==
    LET unencoded_bytes ==
            [i \in 1..7 |-> 16 * hexchar_to_int(frame[2 * i - 1])
                            + hexchar_to_int(frame[2 * i])]
    IN  IF Framed(frame) /\ Checksum7("Python", unencoded_bytes) = 0
        THEN Fields(unencoded_bytes)
        ELSE Rejected

Decode(coder, frame) ==
    IF coder = "C" THEN SSCP_decodePacket(frame) ELSE packet_decode(frame)

-----------------------------------------------------------------------------
(* A frame on its way.                                                     *)

VARIABLES
    sent,      \* the packet that was encoded
    line,      \* the frame under way, or Nothing
    hits,      \* the positions of the frame where a character changed
    received   \* what the other end decoded, Rejected, or Nothing

vars == <<sent, line, hits, received>>

Init ==
    /\ sent \in Sample
    /\ line = Nothing
    /\ hits = {}
    /\ received = Nothing

Send ==
    /\ line = Nothing /\ received = Nothing
    /\ \E coder \in Coders : line' = Encode(coder, sent)
    /\ UNCHANGED <<sent, hits, received>>

Disturb ==
    /\ line # Nothing
    /\ Cardinality(hits) < MaxHits[sent]
    /\ \E i \in 0..15 \ hits, char \in Noise :
          /\ line' = [line EXCEPT ![i] = char]
          /\ hits' = hits \cup {i}
    /\ UNCHANGED <<sent, received>>

Receive ==
    /\ line # Nothing
    /\ \E coder \in Coders : received' = Decode(coder, line)
    /\ line' = Nothing
    /\ UNCHANGED <<sent, hits>>

(* The packet is sent once more. *)
Repeat ==
    /\ received # Nothing
    /\ received' = Nothing
    /\ hits' = {}
    /\ UNCHANGED <<sent, line>>

Next == Send \/ Disturb \/ Receive \/ Repeat

Spec == Init /\ [][Next]_vars

-----------------------------------------------------------------------------
(* Properties.                                                             *)

(* The two encoders build the same frame: the table of the C code is the   *)
(* table of the polynomial that the Python code divides by.                *)
EncodersAgree == SSCP_encodePacket(sent) = packet_encode(sent)

(* A frame that arrives as it was sent is decoded to the packet that was   *)
(* encoded, whichever the two ends are written in.                         *)
RoundTrip == received # Nothing /\ hits = {} => received = sent

(* Characters that change within one encoded byte are noticed, or do no    *)
(* harm, although neither decoder tests that a character is a hexadecimal  *)
(* digit: a byte too large for its nibbles still differs in one byte only. *)
ByteErrorsDetected ==
    Cardinality({(i + 1) \div 2 : i \in hits}) <= 1 =>
        received \in {Nothing, Rejected, sent}
=============================================================================
