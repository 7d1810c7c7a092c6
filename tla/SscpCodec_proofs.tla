-------------------------- MODULE SscpCodec_proofs --------------------------
(***************************************************************************)
(* Proofs about SscpCodec, for every packet there is: the two encoders     *)
(* build the same frame, either decoder gives the packet back, and what    *)
(* changes in one byte of the frame is noticed or does no harm.            *)
(***************************************************************************)
EXTENDS SscpCodec, SequenceTheorems, FiniteSetTheorems, TLAPS

Nibble == 0..15

(* A bit is 0 or 1. *)
LEMMA BitIsBit == \A x \in Nat, i \in 0..7 : Bit(x, i) \in {0, 1}
<1>1. \A i \in 0..7 : Weight[i] \in Nat \ {0}
  BY DEF Weight
<1>2. QED
  BY <1>1 DEF Bit

-----------------------------------------------------------------------------
(* Bits.                                                                   *)

(* The weights of the bits. *)
LEMMA WeightValues ==
    /\ Weight[0] = 1 /\ Weight[1] = 2 /\ Weight[2] = 4 /\ Weight[3] = 8
    /\ Weight[4] = 16 /\ Weight[5] = 32 /\ Weight[6] = 64 /\ Weight[7] = 128
  BY DEF Weight

(* Bits make a byte that has these bits. *)
LEMMA BitsOfByte ==
    ASSUME NEW b, \A i \in 0..7 : b[i] \in {0, 1}
    PROVE  FromBits(b) \in Byte /\ \A i \in 0..7 : Bit(FromBits(b), i) = b[i]
<1>1. PICK b0 \in {0, 1}, b1 \in {0, 1}, b2 \in {0, 1}, b3 \in {0, 1},
           b4 \in {0, 1}, b5 \in {0, 1}, b6 \in {0, 1}, b7 \in {0, 1} :
              /\ b[0] = b0 /\ b[1] = b1 /\ b[2] = b2 /\ b[3] = b3
              /\ b[4] = b4 /\ b[5] = b5 /\ b[6] = b6 /\ b[7] = b7
  OBVIOUS
<1>2. PICK x \in Int : x = b0 + 2 * b1 + 4 * b2 + 8 * b3 + 16 * b4 + 32 * b5 + 64 * b6 + 128 * b7
  OBVIOUS
<1>3. FromBits(b) = x
  BY <1>1, <1>2 DEF FromBits
<1>4. /\ x \in Byte
      /\ Bit(x, 0) = b0 /\ Bit(x, 1) = b1 /\ Bit(x, 2) = b2 /\ Bit(x, 3) = b3
      /\ Bit(x, 4) = b4 /\ Bit(x, 5) = b5 /\ Bit(x, 6) = b6 /\ Bit(x, 7) = b7
  <2>1. x \in Byte
    BY <1>2 DEF Byte
  <2>2. /\ (x \div 1) % 2 = b0 /\ (x \div 2) % 2 = b1 /\ (x \div 4) % 2 = b2
        /\ (x \div 8) % 2 = b3 /\ (x \div 16) % 2 = b4 /\ (x \div 32) % 2 = b5
        /\ (x \div 64) % 2 = b6 /\ (x \div 128) % 2 = b7
    BY <1>2
  <2> QED
    BY <2>1, <2>2, WeightValues, Zenon DEF Bit
<1>5. \A i \in 0..7 : i = 0 \/ i = 1 \/ i = 2 \/ i = 3 \/ i = 4 \/ i = 5 \/ i = 6 \/ i = 7
  OBVIOUS
<1> QED
  BY <1>1, <1>3, <1>4, <1>5, Zenon

(* A byte is made of its bits. *)
LEMMA ByteOfBits == \A x \in Byte : x = FromBits([i \in 0..7 |-> Bit(x, i)])
<1> SUFFICES ASSUME NEW x \in Byte PROVE x = FromBits([i \in 0..7 |-> Bit(x, i)])
  OBVIOUS
<1>1. x = Bit(x, 0) + 2 * Bit(x, 1) + 4 * Bit(x, 2) + 8 * Bit(x, 3)
          + 16 * Bit(x, 4) + 32 * Bit(x, 5) + 64 * Bit(x, 6) + 128 * Bit(x, 7)
  BY WeightValues DEF Bit, Byte
<1> QED
  BY <1>1 DEF FromBits

LEMMA SameBits ==
    ASSUME NEW x \in Byte, NEW y \in Byte, \A i \in 0..7 : Bit(x, i) = Bit(y, i)
    PROVE  x = y
<1>1. [i \in 0..7 |-> Bit(x, i)] = [i \in 0..7 |-> Bit(y, i)]
  OBVIOUS
<1> QED
  BY <1>1, ByteOfBits

(* The bits of an XOR. *)
LEMMA XorBits ==
    ASSUME NEW x \in Byte, NEW y \in Byte
    PROVE  /\ Xor(x, y) \in Byte
           /\ \A i \in 0..7 : Bit(Xor(x, y), i) = (Bit(x, i) + Bit(y, i)) % 2
<1> DEFINE b == [i \in 0..7 |-> (Bit(x, i) + Bit(y, i)) % 2]
<1>1. \A i \in 0..7 : b[i] = (Bit(x, i) + Bit(y, i)) % 2 /\ b[i] \in {0, 1}
  BY BitIsBit DEF Byte
<1>2. Xor(x, y) = FromBits(b)
  BY DEF Xor
<1> HIDE DEF b
<1> QED
  BY <1>1, <1>2, BitsOfByte

(* XOR does not depend on the order, and loses nothing. *)
LEMMA XorCancels ==
    ASSUME NEW x \in Byte, NEW y \in Byte, NEW z \in Byte
    PROVE  /\ Xor(x, y) = Xor(y, x)
           /\ Xor(x, y) = Xor(x, z) => y = z
<1>1. \A i \in 0..7 : Bit(x, i) \in {0, 1} /\ Bit(y, i) \in {0, 1} /\ Bit(z, i) \in {0, 1}
  BY BitIsBit DEF Byte
<1>2. Xor(x, y) = Xor(y, x)
  <2>1. \A i \in 0..7 : Bit(Xor(x, y), i) = Bit(Xor(y, x), i)
    BY <1>1, XorBits
  <2> QED
    BY <2>1, XorBits, SameBits
<1>3. ASSUME Xor(x, y) = Xor(x, z) PROVE y = z
  <2>1. \A i \in 0..7 : (Bit(x, i) + Bit(y, i)) % 2 = (Bit(x, i) + Bit(z, i)) % 2
    BY <1>3, XorBits
  <2>2. \A i \in 0..7 : Bit(y, i) = Bit(z, i)
    BY <1>1, <2>1
  <2> QED
    BY <2>2, SameBits
<1> QED
  BY <1>2, <1>3

(* A byte cancels itself: this is how a checksum makes the decoder's zero. *)
LEMMA XorSelf == \A x \in Byte : Xor(x, x) = 0
<1> SUFFICES ASSUME NEW x \in Byte
             PROVE  Xor(x, x) = 0
  OBVIOUS
<1>1. \A i \in 0..7 : (Bit(x, i) + Bit(x, i)) % 2 = 0
  BY BitIsBit DEF Byte
<1>2. QED
  BY <1>1 DEF Xor, FromBits

(* Both decoders read a digit as the nibble it was made from. *)
LEMMA HexcharRoundTrip ==
    \A nibble \in Nibble :
        /\ NibbleToHexchar(nibble) \in Byte
        /\ SSCP_HEXCHAR_TO_NIBBLE(NibbleToHexchar(nibble)) = nibble
        /\ hexchar_to_int(NibbleToHexchar(nibble)) = nibble
  BY DEF Nibble, Byte, NibbleToHexchar, SSCP_HEXCHAR_TO_NIBBLE, hexchar_to_int

(* A nibble is the sum of its bits. *)
LEMMA NibbleBits ==
    \A n \in Nibble :
        n = (n % 2) + 2 * ((n \div 2) % 2) + 4 * ((n \div 4) % 2) + 8 * ((n \div 8) % 2)
  BY DEF Nibble

(* A byte is the sum of its nibbles. *)
LEMMA ByteNibbles ==
    \A byte \in Byte : /\ byte \div 16 \in Nibble /\ byte % 16 \in Nibble
                       /\ 16 * (byte \div 16) + (byte % 16) = byte
  BY DEF Byte, Nibble

(* The two nibbles of a byte do not overlap.                               *)
LEMMA OrNibbles ==
    \A high, low \in Nibble : Or((16 * high) % 256, low) = 16 * high + low
<1> SUFFICES ASSUME NEW high \in Nibble, NEW low \in Nibble
             PROVE  Or((16 * high) % 256, low) = 16 * high + low
  OBVIOUS
<1> DEFINE h == (16 * high) % 256
<1>1. h = 16 * high
  BY DEF Nibble
<1>2. /\ Bit(h, 0) = 0 /\ Bit(h, 1) = 0 /\ Bit(h, 2) = 0 /\ Bit(h, 3) = 0
  BY <1>1, WeightValues DEF Nibble, Bit
<1>3. /\ Bit(low, 4) = 0 /\ Bit(low, 5) = 0 /\ Bit(low, 6) = 0 /\ Bit(low, 7) = 0
  BY WeightValues DEF Nibble, Bit
<1>4. low = Bit(low, 0) + 2 * Bit(low, 1) + 4 * Bit(low, 2) + 8 * Bit(low, 3)
  <2>1. low \div 1 = low
    BY DEF Nibble
  <2>2. QED
    BY <2>1, NibbleBits, WeightValues DEF Bit
<1>5. h = 16 * Bit(h, 4) + 32 * Bit(h, 5) + 64 * Bit(h, 6) + 128 * Bit(h, 7)
  <2>1. /\ h \div 16 = high /\ h \div 32 = high \div 2
        /\ h \div 64 = high \div 4 /\ h \div 128 = high \div 8
    BY <1>1 DEF Nibble
  <2>2. /\ Bit(h, 4) = high % 2 /\ Bit(h, 5) = (high \div 2) % 2
        /\ Bit(h, 6) = (high \div 4) % 2 /\ Bit(h, 7) = (high \div 8) % 2
    BY <2>1, WeightValues DEF Bit
  <2>3. high = (high % 2) + 2 * ((high \div 2) % 2) + 4 * ((high \div 4) % 2)
               + 8 * ((high \div 8) % 2)
    BY NibbleBits
  <2>4. /\ high % 2 \in Int /\ (high \div 2) % 2 \in Int
        /\ (high \div 4) % 2 \in Int /\ (high \div 8) % 2 \in Int
    BY DEF Nibble
  <2>5. QED
    BY <1>1, <2>2, <2>3, <2>4
<1>6. QED
  BY <1>1, <1>2, <1>3, <1>4, <1>5, BitIsBit DEF Or, FromBits, Nibble

-----------------------------------------------------------------------------
(* The checksums.                                                          *)

LEMMA ShiftOutBits ==
    ASSUME NEW crc \in Byte
    PROVE  /\ ShiftOut(crc) \in Byte
           /\ \A i \in 0..7 :
                 Bit(ShiftOut(crc), i) = ((IF i = 0 THEN 0 ELSE Bit(crc, i-1))
                                          + (IF i <= 2 THEN Bit(crc, 7) ELSE 0)) % 2
<1> DEFINE b == [i \in 0..7 |-> IF i = 0 THEN 0 ELSE Bit(crc, i-1)]
           twice == (2 * crc) % 256
<1>1. \A i \in 0..7 : Bit(crc, i) \in {0, 1}
  BY BitIsBit DEF Byte
<1>2. \A i \in 0..7 : b[i] \in {0, 1}
  BY <1>1
<1>3. twice = FromBits(b)
  <2>1. crc = Bit(crc, 0) + 2 * Bit(crc, 1) + 4 * Bit(crc, 2) + 8 * Bit(crc, 3)
          + 16 * Bit(crc, 4) + 32 * Bit(crc, 5) + 64 * Bit(crc, 6) + 128 * Bit(crc, 7)
    BY ByteOfBits DEF FromBits
  <2>2. twice = 2 * Bit(crc, 0) + 4 * Bit(crc, 1) + 8 * Bit(crc, 2)
          + 16 * Bit(crc, 3) + 32 * Bit(crc, 4) + 64 * Bit(crc, 5) + 128 * Bit(crc, 6)
    BY <1>1, <2>1
  <2> QED
    BY <1>1, <2>2 DEF FromBits
<1>4. twice \in Byte /\ \A i \in 0..7 : Bit(twice, i) = IF i = 0 THEN 0 ELSE Bit(crc, i-1)
  <2>1. \A i \in 0..7 : b[i] = IF i = 0 THEN 0 ELSE Bit(crc, i-1)
    OBVIOUS
  <2> HIDE DEF b, twice
  <2> QED
    BY <1>2, <1>3, <2>1, BitsOfByte
<1>5. crc >= 128 <=> Bit(crc, 7) = 1
  BY WeightValues DEF Bit, Byte
<1>6. 7 \in Byte /\ \A i \in 0..7 : Bit(7, i) = IF i <= 2 THEN 1 ELSE 0
  BY WeightValues DEF Bit, Byte
<1>7. ShiftOut(crc) = IF crc >= 128 THEN Xor(twice, 7) ELSE twice
  BY DEF ShiftOut
<1> HIDE DEF b, twice
<1>8. CASE crc >= 128
  BY <1>1, <1>4, <1>5, <1>6, <1>7, <1>8, XorBits
<1>9. CASE ~(crc >= 128)
  <2>1. Bit(crc, 7) = 0 /\ ShiftOut(crc) = twice
    BY <1>1, <1>5, <1>7, <1>9
  <2> QED
    BY <1>1, <1>4, <2>1
<1> QED
  BY <1>8, <1>9

LEMMA ShiftOutLinear ==
    ASSUME NEW x \in Byte, NEW y \in Byte
    PROVE  ShiftOut(Xor(x, y)) = Xor(ShiftOut(x), ShiftOut(y))
<1> DEFINE Shifted(z, i) == ((IF i = 0 THEN 0 ELSE Bit(z, i-1))
                             + (IF i <= 2 THEN Bit(z, 7) ELSE 0)) % 2
<1>1. \A i \in 0..7 : Bit(x, i) \in {0, 1} /\ Bit(y, i) \in {0, 1}
  BY BitIsBit DEF Byte
<1>2. Xor(x, y) \in Byte /\ ShiftOut(x) \in Byte /\ ShiftOut(y) \in Byte
  BY XorBits, ShiftOutBits
<1>3. \A z \in Byte, i \in 0..7 : Bit(ShiftOut(z), i) = Shifted(z, i)
  BY ShiftOutBits
<1>4. \A i \in 0..7 : Shifted(Xor(x, y), i) = (Shifted(x, i) + Shifted(y, i)) % 2
  <2> SUFFICES ASSUME NEW i \in 0..7
               PROVE  Shifted(Xor(x, y), i) = (Shifted(x, i) + Shifted(y, i)) % 2
    OBVIOUS
  <2>1. Shifted(Xor(x, y), i) = ((IF i = 0 THEN 0 ELSE (Bit(x, i-1) + Bit(y, i-1)) % 2)
                                 + (IF i <= 2 THEN (Bit(x, 7) + Bit(y, 7)) % 2 ELSE 0)) % 2
    BY XorBits
  <2>2. Bit(x, 7) \in {0, 1} /\ Bit(y, 7) \in {0, 1}
    BY <1>1
  <2>3. CASE i = 0
    BY <2>1, <2>2, <2>3
  <2>4. CASE i \in 1..7
    <3>1. Bit(x, i-1) \in {0, 1} /\ Bit(y, i-1) \in {0, 1}
      BY <1>1, <2>4
    <3> QED
      BY <2>1, <2>2, <2>4, <3>1
  <2> QED
    BY <2>3, <2>4
<1> HIDE DEF Shifted
<1>5. \A i \in 0..7 : Bit(Xor(ShiftOut(x), ShiftOut(y)), i) = Bit(ShiftOut(Xor(x, y)), i)
  BY <1>2, <1>3, <1>4, XorBits
<1> QED
  BY <1>2, <1>5, XorBits, ShiftOutBits, SameBits

(* The shift loses nothing. *)
LEMMA ShiftOutInjective ==
    ASSUME NEW x \in Byte, NEW y \in Byte, ShiftOut(x) = ShiftOut(y)
    PROVE  x = y
<1>1. \A i \in 0..7 : Bit(x, i) \in {0, 1} /\ Bit(y, i) \in {0, 1}
  BY BitIsBit DEF Byte
<1>2. Bit(x, 7) = Bit(y, 7)
  <2>1. Bit(ShiftOut(x), 0) = Bit(x, 7) % 2 /\ Bit(ShiftOut(y), 0) = Bit(y, 7) % 2
    BY <1>1, ShiftOutBits
  <2> QED
    BY <1>1, <2>1
<1>3. ASSUME NEW i \in 0..6 PROVE Bit(x, i) = Bit(y, i)
  <2>1. i+1 \in 1..7 /\ (i+1)-1 = i
    OBVIOUS
  <2>2. /\ Bit(ShiftOut(x), i+1) = (Bit(x, i) + (IF i+1 <= 2 THEN Bit(x, 7) ELSE 0)) % 2
        /\ Bit(ShiftOut(y), i+1) = (Bit(y, i) + (IF i+1 <= 2 THEN Bit(y, 7) ELSE 0)) % 2
    BY <2>1, ShiftOutBits
  <2>3. Bit(x, i) \in {0, 1} /\ Bit(y, i) \in {0, 1} /\ Bit(x, 7) \in {0, 1}
    BY <1>1
  <2> QED
    BY <1>2, <2>2, <2>3
<1> QED
  BY <1>2, <1>3, SameBits

Eightfold(x) ==
    ShiftOut(ShiftOut(ShiftOut(ShiftOut(ShiftOut(ShiftOut(ShiftOut(ShiftOut(x))))))))

LEMMA EightfoldLinear ==
    ASSUME NEW x \in Byte, NEW y \in Byte
    PROVE  /\ Eightfold(x) \in Byte
           /\ Eightfold(Xor(x, y)) = Xor(Eightfold(x), Eightfold(y))
           /\ Eightfold(x) = Eightfold(y) => x = y
  BY ShiftOutBits, ShiftOutLinear, ShiftOutInjective DEF Eightfold

LEMMA XorSeven == \A y \in Byte : Xor(y, 7) = y + 7 - 2 * (y % 8)
<1> SUFFICES ASSUME NEW y \in Byte PROVE Xor(y, 7) = y + 7 - 2 * (y % 8)
  OBVIOUS
<1>0. \A i \in 0..7 : Bit(y, i) \in {0, 1}
  BY BitIsBit DEF Byte
<1>1. 7 \in Byte /\ \A i \in 0..7 : Bit(7, i) = IF i <= 2 THEN 1 ELSE 0
  BY WeightValues DEF Bit, Byte
<1>2. /\ Xor(y, 7) = FromBits([i \in 0..7 |-> (Bit(y, i) + Bit(7, i)) % 2])
  BY DEF Xor
<1>3. Xor(y, 7) = (1 - Bit(y, 0)) + 2 * (1 - Bit(y, 1)) + 4 * (1 - Bit(y, 2)) + 8 * Bit(y, 3)
                  + 16 * Bit(y, 4) + 32 * Bit(y, 5) + 64 * Bit(y, 6) + 128 * Bit(y, 7)
  BY <1>0, <1>1, <1>2 DEF FromBits
<1>4. y = Bit(y, 0) + 2 * Bit(y, 1) + 4 * Bit(y, 2) + 8 * Bit(y, 3)
          + 16 * Bit(y, 4) + 32 * Bit(y, 5) + 64 * Bit(y, 6) + 128 * Bit(y, 7)
  BY ByteOfBits DEF FromBits
<1>5. y % 8 = Bit(y, 0) + 2 * Bit(y, 1) + 4 * Bit(y, 2)
  BY <1>0, <1>4
<1> QED
  BY <1>0, <1>3, <1>4, <1>5

(* The table of the C code has 256 bytes, the first of which is 0. *)
LEMMA TableType ==
    /\ \A x \in Byte : crc8_ccitt_table[x + 1] \in Byte
    /\ crc8_ccitt_table[1] = 0
<1>1. crc8_ccitt_table \in Seq(0..255)
  BY SMTT(60) DEF crc8_ccitt_table
<1>2. Len(crc8_ccitt_table) = 256
  BY SMTT(60) DEF crc8_ccitt_table
<1>3. crc8_ccitt_table[1] = 0
  BY SMTT(60) DEF crc8_ccitt_table
<1>4. ASSUME NEW x \in Byte
      PROVE  crc8_ccitt_table[x + 1] \in Byte
  <2>1. x + 1 \in 1..Len(crc8_ccitt_table)
    BY <1>2 DEF Byte
  <2>2. QED
    BY <1>1, <2>1, ElementOfSeq DEF Byte
<1>5. QED
  BY <1>3, <1>4

(* A turn of the bit-wise checksum in numbers. *)
LEMMA ShiftOutIs ==
    \A crc \in Byte :
        ShiftOut(crc) = IF crc >= 128 THEN 2 * crc - 249 - 2 * ((2 * crc) % 8) ELSE 2 * crc
<1> SUFFICES ASSUME NEW crc \in Byte
             PROVE  ShiftOut(crc) = IF crc >= 128 THEN 2 * crc - 249 - 2 * ((2 * crc) % 8)
                                    ELSE 2 * crc
  OBVIOUS
<1>1. CASE crc >= 128
  <2>1. (2 * crc) % 256 = 2 * crc - 256 /\ 2 * crc - 256 \in Byte
    BY <1>1 DEF Byte
  <2>2. ShiftOut(crc) = (2 * crc - 256) + 7 - 2 * ((2 * crc - 256) % 8)
    BY <1>1, <2>1, XorSeven DEF ShiftOut
  <2> QED
    BY <1>1, <2>2 DEF Byte
<1>2. CASE ~(crc >= 128)
  BY <1>2 DEF ShiftOut, Byte
<1> QED
  BY <1>1, <1>2

LEMMA EightfoldOfZero == Eightfold(0) = 0
<1>1. ShiftOut(0) = 0
  BY ShiftOutIs DEF Byte
<1> QED
  BY <1>1 DEF Eightfold

(* The second half of the table is made of the first, ... *)
LEMMA TableDoubles ==
    \A k \in 0..127 :
        /\ crc8_ccitt_table[2 * k + 1] = ShiftOut(crc8_ccitt_table[k + 1])
        /\ crc8_ccitt_table[2 * k + 2] = Xor(crc8_ccitt_table[2 * k + 1], 7)
<1>1. \A k \in 0..127 :
        crc8_ccitt_table[2 * k + 1] =
            IF crc8_ccitt_table[k + 1] >= 128
            THEN 2 * crc8_ccitt_table[k + 1] - 249 - 2 * ((2 * crc8_ccitt_table[k + 1]) % 8)
            ELSE 2 * crc8_ccitt_table[k + 1]
  BY SMTT(60) DEF crc8_ccitt_table
<1>2. \A k \in 0..127 :
        crc8_ccitt_table[2 * k + 2] =
            crc8_ccitt_table[2 * k + 1] + 7 - 2 * (crc8_ccitt_table[2 * k + 1] % 8)
  BY SMTT(60) DEF crc8_ccitt_table
<1>3. \A k \in 0..127 : /\ k \in Byte /\ 2 * k \in Byte
                        /\ crc8_ccitt_table[k + 1] \in Byte
                        /\ crc8_ccitt_table[2 * k + 1] \in Byte
  <2> SUFFICES ASSUME NEW k \in 0..127
               PROVE  /\ k \in Byte /\ 2 * k \in Byte
                      /\ crc8_ccitt_table[k + 1] \in Byte
                      /\ crc8_ccitt_table[2 * k + 1] \in Byte
    OBVIOUS
  <2>1. k \in Byte /\ 2 * k \in Byte
    BY DEF Byte
  <2>2. crc8_ccitt_table[k + 1] \in Byte
    BY <2>1, TableType
  <2>3. crc8_ccitt_table[2 * k + 1] \in Byte
    BY <2>1, TableType
  <2> QED
    BY <2>1, <2>2, <2>3
<1> QED
  BY <1>1, <1>2, <1>3, ShiftOutIs, XorSeven

(* ... and so are eight turns. *)
LEMMA EightfoldDoubles ==
    \A k \in 0..127 :
        /\ Eightfold(2 * k) = ShiftOut(Eightfold(k))
        /\ Eightfold(2 * k + 1) = Xor(Eightfold(2 * k), 7)
<1> SUFFICES ASSUME NEW k \in 0..127
             PROVE  /\ Eightfold(2 * k) = ShiftOut(Eightfold(k))
                    /\ Eightfold(2 * k + 1) = Xor(Eightfold(2 * k), 7)
  OBVIOUS
<1>1. k \in Byte /\ 2 * k \in Byte /\ 2 * k + 1 \in Byte /\ 1 \in Byte
  BY DEF Byte
<1>2. Eightfold(2 * k) = ShiftOut(Eightfold(k))
  <2>1. ShiftOut(k) = 2 * k
    BY <1>1, ShiftOutIs
  <2> QED
    BY <2>1 DEF Eightfold
<1>3. Eightfold(1) = 7
  <2>1. /\ ShiftOut(1) = 2 /\ ShiftOut(2) = 4 /\ ShiftOut(4) = 8 /\ ShiftOut(8) = 16
        /\ ShiftOut(16) = 32 /\ ShiftOut(32) = 64 /\ ShiftOut(64) = 128 /\ ShiftOut(128) = 7
    BY ShiftOutIs DEF Byte
  <2> QED
    BY <2>1 DEF Eightfold
<1>4. Xor(2 * k, 1) = 2 * k + 1
  <2>1. \A i \in 0..7 : Bit(1, i) = IF i = 0 THEN 1 ELSE 0
    BY WeightValues DEF Bit
  <2>2. Bit(2 * k, 0) = 0
    BY WeightValues DEF Bit
  <2>3. \A i \in 1..7 : Bit(2 * k + 1, i) = Bit(2 * k, i)
    BY WeightValues DEF Bit
  <2>4. Bit(2 * k + 1, 0) = 1
    BY WeightValues DEF Bit
  <2>5. \A i \in 0..7 : Bit(2 * k, i) \in {0, 1}
    BY <1>1, BitIsBit DEF Byte
  <2>6. \A i \in 0..7 : Bit(Xor(2 * k, 1), i) = Bit(2 * k + 1, i)
    BY <1>1, <2>1, <2>2, <2>3, <2>4, <2>5, XorBits
  <2> QED
    BY <1>1, <2>6, XorBits, SameBits
<1>5. Eightfold(2 * k + 1) = Xor(Eightfold(2 * k), 7)
  BY <1>1, <1>3, <1>4, EightfoldLinear
<1> QED
  BY <1>2, <1>5

LEMMA RightTwiceAsFar ==
    ASSUME NEW n \in Nat, n <= 128,
           \A k \in 0..n-1 : crc8_ccitt_table[k + 1] = Eightfold(k)
    PROVE  \A k \in 0..2 * n - 1 : crc8_ccitt_table[k + 1] = Eightfold(k)
<1> SUFFICES ASSUME NEW k \in 0..2 * n - 1 PROVE crc8_ccitt_table[k + 1] = Eightfold(k)
  OBVIOUS
<1>1. PICK half \in 0..n-1 : k = 2 * half \/ k = 2 * half + 1
  <2>1. k \div 2 \in 0..n-1 /\ (k = 2 * (k \div 2) \/ k = 2 * (k \div 2) + 1)
    OBVIOUS
  <2> QED
    BY <2>1
<1>2. half \in 0..127 /\ crc8_ccitt_table[half + 1] = Eightfold(half)
  OBVIOUS
<1>3. crc8_ccitt_table[2 * half + 1] = Eightfold(2 * half)
  BY <1>2, TableDoubles, EightfoldDoubles
<1>4. crc8_ccitt_table[2 * half + 2] = Eightfold(2 * half + 1)
  BY <1>2, <1>3, TableDoubles, EightfoldDoubles
<1>5. (2 * half + 1) + 1 = 2 * half + 2
  OBVIOUS
<1> QED
  BY <1>1, <1>3, <1>4, <1>5

(* The table of the C code is the table of the Python code's polynomial.   *)
LEMMA TableIsRight == \A k \in Byte : crc8_ccitt_table[k + 1] = Eightfold(k)
<1> DEFINE RightTo(n) == \A k \in 0..n-1 : crc8_ccitt_table[k + 1] = Eightfold(k)
<1>1. RightTo(1)
  <2>1. \A k \in 0..1-1 : k = 0 /\ k + 1 = 1
    OBVIOUS
  <2> QED
    BY <2>1, EightfoldOfZero, TableType
<1>2. ASSUME NEW n \in Nat, n <= 128, RightTo(n) PROVE RightTo(2 * n)
  BY <1>2, RightTwiceAsFar
<1> HIDE DEF RightTo
<1>3. RightTo(2) /\ RightTo(4) /\ RightTo(8) /\ RightTo(16)
  <2>1. RightTo(2 * 1)
    BY <1>1, <1>2
  <2>2. RightTo(2 * 2)
    BY <1>2, <2>1
  <2>3. RightTo(2 * 4)
    BY <1>2, <2>2
  <2>4. RightTo(2 * 8)
    BY <1>2, <2>3
  <2> QED
    BY <2>1, <2>2, <2>3, <2>4
<1>4. RightTo(32) /\ RightTo(64) /\ RightTo(128) /\ RightTo(256)
  <2>1. RightTo(2 * 16)
    BY <1>2, <1>3
  <2>2. RightTo(2 * 32)
    BY <1>2, <2>1
  <2>3. RightTo(2 * 64)
    BY <1>2, <2>2
  <2>4. RightTo(2 * 128)
    BY <1>2, <2>3
  <2> QED
    BY <2>1, <2>2, <2>3, <2>4
<1> QED
  BY <1>4 DEF RightTo, Byte

(* The two checksums take the same step, from bytes to a byte, and another *)
(* byte or another checksum before it makes another checksum.              *)
LEMMA StepsAgree ==
    ASSUME NEW crc \in Byte, NEW byte \in Byte, NEW coder \in Coders
    PROVE  CrcStep(coder, crc, byte) = Eightfold(Xor(crc, byte))
  BY XorBits, TableIsRight DEF CrcStep, ShiftStep, TableStep, Eightfold, Coders

LEMMA StepType ==
    ASSUME NEW crc \in Byte, NEW byte \in Byte, NEW coder \in Coders
    PROVE  /\ CrcStep(coder, crc, byte) \in Byte
           /\ CrcStep(coder, crc, crc) = 0
  BY EightfoldOfZero, XorBits, XorSelf, EightfoldLinear, StepsAgree

LEMMA StepTells ==
    ASSUME NEW coder \in Coders, NEW crc \in Byte, NEW crc2 \in Byte,
           NEW byte \in Byte, NEW byte2 \in Byte,
           CrcStep(coder, crc, byte) = CrcStep(coder, crc2, byte2)
    PROVE  crc = crc2 <=> byte = byte2
<1>1. Xor(crc, byte) = Xor(crc2, byte2)
  <2>1. Eightfold(Xor(crc, byte)) = Eightfold(Xor(crc2, byte2))
    BY StepsAgree
  <2> QED
    BY <2>1, XorBits, EightfoldLinear
<1>2. crc = crc2 => byte = byte2
  BY <1>1, XorCancels
<1>3. byte = byte2 => crc = crc2
  <2>1. Xor(byte, crc) = Xor(byte2, crc2)
    BY <1>1, XorCancels
  <2> QED
    BY <2>1, XorCancels
<1> QED
  BY <1>2, <1>3

-----------------------------------------------------------------------------
(* Packets and frames.                                                     *)

(* The bytes of a packet. *)
LEMMA PayloadType ==
    \A info \in Packet : \A i \in 1..6 : Payload(info)[i] \in Byte
  BY DEF Packet, Payload, Byte

(* The fields extracted from the bytes of a packet are the packet. *)
LEMMA PayloadFields ==
    ASSUME NEW info \in Packet, NEW bytes, \A i \in 1..6 : bytes[i] = Payload(info)[i]
    PROVE  Fields(bytes) = info
<1>1. /\ bytes[1] = 8 * info.deviceID + 4 * info.ack + 2 * info.read + info.write
      /\ bytes[2] = info.regID
      /\ bytes[3] = info.regData[1] /\ bytes[4] = info.regData[2]
      /\ bytes[5] = info.regData[3] /\ bytes[6] = info.regData[4]
  BY DEF Payload
<1>2. /\ info.deviceID \in 0..31 /\ info.ack \in {0, 1}
      /\ info.read \in {0, 1} /\ info.write \in {0, 1}
      /\ info.regData \in [1..4 -> Byte]
  BY DEF Packet
<1>3. /\ (bytes[1] \div 8) % 32 = info.deviceID
      /\ (bytes[1] \div 4) % 2 = info.ack
      /\ (bytes[1] \div 2) % 2 = info.read
      /\ bytes[1] % 2 = info.write
  BY <1>1, <1>2
<1>4. [i \in 1..4 |-> bytes[i + 2]] = info.regData
  BY <1>1, <1>2
<1>5. QED
  BY <1>1, <1>3, <1>4 DEF Fields, Packet

(* The characters of a frame give back its bytes. *)
LEMMA HexadecimalRoundTrip ==
    ASSUME NEW bytes, \A i \in 1..7 : bytes[i] \in Byte
    PROVE  /\ Framed(Hexadecimal(bytes))
           /\ \A i \in 1..7 :
                /\ Or((16 * SSCP_HEXCHAR_TO_NIBBLE(Hexadecimal(bytes)[2 * i - 1])) % 256,
                      SSCP_HEXCHAR_TO_NIBBLE(Hexadecimal(bytes)[2 * i])) = bytes[i]
                /\ 16 * hexchar_to_int(Hexadecimal(bytes)[2 * i - 1])
                   + hexchar_to_int(Hexadecimal(bytes)[2 * i]) = bytes[i]
<1>1. Framed(Hexadecimal(bytes))
  BY DEF Framed, Hexadecimal
<1>2. ASSUME NEW i \in 1..7
      PROVE  /\ Hexadecimal(bytes)[2 * i - 1] = NibbleToHexchar(bytes[i] \div 16)
             /\ Hexadecimal(bytes)[2 * i] = NibbleToHexchar(bytes[i] % 16)
  <2>1. /\ 2 * i - 1 \in 1..14 /\ (2 * i - 1) % 2 = 1 /\ (2 * i - 1 + 1) \div 2 = i
        /\ 2 * i \in 1..14 /\ (2 * i) % 2 = 0 /\ (2 * i) \div 2 = i
    OBVIOUS
  <2>2. QED
    BY <2>1 DEF Hexadecimal
<1>3. ASSUME NEW i \in 1..7
      PROVE  /\ bytes[i] \div 16 \in Nibble /\ bytes[i] % 16 \in Nibble
             /\ 16 * (bytes[i] \div 16) + (bytes[i] % 16) = bytes[i]
  BY ByteNibbles
<1>4. ASSUME NEW i \in 1..7
      PROVE  /\ Or((16 * SSCP_HEXCHAR_TO_NIBBLE(Hexadecimal(bytes)[2 * i - 1])) % 256,
                   SSCP_HEXCHAR_TO_NIBBLE(Hexadecimal(bytes)[2 * i])) = bytes[i]
             /\ 16 * hexchar_to_int(Hexadecimal(bytes)[2 * i - 1])
                + hexchar_to_int(Hexadecimal(bytes)[2 * i]) = bytes[i]
  <2> DEFINE high == bytes[i] \div 16
             low  == bytes[i] % 16
  <2>1. /\ SSCP_HEXCHAR_TO_NIBBLE(Hexadecimal(bytes)[2 * i - 1]) = high
        /\ SSCP_HEXCHAR_TO_NIBBLE(Hexadecimal(bytes)[2 * i]) = low
        /\ hexchar_to_int(Hexadecimal(bytes)[2 * i - 1]) = high
        /\ hexchar_to_int(Hexadecimal(bytes)[2 * i]) = low
    BY <1>2, <1>3, HexcharRoundTrip
  <2>2. high \in Nibble /\ low \in Nibble /\ 16 * high + low = bytes[i]
    BY <1>3
  <2> HIDE DEF high, low
  <2>3. QED
    BY <2>1, <2>2, OrNibbles
<1>5. QED
  BY <1>1, <1>4

(* The bytes that a decoder makes of a frame. *)
Unencoded(coder, frame) ==
    IF coder = "C"
    THEN [i \in 1..7 |-> Or((16 * SSCP_HEXCHAR_TO_NIBBLE(frame[2 * i - 1])) % 256,
                            SSCP_HEXCHAR_TO_NIBBLE(frame[2 * i]))]
    ELSE [i \in 1..7 |-> 16 * hexchar_to_int(frame[2 * i - 1])
                         + hexchar_to_int(frame[2 * i])]

LEMMA DecodeIs ==
    ASSUME NEW coder \in Coders, NEW frame
    PROVE  Decode(coder, frame) =
              IF Framed(frame) /\ Checksum7(coder, Unencoded(coder, frame)) = 0
              THEN Fields(Unencoded(coder, frame)) ELSE Rejected
<1>1. CASE coder = "C"
  BY <1>1 DEF Decode, SSCP_decodePacket, Unencoded
<1>2. CASE coder = "Python"
  BY <1>2 DEF Decode, packet_decode, Unencoded
<1> QED
  BY <1>1, <1>2 DEF Coders

(* The OR of two bytes is a byte. *)
LEMMA OrType == \A x, y \in Byte : Or(x, y) \in Byte
<1> SUFFICES ASSUME NEW x \in Byte, NEW y \in Byte
             PROVE  Or(x, y) \in Byte
  OBVIOUS
<1> DEFINE b == [i \in 0..7 |-> IF Bit(x, i) + Bit(y, i) = 0 THEN 0 ELSE 1]
<1>1. \A i \in 0..7 : b[i] \in {0, 1}
  OBVIOUS
<1>2. Or(x, y) = FromBits(b)
  BY DEF Or
<1> HIDE DEF b
<1> QED
  BY <1>1, <1>2, BitsOfByte

(* Whatever the characters, they are bytes. *)
LEMMA UnencodedType ==
    ASSUME NEW coder \in Coders, NEW frame \in [0..15 -> Byte]
    PROVE  Unencoded(coder, frame) \in [1..7 -> Byte]
<1>1. \A i \in 1..7 : frame[2 * i - 1] \in Byte /\ frame[2 * i] \in Byte
  OBVIOUS
<1>2. \A char \in Byte : /\ SSCP_HEXCHAR_TO_NIBBLE(char) \in Byte
                         /\ (16 * SSCP_HEXCHAR_TO_NIBBLE(char)) % 256 \in Byte
  BY DEF SSCP_HEXCHAR_TO_NIBBLE, Byte
<1>3. \A char \in Byte : hexchar_to_int(char) \in Nibble
  BY DEF hexchar_to_int, Byte, Nibble
<1>4. \A i \in 1..7 : Or((16 * SSCP_HEXCHAR_TO_NIBBLE(frame[2 * i - 1])) % 256,
                         SSCP_HEXCHAR_TO_NIBBLE(frame[2 * i])) \in Byte
  BY <1>1, <1>2, OrType
<1>5. \A high, low \in Nibble : 16 * high + low \in Byte
  BY DEF Nibble, Byte
<1>6. \A i \in 1..7 : 16 * hexchar_to_int(frame[2 * i - 1])
                      + hexchar_to_int(frame[2 * i]) \in Byte
  BY <1>1, <1>3, <1>5
<1> QED
  BY <1>4, <1>6, Zenon DEF Unencoded

(* A byte is made of its own two characters. *)
LEMMA UnencodedByte ==
    ASSUME NEW coder \in Coders, NEW frame, NEW other, NEW i \in 1..7,
           frame[2 * i - 1] = other[2 * i - 1], frame[2 * i] = other[2 * i]
    PROVE  Unencoded(coder, frame)[i] = Unencoded(coder, other)[i]
  BY Zenon DEF Unencoded

(* The checksum of bytes is a byte, and tells whether one of them changed. *)
LEMMA ChecksumTells ==
    ASSUME NEW coder \in Coders, NEW bytes, NEW other,
           \A i \in 1..7 : bytes[i] \in Byte /\ other[i] \in Byte,
           NEW k \in 1..7, \A i \in (1..7) \ {k} : bytes[i] = other[i],
           Checksum7(coder, bytes) = Checksum7(coder, other)
    PROVE  bytes[k] = other[k]
<1> DEFINE c1 == CrcStep(coder, 0, bytes[1])
           c2 == CrcStep(coder, c1, bytes[2])
           c3 == CrcStep(coder, c2, bytes[3])
           c4 == CrcStep(coder, c3, bytes[4])
           c5 == CrcStep(coder, c4, bytes[5])
           c6 == CrcStep(coder, c5, bytes[6])
           c7 == CrcStep(coder, c6, bytes[7])
           d1 == CrcStep(coder, 0, other[1])
           d2 == CrcStep(coder, d1, other[2])
           d3 == CrcStep(coder, d2, other[3])
           d4 == CrcStep(coder, d3, other[4])
           d5 == CrcStep(coder, d4, other[5])
           d6 == CrcStep(coder, d5, other[6])
           d7 == CrcStep(coder, d6, other[7])
<1>1. /\ bytes[1] \in Byte /\ bytes[2] \in Byte /\ bytes[3] \in Byte /\ bytes[4] \in Byte
      /\ bytes[5] \in Byte /\ bytes[6] \in Byte /\ bytes[7] \in Byte
      /\ other[1] \in Byte /\ other[2] \in Byte /\ other[3] \in Byte /\ other[4] \in Byte
      /\ other[5] \in Byte /\ other[6] \in Byte /\ other[7] \in Byte
  OBVIOUS
<1>2. c7 = d7
  BY DEF Checksum7, Checksum6
<1>3. 0 \in Byte
  BY DEF Byte
<1>4. /\ c1 = CrcStep(coder, 0, bytes[1]) /\ c2 = CrcStep(coder, c1, bytes[2])
      /\ c3 = CrcStep(coder, c2, bytes[3]) /\ c4 = CrcStep(coder, c3, bytes[4])
      /\ c5 = CrcStep(coder, c4, bytes[5]) /\ c6 = CrcStep(coder, c5, bytes[6])
      /\ c7 = CrcStep(coder, c6, bytes[7])
      /\ d1 = CrcStep(coder, 0, other[1]) /\ d2 = CrcStep(coder, d1, other[2])
      /\ d3 = CrcStep(coder, d2, other[3]) /\ d4 = CrcStep(coder, d3, other[4])
      /\ d5 = CrcStep(coder, d4, other[5]) /\ d6 = CrcStep(coder, d5, other[6])
      /\ d7 = CrcStep(coder, d6, other[7])
  OBVIOUS
<1> HIDE DEF c1, c2, c3, c4, c5, c6, c7, d1, d2, d3, d4, d5, d6, d7
<1>5. /\ c1 \in Byte /\ c2 \in Byte /\ c3 \in Byte /\ c4 \in Byte /\ c5 \in Byte /\ c6 \in Byte
      /\ d1 \in Byte /\ d2 \in Byte /\ d3 \in Byte /\ d4 \in Byte /\ d5 \in Byte /\ d6 \in Byte
  <2>1. c1 \in Byte /\ d1 \in Byte
    BY <1>1, <1>3, <1>4, StepType
  <2>2. c2 \in Byte /\ d2 \in Byte
    BY <1>1, <1>3, <1>4, StepType, <2>1
  <2>3. c3 \in Byte /\ d3 \in Byte
    BY <1>1, <1>3, <1>4, StepType, <2>2
  <2>4. c4 \in Byte /\ d4 \in Byte
    BY <1>1, <1>3, <1>4, StepType, <2>3
  <2>5. c5 \in Byte /\ d5 \in Byte
    BY <1>1, <1>3, <1>4, StepType, <2>4
  <2>6. c6 \in Byte /\ d6 \in Byte
    BY <1>1, <1>3, <1>4, StepType, <2>5
  <2> QED
    BY <2>1, <2>2, <2>3, <2>4, <2>5, <2>6
<1>6. /\ k > 1 => bytes[1] = other[1]
      /\ k # 2 => bytes[2] = other[2]
      /\ k # 3 => bytes[3] = other[3]
      /\ k # 4 => bytes[4] = other[4]
      /\ k # 5 => bytes[5] = other[5]
      /\ k # 6 => bytes[6] = other[6]
      /\ k # 7 => bytes[7] = other[7]
  OBVIOUS
(* Where the checksums are the same after a byte, they were the same before *)
(* it if the byte is the same; and conversely.                              *)
<1>7. /\ (c1 = d1) <=> bytes[1] = other[1]
      /\ c2 = d2 => ((c1 = d1) <=> bytes[2] = other[2])
      /\ c3 = d3 => ((c2 = d2) <=> bytes[3] = other[3])
      /\ c4 = d4 => ((c3 = d3) <=> bytes[4] = other[4])
      /\ c5 = d5 => ((c4 = d4) <=> bytes[5] = other[5])
      /\ c6 = d6 => ((c5 = d5) <=> bytes[6] = other[6])
      /\ c7 = d7 => ((c6 = d6) <=> bytes[7] = other[7])
  <2>1. (c1 = d1) <=> bytes[1] = other[1]
    <3>1. CrcStep(coder, 0, bytes[1]) = CrcStep(coder, 0, other[1]) => bytes[1] = other[1]
      BY <1>1, <1>3, StepTells
    <3> QED
      BY <1>4, <3>1
  <2>2. c2 = d2 => ((c1 = d1) <=> bytes[2] = other[2])
    <3>1. c1 \in Byte /\ d1 \in Byte /\ bytes[2] \in Byte /\ other[2] \in Byte
      BY <1>1, <1>5
    <3>2. CrcStep(coder, c1, bytes[2]) = CrcStep(coder, d1, other[2])
             => ((c1 = d1) <=> bytes[2] = other[2])
      BY <3>1, StepTells
    <3> QED
      BY <1>4, <3>2, Zenon
  <2>3. c3 = d3 => ((c2 = d2) <=> bytes[3] = other[3])
    <3>1. c2 \in Byte /\ d2 \in Byte /\ bytes[3] \in Byte /\ other[3] \in Byte
      BY <1>1, <1>5
    <3>2. CrcStep(coder, c2, bytes[3]) = CrcStep(coder, d2, other[3])
             => ((c2 = d2) <=> bytes[3] = other[3])
      BY <3>1, StepTells
    <3> QED
      BY <1>4, <3>2, Zenon
  <2>4. c4 = d4 => ((c3 = d3) <=> bytes[4] = other[4])
    <3>1. c3 \in Byte /\ d3 \in Byte /\ bytes[4] \in Byte /\ other[4] \in Byte
      BY <1>1, <1>5
    <3>2. CrcStep(coder, c3, bytes[4]) = CrcStep(coder, d3, other[4])
             => ((c3 = d3) <=> bytes[4] = other[4])
      BY <3>1, StepTells
    <3> QED
      BY <1>4, <3>2, Zenon
  <2>5. c5 = d5 => ((c4 = d4) <=> bytes[5] = other[5])
    <3>1. c4 \in Byte /\ d4 \in Byte /\ bytes[5] \in Byte /\ other[5] \in Byte
      BY <1>1, <1>5
    <3>2. CrcStep(coder, c4, bytes[5]) = CrcStep(coder, d4, other[5])
             => ((c4 = d4) <=> bytes[5] = other[5])
      BY <3>1, StepTells
    <3> QED
      BY <1>4, <3>2, Zenon
  <2>6. c6 = d6 => ((c5 = d5) <=> bytes[6] = other[6])
    <3>1. c5 \in Byte /\ d5 \in Byte /\ bytes[6] \in Byte /\ other[6] \in Byte
      BY <1>1, <1>5
    <3>2. CrcStep(coder, c5, bytes[6]) = CrcStep(coder, d5, other[6])
             => ((c5 = d5) <=> bytes[6] = other[6])
      BY <3>1, StepTells
    <3> QED
      BY <1>4, <3>2, Zenon
  <2>7. c7 = d7 => ((c6 = d6) <=> bytes[7] = other[7])
    <3>1. c6 \in Byte /\ d6 \in Byte /\ bytes[7] \in Byte /\ other[7] \in Byte
      BY <1>1, <1>5
    <3>2. CrcStep(coder, c6, bytes[7]) = CrcStep(coder, d6, other[7])
             => ((c6 = d6) <=> bytes[7] = other[7])
      BY <3>1, StepTells
    <3> QED
      BY <1>4, <3>2, Zenon
  <2> QED
    BY <2>1, <2>2, <2>3, <2>4, <2>5, <2>6, <2>7
<1>8. /\ c1 = d1 /\ bytes[2] = other[2] => c2 = d2
      /\ c2 = d2 /\ bytes[3] = other[3] => c3 = d3
      /\ c3 = d3 /\ bytes[4] = other[4] => c4 = d4
      /\ c4 = d4 /\ bytes[5] = other[5] => c5 = d5
      /\ c5 = d5 /\ bytes[6] = other[6] => c6 = d6
  BY <1>4, Zenon
<1> QED
  BY <1>2, <1>6, <1>7, <1>8

(* The checksum of a packet is a byte, and the same in both languages.      *)
LEMMA ChecksumsAgree ==
    ASSUME NEW info \in Packet
    PROVE  /\ Checksum6("C", Payload(info)) \in Byte
           /\ Checksum6("Python", Payload(info)) = Checksum6("C", Payload(info))
<1> DEFINE b == Payload(info)
<1>1. /\ 0 \in Byte
      /\ b[1] \in Byte /\ b[2] \in Byte /\ b[3] \in Byte
      /\ b[4] \in Byte /\ b[5] \in Byte /\ b[6] \in Byte
  BY PayloadType DEF Byte
<1>2. \A crc, byte \in Byte : /\ CrcStep("C", crc, byte) \in Byte
                              /\ CrcStep("Python", crc, byte) = CrcStep("C", crc, byte)
  BY StepType, StepsAgree DEF Coders
<1> HIDE DEF b
<1>3. Checksum6("C", b) \in Byte
  BY <1>1, <1>2 DEF Checksum6
<1>4. Checksum6("Python", b) = Checksum6("C", b)
  BY <1>1, <1>2 DEF Checksum6
<1> QED
  BY <1>3, <1>4 DEF b

(* Both encoders build the same frame of every packet. *)
LEMMA SameFrames ==
    ASSUME NEW info \in Packet, NEW coder \in Coders
    PROVE  Encode(coder, info) = SSCP_encodePacket(info)
  BY ChecksumsAgree, Zenon DEF Encode, Coders, SSCP_encodePacket, packet_encode

(* A frame as it was sent: its bytes are the packet's, with a checksum that *)
(* is right.                                                               *)
LEMMA EncodedBytes ==
    ASSUME NEW info \in Packet, NEW coder \in Coders
    PROVE  /\ Framed(SSCP_encodePacket(info))
           /\ SSCP_encodePacket(info) \in [0..15 -> Byte]
           /\ \A i \in 1..6 : Unencoded(coder, SSCP_encodePacket(info))[i] = Payload(info)[i]
           /\ Checksum7(coder, Unencoded(coder, SSCP_encodePacket(info))) = 0
<1> DEFINE crc   == Checksum6("C", Payload(info))
           bytes == Append(Payload(info), crc)
           frame == SSCP_encodePacket(info)
           got   == Unencoded(coder, frame)
<1>1. crc \in Byte /\ crc = Checksum6(coder, Payload(info))
  BY ChecksumsAgree DEF Coders
<1>2. /\ \A i \in 1..6 : bytes[i] = Payload(info)[i]
      /\ bytes[7] = crc
      /\ \A i \in 1..7 : bytes[i] \in Byte
  <2>1. \A i \in 1..6 : bytes[i] = Payload(info)[i]
    BY DEF Payload
  <2>2. bytes[7] = crc
    BY DEF Payload
  <2> HIDE DEF bytes, crc
  <2> QED
    BY <1>1, <2>1, <2>2, PayloadType
<1>3. frame = Hexadecimal(bytes)
  BY DEF SSCP_encodePacket
<1> HIDE DEF bytes, crc, frame
<1>4. Framed(frame) /\ \A i \in 1..7 : got[i] = bytes[i]
  BY <1>2, <1>3, HexadecimalRoundTrip DEF Unencoded
<1>5. frame \in [0..15 -> Byte]
  <2>1. \A nibble \in Nibble : NibbleToHexchar(nibble) \in Byte
    BY HexcharRoundTrip
  <2>2. \A i \in 1..7 : bytes[i] \div 16 \in Nibble /\ bytes[i] % 16 \in Nibble
    BY <1>2, ByteNibbles
  <2>3. StartByte \in Byte /\ EndByte \in Byte
    BY DEF StartByte, EndByte, Byte
  <2>4. ASSUME NEW i \in 0..15
        PROVE  (IF i = 0 THEN StartByte
                ELSE IF i = 15 THEN EndByte
                ELSE IF i % 2 = 1 THEN NibbleToHexchar(bytes[(i + 1) \div 2] \div 16)
                ELSE NibbleToHexchar(bytes[i \div 2] % 16)) \in Byte
    <3>1. CASE i = 0 \/ i = 15
      BY <2>3, <3>1
    <3>2. CASE i # 0 /\ i # 15 /\ i % 2 = 1
      <4>1. (i + 1) \div 2 \in 1..7
        BY <3>2
      <4> QED
        BY <2>1, <2>2, <3>2, <4>1
    <3>3. CASE i # 0 /\ i # 15 /\ i % 2 # 1
      <4>1. i \div 2 \in 1..7
        BY <3>3
      <4> QED
        BY <2>1, <2>2, <3>3, <4>1
    <3> QED
      BY <3>1, <3>2, <3>3
  <2> QED
    BY <1>3, <2>4 DEF Hexadecimal
<1> HIDE DEF got
<1>6. Checksum6(coder, got) = crc /\ got[7] = crc
  <2>1. \A i \in 1..6 : got[i] = Payload(info)[i]
    BY <1>2, <1>4
  <2>2. Checksum6(coder, got) = Checksum6(coder, Payload(info))
    BY <2>1 DEF Checksum6
  <2> QED
    BY <1>1, <1>2, <1>4, <2>2
<1>7. Checksum7(coder, got) = 0
  BY <1>1, <1>6, StepType DEF Checksum7
<1> QED
  BY <1>2, <1>4, <1>5, <1>7 DEF frame, got

(* A frame that is as it was sent except for the characters of one byte is *)
(* decoded to the packet or rejected, and to the packet if no character    *)
(* changed.  Byte 0 is the start byte, byte 8 the end byte.                *)
LEMMA DecodeTells ==
    ASSUME NEW info \in Packet, NEW coder \in Coders, NEW frame \in [0..15 -> Byte]
    PROVE  /\ frame = SSCP_encodePacket(info) => Decode(coder, frame) = info
           /\ \A k \in 0..8 :
                (\A i \in 0..15 : (i + 1) \div 2 # k => frame[i] = SSCP_encodePacket(info)[i])
                => Decode(coder, frame) \in {Rejected, info}
<1> DEFINE sound == SSCP_encodePacket(info)
           was   == Unencoded(coder, sound)
           got   == Unencoded(coder, frame)
<1>1. /\ Framed(sound) /\ sound \in [0..15 -> Byte]
      /\ \A i \in 1..6 : was[i] = Payload(info)[i]
      /\ Checksum7(coder, was) = 0
  BY EncodedBytes
<1>2. (\A i \in 1..6 : got[i] = Payload(info)[i]) => Fields(got) = info
  BY PayloadFields
<1>3. Decode(coder, frame) = IF Framed(frame) /\ Checksum7(coder, got) = 0
                             THEN Fields(got) ELSE Rejected
  BY DecodeIs
<1>4. got \in [1..7 -> Byte] /\ was \in [1..7 -> Byte]
  BY <1>1, UnencodedType
<1>5. \A i \in 1..7 : frame[2 * i - 1] = sound[2 * i - 1] /\ frame[2 * i] = sound[2 * i]
                      => got[i] = was[i]
  BY UnencodedByte
<1> HIDE DEF sound, was, got
<1>6. frame = sound => Decode(coder, frame) = info
  BY <1>1, <1>2, <1>3 DEF was, got
<1>7. ASSUME NEW k \in 0..8, \A i \in 0..15 : (i + 1) \div 2 # k => frame[i] = sound[i],
             Decode(coder, frame) # Rejected
      PROVE  Decode(coder, frame) = info
  <2>1. Checksum7(coder, got) = 0 /\ Decode(coder, frame) = Fields(got)
    BY <1>3, <1>7
  <2>2. \A i \in 1..7 : i # k => got[i] = was[i]
    <3> SUFFICES ASSUME NEW i \in 1..7, i # k PROVE got[i] = was[i]
      OBVIOUS
    <3>1. /\ 2 * i - 1 \in 0..15 /\ ((2 * i - 1) + 1) \div 2 = i
          /\ 2 * i \in 0..15 /\ (2 * i + 1) \div 2 = i
      OBVIOUS
    <3> QED
      BY <1>5, <1>7, <3>1
  <2>3. k \in 1..7 => got[k] = was[k]
    BY <1>1, <1>4, <2>1, <2>2, ChecksumTells
  <2>4. \A i \in 1..6 : got[i] = Payload(info)[i]
    BY <1>1, <2>2, <2>3
  <2> QED
    BY <1>2, <2>1, <2>4
<1> QED
  BY <1>6, <1>7 DEF sound

-----------------------------------------------------------------------------
(* Frames on their way.                                                    *)

(* What has not been hit is as it was sent; what was received is what a    *)
(* decoder made of such a frame.                                           *)
Travels(frame) ==
    /\ frame \in [0..15 -> Byte]
    /\ \A i \in (0..15) \ hits : frame[i] = SSCP_encodePacket(sent)[i]

CodecInv ==
    /\ sent \in Packet /\ hits \subseteq 0..15
    /\ line # Nothing => received = Nothing /\ Travels(line)
    /\ received # Nothing =>
          \E frame, coder : /\ Travels(frame) /\ coder \in Coders
                            /\ received = Decode(coder, frame)

LEMMA CodecInvariant == Spec => []CodecInv
<1>1. Init => CodecInv
  BY CodecAssumption DEF Init, CodecInv
<1>2. CodecInv /\ [Next]_vars => CodecInv'
  <2> SUFFICES ASSUME CodecInv, [Next]_vars PROVE CodecInv'
    OBVIOUS
  <2>1. CASE UNCHANGED vars
    BY <2>1 DEF vars, CodecInv, Travels
  <2>2. CASE Send
    <3>1. PICK coder \in Coders : line' = Encode(coder, sent)
      BY <2>2 DEF Send
    <3>2. line' = SSCP_encodePacket(sent) /\ line' \in [0..15 -> Byte]
      BY <3>1, SameFrames, EncodedBytes DEF CodecInv
    <3> QED
      BY <2>2, <3>2 DEF Send, CodecInv, Travels
  <2>3. CASE Disturb
    <3>1. PICK i \in (0..15) \ hits, char \in Noise :
            line' = [line EXCEPT ![i] = char] /\ hits' = hits \cup {i}
      BY <2>3 DEF Disturb
    <3>2. /\ Travels(line) /\ sent' = sent /\ char \in Byte
          /\ received = Nothing /\ received' = received
      BY <2>3, CodecAssumption DEF Disturb, CodecInv
    <3>3. Travels(line)'
      BY <3>1, <3>2 DEF Travels
    <3> QED
      BY <3>1, <3>2, <3>3 DEF CodecInv
  <2>4. CASE Receive
    BY <2>4 DEF Receive, CodecInv, Travels
  <2>5. CASE Repeat
    BY <2>5 DEF Repeat, CodecInv
  <2> QED
    BY <2>1, <2>2, <2>3, <2>4, <2>5 DEF Next
<1> QED
  BY <1>1, <1>2, PTL DEF Spec

(* The C encoder and the Python encoder (sscp.c:213-269, packet.py:32-116) *)
(* build the same frame of every packet.                                   *)
THEOREM SameFrame == Spec => []EncodersAgree
<1>1. CodecInv => EncodersAgree
  <2>1. Encode("Python", sent) = packet_encode(sent)
    BY DEF Encode
  <2>2. "Python" \in Coders
    BY DEF Coders
  <2> QED
    BY <2>1, <2>2, SameFrames, Zenon DEF CodecInv, EncodersAgree
<1> QED
  BY <1>1, CodecInvariant, PTL

(* A frame no character of which changed is decoded to the packet that was *)
(* encoded, by either decoder (sscp.c:279-355, packet.py:130-224).         *)
THEOREM RoundTripHolds == Spec => []RoundTrip
<1>1. CodecInv => RoundTrip
  <2> SUFFICES ASSUME CodecInv, received # Nothing, hits = {} PROVE received = sent
    BY DEF RoundTrip
  <2>1. PICK frame, coder : /\ Travels(frame) /\ coder \in Coders
                            /\ received = Decode(coder, frame)
    BY DEF CodecInv
  <2>2. sent \in Packet
    BY DEF CodecInv
  <2>3. frame = SSCP_encodePacket(sent)
    BY <2>1, <2>2, EncodedBytes DEF Travels
  <2>4. frame \in [0..15 -> Byte]
    BY <2>1 DEF Travels
  <2> QED
    BY <2>1, <2>2, <2>3, <2>4, DecodeTells
<1> QED
  BY <1>1, CodecInvariant, PTL

(* Whatever the characters of one byte of a frame turn into, the decoder   *)
(* rejects the frame or finds the packet that was encoded: one checksum    *)
(* step tells two bytes, and two checksums, apart.                         *)
THEOREM ByteErrorsAreDetected == Spec => []ByteErrorsDetected
<1>1. CodecInv => ByteErrorsDetected
  <2> DEFINE bytes == {(i + 1) \div 2 : i \in hits}
  <2> SUFFICES ASSUME CodecInv, Cardinality(bytes) <= 1, received # Nothing
               PROVE  received \in {Rejected, sent}
    BY DEF ByteErrorsDetected
  <2>1. PICK frame, coder : /\ Travels(frame) /\ coder \in Coders
                            /\ received = Decode(coder, frame)
    BY DEF CodecInv
  <2>2. sent \in Packet /\ hits \subseteq 0..15
    BY DEF CodecInv
  <2>3. \A i \in 0..15 : (i + 1) \div 2 \in 0..8
    OBVIOUS
  <2>4. bytes \subseteq 0..8
    BY <2>2, <2>3
  <2>5. IsFiniteSet(bytes)
    <3>1. IsFiniteSet(0..8)
      <4>1. 0 \in Int /\ 8 \in Int
        OBVIOUS
      <4> QED
        BY <4>1, FS_Interval, Zenon
    <3> QED
      BY <2>4, <3>1, FS_Subset
  <2>6. \E k \in 0..8 : bytes \subseteq {k}
    <3>1. Cardinality(bytes) \in {0, 1}
      <4>1. Cardinality(bytes) \in Nat
        BY <2>5, FS_CardinalityType, Zenon
      <4> HIDE DEF bytes
      <4> QED
        BY <4>1
    <3>2. CASE Cardinality(bytes) = 0
      <4>1. bytes = {}
        BY <2>5, <3>2, FS_EmptySet
      <4>2. bytes \subseteq {0} /\ 0 \in 0..8
        BY <4>1
      <4> QED
        BY <4>2
    <3>3. CASE Cardinality(bytes) = 1
      <4>1. PICK k : bytes = {k}
        BY <2>5, <3>3, FS_Singleton
      <4> HIDE DEF bytes
      <4> QED
        BY <2>4, <4>1
    <3> QED
      BY <3>1, <3>2, <3>3
  <2>7. PICK k \in 0..8 : bytes \subseteq {k}
    BY <2>6
  <2>8. \A i \in hits : (i + 1) \div 2 \in bytes
    OBVIOUS
  <2>9. \A i \in 0..15 : (i + 1) \div 2 # k => frame[i] = SSCP_encodePacket(sent)[i]
    <3> HIDE DEF bytes
    <3> QED
      BY <2>1, <2>7, <2>8 DEF Travels
  <2>10. frame \in [0..15 -> Byte]
    BY <2>1 DEF Travels
  <2>11. Decode(coder, frame) \in {Rejected, sent}
    BY <2>1, <2>2, <2>9, <2>10, DecodeTells
  <2> QED
    BY <2>1, <2>11
<1> QED
  BY <1>1, CodecInvariant, PTL

=============================================================================
