-------------------------- MODULE ParamMap_proofs --------------------------
(***************************************************************************)
(* What ParamMap promises, for every width of a register, every layout of  *)
(* fields and whatever users and the device do: values fit their fields,   *)
(* what is set is what is got, siblings are kept, parameters set one after *)
(* the other reach the device together, and within their limits.           *)
(***************************************************************************)
EXTENDS ParamMap, Recursion, TLAPS

-----------------------------------------------------------------------------
(* Powers of two and the bits of numbers.                                  *)

(* The recursive definition of the powers of two defines them. *)
LEMMA WeightDoubles ==
    /\ Weight[0] = 1
    /\ \A k \in 1..Width : Weight[k] = 2 * Weight[k-1]
<1> DEFINE step == [x \in Nat \X (1..Width) |-> 2 * x[1]]
<1>1. Width \in Nat
  BY LayoutAssumption
<1>2. PICK f \in [0..Width -> Nat] : Follows(f, Width, 1, step)
  <2>1. step \in [Nat \X (1..Width) -> Nat] /\ 1 \in Nat
    OBVIOUS
  <2> HIDE DEF step
  <2> QED
    BY <1>1, <2>1, RecursiveFunction
<1>3. f[0] = 1 /\ \A k \in 1..Width : f[k] = 2 * f[k-1]
  <2>1. \A k \in 1..Width : f[k-1] \in Nat /\ step[<<f[k-1], k>>] = 2 * f[k-1]
    BY <1>1
  <2> HIDE DEF step
  <2> QED
    BY <1>2, <2>1 DEF Follows
<1>4. f = [i \in 0..Width |-> IF i = 0 THEN 1 ELSE 2 * f[i-1]]
  BY <1>1, <1>2, <1>3
<1>5. Weight = [i \in 0..Width |-> IF i = 0 THEN 1 ELSE 2 * Weight[i-1]]
  BY <1>4 DEF Weight
<1>6. \A i \in 0..Width : Weight[i] = IF i = 0 THEN 1 ELSE 2 * Weight[i-1]
  BY <1>5, Zenon
<1> QED
  BY <1>1, <1>6

LEMMA WeightType ==
    \A k \in 0..Width : Weight[k] \in Nat \ {0} /\ \A j \in 0..k : Weight[j] <= Weight[k]
<1> DEFINE T == {k \in 0..Width : /\ Weight[k] \in Nat \ {0}
                                  /\ \A j \in 0..k : /\ Weight[j] \in Nat
                                                     /\ Weight[j] <= Weight[k]}
<1>1. Width \in Nat
  BY LayoutAssumption
<1>2. 0 \in T
  BY <1>1, WeightDoubles
<1>3. ASSUME NEW k \in 0..Width-1, k \in T PROVE k+1 \in T
  <2>1. k+1 \in 1..Width /\ (k+1)-1 = k
    BY <1>1
  <2>2. Weight[k+1] = 2 * Weight[k]
    BY <2>1, WeightDoubles
  <2>3. \A j \in 0..k+1 : j \in 0..k \/ j = k+1
    BY <1>1
  <2> QED
    BY <1>3, <2>1, <2>2, <2>3
<1> HIDE DEF T
<1>4. 0..Width \subseteq T
  BY <1>1, <1>2, <1>3, InductionUpTo
<1> QED
  BY <1>4 DEF T

(* A multiple of Q between -Q and Q is 0. *)
LEMMA SmallMultiple ==
    ASSUME NEW Q \in Nat \ {0}, NEW c \in Int, -Q < c * Q, c * Q < Q
    PROVE  c = 0
  OBVIOUS

LEMMA DivTwice ==
    ASSUME NEW P \in Nat \ {0}, NEW n \in Int
    PROVE  n \div (2 * P) = (n \div 2) \div P
  OBVIOUS

BitOf(n, i) == (n \div Weight[i]) % 2

(* The bits of a number are its parity and the bits of its half. *)
LEMMA BitsOfHalf ==
    ASSUME NEW n \in Int
    PROVE  /\ \A i \in 0..Width : BitOf(n, i) \in {0, 1}
           /\ BitOf(n, 0) = n % 2
           /\ \A i \in 1..Width : BitOf(n, i) = BitOf(n \div 2, i-1)
<1>1. Width \in Nat
  BY LayoutAssumption
<1>2. BitOf(n, 0) = n % 2
  <2>1. n \div 1 = n
    OBVIOUS
  <2> QED
    BY <2>1, WeightDoubles DEF BitOf
<1>3. ASSUME NEW i \in 0..Width PROVE BitOf(n, i) \in {0, 1}
  <2>1. Weight[i] \in Nat \ {0}
    BY WeightType
  <2>2. n \div Weight[i] \in Int
    BY <2>1
  <2> QED
    BY <2>2 DEF BitOf
<1>4. ASSUME NEW i \in 1..Width PROVE BitOf(n, i) = BitOf(n \div 2, i-1)
  <2>1. i-1 \in 0..Width /\ Weight[i] = 2 * Weight[i-1]
    BY <1>1, WeightDoubles
  <2>2. Weight[i-1] \in Nat \ {0}
    BY <2>1, WeightType
  <2>3. n \div (2 * Weight[i-1]) = (n \div 2) \div Weight[i-1]
    BY <2>2, DivTwice
  <2> QED
    BY <2>1, <2>3 DEF BitOf
<1> QED
  BY <1>2, <1>3, <1>4

(* Numbers with the same k lowest bits differ by a multiple of 2^k. *)
LEMMA SameBits ==
    ASSUME NEW k \in 0..Width, NEW m \in Int, NEW n \in Int,
           \A i \in 0..k-1 : BitOf(m, i) = BitOf(n, i)
    PROVE  \E c \in Int : m - n = c * Weight[k]
<1> DEFINE T == {j \in 0..Width : \A x, y \in Int :
                    (\A i \in 0..j-1 : BitOf(x, i) = BitOf(y, i))
                    => \E c \in Int : x - y = c * Weight[j]}
<1>1. Width \in Nat
  BY LayoutAssumption
<1>2. 0 \in T
  <2>1. \A x, y \in Int : x - y \in Int /\ x - y = (x - y) * Weight[0]
    BY WeightDoubles
  <2> QED
    BY <1>1, <2>1
<1>3. ASSUME NEW j \in 0..Width-1, j \in T PROVE j+1 \in T
  <2>1. j+1 \in 0..Width /\ (j+1)-1 = j /\ j+1 \in 1..Width
    BY <1>1
  <2> SUFFICES ASSUME NEW x \in Int, NEW y \in Int,
                      \A i \in 0..j : BitOf(x, i) = BitOf(y, i)
               PROVE  \E c \in Int : x - y = c * Weight[j+1]
    BY <2>1
  <2>2. x \div 2 \in Int /\ y \div 2 \in Int
    OBVIOUS
  <2>3. ASSUME NEW i \in 0..j-1 PROVE BitOf(x \div 2, i) = BitOf(y \div 2, i)
    <3>1. i+1 \in 0..j /\ i+1 \in 1..Width /\ (i+1)-1 = i
      BY <1>1
    <3>2. BitOf(x, i+1) = BitOf(x \div 2, i) /\ BitOf(y, i+1) = BitOf(y \div 2, i)
      BY <3>1, BitsOfHalf
    <3> QED
      BY <3>1, <3>2
  <2>4. PICK c \in Int : x \div 2 - y \div 2 = c * Weight[j]
    BY <1>3, <2>2, <2>3
  <2>5. x % 2 = y % 2
    <3>1. 0 \in 0..j
      OBVIOUS
    <3>2. BitOf(x, 0) = BitOf(y, 0)
      BY <3>1
    <3> QED
      BY <3>2, BitsOfHalf
  <2>6. x - y = 2 * (x \div 2 - y \div 2)
    BY <2>5
  <2>7. Weight[j+1] = 2 * Weight[j] /\ Weight[j] \in Nat
    <3>1. j \in 0..Width
      BY <1>1
    <3> QED
      BY <2>1, <3>1, WeightDoubles, WeightType
  <2>8. x - y = c * Weight[j+1]
    BY <2>4, <2>6, <2>7
  <2> QED
    BY <2>8
<1> HIDE DEF T
<1>4. 0..Width \subseteq T
  BY <1>1, <1>2, <1>3, InductionUpTo
<1> QED
  BY <1>4 DEF T

(* There is a number of any k bits. *)
LEMMA SomeNumber ==
    \A k \in 0..Width : \A B \in SUBSET (0..k-1) :
        \E n \in 0..Weight[k]-1 :
           \A i \in 0..Width-1 : BitOf(n, i) = IF i \in B THEN 1 ELSE 0
<1> DEFINE T == {j \in 0..Width : \A C \in SUBSET (0..j-1) :
                    \E n \in 0..Weight[j]-1 :
                       \A i \in 0..Width-1 : BitOf(n, i) = IF i \in C THEN 1 ELSE 0}
<1>1. Width \in Nat
  BY LayoutAssumption
<1>2. 0 \in T
  <2>1. ASSUME NEW i \in 0..Width-1 PROVE BitOf(0, i) = 0
    <3>1. Weight[i] \in Nat \ {0}
      BY <1>1, WeightType
    <3>2. 0 \div Weight[i] = 0
      BY <3>1
    <3> QED
      BY <3>2 DEF BitOf
  <2>2. 0 \in 0..Weight[0]-1
    BY WeightDoubles
  <2>3. \A C \in SUBSET (0..0-1) : C = {}
    OBVIOUS
  <2> QED
    BY <1>1, <2>1, <2>2, <2>3
<1>3. ASSUME NEW j \in 0..Width-1, j \in T PROVE j+1 \in T
  <2>1. j+1 \in 0..Width /\ (j+1)-1 = j /\ j+1 \in 1..Width /\ j \in 0..Width
    BY <1>1
  <2>2. Weight[j+1] = 2 * Weight[j] /\ Weight[j] \in Nat
    BY <2>1, WeightDoubles, WeightType
  <2> SUFFICES ASSUME NEW C \in SUBSET (0..j)
               PROVE  \E n \in 0..Weight[j+1]-1 :
                         \A i \in 0..Width-1 : BitOf(n, i) = IF i \in C THEN 1 ELSE 0
    BY <2>1
  <2> DEFINE D == {i \in 0..j-1 : i+1 \in C}
  <2>3. PICK h \in 0..Weight[j]-1 :
           \A i \in 0..Width-1 : BitOf(h, i) = IF i \in D THEN 1 ELSE 0
    <3>1. D \in SUBSET (0..j-1)
      OBVIOUS
    <3> HIDE DEF D
    <3> QED
      BY <1>3, <3>1
  <2> DEFINE n == 2 * h + (IF 0 \in C THEN 1 ELSE 0)
  <2>4. /\ n \in Int /\ n \in 0..Weight[j+1]-1 /\ n \div 2 = h
        /\ n % 2 = IF 0 \in C THEN 1 ELSE 0
    BY <2>2
  <2> HIDE DEF n
  <2>5. ASSUME NEW i \in 0..Width-1 PROVE BitOf(n, i) = IF i \in C THEN 1 ELSE 0
    <3>1. CASE i = 0
      BY <2>4, <3>1, BitsOfHalf
    <3>2. CASE i # 0
      <4>1. i \in 1..Width /\ i-1 \in 0..Width-1
        BY <1>1, <3>2
      <4>2. BitOf(n, i) = BitOf(h, i-1)
        BY <2>4, <4>1, BitsOfHalf
      <4>3. i-1 \in D <=> i \in C
        <5>1. (i-1)+1 = i
          BY <4>1
        <5>2. i \in C => i-1 \in 0..j-1
          BY <4>1
        <5> QED
          BY <5>1, <5>2
      <4> HIDE DEF D
      <4> QED
        BY <2>3, <4>1, <4>2, <4>3
    <3> QED
      BY <3>1, <3>2
  <2> QED
    BY <2>4, <2>5
<1> HIDE DEF T
<1>4. 0..Width \subseteq T
  BY <1>1, <1>2, <1>3, InductionUpTo
<1> QED
  BY <1>4 DEF T

(* Number finds it. *)
LEMMA NumberOfBits ==
    ASSUME NEW k \in 0..Width, NEW B, B \subseteq 0..k-1
    PROVE  /\ Number(B) \in 0..Weight[k]-1
           /\ \A i \in 0..Width-1 : BitOf(Number(B), i) = IF i \in B THEN 1 ELSE 0
<1>1. Width \in Nat /\ Width \in 0..Width
  BY LayoutAssumption
<1>2. PICK n \in 0..Weight[k]-1 :
         \A i \in 0..Width-1 : BitOf(n, i) = IF i \in B THEN 1 ELSE 0
  BY SomeNumber
<1>3. /\ Weight[k] \in Nat /\ Weight[Width] \in Nat \ {0}
      /\ Weight[k] <= Weight[Width]
  BY <1>1, WeightType
<1>4. B \subseteq 0..Width-1
  BY <1>1
<1>5. ASSUME NEW m PROVE Bits(m) = {i \in 0..Width-1 : BitOf(m, i) = 1}
  BY DEF Bits, BitOf
<1>6. Bits(n) = B
  <2>1. Bits(n) = {i \in 0..Width-1 : BitOf(n, i) = 1}
    BY <1>5
  <2>2. ASSUME NEW i \in 0..Width-1 PROVE BitOf(n, i) = 1 <=> i \in B
    BY <1>2
  <2> QED
    BY <1>4, <2>1, <2>2
<1>7. n \in 0..Weight[Width]-1
  BY <1>3
<1>8. Number(B) \in 0..Weight[Width]-1 /\ Bits(Number(B)) = B
  BY <1>6, <1>7 DEF Number
<1>9. PICK m \in 0..Weight[Width]-1 : m = Number(B)
  BY <1>8
<1>10. \A i \in 0..Width-1 : BitOf(m, i) = IF i \in B THEN 1 ELSE 0
  <2>1. \A i \in 0..Width : BitOf(m, i) \in {0, 1}
    BY <1>9, BitsOfHalf
  <2>2. B = {i \in 0..Width-1 : BitOf(m, i) = 1}
    BY <1>5, <1>8, <1>9
  <2> QED
    BY <1>1, <2>1, <2>2
<1>11. m \in Int /\ n \in Int /\ \A i \in 0..Width-1 : BitOf(m, i) = BitOf(n, i)
  BY <1>2, <1>3, <1>10
<1>12. PICK c \in Int : m - n = c * Weight[Width]
  BY <1>1, <1>11, SameBits, Zenon
<1>13. c = 0
  <2>1. -Weight[Width] < m - n /\ m - n < Weight[Width]
    BY <1>3, <1>7
  <2> QED
    BY <1>3, <1>12, <2>1, SmallMultiple
<1>14. m = n
  BY <1>3, <1>11, <1>12, <1>13
<1> QED
  BY <1>2, <1>9, <1>14

-----------------------------------------------------------------------------
(* Parameters and registers.                                               *)

(* A field lies within the register, and its parameter's limits in what    *)
(* it can hold.                                                            *)
LEMMA FieldFits ==
    ASSUME NEW p \in Parameter
    PROVE  /\ Layout[p].startbit \in Nat /\ Layout[p].bitlength \in 1..Width
           /\ Layout[p].startbit + Layout[p].bitlength <= Width
           /\ Weight[Layout[p].bitlength] = 2 * Weight[Layout[p].bitlength - 1]
           /\ Weight[Layout[p].bitlength - 1] \in Nat \ {0}
           /\ Lowest(p) = IF Layout[p].type = "INT"
                          THEN -Weight[Layout[p].bitlength - 1] ELSE 0
           /\ Highest(p) = Lowest(p) + 2 * Weight[Layout[p].bitlength - 1] - 1
           /\ Lowest(p) \in Int /\ Highest(p) \in Int
           /\ Layout[p].min \in Int /\ Layout[p].max \in Int
           /\ Lowest(p) <= Layout[p].min /\ Layout[p].min <= Layout[p].max
           /\ Layout[p].max <= Highest(p)
           /\ 0 \in Lowest(p)..Highest(p)
<1>1. /\ Width \in Nat
      /\ Layout[p].startbit \in Nat /\ Layout[p].bitlength \in Nat \ {0}
      /\ Field(p) \subseteq 0..Width-1
      /\ Layout[p].min \in Int /\ Layout[p].max \in Int
      /\ Lowest(p) <= Layout[p].min /\ Layout[p].min <= Layout[p].max
      /\ Layout[p].max <= Highest(p)
  BY LayoutAssumption
<1>2. Layout[p].startbit + Layout[p].bitlength - 1 \in 0..Width-1
  <2>1. Layout[p].startbit + Layout[p].bitlength - 1 \in Field(p)
    BY <1>1 DEF Field
  <2> QED
    BY <1>1, <2>1
<1>3. Layout[p].bitlength \in 1..Width /\ Layout[p].bitlength - 1 \in 0..Width
  BY <1>1, <1>2
<1>4. /\ Weight[Layout[p].bitlength] = 2 * Weight[Layout[p].bitlength - 1]
      /\ Weight[Layout[p].bitlength - 1] \in Nat \ {0}
  BY <1>3, WeightDoubles, WeightType
<1>5. /\ Lowest(p) = IF Layout[p].type = "INT"
                     THEN -Weight[Layout[p].bitlength - 1] ELSE 0
      /\ Highest(p) = Lowest(p) + 2 * Weight[Layout[p].bitlength - 1] - 1
  BY <1>4 DEF Lowest, Highest
<1>6. /\ Lowest(p) \in Int /\ Highest(p) \in Int /\ 0 \in Lowest(p)..Highest(p)
  BY <1>4, <1>5
<1> QED
  BY <1>1, <1>2, <1>3, <1>4, <1>5, <1>6

(* A value that is limited is within the limits, and stays what it is when *)
(* it was.                                                                 *)
LEMMA ClampLimits ==
    ASSUME NEW p \in Parameter, NEW number \in Int
    PROVE  /\ Clamp(p, number) \in Layout[p].min..Layout[p].max
           /\ number \in Layout[p].min..Layout[p].max => Clamp(p, number) = number
  BY FieldFits DEF Clamp

(* The bits of a word in the field of a parameter, counted from its start. *)
Extract(p, word) == {i - Layout[p].startbit : i \in Field(p) \cap word}

(* What decode makes of any word fits the field; of a word that has the    *)
(* bits of a value that fits, it makes that value.                         *)
LEMMA Decoding ==
    ASSUME NEW p \in Parameter, NEW word
    PROVE  /\ Decode(p, word) \in Lowest(p)..Highest(p)
           /\ \A v \in Lowest(p)..Highest(p) :
                 Extract(p, word) = Bits(v) \cap 0..Layout[p].bitlength-1
                 => Decode(p, word) = v
<1> DEFINE L == Layout[p].bitlength
           P == Weight[L-1]
           r == Number(Extract(p, word))
<1>1. /\ L \in 1..Width /\ Weight[L] = 2 * P /\ P \in Nat \ {0}
      /\ Lowest(p) = IF Layout[p].type = "INT" THEN -P ELSE 0
      /\ Highest(p) = Lowest(p) + 2 * P - 1
      /\ Lowest(p) \in Int /\ Highest(p) \in Int
      /\ Layout[p].startbit \in Nat /\ Width \in Nat
  BY FieldFits, LayoutAssumption
<1>2. Extract(p, word) \subseteq 0..L-1
  BY <1>1 DEF Extract, Field
<1>3. /\ r \in 0..Weight[L]-1
      /\ \A i \in 0..Width-1 : BitOf(r, i) = IF i \in Extract(p, word) THEN 1 ELSE 0
  <2>1. L \in 0..Width
    BY <1>1
  <2> HIDE DEF L
  <2> QED
    BY <1>2, <2>1, NumberOfBits
<1>4. Decode(p, word) = IF Layout[p].type = "INT" /\ r > (Weight[L] - 1) \div 2
                        THEN r - (Weight[L] - 1) - 1 ELSE r
  BY DEF Decode, Extract
<1> HIDE DEF P, r
<1>5. Decode(p, word) = IF Layout[p].type = "INT" /\ r >= P THEN r - 2 * P ELSE r
  <2>1. (2 * P - 1) \div 2 = P - 1
    BY <1>1
  <2> HIDE DEF L
  <2> QED
    BY <1>1, <1>3, <1>4, <2>1
<1>6. Decode(p, word) \in Lowest(p)..Highest(p)
  <2> HIDE DEF L
  <2> QED
    BY <1>1, <1>3, <1>5
<1>7. ASSUME NEW v \in Lowest(p)..Highest(p), Extract(p, word) = Bits(v) \cap 0..L-1
      PROVE  Decode(p, word) = v
  <2>1. v \in Int /\ r \in Int
    BY <1>1, <1>3
  <2>2. ASSUME NEW i \in 0..L-1 PROVE BitOf(v, i) = BitOf(r, i)
    <3>1. i \in 0..Width-1 /\ i \in 0..Width
      BY <1>1
    <3>2. i \in Bits(v) <=> BitOf(v, i) = 1
      BY <3>1 DEF Bits, BitOf
    <3>3. BitOf(v, i) \in {0, 1}
      BY <2>1, <3>1, BitsOfHalf
    <3> QED
      BY <1>3, <1>7, <3>1, <3>2, <3>3
  <2>3. PICK c \in Int : v - r = c * Weight[L]
    <3>1. L \in 0..Width
      BY <1>1
    <3> HIDE DEF L
    <3> QED
      BY <2>1, <2>2, <3>1, SameBits
  <2>4. v - r = c * (2 * P)
    BY <1>1, <2>3
  <2> HIDE DEF L
  <2>5. CASE Layout[p].type # "INT"
    <3>1. -(2 * P) < c * (2 * P) /\ c * (2 * P) < 2 * P
      BY <1>1, <1>3, <2>1, <2>4, <2>5
    <3>2. 2 * P \in Nat \ {0}
      BY <1>1
    <3>3. c = 0
      BY <3>1, <3>2, SmallMultiple
    <3>4. v = r
      BY <1>1, <2>1, <2>4, <3>3
    <3> QED
      BY <1>5, <2>5, <3>4
  <2>6. CASE Layout[p].type = "INT" /\ r < P
    <3>1. -(2 * P) < c * (2 * P) /\ c * (2 * P) < 2 * P
      BY <1>1, <1>3, <2>1, <2>4, <2>6
    <3>2. 2 * P \in Nat \ {0}
      BY <1>1
    <3>3. c = 0
      BY <3>1, <3>2, SmallMultiple
    <3>4. v = r
      BY <1>1, <2>1, <2>4, <3>3
    <3> QED
      BY <1>1, <1>5, <2>1, <2>6, <3>4
  <2>7. CASE Layout[p].type = "INT" /\ r >= P
    <3>1. (c + 1) * (2 * P) = c * (2 * P) + 2 * P
      BY <1>1
    <3>2. -(2 * P) < (c + 1) * (2 * P) /\ (c + 1) * (2 * P) < 2 * P
      BY <1>1, <1>3, <2>1, <2>4, <2>7, <3>1
    <3>3. 2 * P \in Nat \ {0} /\ c + 1 \in Int
      BY <1>1
    <3>4. c + 1 = 0
      BY <3>2, <3>3, SmallMultiple
    <3>5. v = r - 2 * P
      BY <1>1, <2>1, <2>4, <3>4
    <3> QED
      BY <1>5, <2>7, <3>5
  <2> QED
    BY <1>1, <2>1, <2>5, <2>6, <2>7
<1> QED
  BY <1>6, <1>7

(* The register that is made of its parameters: each is decoded from it,   *)
(* within its limits, whatever the others are.                             *)
LEMMA Encoding ==
    ASSUME NEW reg \in Register, NEW set \in [Parameter -> Int],
           NEW word, word = UNION {Encode(q, set[q]) : q \in ParametersOf(reg)}
    PROVE  /\ word \in Word
           /\ \A p \in ParametersOf(reg) : Decode(p, word) = Clamp(p, set[p])
<1>1. \A q \in ParametersOf(reg) : q \in Parameter /\ Layout[q].reg = reg
  BY DEF ParametersOf
<1>2. \A q \in Parameter : Encode(q, set[q]) =
         {Layout[q].startbit + i :
             i \in Bits(Clamp(q, set[q])) \cap 0..Layout[q].bitlength-1} \cap 0..Width-1
  BY DEF Encode
<1>3. word \in Word
  <2>1. \A q \in ParametersOf(reg) : Encode(q, set[q]) \subseteq 0..Width-1
    BY <1>1, <1>2
  <2> QED
    BY <2>1 DEF Word
<1>4. ASSUME NEW p \in ParametersOf(reg) PROVE Decode(p, word) = Clamp(p, set[p])
  <2> DEFINE b == Bits(Clamp(p, set[p])) \cap 0..Layout[p].bitlength-1
  <2>1. /\ p \in Parameter /\ Layout[p].reg = reg /\ set[p] \in Int
        /\ Layout[p].startbit \in Nat /\ Layout[p].bitlength \in Nat
        /\ Layout[p].startbit + Layout[p].bitlength <= Width /\ Width \in Nat
    BY <1>1, FieldFits, LayoutAssumption
  <2>2. \A q \in ParametersOf(reg) : Encode(q, set[q]) \subseteq Field(q)
    <3> SUFFICES ASSUME NEW q \in ParametersOf(reg), NEW j \in Encode(q, set[q])
                 PROVE  j \in Field(q)
      OBVIOUS
    <3>1. PICK i \in 0..Layout[q].bitlength-1 : j = Layout[q].startbit + i
      BY <1>1, <1>2
    <3>2. Layout[q].startbit \in Nat /\ Layout[q].bitlength \in Nat
      BY <1>1, FieldFits
    <3> QED
      BY <3>1, <3>2 DEF Field
  <2>3. \A q \in ParametersOf(reg) : q # p => Encode(q, set[q]) \cap Field(p) = {}
    <3>1. \A q \in ParametersOf(reg) : q # p => Field(q) \cap Field(p) = {}
      BY <1>1, <2>1, LayoutAssumption
    <3> QED
      BY <2>2, <3>1
  <2>4. Field(p) \cap word = Encode(p, set[p])
    BY <2>2, <2>3
  <2>5. Encode(p, set[p]) = {Layout[p].startbit + i : i \in b}
    <3>1. \A i \in b : Layout[p].startbit + i \in 0..Width-1
      BY <2>1
    <3> QED
      BY <1>2, <2>1, <3>1
  <2>6. Extract(p, word) = b
    <3>1. \A i : i \in Extract(p, word) <=>
                    \E j \in b : i = (Layout[p].startbit + j) - Layout[p].startbit
      BY <2>4, <2>5 DEF Extract
    <3>2. \A j \in b : (Layout[p].startbit + j) - Layout[p].startbit = j
      BY <2>1
    <3> HIDE DEF b
    <3>3. \A i : i \in Extract(p, word) <=> i \in b
      BY <3>1, <3>2
    <3> QED
      BY <3>3
  <2>7. Clamp(p, set[p]) \in Lowest(p)..Highest(p)
    <3>1. Clamp(p, set[p]) \in Layout[p].min..Layout[p].max
      BY <2>1, ClampLimits
    <3> QED
      BY <2>1, <3>1, FieldFits
  <2> QED
    BY <2>1, <2>6, <2>7, Decoding
<1> QED
  BY <1>3, <1>4

-----------------------------------------------------------------------------
(* Every reachable state.                                                  *)

Types ==
    /\ value \in [Parameter -> Int]
    /\ \A p \in Parameter : value[p] \in Lowest(p)..Highest(p)
    /\ regval \in [Register -> Word] /\ device \in [Register -> Word]
    /\ done \in BOOLEAN
    /\ got = None \/ got \in Int
    /\ fresh \in [Register -> BOOLEAN] /\ undecoded \subseteq Register
    /\ wrote \in [Parameter -> Int \cup {None}]
    /\ asked \in [Parameter -> Int \cup {None}]
    /\ \A p \in Parameter :
          {wrote[p], asked[p]} \subseteq {None} \cup Layout[p].min..Layout[p].max

(* A fresh register is the device's, and unless it was read and not        *)
(* decoded its parameters are what it says.                                *)
FreshIsTrue ==
    \A reg \in Register : fresh[reg] =>
        /\ regval[reg] = device[reg]
        /\ reg \notin undecoded =>
              \A p \in ParametersOf(reg) : value[p] = Decode(p, regval[reg])

(* A parameter has the value the user set it to, and so has its field,     *)
(* unless the register was read and not decoded.                           *)
AskedIsKept ==
    \A p \in Parameter : asked[p] # None =>
        /\ value[p] = asked[p]
        /\ Layout[p].reg \notin undecoded => Decode(p, regval[Layout[p].reg]) = asked[p]

(* What is known to have been written is in the device. *)
WroteIsThere ==
    \A p \in Parameter :
        wrote[p] # None => Decode(p, device[Layout[p].reg]) = wrote[p]

MapInv == Types /\ FreshIsTrue /\ AskedIsKept /\ WroteIsThere

LEMMA InitMap == Init => MapInv
<1> SUFFICES ASSUME Init PROVE MapInv
  OBVIOUS
<1>1. \A p \in Parameter : 0 \in Lowest(p)..Highest(p)
  BY FieldFits
<1>2. \A word \in Raw : word \in Word
  BY UserAssumption DEF Word
<1>3. Types
  <2>1. value \in [Parameter -> Int] /\ \A p \in Parameter : value[p] \in Lowest(p)..Highest(p)
    BY <1>1 DEF Init
  <2>2. regval \in [Register -> Word] /\ device \in [Register -> Word]
    BY <1>2 DEF Init, Word
  <2>3. /\ wrote \in [Parameter -> Int \cup {None}]
        /\ asked \in [Parameter -> Int \cup {None}]
        /\ \A p \in Parameter : wrote[p] = None /\ asked[p] = None
    BY DEF Init
  <2> QED
    BY <2>1, <2>2, <2>3 DEF Init, Types
<1>4. FreshIsTrue /\ AskedIsKept /\ WroteIsThere
  BY LayoutAssumption DEF Init, FreshIsTrue, AskedIsKept, WroteIsThere
<1> QED
  BY <1>3, <1>4 DEF MapInv

(* Setting a parameter in the map: the register's parameters are limited   *)
(* and the register is made of them.                                       *)
LEMMA SettingInMap ==
    ASSUME Types, NEW p \in Parameter, NEW number \in Int, SetInMap(p, number)
    PROVE  LET reg == Layout[p].reg IN
           /\ value' \in [Parameter -> Int]
           /\ \A q \in Parameter : value'[q] \in Lowest(q)..Highest(q)
           /\ regval' \in [Register -> Word]
           /\ \A other \in Register \ {reg} : regval'[other] = regval[other]
           /\ \A q \in ParametersOf(reg) :
                 /\ value'[q] \in Layout[q].min..Layout[q].max
                 /\ Decode(q, regval'[reg]) = value'[q]
           /\ \A q \in Parameter \ {p} :
                 value'[q] = IF q \in ParametersOf(reg) THEN Clamp(q, value[q]) ELSE value[q]
           /\ undecoded' = undecoded \ {reg}
           /\ asked' = [asked EXCEPT ![p] = value'[p]]
<1> DEFINE reg == Layout[p].reg
           set == [value EXCEPT ![p] = Clamp(p, number)]
           word == UNION {Encode(q, set[q]) : q \in ParametersOf(reg)}
<1>1. /\ value' = [q \in Parameter |->
                      IF q \in ParametersOf(reg) THEN Clamp(q, set[q]) ELSE set[q]]
      /\ regval' = [regval EXCEPT ![reg] = word]
      /\ undecoded' = undecoded \ {reg}
      /\ asked' = [asked EXCEPT ![p] = set[p]]
  BY DEF SetInMap
<1>2. reg \in Register /\ p \in ParametersOf(reg)
  BY LayoutAssumption DEF ParametersOf
<1>3. Clamp(p, number) \in Layout[p].min..Layout[p].max
  BY ClampLimits
<1>4. /\ set \in [Parameter -> Int] /\ set[p] = Clamp(p, number)
      /\ \A q \in Parameter \ {p} : set[q] = value[q]
  <2>1. Clamp(p, number) \in Int
    BY <1>3, FieldFits
  <2> QED
    BY <2>1 DEF Types
<1> HIDE DEF set
<1>5. word \in Word /\ \A q \in ParametersOf(reg) : Decode(q, word) = Clamp(q, set[q])
  BY <1>2, <1>4, Encoding
<1> HIDE DEF word
<1>6. ASSUME NEW q \in ParametersOf(reg)
      PROVE  /\ q \in Parameter /\ value'[q] = Clamp(q, set[q])
             /\ value'[q] \in Layout[q].min..Layout[q].max
  <2>1. q \in Parameter /\ value'[q] = Clamp(q, set[q])
    BY <1>1 DEF ParametersOf
  <2> QED
    BY <1>4, <2>1, ClampLimits
<1>7. ASSUME NEW q \in Parameter PROVE value'[q] \in Lowest(q)..Highest(q)
  <2>1. CASE q \in ParametersOf(reg)
    BY <1>6, <2>1, FieldFits
  <2>2. CASE q \notin ParametersOf(reg)
    BY <1>1, <1>2, <1>4, <2>2 DEF Types
  <2> QED
    BY <2>1, <2>2
<1>8. value' \in [Parameter -> Int]
  <2>1. \A q \in Parameter : value'[q] \in Int
    BY <1>7, FieldFits
  <2> QED
    BY <1>1, <2>1
<1>9. /\ regval' \in [Register -> Word] /\ regval'[reg] = word
      /\ \A other \in Register \ {reg} : regval'[other] = regval[other]
  BY <1>1, <1>2, <1>5 DEF Types
<1>10. set[p] = value'[p]
  <2>1. value'[p] = Clamp(p, set[p])
    BY <1>2, <1>6
  <2> QED
    BY <1>3, <1>4, <2>1, ClampLimits
<1>11. \A q \in Parameter \ {p} :
          value'[q] = IF q \in ParametersOf(reg) THEN Clamp(q, value[q]) ELSE value[q]
  BY <1>1, <1>4
<1> QED
  BY <1>1, <1>5, <1>6, <1>7, <1>8, <1>9, <1>10, <1>11

(* Getting a parameter from the map: those of its register are decoded. *)
LEMMA GettingFromMap ==
    ASSUME Types, NEW p \in Parameter, GetFromMap(p)
    PROVE  LET reg == Layout[p].reg IN
           /\ value' \in [Parameter -> Int]
           /\ \A q \in Parameter : value'[q] \in Lowest(q)..Highest(q)
           /\ \A q \in ParametersOf(reg) : value'[q] = Decode(q, regval'[reg])
           /\ \A q \in Parameter \ ParametersOf(reg) : value'[q] = value[q]
           /\ got' = Decode(p, regval'[reg]) /\ got' \in Int
<1> DEFINE reg == Layout[p].reg
<1>1. /\ value' = [q \in Parameter |-> IF q \in ParametersOf(reg)
                                       THEN Decode(q, regval'[reg]) ELSE value[q]]
      /\ got' = value'[p]
  BY DEF GetFromMap
<1>2. p \in ParametersOf(reg)
  BY DEF ParametersOf
<1>3. ASSUME NEW q \in Parameter PROVE value'[q] \in Lowest(q)..Highest(q)
  <2>1. Decode(q, regval'[reg]) \in Lowest(q)..Highest(q)
    BY Decoding
  <2> QED
    BY <1>1, <2>1 DEF Types
<1>4. \A q \in Parameter : value'[q] \in Int
  BY <1>3, FieldFits
<1>5. \A q \in ParametersOf(reg) : q \in Parameter
  BY DEF ParametersOf
<1> HIDE DEF reg
<1>6. \A q \in ParametersOf(reg) : value'[q] = Decode(q, regval'[reg])
  BY <1>1, <1>5
<1> QED
  BY <1>1, <1>2, <1>3, <1>4, <1>6 DEF reg

(* Which parameters a register has. *)
LEMMA Fields ==
    /\ \A p \in Parameter : Layout[p].reg \in Register
    /\ \A reg : \A p \in Parameter : p \in ParametersOf(reg) <=> Layout[p].reg = reg
    /\ \A reg : \A p \in ParametersOf(reg) : p \in Parameter /\ Layout[p].reg = reg
  BY LayoutAssumption DEF ParametersOf

(* Setting a parameter in the map keeps what others were set to. *)
LEMMA SettingKeepsAsked ==
    ASSUME Types, AskedIsKept, NEW p \in Parameter, NEW number \in Int,
           SetInMap(p, number)
    PROVE  /\ AskedIsKept'
           /\ asked' \in [Parameter -> Int \cup {None}]
           /\ \A q \in Parameter : asked'[q] \in {None} \cup Layout[q].min..Layout[q].max
<1> DEFINE reg == Layout[p].reg
<1>1. /\ value' \in [Parameter -> Int]
      /\ \A other \in Register \ {reg} : regval'[other] = regval[other]
      /\ \A q \in ParametersOf(reg) :
            /\ value'[q] \in Layout[q].min..Layout[q].max
            /\ Decode(q, regval'[reg]) = value'[q]
      /\ \A q \in Parameter \ {p} :
            value'[q] = IF q \in ParametersOf(reg) THEN Clamp(q, value[q]) ELSE value[q]
      /\ undecoded' = undecoded \ {reg}
      /\ asked' = [asked EXCEPT ![p] = value'[p]]
  BY SettingInMap
<1>2. \A q \in Parameter : q \in ParametersOf(reg) <=> Layout[q].reg = reg
  BY Fields
<1>3. \A q \in Parameter : asked'[q] = IF q = p THEN value'[p] ELSE asked[q]
  BY <1>1 DEF Types
<1> HIDE DEF reg
<1>4. AskedIsKept'
  <2> SUFFICES ASSUME NEW q \in Parameter, asked'[q] # None
               PROVE  /\ value'[q] = asked'[q]
                      /\ Layout[q].reg \notin undecoded' =>
                            Decode(q, regval'[Layout[q].reg]) = asked'[q]
    BY DEF AskedIsKept
  <2>1. CASE q = p
    BY <1>1, <1>2, <1>3, <2>1 DEF reg
  <2>2. CASE q # p /\ q \in ParametersOf(reg)
    <3>1. value[q] = asked[q] /\ asked[q] \in Layout[q].min..Layout[q].max
      BY <1>3, <2>2 DEF AskedIsKept, Types
    <3>2. Clamp(q, value[q]) = value[q]
      BY <3>1, ClampLimits DEF Types
    <3> QED
      BY <1>1, <1>2, <1>3, <2>2, <3>1, <3>2
  <2>3. CASE q \notin ParametersOf(reg)
    <3>1. q # p /\ Layout[q].reg \in Register \ {reg}
      BY <1>2, <2>3, Fields DEF reg
    <3> QED
      BY <1>1, <1>3, <2>3, <3>1 DEF AskedIsKept
  <2> QED
    BY <2>1, <2>2, <2>3
<1>5. asked' \in [Parameter -> Int \cup {None}]
  BY <1>1 DEF Types
<1>6. value'[p] \in Layout[p].min..Layout[p].max
  BY <1>1, <1>2 DEF reg
<1> QED
  BY <1>3, <1>4, <1>5, <1>6 DEF Types

(* In steps that end here, what the history variables say of a register is *)
(* either kept or forgotten.                                               *)
LEMMA Forgetting ==
    ASSUME Types, NEW reg \in Register, Forget(reg)
    PROVE  /\ fresh' \in [Register -> BOOLEAN]
           /\ \A other \in Register : fresh'[other] = (other # reg /\ fresh[other])
           /\ wrote' \in [Parameter -> Int \cup {None}]
           /\ \A p \in Parameter :
                 wrote'[p] = IF Layout[p].reg = reg THEN None ELSE wrote[p]
<1>1. /\ fresh' = [fresh EXCEPT ![reg] = FALSE]
      /\ wrote' = [p \in Parameter |-> IF p \in ParametersOf(reg) THEN None ELSE wrote[p]]
  BY DEF Forget
<1>2. /\ fresh' \in [Register -> BOOLEAN]
      /\ \A other \in Register : fresh'[other] = (other # reg /\ fresh[other])
  BY <1>1 DEF Types
<1>3. \A p \in Parameter : wrote'[p] = IF Layout[p].reg = reg THEN None ELSE wrote[p]
  BY <1>1, Fields
<1>4. wrote' \in [Parameter -> Int \cup {None}]
  BY <1>1 DEF Types
<1> QED
  BY <1>2, <1>3, <1>4

(* set_parameter_value. *)
LEMMA SettingKeeps ==
    ASSUME MapInv, NEW p \in Parameter, NEW number \in Int, set_parameter_value(p, number)
    PROVE  MapInv'
<1>1. /\ SetInMap(p, number)
      /\ fresh' = [fresh EXCEPT ![Layout[p].reg] = FALSE]
      /\ UNCHANGED <<device, done, got, wrote>>
  BY DEF set_parameter_value
<1>2. Types /\ FreshIsTrue /\ AskedIsKept /\ WroteIsThere
  BY DEF MapInv
<1>3. /\ value' \in [Parameter -> Int]
      /\ \A q \in Parameter : value'[q] \in Lowest(q)..Highest(q)
      /\ regval' \in [Register -> Word]
      /\ \A other \in Register \ {Layout[p].reg} : regval'[other] = regval[other]
      /\ \A q \in Parameter \ {p} :
            value'[q] = IF q \in ParametersOf(Layout[p].reg)
                        THEN Clamp(q, value[q]) ELSE value[q]
      /\ undecoded' = undecoded \ {Layout[p].reg}
  BY <1>1, <1>2, SettingInMap
<1>4. /\ AskedIsKept'
      /\ asked' \in [Parameter -> Int \cup {None}]
      /\ \A q \in Parameter : asked'[q] \in {None} \cup Layout[q].min..Layout[q].max
  BY <1>1, <1>2, SettingKeepsAsked
<1>5. /\ fresh' \in [Register -> BOOLEAN]
      /\ \A reg \in Register : fresh'[reg] = (reg # Layout[p].reg /\ fresh[reg])
  BY <1>1, <1>2, Fields DEF Types
<1>6. Types'
  BY <1>1, <1>2, <1>3, <1>4, <1>5 DEF Types
<1>7. FreshIsTrue'
  <2> SUFFICES ASSUME NEW reg \in Register, fresh'[reg]
               PROVE  /\ regval'[reg] = device'[reg]
                      /\ reg \notin undecoded' =>
                           \A q \in ParametersOf(reg) : value'[q] = Decode(q, regval'[reg])
    BY DEF FreshIsTrue
  <2>1. reg # Layout[p].reg /\ fresh[reg]
    BY <1>5
  <2>2. \A q \in ParametersOf(reg) : value'[q] = value[q]
    BY <1>3, <2>1, Fields
  <2> QED
    BY <1>1, <1>2, <1>3, <2>1, <2>2 DEF FreshIsTrue
<1>8. WroteIsThere'
  BY <1>1, <1>2 DEF WroteIsThere
<1> QED
  BY <1>4, <1>6, <1>7, <1>8 DEF MapInv

(* get_parameter_value. *)
LEMMA GettingKeeps ==
    ASSUME MapInv, NEW p \in Parameter, get_parameter_value(p)
    PROVE  MapInv'
<1> DEFINE reg == Layout[p].reg
<1>1. /\ regval' = regval /\ GetFromMap(p)
      /\ undecoded' = undecoded \ {reg}
      /\ asked' = [q \in Parameter |->
                      IF q \in ParametersOf(reg) /\ reg \in undecoded THEN None ELSE asked[q]]
      /\ UNCHANGED <<device, done, fresh, wrote>>
  BY DEF get_parameter_value, Decoded
<1>2. Types /\ FreshIsTrue /\ AskedIsKept /\ WroteIsThere
  BY DEF MapInv
<1>3. /\ value' \in [Parameter -> Int]
      /\ \A q \in Parameter : value'[q] \in Lowest(q)..Highest(q)
      /\ \A q \in ParametersOf(reg) : value'[q] = Decode(q, regval[reg])
      /\ \A q \in Parameter \ ParametersOf(reg) : value'[q] = value[q]
      /\ got' \in Int
  BY <1>1, <1>2, GettingFromMap
<1> HIDE DEF reg
<1>4. \A q \in Parameter :
         asked'[q] = IF q \in ParametersOf(reg) /\ reg \in undecoded THEN None ELSE asked[q]
  BY <1>1
<1>5. asked' \in [Parameter -> Int \cup {None}]
  BY <1>1, <1>2 DEF Types
<1>6. Types'
  BY <1>1, <1>2, <1>3, <1>4, <1>5 DEF Types
<1>7. FreshIsTrue'
  <2> SUFFICES ASSUME NEW other \in Register, fresh'[other]
               PROVE  /\ regval'[other] = device'[other]
                      /\ other \notin undecoded' =>
                           \A q \in ParametersOf(other) : value'[q] = Decode(q, regval'[other])
    BY DEF FreshIsTrue
  <2>1. CASE other = reg
    BY <1>1, <1>2, <1>3, <2>1 DEF FreshIsTrue
  <2>2. CASE other # reg
    <3>1. \A q \in ParametersOf(other) : value'[q] = value[q]
      BY <1>3, <2>2, Fields
    <3> QED
      BY <1>1, <1>2, <2>2, <3>1 DEF FreshIsTrue
  <2> QED
    BY <2>1, <2>2
<1>8. AskedIsKept'
  <2> SUFFICES ASSUME NEW q \in Parameter, asked'[q] # None
               PROVE  /\ value'[q] = asked'[q]
                      /\ Layout[q].reg \notin undecoded' =>
                            Decode(q, regval'[Layout[q].reg]) = asked'[q]
    BY DEF AskedIsKept
  <2>1. asked'[q] = asked[q] /\ ~(q \in ParametersOf(reg) /\ reg \in undecoded)
    BY <1>4
  <2>2. CASE q \in ParametersOf(reg)
    BY <1>1, <1>2, <1>3, <2>1, <2>2, Fields DEF AskedIsKept
  <2>3. CASE q \notin ParametersOf(reg)
    <3>1. Layout[q].reg # reg
      BY <2>3, Fields
    <3> QED
      BY <1>1, <1>2, <1>3, <2>1, <2>3, <3>1 DEF AskedIsKept
  <2> QED
    BY <2>2, <2>3
<1>9. WroteIsThere'
  BY <1>1, <1>2 DEF WroteIsThere
<1> QED
  BY <1>6, <1>7, <1>8, <1>9 DEF MapInv

(* What the device has of a register may be any word when the rest of the  *)
(* map stays and what was known of that register is forgotten.             *)
LEMMA DeviceMayChange ==
    ASSUME MapInv, NEW reg \in Register, Forget(reg),
           device' \in [Register -> Word],
           \A other \in Register \ {reg} : device'[other] = device[other],
           done' \in BOOLEAN,
           UNCHANGED <<value, regval, got, undecoded, asked>>
    PROVE  MapInv'
<1>1. Types /\ FreshIsTrue /\ AskedIsKept /\ WroteIsThere
  BY DEF MapInv
<1>2. /\ fresh' \in [Register -> BOOLEAN]
      /\ \A other \in Register : fresh'[other] = (other # reg /\ fresh[other])
      /\ wrote' \in [Parameter -> Int \cup {None}]
      /\ \A p \in Parameter :
            wrote'[p] = IF Layout[p].reg = reg THEN None ELSE wrote[p]
  BY <1>1, Forgetting
<1>3. Types'
  BY <1>1, <1>2 DEF Types
<1>4. FreshIsTrue'
  BY <1>1, <1>2 DEF FreshIsTrue
<1>5. AskedIsKept'
  BY <1>1 DEF AskedIsKept
<1>6. WroteIsThere'
  BY <1>1, <1>2, Fields DEF WroteIsThere
<1> QED
  BY <1>3, <1>4, <1>5, <1>6 DEF MapInv

(* A transfer leaves other registers of the device alone. *)
LEMMA Transferring ==
    ASSUME Types, NEW reg \in Register, NEW word \in Word, Transfer(reg, word)
    PROVE  /\ done' \in BOOLEAN /\ device' \in [Register -> Word]
           /\ \A other \in Register \ {reg} : device'[other] = device[other]
           /\ done' => device'[reg] = word
  BY DEF Types, Transfer

(* set_parameter_value_in_device. *)
LEMMA SettingInDeviceKeeps ==
    ASSUME MapInv, NEW p \in Parameter, NEW number \in Int,
           set_parameter_value_in_device(p, number)
    PROVE  MapInv'
<1> DEFINE reg == Layout[p].reg
<1>1. /\ SetInMap(p, number)
      /\ Transfer(reg, regval'[reg])
      /\ IF done'
         THEN /\ fresh' = [fresh EXCEPT ![reg] = TRUE]
              /\ wrote' = [q \in Parameter |->
                              IF q \in ParametersOf(reg) THEN value'[q] ELSE wrote[q]]
         ELSE Forget(reg)
      /\ got' = got
  BY DEF set_parameter_value_in_device
<1>2. Types /\ FreshIsTrue /\ AskedIsKept /\ WroteIsThere
  BY DEF MapInv
<1>3. /\ value' \in [Parameter -> Int]
      /\ \A q \in Parameter : value'[q] \in Lowest(q)..Highest(q)
      /\ regval' \in [Register -> Word]
      /\ \A other \in Register \ {reg} : regval'[other] = regval[other]
      /\ \A q \in ParametersOf(reg) :
            /\ value'[q] \in Layout[q].min..Layout[q].max
            /\ Decode(q, regval'[reg]) = value'[q]
      /\ \A q \in Parameter \ {p} :
            value'[q] = IF q \in ParametersOf(reg) THEN Clamp(q, value[q]) ELSE value[q]
      /\ undecoded' = undecoded \ {reg}
  BY <1>1, <1>2, SettingInMap
<1>4. /\ AskedIsKept'
      /\ asked' \in [Parameter -> Int \cup {None}]
      /\ \A q \in Parameter : asked'[q] \in {None} \cup Layout[q].min..Layout[q].max
  BY <1>1, <1>2, SettingKeepsAsked
<1>5. reg \in Register /\ p \in ParametersOf(reg)
  BY Fields
<1>6. /\ done' \in BOOLEAN /\ device' \in [Register -> Word]
      /\ \A other \in Register \ {reg} : device'[other] = device[other]
      /\ done' => device'[reg] = regval'[reg]
  <2>1. regval'[reg] \in Word
    BY <1>3, <1>5
  <2> HIDE DEF reg
  <2> QED
    BY <1>1, <1>2, <1>5, <2>1, Transferring
<1>7. /\ fresh' \in [Register -> BOOLEAN]
      /\ \A other \in Register \ {reg} : fresh'[other] = fresh[other]
      /\ fresh'[reg] => done'
      /\ wrote' \in [Parameter -> Int \cup {None}]
      /\ \A q \in Parameter :
            \/ Layout[q].reg # reg /\ wrote'[q] = wrote[q]
            \/ Layout[q].reg = reg /\ ~done' /\ wrote'[q] = None
            \/ Layout[q].reg = reg /\ done' /\ wrote'[q] = value'[q]
  <2> HIDE DEF reg
  <2>1. CASE ~done'
    <3>1. Forget(reg)
      BY <1>1, <2>1
    <3>2. /\ fresh' \in [Register -> BOOLEAN]
          /\ \A other \in Register : fresh'[other] = (other # reg /\ fresh[other])
          /\ wrote' \in [Parameter -> Int \cup {None}]
          /\ \A q \in Parameter :
                wrote'[q] = IF Layout[q].reg = reg THEN None ELSE wrote[q]
      BY <1>2, <1>5, <3>1, Forgetting
    <3>3. \A other \in Register \ {reg} : fresh'[other] = fresh[other]
      BY <1>2, <3>2 DEF Types
    <3> QED
      BY <1>5, <2>1, <3>2, <3>3
  <2>2. CASE done'
    <3>1. /\ fresh' = [fresh EXCEPT ![reg] = TRUE]
          /\ wrote' = [q \in Parameter |->
                          IF q \in ParametersOf(reg) THEN value'[q] ELSE wrote[q]]
      BY <1>1, <2>2
    <3>2. /\ fresh' \in [Register -> BOOLEAN]
          /\ \A other \in Register \ {reg} : fresh'[other] = fresh[other]
      BY <1>2, <3>1 DEF Types
    <3>3. wrote' \in [Parameter -> Int \cup {None}]
      BY <1>2, <1>3, <3>1 DEF Types
    <3>4. \A q \in Parameter :
             wrote'[q] = IF Layout[q].reg = reg THEN value'[q] ELSE wrote[q]
      BY <3>1, Fields
    <3> QED
      BY <2>2, <3>2, <3>3, <3>4
  <2> QED
    BY <2>1, <2>2
<1> HIDE DEF reg
<1>8. Types'
  <2>1. \A q \in Parameter : wrote'[q] \in {None} \cup Layout[q].min..Layout[q].max
    BY <1>2, <1>3, <1>7, Fields DEF Types
  <2>2. undecoded' \subseteq Register /\ (got' = None \/ got' \in Int)
    BY <1>1, <1>2, <1>3 DEF Types
  <2> QED
    BY <1>3, <1>4, <1>6, <1>7, <2>1, <2>2 DEF Types
<1>9. FreshIsTrue'
  <2> SUFFICES ASSUME NEW other \in Register, fresh'[other]
               PROVE  /\ regval'[other] = device'[other]
                      /\ other \notin undecoded' =>
                           \A q \in ParametersOf(other) : value'[q] = Decode(q, regval'[other])
    BY DEF FreshIsTrue
  <2>1. CASE other = reg
    BY <1>3, <1>6, <1>7, <2>1
  <2>2. CASE other # reg
    <3>1. \A q \in ParametersOf(other) : value'[q] = value[q]
      BY <1>3, <1>5, <2>2, Fields
    <3>2. fresh[other] /\ regval'[other] = regval[other] /\ device'[other] = device[other]
      BY <1>3, <1>6, <1>7, <2>2
    <3> QED
      BY <1>2, <1>3, <2>2, <3>1, <3>2 DEF FreshIsTrue
  <2> QED
    BY <2>1, <2>2
<1>10. WroteIsThere'
  <2> SUFFICES ASSUME NEW q \in Parameter, wrote'[q] # None
               PROVE  Decode(q, device'[Layout[q].reg]) = wrote'[q]
    BY DEF WroteIsThere
  <2>1. CASE Layout[q].reg = reg
    BY <1>3, <1>6, <1>7, <2>1, Fields
  <2>2. CASE Layout[q].reg # reg
    BY <1>2, <1>6, <1>7, <2>2, Fields DEF WroteIsThere
  <2> QED
    BY <2>1, <2>2
<1> QED
  BY <1>4, <1>8, <1>9, <1>10 DEF MapInv

(* write_register. *)
LEMMA WritingKeeps ==
    ASSUME MapInv, NEW reg \in Register, NEW word \in Word, write_register(reg, word)
    PROVE  MapInv'
<1>1. /\ Transfer(reg, word) /\ Forget(reg)
      /\ UNCHANGED <<value, regval, got, undecoded, asked>>
  BY DEF write_register
<1>2. /\ done' \in BOOLEAN /\ device' \in [Register -> Word]
      /\ \A other \in Register \ {reg} : device'[other] = device[other]
  BY <1>1, Transferring DEF MapInv
<1> QED
  BY <1>1, <1>2, DeviceMayChange

(* The device changes a register. *)
LEMMA ChangingKeeps ==
    ASSUME MapInv, NEW reg \in Register, DeviceChanges(reg)
    PROVE  MapInv'
<1>1. /\ Forget(reg) /\ UNCHANGED <<value, regval, done, got, undecoded, asked>>
      /\ \E word \in Raw : device' = [device EXCEPT ![reg] = word]
  BY DEF DeviceChanges
<1>2. \A word \in Raw : word \in Word
  BY UserAssumption DEF Word
<1>3. Types
  BY DEF MapInv
<1>4. /\ device' \in [Register -> Word] /\ done' \in BOOLEAN
      /\ \A other \in Register \ {reg} : device'[other] = device[other]
  BY <1>1, <1>2, <1>3 DEF Types
<1> QED
  BY <1>1, <1>4, DeviceMayChange

(* read_register. *)
LEMMA ReadingKeeps ==
    ASSUME MapInv, NEW reg \in Register, read_register(reg)
    PROVE  MapInv'
<1>1. Types /\ FreshIsTrue /\ AskedIsKept /\ WroteIsThere
  BY DEF MapInv
<1>2. UNCHANGED <<value, device, got, wrote, asked>>
  BY DEF read_register
<1>3. CASE done' = TRUE /\ regval' = [regval EXCEPT ![reg] = device[reg]]
           /\ fresh' = [fresh EXCEPT ![reg] = TRUE] /\ undecoded' = undecoded \cup {reg}
  <2>1. /\ regval' \in [Register -> Word] /\ regval'[reg] = device[reg]
        /\ \A other \in Register \ {reg} : regval'[other] = regval[other]
        /\ fresh' \in [Register -> BOOLEAN]
        /\ \A other \in Register \ {reg} : fresh'[other] = fresh[other]
    BY <1>1, <1>3 DEF Types
  <2>2. Types'
    BY <1>1, <1>2, <1>3, <2>1 DEF Types
  <2>3. FreshIsTrue'
    BY <1>1, <1>2, <1>3, <2>1 DEF FreshIsTrue
  <2>4. AskedIsKept'
    BY <1>1, <1>2, <1>3, <2>1, Fields DEF AskedIsKept
  <2>5. WroteIsThere'
    BY <1>1, <1>2 DEF WroteIsThere
  <2> QED
    BY <2>2, <2>3, <2>4, <2>5 DEF MapInv
<1>4. CASE done' = FALSE /\ UNCHANGED <<regval, fresh, undecoded>>
  <2>1. Types'
    BY <1>1, <1>2, <1>4 DEF Types
  <2>2. FreshIsTrue' /\ AskedIsKept' /\ WroteIsThere'
    BY <1>1, <1>2, <1>4 DEF FreshIsTrue, AskedIsKept, WroteIsThere
  <2> QED
    BY <2>1, <2>2 DEF MapInv
<1> QED
  BY <1>3, <1>4 DEF read_register

(* get_parameter_value_from_device. *)
LEMMA GettingFromDeviceKeeps ==
    ASSUME MapInv, NEW p \in Parameter, get_parameter_value_from_device(p)
    PROVE  MapInv'
<1> DEFINE reg == Layout[p].reg
<1>1. Types /\ FreshIsTrue /\ AskedIsKept /\ WroteIsThere
  BY DEF MapInv
<1>2. device' = device /\ wrote' = wrote
  BY DEF get_parameter_value_from_device
<1>3. CASE /\ done' = TRUE /\ regval' = [regval EXCEPT ![reg] = device[reg]]
           /\ GetFromMap(p) /\ fresh' = [fresh EXCEPT ![reg] = TRUE]
           /\ undecoded' = undecoded \ {reg}
           /\ asked' = [q \in Parameter |->
                           IF q \in ParametersOf(reg) THEN None ELSE asked[q]]
  <2>1. /\ value' \in [Parameter -> Int]
        /\ \A q \in Parameter : value'[q] \in Lowest(q)..Highest(q)
        /\ \A q \in ParametersOf(reg) : value'[q] = Decode(q, regval'[reg])
        /\ \A q \in Parameter \ ParametersOf(reg) : value'[q] = value[q]
        /\ got' \in Int
    BY <1>1, <1>3, GettingFromMap
  <2>2. reg \in Register
    BY Fields
  <2> HIDE DEF reg
  <2>3. /\ regval' \in [Register -> Word] /\ regval'[reg] = device[reg]
        /\ \A other \in Register \ {reg} : regval'[other] = regval[other]
        /\ fresh' \in [Register -> BOOLEAN]
        /\ \A other \in Register \ {reg} : fresh'[other] = fresh[other]
    BY <1>1, <1>3, <2>2 DEF Types
  <2>4. /\ asked' \in [Parameter -> Int \cup {None}]
        /\ \A q \in Parameter :
              asked'[q] = IF q \in ParametersOf(reg) THEN None ELSE asked[q]
    BY <1>1, <1>3 DEF Types
  <2>5. Types'
    BY <1>1, <1>2, <1>3, <2>1, <2>3, <2>4 DEF Types
  <2>6. FreshIsTrue'
    <3> SUFFICES ASSUME NEW other \in Register, fresh'[other]
                 PROVE  /\ regval'[other] = device'[other]
                        /\ other \notin undecoded' =>
                             \A q \in ParametersOf(other) : value'[q] = Decode(q, regval'[other])
      BY DEF FreshIsTrue
    <3>1. CASE other = reg
      BY <1>2, <2>1, <2>3, <3>1
    <3>2. CASE other # reg
      <4>1. \A q \in ParametersOf(other) : value'[q] = value[q]
        BY <2>1, <3>2, Fields
      <4> QED
        BY <1>1, <1>2, <1>3, <2>3, <3>2, <4>1 DEF FreshIsTrue
    <3> QED
      BY <3>1, <3>2
  <2>7. AskedIsKept'
    <3> SUFFICES ASSUME NEW q \in Parameter, asked'[q] # None
                 PROVE  /\ value'[q] = asked'[q]
                        /\ Layout[q].reg \notin undecoded' =>
                              Decode(q, regval'[Layout[q].reg]) = asked'[q]
      BY DEF AskedIsKept
    <3>1. q \notin ParametersOf(reg) /\ asked'[q] = asked[q]
      BY <2>4
    <3>2. Layout[q].reg \in Register \ {reg}
      BY <3>1, Fields
    <3> QED
      BY <1>1, <1>3, <2>1, <2>3, <3>1, <3>2 DEF AskedIsKept
  <2>8. WroteIsThere'
    BY <1>1, <1>2 DEF WroteIsThere
  <2> QED
    BY <2>5, <2>6, <2>7, <2>8 DEF MapInv
<1>4. CASE done' = FALSE /\ got' = None /\ UNCHANGED <<value, regval, fresh, undecoded, asked>>
  <2>1. Types'
    BY <1>1, <1>2, <1>4 DEF Types
  <2>2. FreshIsTrue' /\ AskedIsKept' /\ WroteIsThere'
    BY <1>1, <1>2, <1>4 DEF FreshIsTrue, AskedIsKept, WroteIsThere
  <2> QED
    BY <2>1, <2>2 DEF MapInv
<1> QED
  BY <1>3, <1>4 DEF get_parameter_value_from_device

LEMMA MapInvariant == Spec => []MapInv
<1>1. MapInv /\ [Next]_vars => MapInv'
  <2> SUFFICES ASSUME MapInv, [Next]_vars PROVE MapInv'
    OBVIOUS
  <2>1. \A number \in Input : number \in Int
    BY UserAssumption
  <2>2. \A word \in Raw : word \in Word
    BY UserAssumption DEF Word
  <2>3. ASSUME NEW p \in Parameter, NEW number \in Input, set_parameter_value(p, number)
        PROVE  MapInv'
    BY <2>1, <2>3, SettingKeeps
  <2>4. ASSUME NEW p \in Parameter, NEW number \in Input,
               set_parameter_value_in_device(p, number)
        PROVE  MapInv'
    BY <2>1, <2>4, SettingInDeviceKeeps
  <2>5. ASSUME NEW p \in Parameter, get_parameter_value(p)
        PROVE  MapInv'
    BY <2>5, GettingKeeps
  <2>6. ASSUME NEW p \in Parameter, get_parameter_value_from_device(p)
        PROVE  MapInv'
    BY <2>6, GettingFromDeviceKeeps
  <2>7. ASSUME NEW reg \in Register, read_register(reg)
        PROVE  MapInv'
    BY <2>7, ReadingKeeps
  <2>8. ASSUME NEW reg \in Register, DeviceChanges(reg)
        PROVE  MapInv'
    BY <2>8, ChangingKeeps
  <2>9. ASSUME NEW reg \in Register, NEW word \in Raw, write_register(reg, word)
        PROVE  MapInv'
    BY <2>2, <2>9, WritingKeeps
  <2>10. CASE UNCHANGED vars
    <3>1. Types'
      BY <2>10 DEF vars, MapInv, Types
    <3>2. FreshIsTrue' /\ AskedIsKept' /\ WroteIsThere'
      BY <2>10 DEF vars, MapInv, FreshIsTrue, AskedIsKept, WroteIsThere
    <3> QED
      BY <3>1, <3>2 DEF MapInv
  <2> QED
    BY <2>3, <2>4, <2>5, <2>6, <2>7, <2>8, <2>9, <2>10 DEF Next
<1> QED
  BY <1>1, InitMap, PTL DEF Spec

-----------------------------------------------------------------------------
(* The theorems.                                                           *)

(* A parameter's value always fits its field, and what the user set is     *)
(* within the limits, whatever words the device sends (parser.py:47-186).  *)
THEOREM TypeCorrect == Spec => []TypeOK
<1>1. MapInv => TypeOK
  BY DEF MapInv, Types, TypeOK
<1> QED
  BY <1>1, MapInvariant, PTL

(* Setting one parameter in the device leaves its siblings as the device   *)
(* has them (initiator.py:475-488).                                        *)
THEOREM SiblingsAreKept == Spec => SiblingsKept
<1> DEFINE A == \A p \in Parameter :
                   fresh[Layout[p].reg] /\ Layout[p].reg \notin undecoded /\ done'
                   /\ (\E number \in Input : set_parameter_value_in_device(p, number))
                   => \A q \in ParametersOf(Layout[p].reg) \ {p} :
                         LET before == Decode(q, device[Layout[p].reg])
                         IN  before \in Layout[q].min..Layout[q].max =>
                                 Decode(q, device'[Layout[p].reg]) = before
<1>1. MapInv => A
  <2> SUFFICES ASSUME MapInv, NEW p \in Parameter, NEW number \in Input,
                      fresh[Layout[p].reg], Layout[p].reg \notin undecoded, done',
                      set_parameter_value_in_device(p, number),
                      NEW q \in ParametersOf(Layout[p].reg) \ {p},
                      Decode(q, device[Layout[p].reg]) \in Layout[q].min..Layout[q].max
               PROVE  Decode(q, device'[Layout[p].reg]) = Decode(q, device[Layout[p].reg])
    OBVIOUS
  <2>1. Types /\ FreshIsTrue /\ number \in Int
    BY UserAssumption DEF MapInv
  <2>2. SetInMap(p, number) /\ Transfer(Layout[p].reg, regval'[Layout[p].reg])
    BY DEF set_parameter_value_in_device
  <2>3. /\ regval' \in [Register -> Word]
        /\ Decode(q, regval'[Layout[p].reg]) = value'[q]
        /\ value'[q] = Clamp(q, value[q])
    BY <2>1, <2>2, SettingInMap, Fields
  <2>4. device'[Layout[p].reg] = regval'[Layout[p].reg]
    BY <2>1, <2>2, <2>3, Transferring, Fields
  <2>5. value[q] = Decode(q, device[Layout[p].reg])
    BY <2>1, Fields DEF FreshIsTrue
  <2>6. Clamp(q, value[q]) = value[q]
    BY <2>1, <2>5, ClampLimits, Fields DEF Types
  <2> QED
    BY <2>3, <2>4, <2>5, <2>6
<1>2. MapInv /\ [Next]_vars => [A]_vars
  BY <1>1
<1> QED
  BY <1>2, MapInvariant, PTL DEF Spec, SiblingsKept

(* Parameters that were set one after the other reach the device together  *)
(* (initiator.py:472-488, parser.py:451-463).                              *)
THEOREM TogetherAreSet == Spec => SetTogether
<1> DEFINE A == \A p \in Parameter :
                   done' /\ (\E number \in Input : set_parameter_value_in_device(p, number))
                   => \A q \in ParametersOf(Layout[p].reg) \ {p} :
                         asked[q] # None => Decode(q, device'[Layout[p].reg]) = asked[q]
<1>1. MapInv => A
  <2> SUFFICES ASSUME MapInv, NEW p \in Parameter, NEW number \in Input, done',
                      set_parameter_value_in_device(p, number),
                      NEW q \in ParametersOf(Layout[p].reg) \ {p}, asked[q] # None
               PROVE  Decode(q, device'[Layout[p].reg]) = asked[q]
    OBVIOUS
  <2>1. Types /\ AskedIsKept /\ number \in Int /\ q \in Parameter
    BY UserAssumption, Fields DEF MapInv
  <2>2. SetInMap(p, number) /\ Transfer(Layout[p].reg, regval'[Layout[p].reg])
    BY DEF set_parameter_value_in_device
  <2>3. /\ regval' \in [Register -> Word]
        /\ Decode(q, regval'[Layout[p].reg]) = value'[q]
        /\ value'[q] = Clamp(q, value[q])
    BY <2>1, <2>2, SettingInMap, Fields
  <2>4. device'[Layout[p].reg] = regval'[Layout[p].reg]
    BY <2>1, <2>2, <2>3, Transferring, Fields
  <2>5. value[q] = asked[q] /\ asked[q] \in Layout[q].min..Layout[q].max
    BY <2>1 DEF AskedIsKept, Types
  <2>6. Clamp(q, value[q]) = value[q]
    BY <2>1, <2>5, ClampLimits DEF Types
  <2> QED
    BY <2>3, <2>4, <2>5, <2>6
<1>2. MapInv /\ [Next]_vars => [A]_vars
  BY <1>1
<1> QED
  BY <1>2, MapInvariant, PTL DEF Spec, SetTogether

(* What was set in the device is what is got from it, and what is got from *)
(* a register in the map is what the device held (initiator.py:490-512).   *)
THEOREM WhatWasThereIsGot == Spec => GetsWhatWasThere
<1> DEFINE A == \A p \in Parameter :
                   /\ wrote[p] # None /\ done' /\ get_parameter_value_from_device(p)
                      => got' = wrote[p]
                   /\ fresh[Layout[p].reg] /\ get_parameter_value(p)
                      => got' = Decode(p, device[Layout[p].reg])
<1>1. MapInv => A
  <2> SUFFICES ASSUME MapInv, NEW p \in Parameter
               PROVE  /\ wrote[p] # None /\ done' /\ get_parameter_value_from_device(p)
                         => got' = wrote[p]
                      /\ fresh[Layout[p].reg] /\ get_parameter_value(p)
                         => got' = Decode(p, device[Layout[p].reg])
    OBVIOUS
  <2>1. Types /\ FreshIsTrue /\ WroteIsThere /\ Layout[p].reg \in Register
    BY Fields DEF MapInv
  <2>2. ASSUME wrote[p] # None, done', get_parameter_value_from_device(p)
        PROVE  got' = wrote[p]
    <3>1. regval' = [regval EXCEPT ![Layout[p].reg] = device[Layout[p].reg]] /\ GetFromMap(p)
      BY <2>2 DEF get_parameter_value_from_device
    <3>2. got' = Decode(p, regval'[Layout[p].reg])
      BY <2>1, <3>1, GettingFromMap
    <3>3. regval'[Layout[p].reg] = device[Layout[p].reg]
      BY <2>1, <3>1 DEF Types
    <3> QED
      BY <2>1, <2>2, <3>2, <3>3 DEF WroteIsThere
  <2>3. ASSUME fresh[Layout[p].reg], get_parameter_value(p)
        PROVE  got' = Decode(p, device[Layout[p].reg])
    <3>1. regval' = regval /\ GetFromMap(p)
      BY <2>3 DEF get_parameter_value
    <3>2. got' = Decode(p, regval'[Layout[p].reg])
      BY <2>1, <3>1, GettingFromMap
    <3> QED
      BY <2>1, <2>3, <3>1, <3>2 DEF FreshIsTrue
  <2> QED
    BY <2>2, <2>3
<1>2. MapInv /\ [Next]_vars => [A]_vars
  BY <1>1
<1> QED
  BY <1>2, MapInvariant, PTL DEF Spec, GetsWhatWasThere

(* A register that is written from its parameters holds none outside of    *)
(* its limits (parser.py:102-134, 451-463).                                *)
THEOREM LimitsAreWritten == Spec => WritesWithinLimits
<1> DEFINE A == \A reg \in Register : device'[reg] # device[reg] /\ done' /\ fresh'[reg]
                   => \A p \in ParametersOf(reg) :
                         Decode(p, device'[reg]) \in Layout[p].min..Layout[p].max
<1>1. MapInv /\ Next => A
  <2> SUFFICES ASSUME MapInv, Next, NEW reg \in Register,
                      device'[reg] # device[reg], done', fresh'[reg],
                      NEW q \in ParametersOf(reg)
               PROVE  Decode(q, device'[reg]) \in Layout[q].min..Layout[q].max
    OBVIOUS
  <2>1. Types
    BY DEF MapInv
  <2>2. ASSUME NEW p \in Parameter, NEW number \in Input,
               set_parameter_value_in_device(p, number)
        PROVE  Decode(q, device'[reg]) \in Layout[q].min..Layout[q].max
    <3>1. SetInMap(p, number) /\ Transfer(Layout[p].reg, regval'[Layout[p].reg])
      BY <2>2 DEF set_parameter_value_in_device
    <3>2. number \in Int /\ Layout[p].reg \in Register
      BY UserAssumption, Fields
    <3>3. /\ regval' \in [Register -> Word]
          /\ \A r \in ParametersOf(Layout[p].reg) :
                /\ value'[r] \in Layout[r].min..Layout[r].max
                /\ Decode(r, regval'[Layout[p].reg]) = value'[r]
      BY <2>1, <3>1, <3>2, SettingInMap
    <3>4. /\ device'[Layout[p].reg] = regval'[Layout[p].reg]
          /\ \A other \in Register \ {Layout[p].reg} : device'[other] = device[other]
      BY <2>1, <3>1, <3>2, <3>3, Transferring
    <3>5. reg = Layout[p].reg
      BY <3>4
    <3> QED
      BY <3>3, <3>4, <3>5
  <2>3. ASSUME Forget(reg) PROVE FALSE
    BY <2>1, <2>3, Forgetting
  <2>4. ASSUME NEW other \in Register, DeviceChanges(other) PROVE FALSE
    <3>1. other = reg
      BY <2>1, <2>4 DEF DeviceChanges, Types
    <3> QED
      BY <2>3, <2>4, <3>1 DEF DeviceChanges
  <2>5. ASSUME NEW other \in Register, NEW word \in Raw, write_register(other, word)
        PROVE  FALSE
    <3>1. other = reg
      BY <2>1, <2>5 DEF write_register, Transfer, Types
    <3> QED
      BY <2>3, <2>5, <3>1 DEF write_register
  <2>6. ASSUME device' = device PROVE FALSE
    BY <2>6
  <2>7. \A p \in Parameter : \A number \in Input : ~set_parameter_value(p, number)
    BY <2>6 DEF set_parameter_value
  <2>8. \A p \in Parameter : ~get_parameter_value(p) /\ ~get_parameter_value_from_device(p)
    BY <2>6 DEF get_parameter_value, get_parameter_value_from_device
  <2>9. \A other \in Register : ~read_register(other)
    BY <2>6 DEF read_register
  <2> QED
    BY <2>2, <2>4, <2>5, <2>7, <2>8, <2>9 DEF Next
<1>2. MapInv /\ [Next]_vars => [A]_vars
  BY <1>1
<1> QED
  BY <1>2, MapInvariant, PTL DEF Spec, WritesWithinLimits
=============================================================================
