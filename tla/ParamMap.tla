------------------------------ MODULE ParamMap ------------------------------
(***************************************************************************)
(* The initiator's parameter map (parser.py) between its user and the      *)
(* device's registers.  A register is a word of bits in which several      *)
(* parameters have their fields; the map keeps both the register's value   *)
(* and the parameters' values, and moves between them only when asked to:  *)
(* encode makes the register's value of the parameters', decode the        *)
(* parameters' of the register's.  What is written to the device is always *)
(* a whole register.                                                       *)
(*                                                                         *)
(* A word is the set of its bits that are 1.  Parameters of type FLOAT are *)
(* left out: neither of the configuration files has one.                   *)
(***************************************************************************)
EXTENDS Integers

CONSTANTS
    Width,       \* bits of a register, 32 in the code
    Register,    \* the registers of the YAML file
    Parameter,   \* the names of its parameters
    Layout,      \* of each its reg, startbit, bitlength, type, min and max
    Input,       \* what users set parameters to
    Raw,         \* what a device begins with, what it changes a register
                 \* to, and what users write to a register as a word
    None         \* Python's None

(* The powers of two. *)
Weight[i \in 0..Width] == IF i = 0 THEN 1 ELSE 2 * Weight[i-1]

Field(p) == Layout[p].startbit .. Layout[p].startbit + Layout[p].bitlength - 1

(* What a field can hold, which the parser does not compare with the       *)
(* limits.  In both YAML files fields are disjoint and hold their limits.  *)
Lowest(p)  == IF Layout[p].type = "INT" THEN -Weight[Layout[p].bitlength - 1] ELSE 0
Highest(p) == Lowest(p) + Weight[Layout[p].bitlength] - 1

ASSUME LayoutAssumption ==
    /\ Width \in Nat
    /\ \A p \in Parameter :
          /\ Layout[p].reg \in Register
          /\ Layout[p].type \in {"UINT", "INT"}
          /\ Layout[p].startbit \in Nat /\ Layout[p].bitlength \in Nat \ {0}
          /\ Field(p) \subseteq 0..Width-1
          /\ Layout[p].min \in Int /\ Layout[p].max \in Int
          /\ Lowest(p) <= Layout[p].min
          /\ Layout[p].min <= Layout[p].max
          /\ Layout[p].max <= Highest(p)
    /\ \A p, q \in Parameter :
          p # q /\ Layout[p].reg = Layout[q].reg => Field(p) \cap Field(q) = {}
ASSUME UserAssumption == Input \subseteq Int /\ Raw \subseteq SUBSET (0..Width-1)

ParametersOf(reg) == {p \in Parameter : Layout[p].reg = reg}

Word == SUBSET (0..Width-1)

(* The bits of an integer, of a negative one in two's complement, and the  *)
(* number that bits stand for.                                             *)
Bits(number) == {i \in 0..Width-1 : (number \div Weight[i]) % 2 = 1}
Number(word) == CHOOSE number \in 0..Weight[Width]-1 : Bits(number) = word

-----------------------------------------------------------------------------
(* Parameters and registers.                                               *)

(* parameter.set *)
Clamp(p, number) ==
    LET raised == IF number < Layout[p].min THEN Layout[p].min ELSE number
    IN  IF raised > Layout[p].max THEN Layout[p].max ELSE raised

(* Mutant of Encode: a value that was decoded is not limited again.        *)
EncodeUnlimited(p, number) ==
    {Layout[p].startbit + i :
        i \in Bits(number) \cap 0..Layout[p].bitlength-1} \cap 0..Width-1

(* parameter.encode limits the value once more. *)
Encode(p, number) ==
    {Layout[p].startbit + i :
        i \in Bits(Clamp(p, number)) \cap 0..Layout[p].bitlength-1} \cap 0..Width-1

(* Mutant of Decode: the least negative number is taken for a positive one. *)
DecodeLate(p, word) ==
    LET result  == Number({i - Layout[p].startbit : i \in Field(p) \cap word})
        bitmask == Weight[Layout[p].bitlength] - 1
    IN  IF Layout[p].type = "INT" /\ result > bitmask \div 2 + 1
        THEN result - bitmask - 1
        ELSE result

(* parameter.decode *)
Decode(p, word) ==
    LET result  == Number({i - Layout[p].startbit : i \in Field(p) \cap word})
        bitmask == Weight[Layout[p].bitlength] - 1
    IN  IF Layout[p].type = "INT" /\ result > bitmask \div 2
        THEN result - bitmask - 1
        ELSE result

VARIABLES
    value,     \* parameter.value
    regval,    \* register.value, the initiator's copy
    device,    \* the registers in the device
    done,      \* whether the last transfer succeeded
    got,       \* what the user got last
    fresh,     \* history: the register in the map holds what the device's does
    undecoded, \* history: registers read, and their parameters not decoded
    wrote,     \* history: what each parameter was when its register was last
               \* written, as long as nothing has happened to it since
    asked      \* history: what the user last set each parameter to, as long as
               \* the register has not been read since

vars == <<value, regval, device, done, got, fresh, undecoded, wrote, asked>>

Init ==
    /\ value = [p \in Parameter |-> 0]
    /\ regval = [reg \in Register |-> {}]
    /\ device \in [Register -> Raw]
    /\ done = FALSE
    /\ got = None
    /\ fresh = [reg \in Register |-> FALSE]
    /\ undecoded = {}
    /\ wrote = [p \in Parameter |-> None]
    /\ asked = [p \in Parameter |-> None]

(* device.set_parameter_value: the parameter is set, and its register made *)
(* anew of all its parameters, which limits their values as well.          *)
SetInMap(p, number) ==
    LET reg == Layout[p].reg
        set == [value EXCEPT ![p] = Clamp(p, number)]
    IN  /\ value' = [q \in Parameter |->
                        IF q \in ParametersOf(reg) THEN Clamp(q, set[q]) ELSE set[q]]
        /\ regval' = [regval EXCEPT ![reg] =
                         UNION {Encode(q, set[q]) : q \in ParametersOf(reg)}]
        /\ undecoded' = undecoded \ {reg}
        /\ asked' = [asked EXCEPT ![p] = set[p]]

(* Mutant of GetFromMap: decodes only the parameter that is asked for.     *)
GetOnlyFromMap(p) ==
    /\ value' = [value EXCEPT ![p] = Decode(p, regval'[Layout[p].reg])]
    /\ got' = value'[p]

(* device.get_parameter_value: all parameters of the register are decoded. *)
GetFromMap(p) ==
    /\ value' = [q \in Parameter |->
                    IF q \in ParametersOf(Layout[p].reg)
                    THEN Decode(q, regval'[Layout[p].reg]) ELSE value[q]]
    /\ got' = value'[p]

(* What was known of a register no longer holds. *)
Forget(reg) ==
    /\ fresh' = [fresh EXCEPT ![reg] = FALSE]
    /\ wrote' = [q \in Parameter |->
                    IF q \in ParametersOf(reg) THEN None ELSE wrote[q]]

-----------------------------------------------------------------------------
(* The initiator's operations.                                             *)

(* Mutant of set_parameter_value: the register is not made anew.           *)
SetWithoutEncode(p, number) ==
    /\ value' = [value EXCEPT ![p] = Clamp(p, number)]
    /\ undecoded' = undecoded \ {Layout[p].reg}
    /\ asked' = [asked EXCEPT ![p] = Clamp(p, number)]
    /\ fresh' = [fresh EXCEPT ![Layout[p].reg] = FALSE]
    /\ UNCHANGED <<regval, device, done, got, wrote>>

set_parameter_value(p, number) ==
    /\ SetInMap(p, number)
    /\ fresh' = [fresh EXCEPT ![Layout[p].reg] = FALSE]
    /\ UNCHANGED <<device, done, got, wrote>>

(* The parameters are what the register says: what the user had set gives  *)
(* way to what a read had left in it.                                      *)
Decoded(reg) ==
    /\ undecoded' = undecoded \ {reg}
    /\ asked' = [q \in Parameter |->
                    IF q \in ParametersOf(reg) /\ reg \in undecoded THEN None ELSE asked[q]]

(* Mutant of get_parameter_value: gets the value as it is.                 *)
GetUndecoded(p) ==
    /\ got' = value[p]
    /\ Decoded(Layout[p].reg)
    /\ UNCHANGED <<value, regval, device, done, fresh, wrote>>

get_parameter_value(p) ==
    /\ UNCHANGED regval
    /\ GetFromMap(p)
    /\ Decoded(Layout[p].reg)
    /\ UNCHANGED <<device, done, fresh, wrote>>

(* write_register: the request may be lost, and so may the response to one *)
(* that was executed.                                                      *)
Transfer(reg, word) ==
    /\ done' \in BOOLEAN
    /\ \/ device' = [device EXCEPT ![reg] = word]
       \/ ~done' /\ UNCHANGED device

set_parameter_value_in_device(p, number) ==
    LET reg == Layout[p].reg
    IN  /\ SetInMap(p, number)
        /\ Transfer(reg, regval'[reg])
        /\ IF done'
           THEN /\ fresh' = [fresh EXCEPT ![reg] = TRUE]
                /\ wrote' = [q \in Parameter |->
                                IF q \in ParametersOf(reg) THEN value'[q] ELSE wrote[q]]
           ELSE Forget(reg)
        /\ UNCHANGED got

(* By itself it writes any word, which the map learns nothing of.          *)
write_register(reg, word) ==
    /\ Transfer(reg, word)
    /\ Forget(reg)
    /\ UNCHANGED <<value, regval, got, undecoded, asked>>

(* By itself it stores what it read in the register, not in the            *)
(* parameters: one that is set next is encoded with the others' values.    *)
read_register(reg) ==
    /\ \/ /\ done' = TRUE
          /\ regval' = [regval EXCEPT ![reg] = device[reg]]
          /\ fresh' = [fresh EXCEPT ![reg] = TRUE]
          /\ undecoded' = undecoded \cup {reg}
       \/ done' = FALSE /\ UNCHANGED <<regval, fresh, undecoded>>
    /\ UNCHANGED <<value, device, got, wrote, asked>>

(* The parameters follow only if the read did not fail.  A failure is None *)
(* over the serial link; over the others packet.info raises an exception,  *)
(* with the same lack of effect.                                           *)
get_parameter_value_from_device(p) ==
    LET reg == Layout[p].reg
    IN  /\ \/ /\ done' = TRUE
              /\ regval' = [regval EXCEPT ![reg] = device[reg]]
              /\ GetFromMap(p)
              /\ fresh' = [fresh EXCEPT ![reg] = TRUE]
              /\ undecoded' = undecoded \ {reg}
              /\ asked' = [q \in Parameter |->
                              IF q \in ParametersOf(reg) THEN None ELSE asked[q]]
           \/ /\ done' = FALSE
              /\ got' = None
              /\ UNCHANGED <<value, regval, fresh, undecoded, asked>>
        /\ UNCHANGED <<device, wrote>>

(* The device changes a register: a button is pressed, a callback clears   *)
(* the bit that triggered it.                                              *)
DeviceChanges(reg) ==
    /\ \E word \in Raw : device' = [device EXCEPT ![reg] = word]
    /\ Forget(reg)
    /\ UNCHANGED <<value, regval, done, got, undecoded, asked>>

Next ==
    \/ \E p \in Parameter, number \in Input :
          \/ set_parameter_value(p, number)
          \/ set_parameter_value_in_device(p, number)
    \/ \E p \in Parameter :
          \/ get_parameter_value(p)
          \/ get_parameter_value_from_device(p)
    \/ \E reg \in Register :
          \/ read_register(reg) \/ DeviceChanges(reg)
          \/ \E word \in Raw : write_register(reg, word)

Spec == Init /\ [][Next]_vars

-----------------------------------------------------------------------------
(* Properties.                                                             *)

TypeOK ==
    /\ \A p \in Parameter : value[p] \in Lowest(p)..Highest(p)
    /\ regval \in [Register -> Word] /\ device \in [Register -> Word]
    /\ done \in BOOLEAN
    /\ got = None \/ got \in Int
    /\ fresh \in [Register -> BOOLEAN] /\ undecoded \subseteq Register
    /\ \A p \in Parameter :
          {wrote[p], asked[p]} \subseteq {None} \cup Layout[p].min..Layout[p].max

(* Setting one parameter in the device leaves the others as the device has *)
(* them, when the map last exchanged the register with the device and the  *)
(* device has not changed it since, unless a value in the device is        *)
(* outside of its parameter's limits: it is limited on the way back.       *)
SiblingsKept ==
    [][\A p \in Parameter :
          fresh[Layout[p].reg] /\ Layout[p].reg \notin undecoded /\ done'
          /\ (\E number \in Input : set_parameter_value_in_device(p, number))
          => \A q \in ParametersOf(Layout[p].reg) \ {p} :
                LET before == Decode(q, device[Layout[p].reg])
                IN  before \in Layout[q].min..Layout[q].max =>
                        Decode(q, device'[Layout[p].reg]) = before]_vars

(* Parameters set one after the other in the map, and some of them got     *)
(* from it, all reach the device with the one that is set in the device    *)
(* (test.py writes the display so), unless their register is read between, *)
(* and the parameters with it.                                             *)
SetTogether ==
    [][\A p \in Parameter :
          done' /\ (\E number \in Input : set_parameter_value_in_device(p, number))
          => \A q \in ParametersOf(Layout[p].reg) \ {p} :
                asked[q] # None => Decode(q, device'[Layout[p].reg]) = asked[q]]_vars

(* What a parameter is set to in the device, after limiting, is what is    *)
(* got from the device, as long as the device does not change it, whatever *)
(* the user sets and gets in the map meanwhile: encoding and decoding are  *)
(* inverse, of negative values too.  What is got from the map after its    *)
(* register was read, with or without its parameters, and before one is    *)
(* set, is what the device held then.                                      *)
GetsWhatWasThere ==
    [][\A p \in Parameter :
          /\ wrote[p] # None /\ done' /\ get_parameter_value_from_device(p)
             => got' = wrote[p]
          /\ fresh[Layout[p].reg] /\ get_parameter_value(p)
             => got' = Decode(p, device[Layout[p].reg])]_vars

(* A register that is written from its parameters holds no value outside   *)
(* of their limits, although decoding accepts any, and the device can have *)
(* sent one for a parameter the user has never set.                        *)
WritesWithinLimits ==
    [][\A reg \in Register : device'[reg] # device[reg] /\ done' /\ fresh'[reg]
          => \A p \in ParametersOf(reg) :
                Decode(p, device'[reg]) \in Layout[p].min..Layout[p].max]_vars
=============================================================================
