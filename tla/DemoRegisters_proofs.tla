------------------------- MODULE DemoRegisters_proofs -------------------------
(***************************************************************************)
(* Theorems about DemoRegisters, for every width of the press counter and  *)
(* of the blink count.                                                     *)
(***************************************************************************)
EXTENDS DemoRegisters, TLAPS

USE DEF Bit

(* The button.  While the thread holds a loaded word, the presses that it  *)
(* will store are those of the word, and none of those reported before are *)
(* missing from it.                                                        *)
Counted ==
    due = IF thread = "store" THEN word.press_count ELSE button.press_count

ReportedIsDue == reported <= due

(* The LED.  A blinking LED is away from its register's state after an odd *)
(* number of toggles, and the loop ends after an even one.                 *)
BlinkIndex ==
    /\ thread = "command" => index = 0
    /\ thread = "blink" => index <= 2 * led.blink_count

StateUpToBlinking ==
    inStep => (led.state = ledPin <=> (thread = "blink" => index % 2 = 0))

Inv == TypeOK /\ Counted /\ ReportedIsDue /\ BlinkIndex /\ StateUpToBlinking

(* A record of the register types is made of their fields. *)
LEMMA Fields ==
    /\ \A b \in button_register :
          /\ b.state \in Bit /\ b.press_count \in 0..MaxPress
          /\ \A s \in Bit : [b EXCEPT !.state = s] \in button_register
          /\ \A c \in 0..MaxPress : [b EXCEPT !.press_count = c] \in button_register
    /\ \A l \in led_register :
          /\ l.state \in Bit /\ l.blink_count \in 0..MaxBlink
          /\ \A s \in Bit : [l EXCEPT !.state = s] \in led_register
  BY DEF button_register, led_register

(* Parity. *)
LEMMA Parity ==
    \A n \in Nat : /\ n % 2 \in {0, 1}
                   /\ (n + 1) % 2 = 1 - (n % 2)
                   /\ (2 * n) % 2 = 0
  BY SMT

(* The initial state satisfies the invariant. *)
LEMMA InvInit == Init => Inv
  BY LimitAssumption DEF Init, Inv, TypeOK, Counted, ReportedIsDue, BlinkIndex,
     StateUpToBlinking, button_register, led_register

(* Every step of the button, its interrupt and its requests, keeps it. *)
LEMMA InvButton ==
    ASSUME Inv, Press \/ Release \/ WriteButton \/ ReadButton \/ StoreState \/ LoadValue
    PROVE  Inv'
<1> USE LimitAssumption DEF Inv, TypeOK, At, ledVars, buttonVars
<1>1. TypeOK'
  <2>1. CASE Press
    <3>1. button.press_count + 1 \in 0..MaxPress
      <4>1. button.press_count \in 0..MaxPress  BY DEF button_register
      <4> QED BY <2>1, <4>1 DEF Press
    <3>2. button' \in button_register  BY <2>1, <3>1, Fields DEF Press
    <3>3. due' \in 0..MaxPress  BY <2>1, <3>1 DEF Press, Counted
    <3> QED BY <2>1, <3>2, <3>3 DEF Press
  <2>2. CASE Release   BY <2>2 DEF Release
  <2>3. CASE WriteButton
    <3>1. button' \in button_register  BY <2>3 DEF WriteButton
    <3> QED BY <2>3, <3>1, Fields DEF WriteButton
  <2>4. CASE ReadButton  BY <2>4, Fields DEF ReadButton
  <2>5. CASE StoreState  BY <2>5 DEF StoreState
  <2>6. CASE LoadValue   BY <2>6, Fields DEF LoadValue
  <2> QED BY <2>1, <2>2, <2>3, <2>4, <2>5, <2>6
<1>2. Counted' /\ ReportedIsDue'
  <2> USE DEF Counted, ReportedIsDue
  <2>1. CASE Press
    <3>1. button'.press_count = button.press_count + 1
      BY <2>1 DEF Press, button_register
    <3> QED BY <2>1, <3>1, Fields DEF Press
  <2>2. CASE Release   BY <2>2 DEF Release
  <2>3. CASE WriteButton
    <3>1. button' \in button_register  BY <2>3 DEF WriteButton
    <3>2. button'.press_count \in Int  BY <3>1 DEF button_register
    <3> QED BY <2>3, <3>2 DEF WriteButton
  <2>4. CASE ReadButton
    <3>1. word'.press_count = button.press_count
      BY <2>4 DEF ReadButton, button_register
    <3> QED BY <2>4, <3>1 DEF ReadButton
  <2>5. CASE StoreState  BY <2>5 DEF StoreState
  <2>6. CASE LoadValue   BY <2>6, Fields DEF LoadValue
  <2> QED BY <2>1, <2>2, <2>3, <2>4, <2>5, <2>6
<1>3. BlinkIndex' /\ StateUpToBlinking'
  BY DEF BlinkIndex, StateUpToBlinking, Press, Release, WriteButton, ReadButton,
         StoreState, LoadValue
<1> QED BY <1>1, <1>2, <1>3

(* Every step of the LED keeps it. *)
LEMMA InvLed ==
    ASSUME Inv, WriteLed \/ ReadLed \/ Obey \/ Blink \/ Respond
    PROVE  Inv'
<1> USE LimitAssumption DEF Inv, TypeOK, At, ledVars, buttonVars
<1>1. Counted' /\ ReportedIsDue'
  BY DEF Counted, ReportedIsDue, WriteLed, ReadLed, Obey, Blink, Respond
<1>2. CASE WriteLed
  <2>1. led' \in led_register  BY <1>2 DEF WriteLed
  <2>2. inStep' \in BOOLEAN  BY <1>2 DEF WriteLed
  <2>3. inStep' => led'.state = ledPin'  BY <1>2 DEF WriteLed
  <2>4. TypeOK' /\ BlinkIndex'  BY <1>2, <2>1, <2>2 DEF WriteLed, BlinkIndex
  <2>5. StateUpToBlinking'
    <3>1. thread' # "blink"  BY <1>2 DEF WriteLed
    <3> QED BY <2>3, <3>1 DEF StateUpToBlinking
  <2> QED BY <1>1, <2>4, <2>5
<1>3. CASE ReadLed
  <2>1. led' \in led_register /\ led'.state = ledPin'
    BY <1>3, Fields DEF ReadLed, led_register
  <2>2. TypeOK' /\ BlinkIndex'  BY <1>3, <2>1 DEF ReadLed, BlinkIndex
  <2>3. StateUpToBlinking'  BY <1>3, <2>1 DEF ReadLed, StateUpToBlinking
  <2> QED BY <1>1, <2>2, <2>3
<1>4. CASE Obey
  <2>1. inStep' \in BOOLEAN  BY <1>4 DEF Obey
  <2>2. inStep' => inStep \/ 1 \in {led.on, led.off}  BY <1>4 DEF Obey
  <2>3. index' = index /\ index = 0 /\ thread = "command"
    BY <1>4 DEF Obey, BlinkIndex
  <2>4. inStep => led.state = ledPin
    BY <2>3 DEF StateUpToBlinking
  <2>5. /\ led' \in led_register
        /\ ledPin' \in Bit
        /\ led.state = ledPin => led'.state = ledPin'
        /\ 1 \in {led.on, led.off} => led'.state = ledPin'
    <3>1. CASE Command
      BY <3>1, Fields DEF Command, led_register
    <3>2. CASE 1 \notin {led.on, led.off, led.toggle} /\ UNCHANGED <<led, ledPin>>
      BY <3>2
    <3> QED BY <1>4, <3>1, <3>2 DEF Obey
  <2>6. thread' \in {"respond", "blink"}  BY <1>4 DEF Obey
  <2>7. TypeOK'  BY <1>4, <2>1, <2>3, <2>5, <2>6 DEF Obey
  <2>8. BlinkIndex'
    <3>1. led'.blink_count \in 0..MaxBlink  BY <2>5, Fields
    <3> QED BY <2>3, <2>6, <3>1 DEF BlinkIndex
  <2>9. StateUpToBlinking'
    <3>1. inStep' => led'.state = ledPin'  BY <2>2, <2>4, <2>5
    <3>2. index' % 2 = 0  BY <2>3
    <3> QED BY <3>1, <3>2 DEF StateUpToBlinking
  <2> QED BY <1>1, <2>7, <2>8, <2>9
<1>5. CASE Blink
  <2>1. /\ led' = led /\ inStep' = inStep
        /\ led.blink_count \in 0..MaxBlink
        /\ thread = "blink" /\ index <= 2 * led.blink_count
    BY <1>5, Fields DEF Blink, BlinkIndex
  <2>2. CASE index < 2 * led.blink_count
    <3>1. ledPin' = 1 - ledPin /\ index' = index + 1 /\ thread' = "blink"
      BY <1>5, <2>2 DEF Blink
    <3>2. index' % 2 = 1 - (index % 2) /\ index % 2 \in {0, 1}  BY <3>1, Parity
    <3>3. TypeOK' /\ BlinkIndex'  BY <1>5, <2>1, <2>2, <3>1 DEF Blink, BlinkIndex
    <3>4. led.state = ledPin <=> ~ (led'.state = ledPin')
      <4>1. led.state \in {0, 1}  BY DEF led_register
      <4> QED BY <2>1, <3>1, <4>1
    <3>5. index % 2 = 0 <=> ~ (index' % 2 = 0)  BY <3>2
    <3>6. StateUpToBlinking'
      BY <2>1, <3>1, <3>4, <3>5, Zenon DEF StateUpToBlinking
    <3> QED BY <1>1, <3>3, <3>6
  <2>3. CASE ~ (index < 2 * led.blink_count)
    <3>1. index = 2 * led.blink_count  BY <2>1, <2>3
    <3>2. index % 2 = 0  BY <2>1, <3>1, Parity
    <3>3. ledPin' = ledPin /\ index' = index /\ thread' = "respond"
      BY <1>5, <2>3 DEF Blink
    <3>4. TypeOK' /\ BlinkIndex'  BY <1>5, <2>1, <3>3 DEF Blink, BlinkIndex
    <3>5. StateUpToBlinking'
      BY <2>1, <3>2, <3>3, Zenon DEF StateUpToBlinking
    <3> QED BY <1>1, <3>4, <3>5
  <2> QED BY <2>2, <2>3
<1>6. CASE Respond
  BY <1>1, <1>6 DEF Respond, BlinkIndex, StateUpToBlinking
<1> QED BY <1>2, <1>3, <1>4, <1>5, <1>6

(* The invariant is inductive. *)
LEMMA Inductive == Inv /\ [Next]_vars => Inv'
<1> SUFFICES ASSUME Inv, [Next]_vars PROVE Inv'
  OBVIOUS
<1>1. CASE Next
  BY <1>1, InvButton, InvLed DEF Next, SSCP_process
<1>2. CASE UNCHANGED vars
  BY <1>2 DEF vars, buttonVars, ledVars, Inv, TypeOK, Counted, ReportedIsDue,
     BlinkIndex, StateUpToBlinking
<1> QED BY <1>1, <1>2

(* The invariant holds. *)
THEOREM Invariance == Spec => []Inv
  BY InvInit, Inductive, PTL DEF Spec

(* Registers, pins and histories stay in their types. *)
THEOREM TypeCorrect == Spec => []TypeOK
<1>1. Inv => TypeOK  BY DEF Inv
<1> QED BY <1>1, Invariance, PTL

(* Every press is counted once, but for those between load and store. *)
THEOREM PressesAreCounted == Spec => []PressesCounted
<1>1. Inv => PressesCounted  BY DEF Inv, Counted, PressesCounted
<1> QED BY <1>1, Invariance, PTL

(* The register says what the LED does, however often it has blinked. *)
THEOREM StateIsInStep == Spec => []StateInStep
<1>1. Inv => StateInStep  BY DEF Inv, StateUpToBlinking, StateInStep
<1> QED BY <1>1, Invariance, PTL

(* The presses that reads report never decrease. *)
THEOREM NoReadDecreases == Spec => ReadsNeverDecrease
<1>1. Inv /\ [Next]_vars => [thread = "load" => reported' >= reported]_vars
  <2> SUFFICES ASSUME Inv, Next, thread = "load" PROVE reported' >= reported
    OBVIOUS
  <2>1. CASE LoadValue
    BY <2>1, Fields DEF LoadValue, Inv, TypeOK, Counted, ReportedIsDue
  <2>2. CASE Press \/ Release
    BY <2>2 DEF Press, Release, Inv, TypeOK
  <2> QED BY <2>1, <2>2 DEF Next, SSCP_process, WriteButton, ReadButton, WriteLed,
             ReadLed, StoreState, Obey, Blink, Respond, At
<1> QED BY <1>1, Invariance, PTL DEF Spec, ReadsNeverDecrease
=============================================================================
