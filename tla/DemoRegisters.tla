---------------------------- MODULE DemoRegisters ----------------------------
(***************************************************************************)
(* The registers of the demos: a button, whose presses an interrupt counts *)
(* in the register that SSCP_process reads and writes, and a LED, which    *)
(* its register commands.  The two buttons and the two LEDs are alike, in  *)
(* both demos.                                                             *)
(*                                                                         *)
(* A register is one word of bit fields: to store one field is to load the *)
(* word and to store it.  The thread is one step per access to what the    *)
(* interrupt or an observer of the pins may see between; the interrupt is  *)
(* one step.  How requests come and responses go is SscpResponder's.       *)
(***************************************************************************)
EXTENDS Integers

CONSTANTS
    MaxPress,   \* bound: presses counted, 2^31 - 1 in the code
    MaxBlink    \* greatest blink_count, 255 in the code

ASSUME LimitAssumption == MaxPress \in Nat /\ MaxBlink \in Nat

Bit == {0, 1}
button_register == [state : Bit, press_count : 0..MaxPress]
led_register == [state : Bit, on : Bit, off : Bit, toggle : Bit, blink : Bit,
                 blink_count : 0..MaxBlink]

VARIABLES
    button, led,   \* the registers
    buttonPin, ledPin,
    thread,        \* the next step of SSCP_process, or "idle"
    word,          \* the button's word as its callback is about to store it
    index,         \* of the blinking loop
    due,           \* history: what press_count should be
    reported,      \* history: the least that the next read may report
    inStep         \* history: the LED's state was written as the LED was

buttonVars == <<button, buttonPin, due>>
ledVars == <<led, ledPin, index, inStep>>
vars == <<buttonVars, ledVars, thread, word, reported>>

Init ==
    /\ button = [state |-> 0, press_count |-> 0]
    /\ led = [state |-> 0, on |-> 0, off |-> 0, toggle |-> 0, blink |-> 0,
              blink_count |-> 0]
    /\ buttonPin = 1 /\ ledPin = 0
    /\ thread = "idle" /\ word = button /\ index = 0
    /\ due = 0 /\ reported = 0
    /\ inStep = TRUE

At(from, to) == thread = from /\ thread' = to

-----------------------------------------------------------------------------
(* The button.                                                             *)

(* Mutant of Press: counts the word up, not the field in it.               *)
PressWord ==
    /\ buttonPin = 1 /\ buttonPin' = 0
    /\ due < MaxPress /\ due' = IF thread = "store" THEN due ELSE due + 1
    /\ button' = IF button.state = 0 THEN [button EXCEPT !.state = 1]
                 ELSE [state |-> 0, press_count |-> button.press_count + 1]
    /\ UNCHANGED <<ledVars, thread, word, reported>>

(* The falling edge interrupts whatever runs.  The press is not counted if *)
(* the thread has loaded the word and not stored it yet.                   *)
Press ==
    /\ buttonPin = 1 /\ buttonPin' = 0
    /\ button.press_count < MaxPress
    /\ button' = [button EXCEPT !.press_count = @ + 1]
    /\ due' = IF thread = "store" THEN due ELSE due + 1
    /\ UNCHANGED <<ledVars, thread, word, reported>>

Release ==
    /\ buttonPin = 0 /\ buttonPin' = 1
    /\ UNCHANGED <<button, due, ledVars, thread, word, reported>>

(* A write stores all of the register; the callback does nothing then.     *)
WriteButton ==
    /\ At("idle", "respond")
    /\ button' \in button_register
    /\ due' = button'.press_count /\ reported' = button'.press_count
    /\ UNCHANGED <<buttonPin, ledVars, word>>

(* Mutant of ReadButton: the callback keeps the word of an earlier read.   *)
ReadButtonOnce ==
    /\ At("idle", "store")
    /\ UNCHANGED <<word, buttonVars, ledVars, reported>>

(* GPIO_read returns before the word is loaded. *)
ReadButton ==
    /\ At("idle", "store")
    /\ word' = [button EXCEPT !.state = buttonPin]
    /\ UNCHANGED <<buttonVars, ledVars, reported>>

StoreState ==
    /\ At("store", "load")
    /\ button' = word
    /\ UNCHANGED <<buttonPin, due, ledVars, word, reported>>

(* readRegisterValue, which the response carries. *)
LoadValue ==
    /\ At("load", "respond")
    /\ reported' = button.press_count
    /\ UNCHANGED <<buttonVars, ledVars, word>>

-----------------------------------------------------------------------------
(* The LED.                                                                *)

(* Mutant of Command: a toggled LED's state is not turned over with it.    *)
CommandWithoutState ==
    IF led.on = 1 THEN ledPin' = 1 /\ led' = [led EXCEPT !.state = 1]
    ELSE IF led.off = 1 THEN ledPin' = 0 /\ led' = [led EXCEPT !.state = 0]
    ELSE led.toggle = 1 /\ ledPin' = 1 - ledPin /\ UNCHANGED led

(* The first of the command bits that is set counts.                       *)
Command ==
    IF led.on = 1 THEN ledPin' = 1 /\ led' = [led EXCEPT !.state = 1]
    ELSE IF led.off = 1 THEN ledPin' = 0 /\ led' = [led EXCEPT !.state = 0]
    ELSE led.toggle = 1 /\ ledPin' = 1 - ledPin /\ led' = [led EXCEPT !.state = 1 - @]

(* A request that reads as well as writes calls no callback. *)
WriteLed ==
    /\ At("idle", "command") \/ At("idle", "respond")
    /\ led' \in led_register
    /\ inStep' = (led'.state = ledPin)
    /\ index' = 0
    /\ UNCHANGED <<buttonVars, ledPin, word, reported>>

Obey ==
    /\ \/ At("command", "respond") /\ Command
       \/ /\ At("command", IF led.blink = 1 THEN "blink" ELSE "respond")
          /\ 1 \notin {led.on, led.off, led.toggle}
          /\ UNCHANGED <<led, ledPin>>
    /\ inStep' = (inStep \/ 1 \in {led.on, led.off})
    /\ UNCHANGED <<buttonVars, index, word, reported>>

(* Mutant of Blink: the index is too narrow for twice the count.           *)
BlinkNarrow ==
    /\ At("blink", IF index < 2 * led.blink_count THEN "blink" ELSE "respond")
    /\ IF index < 2 * led.blink_count
       THEN ledPin' = 1 - ledPin /\ index' = (index + 1) % (MaxBlink + 1)
       ELSE UNCHANGED <<ledPin, index>>
    /\ UNCHANGED <<buttonVars, led, inStep, word, reported>>

(* Mutant of Blink: one toggle too many.                                   *)
BlinkOnceMore ==
    /\ At("blink", IF index <= 2 * led.blink_count THEN "blink" ELSE "respond")
    /\ IF index <= 2 * led.blink_count
       THEN ledPin' = 1 - ledPin /\ index' = index + 1
       ELSE UNCHANGED <<ledPin, index>>
    /\ UNCHANGED <<buttonVars, led, inStep, word, reported>>

(* Each toggle is followed by a usleep. *)
Blink ==
    /\ At("blink", IF index < 2 * led.blink_count THEN "blink" ELSE "respond")
    /\ IF index < 2 * led.blink_count
       THEN ledPin' = 1 - ledPin /\ index' = index + 1
       ELSE UNCHANGED <<ledPin, index>>
    /\ UNCHANGED <<buttonVars, led, inStep, word, reported>>

ReadLed ==
    /\ At("idle", "respond")
    /\ led' = [led EXCEPT !.state = ledPin]
    /\ inStep' = TRUE
    /\ UNCHANGED <<buttonVars, ledPin, index, word, reported>>

-----------------------------------------------------------------------------
Respond ==
    /\ At("respond", "idle")
    /\ UNCHANGED <<buttonVars, ledVars, word, reported>>

SSCP_process ==
    \/ StoreState \/ LoadValue
    \/ Obey \/ Blink
    \/ Respond

Next ==
    \/ Press \/ Release
    \/ WriteButton \/ ReadButton \/ WriteLed \/ ReadLed
    \/ SSCP_process

(* Nothing blocks the thread, and usleep ends. *)
Spec == Init /\ [][Next]_vars /\ WF_vars(SSCP_process)

-----------------------------------------------------------------------------
(* Properties.                                                             *)

TypeOK ==
    /\ button \in button_register /\ word \in button_register
    /\ led \in led_register
    /\ buttonPin \in Bit /\ ledPin \in Bit
    /\ thread \in {"idle", "store", "load", "command", "blink", "respond"}
    /\ index \in 0 .. 2 * MaxBlink
    /\ due \in 0..MaxPress /\ reported \in 0..MaxPress
    /\ inStep \in BOOLEAN

(* "Number of times the button was pressed" (sscp_serial.c:39): every      *)
(* press since the count was last written is counted, once, but for those  *)
(* that fall between the two accesses with which a read's callback stores  *)
(* the button's state; no press is ever invented.                          *)
PressesCounted == thread # "store" => button.press_count = due

(* What reads report of the presses never becomes less, unless the count   *)
(* is written: a press that was reported is not lost afterwards, although  *)
(* the callback stores the count it loaded over a newer one.               *)
ReadsNeverDecrease ==
    [][thread = "load" => reported' >= reported]_vars

(* The state in the register is the LED's between requests, as long as     *)
(* writes carry it as it is, whatever they command, and from a read or a   *)
(* command for a definite state on in any case.                            *)
StateInStep == thread = "idle" /\ inStep => led.state = ledPin

(* Every request is answered: a LED comes to the end of its blinking.      *)
RequestsEnd == thread # "idle" ~> thread = "idle"
=============================================================================
