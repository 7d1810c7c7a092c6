----------------------------- MODULE CallService -----------------------------
(***************************************************************************)
(* What a service that carries out calls promises its callers: a call is   *)
(* carried out at most once, an answer comes after it has been, and one    *)
(* that is refused never is.  A caller that is gone learns nothing; what   *)
(* it asked for may still be done.                                         *)
(***************************************************************************)
CONSTANT Call

VARIABLES
    state,      \* of each call: "new", "open", "answered", "refused", "lost"
    executed    \* the calls that have been carried out

vars == <<state, executed>>

Init == state = [call \in Call |-> "new"] /\ executed = {}

Become(call, from, to) ==
    state[call] = from /\ state' = [state EXCEPT ![call] = to]

Open(call) == Become(call, "new", "open") /\ UNCHANGED executed

Execute(call) ==
    /\ state[call] \in {"open", "lost"}
    /\ call \notin executed
    /\ executed' = executed \cup {call}
    /\ UNCHANGED state

Answer(call) ==
    call \in executed /\ Become(call, "open", "answered") /\ UNCHANGED executed

(* Calls can be refused, or lose their callers, together. *)
Refuse(calls) ==
    /\ calls \cap executed = {}
    /\ \A call \in calls : state[call] \in {"new", "open"}
    /\ state' = [call \in Call |-> IF call \in calls THEN "refused" ELSE state[call]]
    /\ UNCHANGED executed

Lose(calls) ==
    /\ \A call \in calls : state[call] = "open"
    /\ state' = [call \in Call |-> IF call \in calls THEN "lost" ELSE state[call]]
    /\ UNCHANGED executed

Next ==
    \/ \E calls \in SUBSET Call : Refuse(calls) \/ Lose(calls)
    \/ \E call \in Call : Open(call) \/ Execute(call) \/ Answer(call)

Spec == Init /\ [][Next]_vars
=============================================================================
