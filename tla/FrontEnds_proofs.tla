-------------------------- MODULE FrontEnds_proofs --------------------------
(***************************************************************************)
(* Theorems about the programs that carry out the commands of others, for  *)
(* any requests, values, names, numbers and links, and for any bounds.     *)
(* The bridge: what a browser may wait for, and that no request is carried *)
(* out twice, answered before it is, or refused after it was.  The command *)
(* server: a set that is acknowledged was asked for, but for the end of a  *)
(* number that TCP cuts in two; however TCP cuts and joins what a client   *)
(* sends, it gets no answer too many, and one that is careful gets one     *)
(* answer to each command.                                                 *)
(***************************************************************************)
EXTENDS MCFrontEnds, FiniteSetTheorems, SequenceTheorems, Recursion, TLAPS

-----------------------------------------------------------------------------
(* The bridge (NodeBridge).                                                *)

(* A request that has a connection, in the backlog or being served, was    *)
(* posted and not settled, and has one connection only; it is carried out  *)
(* in the step from "received" to "executed".                              *)
Fresh == \A r \in Request : phase[r] = "new" => r \notin executed

Queued ==
    \A i \in DOMAIN backlog :
        /\ phase[backlog[i]] \in {"waiting", "lost"}
        /\ backlog[i] \notin executed
        /\ backlog[i] # conn
        /\ \A j \in DOMAIN backlog : backlog[i] = backlog[j] => i = j

Served ==
    conn # None => /\ phase[conn] \in {"waiting", "lost"}
                   /\ conn \in executed <=> executor = "executed"

Inv == TypeOK /\ Fresh /\ Queued /\ Served /\ Accounted

(* A request behind the others. *)
LEMMA AppendFacts ==
    ASSUME NEW s \in Seq(Request), NEW r \in Request
    PROVE  /\ Append(s, r) \in Seq(Request)
           /\ DOMAIN s = 1..Len(s) /\ Len(s) \in Nat
           /\ DOMAIN Append(s, r) = 1 .. Len(s) + 1
           /\ \A i \in 1..Len(s) : Append(s, r)[i] = s[i]
           /\ Append(s, r)[Len(s) + 1] = r
  OBVIOUS

(* The backlog without its first. *)
LEMMA TailFacts ==
    ASSUME NEW s \in Seq(Request), s # <<>>
    PROVE  /\ Head(s) \in Request /\ Head(s) = s[1]
           /\ Tail(s) \in Seq(Request)
           /\ Len(s) \in Nat \ {0} /\ DOMAIN s = 1..Len(s)
           /\ DOMAIN Tail(s) = 1 .. Len(s) - 1
           /\ \A i \in 1 .. Len(s) - 1 : Tail(s)[i] = s[i + 1]
  OBVIOUS

(* Initially nothing was posted. *)
LEMMA InvInit == Init => Inv
<1> SUFFICES ASSUME Init PROVE Inv
  OBVIOUS
<1>1. NoResult \in Result
  BY DEF NoResult, Result
<1>2. TypeOK
  <2>1. /\ answer \in [Request -> Result]
        /\ phase \in [Request -> {"new", "waiting", "answered", "failed", "lost"}]
        /\ seen \in [Request -> SUBSET Value]
    BY <1>1 DEF Init
  <2>2. backlog \in Seq(Request)
    BY DEF Init
  <2>3. conn \in Request \cup {None} /\ (conn = None <=> executor \in {"down", "accepting"})
    BY DEF Init
  <2>4. /\ executor \in {"down", "accepting", "accepted", "received", "executed"}
        /\ command \in Command \cup {NoCommand} /\ result \in Result
        /\ processor_initiator \in BOOLEAN
        /\ cached \in Value /\ device \in Value
        /\ executed \subseteq Request /\ dropped \subseteq Request
    BY ConstantsAssumption, <1>1 DEF Init
  <2> QED BY <2>1, <2>2, <2>3, <2>4 DEF TypeOK
<1>3. Fresh /\ Queued /\ Served /\ Accounted
  BY DEF Init, Fresh, Queued, Served, Accounted, Waiting
<1> QED BY <1>2, <1>3 DEF Inv

(* Each action keeps the invariant. *)
LEMMA InvPost ==
    ASSUME Inv, NEW r \in Request, Post(r)
    PROVE  Inv'
<1> USE DEF Post, Inv, TypeOK, servedVars, Settle
<1>1. phase' \in [Request -> {"new", "waiting", "answered", "failed", "lost"}]
  OBVIOUS
<1>2. seen' \in [Request -> SUBSET Value]
  OBVIOUS
<1>3. CASE executor = "down"
  <2>1. TypeOK' /\ Fresh'  BY <1>1, <1>2, <1>3 DEF Fresh
  <2>2. Queued' /\ Served'  BY <1>3 DEF Queued, Served
  <2>3. Accounted'  BY <1>3 DEF Accounted, Waiting
  <2> QED BY <2>1, <2>2, <2>3
<1>4. CASE executor # "down"
  <2>1. /\ backlog' \in Seq(Request)
        /\ DOMAIN backlog = 1..Len(backlog) /\ Len(backlog) \in Nat
        /\ DOMAIN backlog' = 1 .. Len(backlog) + 1
        /\ \A i \in 1..Len(backlog) : backlog'[i] = backlog[i]
        /\ backlog'[Len(backlog) + 1] = r
    <3>1. backlog' = Append(backlog, r) /\ backlog \in Seq(Request)  BY <1>4
    <3> QED BY <3>1, AppendFacts
  <2>2. \A i \in DOMAIN backlog : backlog[i] \in Request
    OBVIOUS
  <2>3. r # conn /\ \A i \in DOMAIN backlog : backlog[i] # r
    BY ConstantsAssumption DEF Queued, Served
  <2>4. TypeOK' /\ Fresh'  BY <1>1, <1>2, <1>4, <2>1 DEF Fresh
  <2>5. /\ \A q \in Request \ {r} : phase'[q] = phase[q]
        /\ phase'[r] = "waiting" /\ r \notin executed
        /\ executed' = executed /\ conn' = conn /\ executor' = executor
    BY <1>4 DEF Fresh
  <2>6. Served'
    BY <2>3, <2>5 DEF Served
  <2>7. Queued'
    <3> DEFINE n == Len(backlog)
    <3>1. ASSUME NEW i \in DOMAIN backlog'
          PROVE  \/ i \in 1..n /\ i \in DOMAIN backlog /\ backlog'[i] = backlog[i]
                 \/ i = n + 1 /\ i \notin 1..n /\ backlog'[i] = r
      BY <2>1
    <3>2. \A i \in DOMAIN backlog :
             /\ phase'[backlog[i]] \in {"waiting", "lost"} /\ backlog[i] \notin executed'
             /\ backlog[i] # conn' /\ backlog[i] # r
      BY <2>2, <2>3, <2>5 DEF Queued
    <3> HIDE DEF n, Post, Inv, TypeOK
    <3> QED
      BY <2>3, <2>5, <3>1, <3>2 DEF Queued, Inv
  <2>8. Accounted'  BY <1>4, <2>1 DEF Accounted, Waiting
  <2> QED BY <2>4, <2>6, <2>7, <2>8
<1> QED BY <1>3, <1>4

LEMMA InvNodeEnds == Inv /\ NodeEnds => Inv'
  BY DEF NodeEnds, Inv, TypeOK, Fresh, Queued, Served, Accounted, Waiting, Settle,
         servedVars, deviceVars

LEMMA InvStart == Inv /\ Start => Inv'
  BY ConstantsAssumption DEF Start, Inv, TypeOK, Fresh, Queued, Served, Accounted, Waiting,
         requestVars

LEMMA InvAccept == ASSUME Inv, Accept PROVE Inv'
<1> USE DEF Accept, Inv, TypeOK, requestVars, deviceVars
<1>1. /\ Head(backlog) \in Request /\ Head(backlog) = backlog[1]
      /\ Tail(backlog) \in Seq(Request)
      /\ Len(backlog) \in Nat \ {0} /\ DOMAIN backlog = 1..Len(backlog)
      /\ DOMAIN backlog' = 1 .. Len(backlog) - 1
      /\ \A i \in 1 .. Len(backlog) - 1 : backlog'[i] = backlog[i + 1]
  BY TailFacts
<1>2. TypeOK' /\ Fresh'  BY ConstantsAssumption, <1>1 DEF Fresh
<1>3. Queued' /\ Served'  BY <1>1 DEF Queued, Served
<1>4. Accounted'
  <2> SUFFICES ASSUME NEW r \in Waiting', NEW i \in DOMAIN backlog, backlog[i] = r
               PROVE  (\E j \in DOMAIN backlog' : backlog'[j] = r) \/ r = conn'
    BY ConstantsAssumption, <1>1 DEF Accounted, Waiting
  <2>1. CASE i = 1  BY <1>1, <2>1
  <2>2. CASE i # 1
    <3>1. i - 1 \in DOMAIN backlog' /\ backlog'[i - 1] = r  BY <1>1, <2>2
    <3> QED BY <3>1
  <2> QED BY <2>1, <2>2
<1> QED BY <1>2, <1>3, <1>4

(* The executor's process ends. *)
LEMMA InvEnd ==
    ASSUME Inv, NEW closed \in SUBSET Request, End(closed),
           closed \subseteq {conn}
    PROVE  Inv'
<1> USE DEF End, Idle, Inv, TypeOK, Settle, deviceVars
<1>1. TypeOK'
  BY DEF Waiting, NoCommand, NoResult, Result
<1>2. Fresh'  BY DEF Fresh, Waiting
<1>3. Queued' /\ Served'  BY DEF Queued, Served
<1>4. Accounted'  BY DEF Accounted, Waiting
<1> QED BY <1>1, <1>2, <1>3, <1>4

LEMMA InvReceive == ASSUME Inv, Receive PROVE Inv'
<1>0. conn \in Request  BY DEF Receive, Inv, TypeOK
<1>1. CASE End({conn})  BY <1>0, <1>1, InvEnd
<1>2. CASE End({})  BY <1>2, InvEnd
<1>3. ASSUME NEW c \in Command, executor' = "received", command' = c,
             executor = "accepted",
             UNCHANGED <<requestVars, backlog, conn, result, deviceVars,
                         executed, dropped>>
      PROVE  Inv'
  BY <1>3 DEF Inv, TypeOK, Fresh, Queued, Served, Accounted, Waiting, requestVars,
     deviceVars
<1>4. CASE /\ phase[conn] = "lost"
           /\ Idle("accepting")
           /\ UNCHANGED <<requestVars, backlog, deviceVars, executed, dropped>>
  BY ConstantsAssumption, <1>0, <1>4
     DEF Idle, Inv, TypeOK, Fresh, Queued, Served, Accounted, Waiting,
     requestVars, deviceVars, NoCommand, NoResult, Result
<1> QED BY <1>1, <1>2, <1>3, <1>4 DEF Receive

(* What a command does, it does in its types. *)
LEMMA ExecuteTypes ==
    ASSUME TypeOK, Execute
    PROVE  /\ processor_initiator' \in BOOLEAN
           /\ cached' \in Value /\ device' \in Value
           /\ result' \in Result
<1> USE DEF TypeOK, NoResult, Result
<1>1. command \in Command \cup {NoCommand}  OBVIOUS
<1>2. CASE command.type = "connect" /\ Connect
  <2>1. result' \in {[rc |-> 0, value |-> None], [rc |-> -1, value |-> None]}
    BY <1>2 DEF Connect
  <2>2. result' \in Result  BY <2>1
  <2>3. /\ processor_initiator' \in BOOLEAN
        /\ cached' \in Value /\ device' \in Value
    BY ConstantsAssumption, <1>2 DEF Connect
  <2> QED BY <2>2, <2>3
<1>3. CASE command.type = "get" /\ Get  BY ConstantsAssumption, <1>3 DEF Get
<1>4. CASE command.type = "set" /\ Set(command.value)
  <2>1. command.value \in Value  BY <1>1, <1>4 DEF Command, NoCommand
  <2> QED BY <1>4, <2>1 DEF Set
<1>5. CASE result' = NoResult /\ UNCHANGED <<processor_initiator, cached, device>>
  BY <1>5
<1> QED BY <1>2, <1>3, <1>4, <1>5 DEF Execute

LEMMA InvExecute == ASSUME Inv, Execute PROVE Inv'
<1>1. /\ processor_initiator' \in BOOLEAN
      /\ cached' \in Value /\ device' \in Value
      /\ result' \in Result
  BY ExecuteTypes DEF Inv
<1>2. /\ executor = "received" /\ executor' = "executed"
      /\ executed' = executed \cup {conn}
      /\ seen' = [r \in Request |->
                     IF r \in Waiting THEN seen[r] \cup {device'} ELSE seen[r]]
      /\ UNCHANGED <<requestVars, backlog, conn, command, dropped>>
  BY DEF Execute
<1> USE DEF Inv, requestVars
<1>3. TypeOK'
  <2>1. seen' \in [Request -> SUBSET Value]  BY <1>1, <1>2 DEF TypeOK
  <2>2. conn \in Request  BY <1>2 DEF TypeOK
  <2> QED BY <1>1, <1>2, <2>1, <2>2 DEF TypeOK
<1>4. Fresh' /\ Queued' /\ Served' /\ Accounted'
  BY <1>2 DEF TypeOK, Fresh, Queued, Served, Accounted, Waiting
<1> QED BY <1>3, <1>4

LEMMA InvReply == ASSUME Inv, Reply PROVE Inv'
<1> USE DEF Reply, Answer, Idle, Inv, Settle, deviceVars
<1>1. TypeOK'
  BY DEF TypeOK, Waiting, NoCommand, NoResult, Result
<1>2. Fresh' /\ Queued' /\ Served'
  BY ConstantsAssumption DEF TypeOK, Fresh, Queued, Served, Waiting
<1>3. Accounted'  BY DEF TypeOK, Accounted, Waiting
<1> QED BY <1>1, <1>2, <1>3

LEMMA InvInterrupt == ASSUME Inv, Interrupt PROVE Inv'
<1>1. CASE End({conn} \ {None})
  <2>1. {conn} \ {None} \in SUBSET Request  BY DEF Inv, TypeOK
  <2> QED BY <1>1, <2>1, InvEnd
<1>2. CASE End({})  BY <1>2, InvEnd
<1>3. CASE /\ executor = "executed"
           /\ dropped' = dropped \cup ({conn} \cap Waiting)
           /\ Idle("accepting")
           /\ UNCHANGED <<requestVars, backlog, deviceVars, executed>>
  BY ConstantsAssumption, <1>3 DEF Idle, Inv, TypeOK, Fresh, Queued, Served, Accounted, Waiting,
     requestVars, deviceVars, NoCommand, NoResult, Result
<1> QED BY <1>1, <1>2, <1>3 DEF Interrupt

(* Every step keeps the invariant. *)
LEMMA Inductive == Inv /\ [Next]_vars => Inv'
<1>1. Inv /\ UNCHANGED vars => Inv'
  BY DEF vars, requestVars, servedVars, deviceVars, Inv, TypeOK, Fresh, Queued,
         Served, Accounted, Waiting
<1> QED BY <1>1, InvPost, InvNodeEnds, InvStart, InvAccept, InvReceive, InvExecute,
        InvReply, InvInterrupt DEF Next

(* The invariant holds. *)
THEOREM Invariance == Spec => []Inv
  BY InvInit, Inductive, PTL DEF Spec

(* Variables stay in their types. *)
THEOREM TypeCorrect == Spec => []TypeOK
<1>1. Inv => TypeOK  BY DEF Inv
<1> QED BY <1>1, Invariance, PTL

(* Whoever waits is in the backlog, being served, or was dropped. *)
THEOREM AllAccounted == Spec => []Accounted
<1>1. Inv => Accounted  BY DEF Inv
<1> QED BY <1>1, Invariance, PTL

(* Those that wait were not carried out, except the one being served and   *)
(* those that were dropped.                                                *)
LEMMA WaitingNotExecuted ==
    ASSUME Inv, NEW r \in Waiting, r \in executed
    PROVE  r \in dropped \/ (r = conn /\ executor = "executed")
  BY ConstantsAssumption DEF Inv, Accounted, Queued, Served, TypeOK, Waiting

(* The end of the executor refuses what it had not begun to carry out. *)
LEMMA EndRefuses ==
    ASSUME Inv, NEW closed \in SUBSET Request, End(closed),
           conn \in closed \/ executor # "executed",
           NEW refused \in SUBSET Request, refused = Waiting \ (dropped \cup closed)
    PROVE  Service!Refuse(refused)
<1>1. refused \cap executed = {}
  BY WaitingNotExecuted
<1>2. executed' = executed /\ Settle(refused, "failed")
  BY DEF End
<1>3. \A r \in refused : phase[r] = "waiting"
  BY DEF Waiting
<1>4. TypeOK  BY DEF Inv
<1> QED BY <1>1, <1>2, <1>3, <1>4 DEF Service!Refuse, Settle, TypeOK

(* Every step of the bridge is one of the service, or none. *)
THEOREM Refinement == Spec => ImplementsService
<1>1. Init => Service!Init
  BY DEF Init, Service!Init
<1>2. Inv /\ [Next]_vars => [Service!Next]_Service!vars
  <2> SUFFICES ASSUME Inv, [Next]_vars PROVE [Service!Next]_Service!vars
    OBVIOUS
  <2>0. TypeOK  BY DEF Inv
  <2>1. ASSUME UNCHANGED <<phase, executed>> PROVE UNCHANGED Service!vars
    BY <2>1 DEF Service!vars
  <2>2. ASSUME NEW r \in Request, Post(r) PROVE Service!Next
    <3>1. phase[r] = "new" /\ r \notin executed /\ executed' = executed
      BY <2>2 DEF Post, Inv, Fresh
    <3>2. CASE Settle({r}, "failed")
      <4>1. Service!Refuse({r})
        BY <2>0, <3>1, <3>2 DEF Service!Refuse, Settle, TypeOK
      <4> QED BY <4>1 DEF Service!Next
    <3>3. CASE Settle({r}, "waiting")
      <4>1. Service!Open(r)
        BY <2>0, <3>1, <3>3 DEF Service!Open, Service!Become, Settle, TypeOK
      <4> QED BY <4>1 DEF Service!Next
    <3> QED BY <2>2, <3>2, <3>3 DEF Post
  <2>3. CASE NodeEnds
    <3>1. Settle(Waiting, "lost") /\ executed' = executed  BY <2>3 DEF NodeEnds
    <3>2. PICK calls \in SUBSET Request : calls = Waiting  BY DEF Waiting
    <3>3. Service!Lose(calls)
      BY <2>0, <3>1, <3>2 DEF Service!Lose, Settle, TypeOK, Waiting
    <3> QED BY <3>3 DEF Service!Next
  <2>4. ASSUME NEW closed \in SUBSET Request, End(closed),
               conn \in closed \/ executor # "executed"
        PROVE  Service!Next
    <3>1. PICK calls \in SUBSET Request : calls = Waiting \ (dropped \cup closed)
      BY DEF Waiting
    <3>2. Service!Refuse(calls)  BY <2>4, <3>1, EndRefuses
    <3> QED BY <3>2 DEF Service!Next
  <2>5. CASE Start \/ Accept
    BY <2>1, <2>5 DEF Start, Accept, requestVars
  <2>6. CASE Receive
    <3>1. conn \in Request /\ executor = "accepted"
      BY <2>0, <2>6 DEF Receive, TypeOK
    <3>2. CASE End({conn})  BY <2>4, <3>1, <3>2
    <3>3. CASE End({})      BY <2>4, <3>1, <3>3
    <3>4. CASE UNCHANGED <<phase, executed>>  BY <2>1, <3>4
    <3> QED BY <2>6, <3>2, <3>3, <3>4 DEF Receive, requestVars
  <2>7. CASE Execute
    <3>1. /\ conn \in Request /\ executor = "received"
          /\ phase' = phase /\ executed' = executed \cup {conn}
      BY <2>0, <2>7 DEF Execute, TypeOK, requestVars
    <3>2. conn \notin executed /\ phase[conn] \in {"waiting", "lost"}
      BY ConstantsAssumption, <3>1 DEF Inv, Served
    <3>3. Service!Execute(conn)
      BY <3>1, <3>2 DEF Service!Execute
    <3> QED BY <3>1, <3>3 DEF Service!Next
  <2>8. CASE Reply
    <3>1. /\ conn \in Request /\ executor = "executed"
          /\ Settle({conn} \cap Waiting, "answered") /\ executed' = executed
      BY <2>0, <2>8 DEF Reply, Answer, TypeOK
    <3>2. conn \in executed  BY ConstantsAssumption, <3>1 DEF Inv, Served
    <3>3. CASE conn \in Waiting
      <4>1. PICK call \in Request : call = conn  BY <3>1
      <4>2. Service!Answer(call)
        BY <2>0, <3>1, <3>2, <3>3, <4>1
        DEF Service!Answer, Service!Become, Settle, TypeOK, Waiting
      <4> QED BY <4>2 DEF Service!Next
    <3>4. CASE conn \notin Waiting
      <4>1. phase' = phase  BY <2>0, <3>1, <3>4 DEF Settle, TypeOK
      <4> QED BY <2>1, <3>1, <4>1
    <3> QED BY <3>3, <3>4
  <2>9. CASE Interrupt
    <3>1. CASE End({conn} \ {None})
      <4>1. {conn} \ {None} \in SUBSET Request  BY <2>0 DEF TypeOK
      <4>2. conn \in {conn} \ {None} \/ executor # "executed"  BY <2>0 DEF TypeOK
      <4> QED BY <2>4, <3>1, <4>1, <4>2
    <3>2. CASE executor = "accepted" /\ End({})  BY <2>4, <3>2
    <3>3. CASE UNCHANGED <<phase, executed>>  BY <2>1, <3>3
    <3> QED BY <2>9, <3>1, <3>2, <3>3 DEF Interrupt, requestVars
  <2>10. CASE UNCHANGED vars
    BY <2>1, <2>10 DEF vars, requestVars
  <2> QED BY <2>2, <2>3, <2>5, <2>6, <2>7, <2>8, <2>9, <2>10 DEF Next
<1> QED BY <1>1, <1>2, Invariance, PTL DEF Spec, ImplementsService, Service!Spec

(* Reads.  What a get is about to answer was seen since it was posted, and *)
(* a request that is not posted has no answer yet.                         *)
Unanswered == \A r \in Request : phase[r] = "new" => answer[r] = NoResult

ResultFresh ==
    /\ executor = "executed" /\ command.type = "get" /\ conn \in Waiting
    /\ result.rc = 0 /\ result.value # None
    => result.value \in seen[conn]

Reads == Unanswered /\ ResultFresh /\ GetsAreFresh

LEMMA ReadsExecute == ASSUME Inv, Reads, Execute PROVE Reads'
<1>1. /\ executor = "received" /\ executor' = "executed"
      /\ phase' = phase /\ answer' = answer /\ conn' = conn /\ command' = command
      /\ seen' = [r \in Request |->
                     IF r \in Waiting THEN seen[r] \cup {device'} ELSE seen[r]]
  BY DEF Execute, requestVars
<1>2. Unanswered'  BY <1>1 DEF Reads, Unanswered
<1>3. GetsAreFresh'  BY <1>1 DEF Reads, GetsAreFresh
<1>4. ResultFresh'
  <2> SUFFICES ASSUME command.type = "get", conn \in Waiting,
                      result'.rc = 0, result'.value # None
               PROVE  result'.value \in seen'[conn]
    BY <1>1 DEF ResultFresh, Waiting
  <2>1. Get
    BY DEF Execute
  <2>2. result'.value = device'
    BY <2>1 DEF Get, NoResult
  <2>3. conn \in Request  BY DEF Waiting
  <2> QED BY <1>1, <2>2, <2>3
<1> QED BY <1>2, <1>3, <1>4 DEF Reads

LEMMA ReadsReply == ASSUME Inv, Reads, Reply PROVE Reads'
<1>1. /\ executor = "executed" /\ executor' = "accepting"
      /\ Settle({conn} \cap Waiting, "answered") /\ seen' = seen
      /\ answer' = [r \in Request |->
                        IF r \in {conn} \cap Waiting /\ command.type = "get"
                        THEN result ELSE answer[r]]
  BY DEF Reply, Answer, Idle, deviceVars
<1>2. Unanswered'  BY <1>1 DEF Reads, Unanswered, Settle, Waiting
<1>3. ResultFresh'  BY <1>1 DEF ResultFresh
<1>4. GetsAreFresh'  BY <1>1 DEF Reads, ResultFresh, GetsAreFresh, Waiting
<1> QED BY <1>2, <1>3, <1>4 DEF Reads

LEMMA ReadsPost ==
    ASSUME Inv, Reads, NEW r \in Request, Post(r) PROVE Reads'
<1>1. /\ phase[r] = "new" /\ answer' = answer
      /\ Settle({r}, "failed") \/ Settle({r}, "waiting")
      /\ seen' = [seen EXCEPT ![r] = {device}]
      /\ UNCHANGED servedVars
  BY DEF Post
<1>2. answer[r] = NoResult  BY <1>1 DEF Reads, Unanswered
<1>3. Unanswered'  BY <1>1 DEF Reads, Unanswered, Settle
<1>4. ResultFresh'
  <2>1. conn # r  BY ConstantsAssumption, <1>1 DEF Inv, Served
  <2> QED BY <1>1, <2>1 DEF Inv, TypeOK, Reads, ResultFresh, Settle, Waiting, servedVars
<1>5. GetsAreFresh'
  BY <1>1, <1>2 DEF Inv, TypeOK, Reads, GetsAreFresh, NoResult
<1> QED BY <1>3, <1>4, <1>5 DEF Reads

(* The other steps change neither answers nor results nor what was seen.   *)
LEMMA ReadsOther ==
    ASSUME Inv, Reads, UNCHANGED <<answer, seen>>,
           executor' # "executed" \/ (UNCHANGED servedVars /\ Waiting' \subseteq Waiting),
           \A r \in Request : phase'[r] = "new" => phase[r] = "new"
    PROVE  Reads'
  BY DEF Reads, Unanswered, ResultFresh, GetsAreFresh, servedVars

(* Every step keeps what is known of the reads. *)
LEMMA ReadsInductive == Inv /\ Reads /\ [Next]_vars => Reads'
<1> SUFFICES ASSUME Inv, Reads, [Next]_vars PROVE Reads'
  OBVIOUS
<1>1. ASSUME NEW closed, End(closed) PROVE Reads'
  BY <1>1, ReadsOther DEF End, Idle, Settle, deviceVars, Inv, TypeOK
<1>2. CASE NodeEnds
  BY <1>2, ReadsOther DEF NodeEnds, Settle, Waiting, deviceVars, Inv, TypeOK
<1>3. CASE Start  BY <1>3, ReadsOther DEF Start, requestVars
<1>4. CASE Accept  BY <1>4, ReadsOther DEF Accept, requestVars, deviceVars
<1>5. CASE Receive
  BY <1>1, <1>5, ReadsOther DEF Receive, Idle, requestVars, deviceVars
<1>6. CASE Interrupt
  BY <1>1, <1>6, ReadsOther DEF Interrupt, Idle, requestVars, deviceVars
<1>7. CASE UNCHANGED vars
  BY <1>7, ReadsOther DEF vars, requestVars, servedVars, deviceVars, Waiting
<1> QED BY <1>2, <1>3, <1>4, <1>5, <1>6, <1>7, ReadsPost, ReadsExecute, ReadsReply
        DEF Next

(* A get never answers a value the device did not have while it waited.    *)
THEOREM AllGetsAreFresh == Spec => []GetsAreFresh
<1>1. Init => Reads
  BY DEF Init, Reads, Unanswered, ResultFresh, GetsAreFresh, NoResult
<1>2. Inv /\ Reads /\ [Next]_vars => Reads'
  BY ReadsInductive
<1>3. Reads => GetsAreFresh  BY DEF Reads
<1> QED BY <1>1, <1>2, <1>3, Invariance, PTL DEF Spec

-----------------------------------------------------------------------------
(* The command server: texts and the sections that commas cut them into.   *)

Text == Seq(Server!Fragment)

(* Names, values and the words of commands are different things. *)
LEMMA Fragments ==
    /\ Server!Word \subseteq Server!Fragment
    /\ Server!Name \subseteq Server!Fragment /\ Server!Literal \subseteq Server!Fragment
    /\ \A word \in Server!Word : word \notin Server!Name /\ word \notin Server!Literal
    /\ \A name \in Server!Name : name \notin Server!Literal
    /\ Parameter \subseteq Server!Name /\ Number \subseteq Server!Literal
  BY ServerAssumption
     DEF Server!ConstantsOK, Server!Fragment, Server!Name, Server!Literal

(* The two halves of a name or a value.                                    *)
LEMMA HalvesFacts ==
    ASSUME NEW half \in Halves
    PROVE  /\ \/ half.whole \in Server!Name /\ half.begin \in Server!Name
              \/ half.whole \in Server!Literal /\ half.begin \in Server!Literal
           /\ half.end \in Server!Name \cup Server!Literal
           /\ half.begin \in Server!Fragment /\ half.end \in Server!Fragment
  BY ServerAssumption, Fragments DEF Server!ConstantsOK

LEMMA SameCardinality == \A S : Server!Cardinality(S) = Cardinality(S)
  BY DEF Server!Cardinality, Cardinality, Server!IsFiniteSet, IsFiniteSet

(* A finite set of numbers has a first, a second, ..., a last element, and *)
(* one of each rank.                                                       *)
Below(S, i) == {j \in S : j < i}

(* The elements below one are finitely many. *)
LEMMA BelowFinite ==
    ASSUME NEW S \in SUBSET Nat, IsFiniteSet(S), NEW i
    PROVE  IsFiniteSet(Below(S, i)) /\ Cardinality(Below(S, i)) \in Nat
<1>1. Below(S, i) \subseteq S
  BY DEF Below
<1> QED
  BY <1>1, FS_Subset, FS_CardinalityType

(* A greater element has more of them below it. *)
LEMMA RankGrows ==
    ASSUME NEW S \in SUBSET Nat, IsFiniteSet(S), NEW i \in S, NEW j \in S, i < j
    PROVE  Cardinality(Below(S, i)) < Cardinality(Below(S, j))
<1>0. i \in Nat /\ j \in Nat
  OBVIOUS
<1>1. Below(S, i) \subseteq Below(S, j) /\ i \in Below(S, j) /\ i \notin Below(S, i)
  <2>1. ASSUME NEW x \in Below(S, i) PROVE x \in Below(S, j)
    <3>1. x \in S /\ x < i /\ x \in Nat
      BY DEF Below
    <3> QED
      BY <1>0, <3>1 DEF Below
  <2>2. i \in Below(S, j) /\ i \notin Below(S, i)
    BY <1>0 DEF Below
  <2> QED
    BY <2>1, <2>2
<1>2. /\ Cardinality(Below(S, i)) <= Cardinality(Below(S, j))
      /\ Cardinality(Below(S, i)) = Cardinality(Below(S, j)) => Below(S, i) = Below(S, j)
  BY <1>1, BelowFinite, FS_Subset
<1> QED
  BY <1>1, <1>2, BelowFinite

(* Elements of the same rank are the same. *)
LEMMA RankIsUnique ==
    ASSUME NEW S \in SUBSET Nat, IsFiniteSet(S), NEW i \in S, NEW j \in S,
           Cardinality(Below(S, i)) = Cardinality(Below(S, j))
    PROVE  i = j
<1>1. i \in Nat /\ j \in Nat /\ Cardinality(Below(S, i)) \in Nat
  BY BelowFinite
<1>2. ~(i < j) /\ ~(j < i)
  BY <1>1, RankGrows
<1> QED
  BY <1>1, <1>2

(* What follows an element next has the next rank. *)
LEMMA RankOfNext ==
    ASSUME NEW S \in SUBSET Nat, IsFiniteSet(S), NEW i \in S, NEW j \in S, i < j,
           \A k \in S : k < j => k <= i
    PROVE  Cardinality(Below(S, j)) = Cardinality(Below(S, i)) + 1
<1>0. i \in Nat /\ j \in Nat
  OBVIOUS
<1>1. Below(S, j) = Below(S, i) \cup {i} /\ i \notin Below(S, i)
  <2>1. ASSUME NEW x PROVE x \in Below(S, j) <=> x \in Below(S, i) \cup {i}
    <3>1. CASE x \in S
      <4>1. x \in Nat /\ (x < j => x <= i)
        BY <3>1
      <4> QED
        BY <1>0, <3>1, <4>1 DEF Below
    <3> QED
      BY <3>1 DEF Below
  <2>2. i \notin Below(S, i)
    BY <1>0 DEF Below
  <2> QED
    BY <2>1, <2>2
<1> QED
  BY <1>1, BelowFinite, FS_AddElement

(* Every rank is the rank of an element: take the least element that has   *)
(* at least so many below it.                                              *)
LEMMA Ranked ==
    ASSUME NEW S \in SUBSET Nat, IsFiniteSet(S), NEW k \in 1..Cardinality(S)
    PROVE  \E i \in S : Cardinality(Below(S, i)) = k - 1
<1> DEFINE T == {n \in 0..Cardinality(S) - 1 : \E i \in S : Cardinality(Below(S, i)) = n}
           N == Cardinality(S) - 1
<1>1. Cardinality(S) \in Nat /\ Cardinality(S) >= 1 /\ N \in Nat
  BY FS_CardinalityType
<1>2. 0 \in T
  <2>1. S # {}
    BY <1>1, FS_EmptySet
  <2>2. PICK i \in S : \A m \in S : i <= m
    BY <2>1, Least
  <2>3. Below(S, i) = {}
    <3>1. ASSUME NEW x \in Below(S, i) PROVE FALSE
      <4>1. x \in S /\ x \in Nat /\ i \in Nat /\ x < i
        BY DEF Below
      <4> QED
        BY <2>2, <4>1
    <3> QED
      BY <3>1
  <2>4. Cardinality(Below(S, i)) = 0
    BY <2>3, FS_EmptySet
  <2> QED
    BY <1>1, <2>4
<1>3. ASSUME NEW n \in 0..N-1, n \in T PROVE n+1 \in T
  <2>1. PICK i \in S : Cardinality(Below(S, i)) = n
    BY <1>3
  <2> DEFINE U == {j \in S : j > i}
  <2>2. U # {}
    <3>1. SUFFICES ASSUME U = {} PROVE FALSE
      OBVIOUS
    <3>2. S = Below(S, i) \cup {i} /\ i \notin Below(S, i)
      <4>1. ASSUME NEW x \in S PROVE x \in Below(S, i) \cup {i}
        <5>1. x \in Nat /\ i \in Nat /\ ~(x > i)
          BY <3>1
        <5> QED
          BY <5>1 DEF Below
      <4>2. Below(S, i) \subseteq S /\ i \notin Below(S, i)
        <5>1. i \in Nat
          OBVIOUS
        <5> QED
          BY <5>1 DEF Below
      <4> QED
        BY <4>1, <4>2
    <3>3. Cardinality(S) = n + 1
      BY <2>1, <3>2, BelowFinite, FS_AddElement
    <3> QED
      BY <3>3, <1>1
  <2>3. PICK j \in U : \A m \in U : j <= m
    BY <2>2, Least
  <2>4. Cardinality(Below(S, j)) = n + 1
    BY <2>1, <2>3, RankOfNext
  <2> QED
    BY <1>1, <2>4
<1>4. 0..N \subseteq T
  <2> HIDE DEF T, N
  <2> QED
    BY <1>1, <1>2, <1>3, InductionUpTo
<1>5. k - 1 \in 0..N
  BY <1>1
<1> QED
  BY <1>4, <1>5

(* A text is a sequence of fragments. *)
LEMMA TextFacts ==
    ASSUME NEW text \in Text
    PROVE  /\ Len(text) \in Nat
           /\ text = <<>> <=> Len(text) = 0
           /\ \A i \in 1..Len(text) : text[i] \in Server!Fragment
  BY DEF Text

(* A part of a text, which may be empty. *)
LEMMA Part ==
    ASSUME NEW text \in Text, NEW m \in 1..Len(text) + 1, NEW n \in m - 1 .. Len(text)
    PROVE  /\ SubSeq(text, m, n) \in Text
           /\ Len(SubSeq(text, m, n)) = n - m + 1
           /\ \A i \in 1..n - m + 1 : SubSeq(text, m, n)[i] = text[m + i - 1]
  BY DEF Text

(* A text behind another. *)
LEMMA Joined ==
    ASSUME NEW text \in Text, NEW more \in Text
    PROVE  /\ text \o more \in Text
           /\ Len(text \o more) = Len(text) + Len(more)
           /\ \A i \in 1..Len(text) : (text \o more)[i] = text[i]
           /\ \A i \in 1..Len(more) : (text \o more)[Len(text) + i] = more[i]
  BY DEF Text

(* What is left of an item that does not begin with the end of a line. *)
LEMMA StripBegin ==
    ASSUME NEW item \in Text, item # <<>>, item[1] # "newline"
    PROVE  LET n == IF item[Len(item)] = "newline" THEN Len(item) - 1 ELSE Len(item)
           IN  /\ n \in 1..Len(item)
               /\ Server!Strip(item) \in Text
               /\ Len(Server!Strip(item)) = n
               /\ Server!Strip(item)[1] = item[1]
<1> DEFINE n == IF item[Len(item)] = "newline" THEN Len(item) - 1 ELSE Len(item)
<1>1. Len(item) \in Nat /\ Len(item) > 0
  BY TextFacts
<1>2. n \in 1..Len(item)
  BY <1>1
<1>3. Server!Strip(item) = SubSeq(item, 1, n)
  BY <1>1 DEF Server!Strip
<1> HIDE DEF n
<1>4. /\ SubSeq(item, 1, n) \in Text
      /\ Len(SubSeq(item, 1, n)) = n
      /\ SubSeq(item, 1, n)[1] = item[1]
  BY <1>1, <1>2, Part
<1> QED
  BY <1>2, <1>3, <1>4 DEF n

(* Something is left of an item that ends with anything else. *)
LEMMA StripEnd ==
    ASSUME NEW item \in Text, item # <<>>, item[Len(item)] # "newline"
    PROVE  Server!Strip(item) # <<>>
<1>1. Len(item) \in Nat /\ Len(item) > 0
  BY TextFacts
<1>2. CASE item[1] # "newline"
  <2>1. Server!Strip(item) \in Text /\ Len(Server!Strip(item)) = Len(item)
    BY <1>2, StripBegin
  <2> QED
    BY <1>1, <2>1, TextFacts
<1>3. CASE item[1] = "newline"
  <2>1. Len(item) > 1
    BY <1>1, <1>3
  <2>2. Server!Strip(item) = SubSeq(item, 2, Len(item))
    BY <1>1, <1>3 DEF Server!Strip
  <2>3. SubSeq(item, 2, Len(item)) \in Text /\ Len(SubSeq(item, 2, Len(item))) # 0
    <3>1. 2 \in 1..Len(item) + 1 /\ Len(item) \in 1..Len(item)
      BY <1>1, <2>1
    <3> QED
      BY <1>1, <3>1, <2>1, Part
  <2>4. Server!Strip(item) \in Text /\ Len(Server!Strip(item)) # 0
    BY <2>2, <2>3
  <2> QED
    BY <2>4, TextFacts
<1> QED
  BY <1>2, <1>3

LEMMA StripNothing == Server!Strip(<<>>) = <<>>
<1>1. Len(<<>>) = 0
  OBVIOUS
<1>2. Server!Strip(<<>>) = SubSeq(<<>>, 1, 0)
  BY <1>1 DEF Server!Strip
<1>3. SubSeq(<<>>, 1, 0) = <<>>
  BY SubSeqEmpty
<1> QED
  BY <1>2, <1>3

(* A text of one fragment. *)
LEMMA OneFragment ==
    ASSUME NEW text \in Text, Len(text) = 1
    PROVE  text = <<text[1]>>
<1>0. 1 \in 1..Len(text)
  OBVIOUS
<1>1. text[1] \in Server!Fragment
  BY <1>0, TextFacts
<1>2. <<text[1]>> \in Text /\ Len(<<text[1]>>) = 1 /\ <<text[1]>>[1] = text[1]
  BY <1>1 DEF Text
<1> QED
  BY <1>2, SeqEqual DEF Text

(* Where items may begin and end, and what is between. *)
LEMMA BoundsFacts ==
    ASSUME NEW text \in Text
    PROVE  /\ \A i \in Server!Bounds(text) : i \in 0..Len(text) + 1
           /\ 0 \in Server!Bounds(text) /\ Len(text) + 1 \in Server!Bounds(text)
           /\ \A i \in Server!Bounds(text) :
                 i = 0 \/ i = Len(text) + 1 \/ (i \in 1..Len(text) /\ text[i] = "comma")
           /\ \A i \in 1..Len(text) : text[i] = "comma" => i \in Server!Bounds(text)
<1>1. Len(text) \in Nat
  BY TextFacts
<1>2. ASSUME NEW i \in Server!Bounds(text)
      PROVE  /\ i \in 0..Len(text) + 1
             /\ i = 0 \/ i = Len(text) + 1 \/ (i \in 1..Len(text) /\ text[i] = "comma")
  <2>1. i = 0 \/ i = Len(text) + 1 \/ (i \in 1..Len(text) /\ text[i] = "comma")
    BY DEF Server!Bounds
  <2>2. i = 0 \/ i = Len(text) + 1 \/ i \in 1..Len(text)
    BY <2>1
  <2>3. i \in 0..Len(text) + 1
    BY <1>1, <2>2
  <2> QED
    BY <2>1, <2>3, Zenon
<1>3. /\ 0 \in Server!Bounds(text) /\ Len(text) + 1 \in Server!Bounds(text)
      /\ \A i \in 1..Len(text) : text[i] = "comma" => i \in Server!Bounds(text)
  BY DEF Server!Bounds
<1> QED
  BY <1>2, <1>3

IsNext(text, i, j) ==
    j \in Server!Bounds(text) /\ i < j /\ \A k \in Server!Bounds(text) : i < k => j <= k

(* Every bound but the end has a next one. *)
LEMMA Follower ==
    ASSUME NEW text \in Text, NEW i \in Server!Bounds(text), i # Len(text) + 1
    PROVE  \E j : IsNext(text, i, j)
<1> DEFINE T == {j \in Server!Bounds(text) : i < j}
<1>1. Len(text) \in Nat /\ i \in 0..Len(text) /\ Len(text) + 1 \in T
  <2>1. Len(text) \in Nat
    BY TextFacts
  <2>2. i \in 0..Len(text) + 1 /\ Len(text) + 1 \in Server!Bounds(text)
    BY BoundsFacts
  <2> QED
    BY <2>1, <2>2
<1>2. T \subseteq Nat
  <2>1. ASSUME NEW k \in T PROVE k \in Nat
    <3>1. k \in 0..Len(text) + 1
      BY BoundsFacts
    <3> QED
      BY <1>1, <3>1
  <2> QED
    BY <2>1
<1>3. PICK j \in T : \A k \in T : j <= k
  <2> HIDE DEF T
  <2> QED
    BY <1>1, <1>2, Least
<1> QED
  BY <1>3 DEF IsNext

(* An item is what is between a bound and the next. *)
LEMMA ItemBetween ==
    ASSUME NEW text \in Text, NEW i \in Server!Bounds(text), NEW j, IsNext(text, i, j)
    PROVE  /\ i \in 0..Len(text) /\ j \in i + 1..Len(text) + 1
           /\ Server!Item(text, i) = Server!Strip(SubSeq(text, i + 1, j - 1))
           /\ SubSeq(text, i + 1, j - 1) \in Text
           /\ Len(SubSeq(text, i + 1, j - 1)) = j - 1 - i
           /\ \A k \in 1..j - 1 - i : SubSeq(text, i + 1, j - 1)[k] = text[i + k]
           /\ \A k \in i + 1..j - 1 : text[k] # "comma"
           /\ j = Len(text) + 1 \/ text[j] = "comma"
<1>1. Len(text) \in Nat
  BY TextFacts
<1>2. i \in 0..Len(text) + 1 /\ j \in 0..Len(text) + 1 /\ i < j
  BY BoundsFacts DEF IsNext
<1>3. i \in 0..Len(text) /\ j \in i + 1..Len(text) + 1
  BY <1>1, <1>2
<1>4. Server!Min({k \in Server!Bounds(text) : k > i}) = j
  <2> DEFINE T == {k \in Server!Bounds(text) : k > i}
  <2>1. j \in T /\ \A k \in T : j <= k
    BY <1>1, <1>2, BoundsFacts DEF IsNext
  <2>2. \A k \in T : k \in Nat
    <3>1. \A k \in T : k \in 0..Len(text) + 1
      BY BoundsFacts
    <3> QED
      BY <1>1, <3>1
  <2>3. \A m \in T : (\A k \in T : m <= k) => m = j
    <3> HIDE DEF T
    <3> QED
      BY <2>1, <2>2
  <2> HIDE DEF T
  <2>4. Server!Min(T) = j
    BY <2>1, <2>3 DEF Server!Min
  <2> QED
    BY <2>4 DEF T
<1>5. Server!Item(text, i) = Server!Strip(SubSeq(text, i + 1, j - 1))
  BY <1>4 DEF Server!Item
<1>6. /\ SubSeq(text, i + 1, j - 1) \in Text
      /\ Len(SubSeq(text, i + 1, j - 1)) = j - 1 - i
      /\ \A k \in 1..j - 1 - i : SubSeq(text, i + 1, j - 1)[k] = text[i + k]
  <2> DEFINE m == i + 1
             n == j - 1
  <2>1. m \in 1..Len(text) + 1 /\ n \in m - 1..Len(text) /\ n - m + 1 = j - 1 - i
    BY <1>1, <1>3
  <2>2. \A k \in 1..n - m + 1 : m + k - 1 = i + k
    BY <1>1, <1>3
  <2> HIDE DEF m, n
  <2>3. /\ SubSeq(text, m, n) \in Text
        /\ Len(SubSeq(text, m, n)) = n - m + 1
        /\ \A k \in 1..n - m + 1 : SubSeq(text, m, n)[k] = text[m + k - 1]
    BY <2>1, Part
  <2>4. /\ SubSeq(text, m, n) \in Text
        /\ Len(SubSeq(text, m, n)) = j - 1 - i
        /\ \A k \in 1..j - 1 - i : SubSeq(text, m, n)[k] = text[i + k]
    BY <2>1, <2>2, <2>3
  <2> QED
    BY <2>4 DEF m, n
<1>7. ASSUME NEW k \in i + 1..j - 1 PROVE text[k] # "comma"
  <2>1. k \in 1..Len(text) /\ i < k /\ ~(j <= k)
    BY <1>1, <1>3
  <2> QED
    BY <2>1, BoundsFacts DEF IsNext
<1>8. j = Len(text) + 1 \/ text[j] = "comma"
  <2>1. j \in Server!Bounds(text) /\ j # 0
    BY <1>2, <1>3 DEF IsNext
  <2> QED
    BY <2>1, BoundsFacts
<1> QED
  BY <1>3, <1>5, <1>6, <1>7, <1>8

(* Where items begin that are not empty. *)
LEMMA BeginsFacts ==
    ASSUME NEW text \in Text
    PROVE  /\ Server!Begins(text) \in SUBSET Nat
           /\ IsFiniteSet(Server!Begins(text))
           /\ \A i \in Server!Begins(text) :
                 i \in Server!Bounds(text) /\ i \in 0..Len(text) /\ Server!Item(text, i) # <<>>
           /\ \A i \in Server!Bounds(text) :
                 i # Len(text) + 1 /\ Server!Item(text, i) # <<>> => i \in Server!Begins(text)
<1>1. Len(text) \in Nat
  BY TextFacts
<1>2. ASSUME NEW i \in Server!Begins(text)
      PROVE  i \in Server!Bounds(text) /\ i \in 0..Len(text) /\ Server!Item(text, i) # <<>>
  <2>1. i \in Server!Bounds(text) /\ i # Len(text) + 1 /\ Server!Item(text, i) # <<>>
    BY DEF Server!Begins
  <2>2. i \in 0..Len(text) + 1
    BY <2>1, BoundsFacts
  <2> QED
    BY <1>1, <2>1, <2>2
<1>3. Server!Begins(text) \in SUBSET (0..Len(text))
  BY <1>2
<1>4. IsFiniteSet(0..Len(text))
  BY <1>1, FS_Interval
<1>5. IsFiniteSet(Server!Begins(text))
  BY <1>3, <1>4, FS_Subset
<1>6. Server!Begins(text) \in SUBSET Nat
  BY <1>1, <1>2
<1>7. \A i \in Server!Bounds(text) :
         i # Len(text) + 1 /\ Server!Item(text, i) # <<>> => i \in Server!Begins(text)
  BY DEF Server!Begins
<1> QED
  BY <1>2, <1>5, <1>6, <1>7

(* The k-th section is the item that begins with k - 1 others before it. *)
Rank(text, i) == Cardinality(Below(Server!Begins(text), i))

LEMMA SectionAt ==
    ASSUME NEW text \in Text, NEW k \in 1..Cardinality(Server!Begins(text)),
           NEW i \in Server!Begins(text), Rank(text, i) = k - 1
    PROVE  Server!Sections(text)[k] = Server!Item(text, i)
<1> DEFINE B == Server!Begins(text)
<1>1. B \in SUBSET Nat /\ IsFiniteSet(B)
  BY BeginsFacts
<1>2. \A m \in B : Cardinality(Below(B, m)) = k - 1 => m = i
  <2> HIDE DEF B
  <2>1. Cardinality(Below(B, i)) = k - 1 /\ i \in B
    BY DEF Rank, B
  <2> QED
    BY <1>1, <2>1, RankIsUnique
<1>3. (CHOOSE m \in B : Cardinality(Below(B, m)) = k - 1) = i
  BY <1>2 DEF Rank
<1>4. Server!Sections(text)[k]
         = Server!Item(text, CHOOSE m \in B : Cardinality(Below(B, m)) = k - 1)
  BY SameCardinality DEF Server!Sections, Below
<1> QED
  BY <1>3, <1>4

(* Every section is one of them. *)
LEMMA SectionsFacts ==
    ASSUME NEW text \in Text
    PROVE  /\ Len(Server!Sections(text)) = Cardinality(Server!Begins(text))
           /\ Cardinality(Server!Begins(text)) \in Nat
           /\ \A k \in 1..Len(Server!Sections(text)) :
                 \E i \in Server!Begins(text) :
                    Rank(text, i) = k - 1 /\ Server!Sections(text)[k] = Server!Item(text, i)
<1> DEFINE B == Server!Begins(text)
<1>1. B \in SUBSET Nat /\ IsFiniteSet(B) /\ Cardinality(B) \in Nat
  BY BeginsFacts, FS_CardinalityType
<1>2. Len(Server!Sections(text)) = Cardinality(B)
  BY <1>1, SameCardinality DEF Server!Sections
<1>3. ASSUME NEW k \in 1..Cardinality(B)
      PROVE  \E i \in B : Rank(text, i) = k - 1 /\ Server!Sections(text)[k] = Server!Item(text, i)
  <2>1. PICK i \in B : Cardinality(Below(B, i)) = k - 1
    <3> HIDE DEF B
    <3> QED
      BY <1>1, Ranked
  <2>2. Rank(text, i) = k - 1
    BY <2>1 DEF Rank
  <2> QED
    BY <2>2, SectionAt
<1> QED
  BY <1>1, <1>2, <1>3

(* Texts as TCP cuts and joins the lines of a client: what can follow what.*)
(* A name that a comma follows is that of a set, with a number next, and   *)
(* the client asked for it.                                                *)
HeadWord == {"CON", "DIS", "SET_", "GET_"}

Composed(text, asked) ==
    /\ \A i \in 2..Len(text) : text[i] \in Server!Name => text[i-1] = "comma"
    /\ \A i \in 3..Len(text) :
          text[i] \in Server!Name => text[i-2] \in {"PARAMETER", "_IN_DEVICE", "_FROM_DEVICE"}
    /\ \A i \in 1..Len(text) - 1 :
          text[i] \in Server!Name \cup Server!Literal => text[i+1] \in {"comma", "newline"}
    /\ \A i \in 2..Len(text) - 1 : text[i] \in Server!Literal => text[i+1] = "newline"
    /\ \A i \in 1..Len(text) - 1 : text[i] = "newline" => text[i+1] \in HeadWord
    /\ \A i \in 1..Len(text) - 1 : text[i] = "comma" => text[i+1] \in Server!Name \cup Server!Literal
    /\ \A i \in 1..Len(text) - 1 : text[i] = "_IN_DEVICE" => text[i+1] = "comma"
    /\ \A i \in 3..Len(text) - 2 :
          /\ text[i] \in Server!Name /\ text[i+1] = "comma" /\ text[i-2] = "PARAMETER"
             => Server!Set(Server!SET_PARAMETER, text[i], text[i+2]) \in asked
          /\ text[i] \in Server!Name /\ text[i+1] = "comma" /\ text[i-2] = "_IN_DEVICE"
             => Server!Set(Server!SET_PARAMETER_IN_DEVICE, text[i], text[i+2]) \in asked

(* After a comma comes an argument. *)
LEMMA AfterComma ==
    ASSUME NEW text \in Text, NEW asked, Composed(text, asked),
           NEW i \in 1..Len(text) - 1, text[i] = "comma"
    PROVE  /\ text[i+1] \in Server!Name \cup Server!Literal
           /\ text[i+1] # "comma" /\ text[i+1] # "newline"
<1>1. text[i+1] \in Server!Name \cup Server!Literal
  BY DEF Composed
<1>2. "comma" \in Server!Word /\ "newline" \in Server!Word
  BY DEF Server!Word
<1> QED
  BY <1>1, <1>2, Fragments

(* What an argument begins with, if that is not the end of a line. *)
LEMMA ItemAfter ==
    ASSUME NEW text \in Text, NEW i \in Server!Bounds(text), i < Len(text),
           text[i+1] # "comma", text[i+1] # "newline", NEW j, IsNext(text, i, j)
    PROVE  /\ j \in i + 2..Len(text) + 1
           /\ Server!Item(text, i) \in Text /\ Server!Item(text, i) # <<>>
           /\ Server!Item(text, i)[1] = text[i+1]
           /\ Len(Server!Item(text, i)) = IF text[j-1] = "newline" THEN j - 2 - i ELSE j - 1 - i
<1> DEFINE item == SubSeq(text, i + 1, j - 1)
<1>1. Len(text) \in Nat
  BY TextFacts
<1>2. /\ i \in 0..Len(text) /\ j \in i + 1..Len(text) + 1
      /\ Server!Item(text, i) = Server!Strip(item)
      /\ item \in Text /\ Len(item) = j - 1 - i
      /\ \A k \in 1..j - 1 - i : item[k] = text[i + k]
      /\ j = Len(text) + 1 \/ text[j] = "comma"
  BY ItemBetween
<1> HIDE DEF item
<1>3. j # i + 1
  BY <1>1, <1>2
<1>4. j \in i + 2..Len(text) + 1
  BY <1>1, <1>2, <1>3
<1>5. 1 \in 1..j - 1 - i /\ j - 1 - i \in 1..j - 1 - i /\ i + (j - 1 - i) = j - 1
  BY <1>1, <1>2, <1>4
<1>6. item[1] = text[i+1] /\ item[Len(item)] = text[j-1] /\ Len(item) # 0
  BY <1>2, <1>5
<1>7. item # <<>> /\ item[1] # "newline"
  BY <1>2, <1>6, TextFacts
<1>8. /\ Server!Strip(item) \in Text
      /\ Len(Server!Strip(item)) \in 1..Len(item)
      /\ Len(Server!Strip(item))
           = IF item[Len(item)] = "newline" THEN Len(item) - 1 ELSE Len(item)
      /\ Server!Strip(item)[1] = item[1]
  BY <1>2, <1>7, StripBegin
<1>9. Server!Strip(item) # <<>>
  <2>1. Len(Server!Strip(item)) # 0
    BY <1>8
  <2> QED
    BY <1>8, <2>1, TextFacts
<1>10. Len(Server!Strip(item)) = IF text[j-1] = "newline" THEN j - 2 - i ELSE j - 1 - i
  BY <1>1, <1>2, <1>6, <1>8
<1> QED
  BY <1>2, <1>4, <1>6, <1>8, <1>9, <1>10

(* Every comma begins an item, for an argument follows it. *)
LEMMA CommaBegins ==
    ASSUME NEW text \in Text, NEW asked, Composed(text, asked),
           NEW i \in 1..Len(text) - 1, text[i] = "comma"
    PROVE  i \in Server!Begins(text)
<1>1. Len(text) \in Nat /\ i \in 1..Len(text) /\ i < Len(text) /\ i # Len(text) + 1
  BY TextFacts
<1>2. i \in Server!Bounds(text)
  BY <1>1, BoundsFacts
<1>3. PICK j : IsNext(text, i, j)
  BY <1>1, <1>2, Follower
<1>4. Server!Item(text, i) # <<>>
  BY <1>1, <1>2, <1>3, AfterComma, ItemAfter
<1> QED
  BY <1>1, <1>2, <1>4, BeginsFacts

(* An item ends before a comma if there is something that is not a comma   *)
(* or the end of a line.                                                   *)
LEMMA BeginsBefore ==
    ASSUME NEW text \in Text, NEW c \in 2..Len(text), text[c] = "comma",
           text[c-1] # "comma", text[c-1] # "newline"
    PROVE  \E i \in Server!Begins(text) : i < c
<1> DEFINE T == {n \in 1..c : c - n \in Server!Bounds(text)}
<1>1. Len(text) \in Nat /\ c \in Nat /\ c - c = 0 /\ c \in 1..c
  BY TextFacts
<1>2. c \in T
  BY <1>1, BoundsFacts
<1>3. PICK n \in T : \A m \in T : n <= m
  <2>1. T \subseteq Nat
    BY <1>1
  <2> HIDE DEF T
  <2> QED
    BY <1>2, <2>1, Least
<1> DEFINE i == c - n
<1>4. n \in 1..c /\ i \in 0..c - 1 /\ i \in Server!Bounds(text)
  BY <1>1, <1>3
<1>5. IsNext(text, i, c)
  <2>1. c \in Server!Bounds(text)
    BY <1>1, BoundsFacts
  <2>2. ASSUME NEW k \in Server!Bounds(text), i < k, ~(c <= k)
        PROVE  FALSE
    <3>1. k \in 0..Len(text) + 1
      BY BoundsFacts
    <3>2. c - k \in 1..c /\ c - (c - k) = k /\ c - k < n
      BY <1>1, <1>4, <2>2, <3>1
    <3>3. c - k \in T
      BY <3>2
    <3>4. n <= c - k
      BY <1>3, <3>3
    <3> QED
      BY <1>1, <1>4, <3>1, <3>2, <3>4
  <2> QED
    BY <1>1, <1>4, <2>1, <2>2 DEF IsNext
<1> HIDE DEF i
<1>6. i # c - 1
  <2>1. SUFFICES ASSUME i = c - 1 PROVE FALSE
    OBVIOUS
  <2>2. i \in 1..Len(text) /\ i # 0 /\ i # Len(text) + 1
    BY <1>1, <2>1
  <2>3. text[i] = "comma"
    BY <1>4, <2>2, BoundsFacts
  <2> QED
    BY <2>1, <2>3
<1> DEFINE item == SubSeq(text, i + 1, c - 1)
<1>7. /\ Server!Item(text, i) = Server!Strip(item)
      /\ item \in Text /\ Len(item) = c - 1 - i
      /\ \A k \in 1..c - 1 - i : item[k] = text[i + k]
  BY <1>4, <1>5, ItemBetween
<1> HIDE DEF item
<1>8. c - 1 - i \in 1..c - 1 - i /\ i + (c - 1 - i) = c - 1
  BY <1>1, <1>4, <1>6
<1>9. item[Len(item)] = text[c-1] /\ Len(item) # 0
  BY <1>7, <1>8
<1>10. Server!Item(text, i) # <<>>
  BY <1>7, <1>9, TextFacts, StripEnd
<1>11. i # Len(text) + 1 /\ i < c
  BY <1>1, <1>4
<1> QED
  BY <1>4, <1>10, <1>11, BeginsFacts

(* An item after another has a greater rank. *)
LEMMA RankGrowsWith ==
    ASSUME NEW text \in Text, NEW i \in Server!Begins(text), NEW j \in Server!Begins(text), i < j
    PROVE  Rank(text, i) \in Nat /\ Rank(text, j) \in Nat /\ Rank(text, i) < Rank(text, j)
<1>1. Server!Begins(text) \in SUBSET Nat /\ IsFiniteSet(Server!Begins(text))
  BY BeginsFacts
<1> QED
  BY <1>1, BelowFinite, RankGrows DEF Rank

(* A text whose second and third section are a name and a number has them  *)
(* next to each other, ends with them, and has no line before them with an *)
(* argument of its own.                                                    *)
Arguments(text, name, number, p) ==
    /\ p \in 3..Len(text) - 2
    /\ text[p-1] = "comma" /\ text[p] = name
    /\ text[p+1] = "comma" /\ text[p+2] = number
    /\ Len(text) = p + 2 \/ (Len(text) = p + 3 /\ text[p+3] = "newline")
    /\ \A c \in 2..p-2 : text[c] = "comma" => text[c-1] \in {"comma", "newline"}

LEMMA SectionsAreArguments ==
    ASSUME NEW text \in Text, NEW asked, Composed(text, asked),
           Len(Server!Sections(text)) >= 3,
           NEW name \in Server!Name, NEW number \in Server!Literal,
           Server!Sections(text)[2] = <<name>>, Server!Sections(text)[3] = <<number>>
    PROVE  \E p : Arguments(text, name, number, p)
<1> DEFINE B == Server!Begins(text)
<1>1. Len(text) \in Nat /\ Len(Server!Sections(text)) \in Nat
  BY TextFacts, SectionsFacts
<1>2. PICK i \in B : Rank(text, i) = 1 /\ Server!Item(text, i) = <<name>>
  <2>1. 2 \in 1..Len(Server!Sections(text))
    BY <1>1
  <2>2. PICK i \in B : Rank(text, i) = 2 - 1 /\ Server!Sections(text)[2] = Server!Item(text, i)
    BY <2>1, SectionsFacts
  <2>3. Rank(text, i) = 1
    BY <2>2
  <2> QED
    BY <2>2, <2>3, Zenon
<1>3. PICK j \in B : Rank(text, j) = 2 /\ Server!Item(text, j) = <<number>>
  <2>1. 3 \in 1..Len(Server!Sections(text))
    BY <1>1
  <2>2. PICK j \in B : Rank(text, j) = 3 - 1 /\ Server!Sections(text)[3] = Server!Item(text, j)
    BY <2>1, SectionsFacts
  <2>3. Rank(text, j) = 2
    BY <2>2
  <2> QED
    BY <2>2, <2>3, Zenon
<1>4. /\ i \in Server!Bounds(text) /\ i \in 0..Len(text)
      /\ j \in Server!Bounds(text) /\ j \in 0..Len(text)
  BY BeginsFacts
<1>5. i < j
  BY <1>1, <1>2, <1>3, <1>4, RankGrowsWith
<1>6. i # 0
  <2>1. SUFFICES ASSUME i = 0 PROVE FALSE
    OBVIOUS
  <2>2. ASSUME NEW m \in Below(B, i) PROVE FALSE
    <3>1. m \in B /\ m < i
      BY DEF Below
    <3>2. m \in 0..Len(text)
      BY <3>1, BeginsFacts
    <3> QED
      BY <1>1, <2>1, <3>1, <3>2
  <2>3. Below(B, i) = {}
    BY <2>2
  <2>4. Rank(text, i) = 0
    BY <2>3, FS_EmptySet DEF Rank
  <2> QED
    BY <1>2, <2>4
<1>7. i \in 1..Len(text) - 1 /\ i # Len(text) + 1 /\ text[i] = "comma" /\ i < Len(text)
  <2>1. i \in 1..Len(text) - 1 /\ i # Len(text) + 1 /\ i < Len(text)
    BY <1>1, <1>4, <1>5, <1>6
  <2> QED
    BY <1>4, <1>6, <2>1, BoundsFacts
<1>8. /\ text[i+1] \in Server!Name \cup Server!Literal
      /\ text[i+1] # "comma" /\ text[i+1] # "newline"
  BY <1>7, AfterComma
<1>9. PICK e : IsNext(text, i, e)
  BY <1>4, <1>7, Follower
<1>10. /\ e \in i + 2..Len(text) + 1
       /\ text[i+1] = name
       /\ IF text[e-1] = "newline" THEN e - 2 - i = 1 ELSE e - 1 - i = 1
  <2>1. /\ e \in i + 2..Len(text) + 1
        /\ Server!Item(text, i)[1] = text[i+1]
        /\ Len(Server!Item(text, i)) = IF text[e-1] = "newline" THEN e - 2 - i ELSE e - 1 - i
    BY <1>4, <1>7, <1>8, <1>9, ItemAfter
  <2>2. <<name>>[1] = name /\ Len(<<name>>) = 1
    OBVIOUS
  <2> QED
    BY <1>2, <2>1, <2>2
<1>11. e <= j /\ e \in 1..Len(text) /\ e \in Server!Bounds(text)
  <2>1. e <= j /\ e \in Server!Bounds(text)
    BY <1>4, <1>5, <1>9 DEF IsNext
  <2> QED
    BY <1>1, <1>4, <1>10, <2>1
<1>12. text[e] = "comma"
  <2>1. e # 0 /\ e # Len(text) + 1
    BY <1>1, <1>11
  <2> QED
    BY <1>11, <2>1, BoundsFacts
<1>13. e = i + 2
  <2>1. SUFFICES ASSUME text[e-1] = "newline" PROVE FALSE
    BY <1>1, <1>4, <1>10
  <2>2. e - 1 \in 1..Len(text) - 1 /\ (e - 1) + 1 = e
    BY <1>1, <1>4, <1>10, <1>11
  <2>3. text[e] \in HeadWord
    BY <2>1, <2>2 DEF Composed
  <2> QED
    BY <1>12, <2>3 DEF HeadWord
<1>14. j = e
  <2>1. SUFFICES ASSUME e < j PROVE FALSE
    BY <1>1, <1>4, <1>11
  <2>2. e \in 1..Len(text) - 1
    BY <1>1, <1>4, <1>11, <2>1
  <2>3. e \in B
    BY <1>12, <2>2, CommaBegins
  <2>4. i < e
    BY <1>4, <1>13
  <2> QED
    BY <1>2, <1>3, <2>1, <2>3, <2>4, RankGrowsWith
<1> DEFINE p == i + 1
<1>15. j = p + 1 /\ j # Len(text) + 1 /\ p \in 2..Len(text)
  BY <1>1, <1>4, <1>7, <1>13, <1>14
<1>16. PICK f : IsNext(text, j, f)
  BY <1>4, <1>15, Follower
<1>17. j < Len(text)
  <2>1. SUFFICES ASSUME j = Len(text) PROVE FALSE
    BY <1>1, <1>4
  <2>2. f = j + 1
    BY <1>1, <1>4, <1>16, <2>1, ItemBetween
  <2>3. SubSeq(text, j + 1, f - 1) = <<>>
    BY <1>1, <1>4, <2>2, SubSeqEmpty
  <2>4. Server!Item(text, j) = Server!Strip(SubSeq(text, j + 1, f - 1))
    BY <1>4, <1>16, ItemBetween
  <2>5. Server!Item(text, j) = <<>>
    BY <2>3, <2>4, StripNothing
  <2> QED
    BY <2>5, BeginsFacts
<1>18. j \in 1..Len(text) - 1 /\ text[j] = "comma" /\ j + 1 = p + 2
  BY <1>1, <1>11, <1>12, <1>14, <1>15, <1>17
<1>19. text[j+1] # "comma" /\ text[j+1] # "newline"
  BY <1>18, AfterComma
<1>20. /\ f \in j + 2..Len(text) + 1
       /\ text[j+1] = number
       /\ IF text[f-1] = "newline" THEN f - 2 - j = 1 ELSE f - 1 - j = 1
  <2>1. /\ f \in j + 2..Len(text) + 1
        /\ Server!Item(text, j)[1] = text[j+1]
        /\ Len(Server!Item(text, j)) = IF text[f-1] = "newline" THEN f - 2 - j ELSE f - 1 - j
    BY <1>4, <1>16, <1>17, <1>19, ItemAfter
  <2>2. <<number>>[1] = number /\ Len(<<number>>) = 1
    OBVIOUS
  <2> QED
    BY <1>3, <2>1, <2>2
<1>21. Len(text) = p + 2 \/ (Len(text) = p + 3 /\ text[p+3] = "newline")
  <2>1. f = Len(text) + 1 \/ text[f] = "comma"
    BY <1>4, <1>16, ItemBetween
  <2>2. CASE text[f-1] = "newline"
    <3>1. f = p + 4
      BY <1>4, <1>15, <1>20, <2>2
    <3>2. SUFFICES ASSUME f \in 1..Len(text), text[f] = "comma" PROVE FALSE
      BY <1>1, <1>4, <1>15, <1>20, <2>1, <2>2, <3>1
    <3>3. f - 1 \in 1..Len(text) - 1 /\ (f - 1) + 1 = f
      BY <1>1, <1>15, <3>1, <3>2
    <3>4. text[f] \in HeadWord
      BY <2>2, <3>3 DEF Composed
    <3> QED
      BY <3>2, <3>4 DEF HeadWord
  <2>3. CASE text[f-1] # "newline"
    <3>1. f = j + 2 /\ f = p + 3
      BY <1>4, <1>15, <1>20, <2>3
    <3>2. SUFFICES ASSUME f \in 1..Len(text), text[f] = "comma" PROVE FALSE
      BY <1>1, <1>4, <1>15, <1>20, <2>1, <3>1
    <3>3. j + 1 \in 2..Len(text) - 1 /\ (j + 1) + 1 = f
      <4>1. Len(text) \in Nat /\ j \in 1..Len(text) - 1
        BY <1>1, <1>18
      <4>2. f = j + 2 /\ j + 2 <= Len(text)
        BY <3>1, <3>2
      <4> QED
        BY <4>1, <4>2
    <3>4. text[f] = "newline"
      BY <1>20, <3>3 DEF Composed
    <3> QED
      BY <3>2, <3>4
  <2> QED
    BY <2>2, <2>3
<1>22. p # 2
  <2>1. SUFFICES ASSUME i = 1 PROVE FALSE
    BY <1>4
  <2>2. Below(B, i) # {}
    <3>1. SUFFICES ASSUME Below(B, i) = {} PROVE FALSE
      OBVIOUS
    <3>2. Rank(text, i) = 0
      BY <3>1, FS_EmptySet DEF Rank
    <3> QED
      BY <1>2, <3>2
  <2>3. PICK m \in B : m < i
    BY <2>2 DEF Below
  <2>4. m = 0 /\ m \in Server!Bounds(text) /\ Server!Item(text, m) # <<>>
    <3>1. m \in 0..Len(text) /\ m \in Server!Bounds(text) /\ Server!Item(text, m) # <<>>
      BY BeginsFacts
    <3> QED
      BY <1>1, <2>1, <2>3, <3>1
  <2>5. IsNext(text, 0, 1)
    <3>1. ASSUME NEW k \in Server!Bounds(text), 0 < k PROVE 1 <= k
      <4>1. k \in 0..Len(text) + 1
        BY BoundsFacts
      <4> QED
        BY <1>1, <3>1, <4>1
    <3> QED
      BY <1>4, <2>1, <3>1 DEF IsNext
  <2>6. Server!Item(text, 0) = Server!Strip(SubSeq(text, 0 + 1, 1 - 1))
    BY <2>4, <2>5, ItemBetween
  <2>7. SubSeq(text, 0 + 1, 1 - 1) = <<>>
    BY SubSeqEmpty
  <2> QED
    BY <2>4, <2>6, <2>7, StripNothing
<1>23. ASSUME NEW c \in 2..p - 2, text[c] = "comma",
              text[c-1] # "comma", text[c-1] # "newline"
       PROVE  FALSE
  <2>1. c \in 2..Len(text) /\ c \in 1..Len(text) - 1 /\ c < i
    BY <1>1, <1>7
  <2>2. c \in B
    BY <1>23, <2>1, CommaBegins
  <2>3. PICK m \in B : m < c
    BY <1>23, <2>1, BeginsBefore
  <2>4. Rank(text, m) \in Nat /\ Rank(text, c) \in Nat /\ Rank(text, m) < Rank(text, c)
    BY <2>2, <2>3, RankGrowsWith
  <2>5. Rank(text, c) < Rank(text, i)
    BY <2>1, <2>2, RankGrowsWith
  <2> QED
    BY <1>2, <2>4, <2>5
<1>24. p \in 3..Len(text) - 2 /\ p - 1 = i
  BY <1>1, <1>4, <1>15, <1>21, <1>22
<1>25. /\ text[p-1] = "comma" /\ text[p] = name
       /\ text[p+1] = "comma" /\ text[p+2] = number
  BY <1>7, <1>10, <1>15, <1>18, <1>20, <1>24
<1> QED
  BY <1>21, <1>23, <1>24, <1>25 DEF Arguments

(* The texts of the keywords. *)
LEMMA Keywords ==
    /\ Server!CONNECT \in Text /\ Len(Server!CONNECT) = 2
    /\ Server!SET_PARAMETER \in Text /\ Len(Server!SET_PARAMETER) = 2
    /\ Server!SET_PARAMETER_IN_DEVICE \in Text /\ Len(Server!SET_PARAMETER_IN_DEVICE) = 3
    /\ Server!GET_PARAMETER \in Text /\ Len(Server!GET_PARAMETER) = 2
    /\ Server!GET_PARAMETER_FROM_DEVICE \in Text /\ Len(Server!GET_PARAMETER_FROM_DEVICE) = 3
<1>1. {"CON", "NECT", "SET_", "GET_", "PARAMETER", "_IN_DEVICE", "_FROM_DEVICE"}
        \subseteq Server!Fragment
  BY Fragments DEF Server!Word
<1> QED
  BY <1>1 DEF Text, Server!CONNECT, Server!SET_PARAMETER, Server!SET_PARAMETER_IN_DEVICE,
              Server!GET_PARAMETER, Server!GET_PARAMETER_FROM_DEVICE

(* A text with one fragment more. *)
LEMMA OneMore ==
    ASSUME NEW word \in Text, NEW f \in Server!Fragment
    PROVE  /\ word \o <<f>> \in Text
           /\ Len(word \o <<f>>) = Len(word) + 1
           /\ \A i \in 1..Len(word) : (word \o <<f>>)[i] = word[i]
           /\ (word \o <<f>>)[Len(word) + 1] = f
<1>1. <<f>> \in Text /\ Len(<<f>>) = 1 /\ <<f>>[1] = f
  BY DEF Text
<1> DEFINE more == <<f>>
<1> HIDE DEF more
<1>2. more \in Text /\ Len(more) = 1 /\ more[1] = f /\ 1 \in 1..1
  BY <1>1 DEF more
<1>3. /\ word \o more \in Text
      /\ Len(word \o more) = Len(word) + 1
      /\ \A i \in 1..Len(word) : (word \o more)[i] = word[i]
      /\ (word \o more)[Len(word) + 1] = f
  <2>1. /\ word \o more \in Text
        /\ Len(word \o more) = Len(word) + Len(more)
        /\ \A i \in 1..Len(word) : (word \o more)[i] = word[i]
        /\ \A i \in 1..Len(more) : (word \o more)[Len(word) + i] = more[i]
    BY <1>2, Joined
  <2> QED
    BY <1>2, <2>1
<1> QED
  BY <1>3 DEF more

(* Where a word is in a text. *)
LEMMA InMeans ==
    ASSUME NEW word \in Text, NEW text \in Text
    PROVE  Server!In(word, text)
             <=> \E i \in 0..Len(text) - Len(word) : \A k \in 1..Len(word) : text[i+k] = word[k]
<1>1. Len(text) \in Nat /\ Len(word) \in Nat
  BY TextFacts
<1>2. ASSUME NEW i \in 0..Len(text) - Len(word)
      PROVE  SubSeq(text, i + 1, i + Len(word)) = word
               <=> \A k \in 1..Len(word) : text[i+k] = word[k]
  <2> DEFINE m == i + 1
             n == i + Len(word)
  <2>1. m \in 1..Len(text) + 1 /\ n \in m - 1..Len(text) /\ n - m + 1 = Len(word)
    BY <1>1
  <2>2. \A k \in 1..Len(word) : m + k - 1 = i + k
    BY <1>1
  <2> HIDE DEF m, n
  <2>3. /\ SubSeq(text, m, n) \in Text
        /\ Len(SubSeq(text, m, n)) = Len(word)
        /\ \A k \in 1..Len(word) : SubSeq(text, m, n)[k] = text[m + k - 1]
    BY <2>1, Part
  <2>4. \A k \in 1..Len(word) : SubSeq(text, m, n)[k] = text[i + k]
    BY <2>2, <2>3
  <2>5. SubSeq(text, m, n) = word <=> \A k \in 1..Len(word) : SubSeq(text, m, n)[k] = word[k]
    BY <2>3, SeqEqual DEF Text
  <2>6. SubSeq(text, m, n) = word <=> \A k \in 1..Len(word) : text[i+k] = word[k]
    BY <2>4, <2>5
  <2> QED
    BY <2>6 DEF m, n
<1> QED
  BY <1>2 DEF Server!In

(* The keywords are where their first fragments are. *)
SetComma == Server!SET_PARAMETER \o <<"comma">>
GetComma == Server!GET_PARAMETER \o <<"comma">>

(* The two keywords that are looked for with their comma. *)
LEMMA WithCommaFacts ==
    /\ SetComma \in Text /\ Len(SetComma) = 3
    /\ SetComma[1] = "SET_" /\ SetComma[2] = "PARAMETER" /\ SetComma[3] = "comma"
    /\ GetComma \in Text /\ Len(GetComma) = 3
    /\ GetComma[1] = "GET_" /\ GetComma[2] = "PARAMETER" /\ GetComma[3] = "comma"
<1>1. /\ Server!SET_PARAMETER[1] = "SET_" /\ Server!SET_PARAMETER[2] = "PARAMETER"
      /\ Server!GET_PARAMETER[1] = "GET_" /\ Server!GET_PARAMETER[2] = "PARAMETER"
  BY DEF Server!SET_PARAMETER, Server!GET_PARAMETER
<1>2. "comma" \in Server!Fragment
  BY Fragments DEF Server!Word
<1>3. /\ SetComma \in Text /\ Len(SetComma) = 2 + 1
      /\ \A i \in 1..2 : SetComma[i] = Server!SET_PARAMETER[i]
      /\ SetComma[2 + 1] = "comma"
  <2>1. LET word == Server!SET_PARAMETER
        IN  /\ SetComma \in Text /\ Len(SetComma) = Len(word) + 1
            /\ \A i \in 1..Len(word) : SetComma[i] = word[i]
            /\ SetComma[Len(word) + 1] = "comma"
    BY <1>2, Keywords, OneMore DEF SetComma
  <2> QED
    BY <2>1, Keywords
<1>4. /\ GetComma \in Text /\ Len(GetComma) = 2 + 1
      /\ \A i \in 1..2 : GetComma[i] = Server!GET_PARAMETER[i]
      /\ GetComma[2 + 1] = "comma"
  <2>1. LET word == Server!GET_PARAMETER
        IN  /\ GetComma \in Text /\ Len(GetComma) = Len(word) + 1
            /\ \A i \in 1..Len(word) : GetComma[i] = word[i]
            /\ GetComma[Len(word) + 1] = "comma"
    BY <1>2, Keywords, OneMore DEF GetComma
  <2> QED
    BY <2>1, Keywords
<1> QED
  BY <1>1, <1>3, <1>4

(* A keyword in a text shows by fragments that are found there. *)
LEMMA KeywordsIn ==
    ASSUME NEW text \in Text
    PROVE  /\ Server!In(Server!CONNECT, text)
              => \E i \in 1..Len(text) : text[i] = "CON"
           /\ Server!In(SetComma, text)
              => \E i \in 1..Len(text) - 2 :
                    text[i] = "SET_" /\ text[i+1] = "PARAMETER" /\ text[i+2] = "comma"
           /\ Server!In(Server!SET_PARAMETER_IN_DEVICE, text)
              => \E i \in 1..Len(text) - 2 :
                    text[i] = "SET_" /\ text[i+1] = "PARAMETER" /\ text[i+2] = "_IN_DEVICE"
           /\ Server!In(GetComma, text)
              => \E i \in 1..Len(text) - 2 :
                    text[i] = "GET_" /\ text[i+1] = "PARAMETER" /\ text[i+2] = "comma"
           /\ Server!In(Server!GET_PARAMETER_FROM_DEVICE, text)
              => \E i \in 1..Len(text) - 2 :
                    text[i] = "GET_" /\ text[i+1] = "PARAMETER" /\ text[i+2] = "_FROM_DEVICE"
<1>1. Len(text) \in Nat
  BY TextFacts
<1>2. ASSUME NEW word \in Text, Len(word) = 3, Server!In(word, text)
      PROVE  \E i \in 1..Len(text) - 2 :
                text[i] = word[1] /\ text[i+1] = word[2] /\ text[i+2] = word[3]
  <2>0. \E i \in 0..Len(text) - Len(word) : \A k \in 1..Len(word) : text[i+k] = word[k]
    BY <1>2, InMeans
  <2>1. PICK i \in 0..Len(text) - 3 : \A k \in 1..3 : text[i+k] = word[k]
    BY <1>2, <2>0
  <2>2. /\ i + 1 \in 1..Len(text) - 2
        /\ 1 \in 1..3 /\ 2 \in 1..3 /\ 3 \in 1..3
        /\ (i + 1) + 1 = i + 2 /\ (i + 1) + 2 = i + 3
    BY <1>1
  <2>3. text[i+1] = word[1] /\ text[i+2] = word[2] /\ text[i+3] = word[3]
    BY <2>1, <2>2
  <2> QED
    BY <2>2, <2>3
<1>3. ASSUME Server!In(Server!CONNECT, text)
      PROVE  \E i \in 1..Len(text) : text[i] = "CON"
  <2>0. \E i \in 0..Len(text) - Len(Server!CONNECT) :
           \A k \in 1..Len(Server!CONNECT) : text[i+k] = Server!CONNECT[k]
    BY <1>3, InMeans, Keywords
  <2>1. PICK i \in 0..Len(text) - 2 : \A k \in 1..2 : text[i+k] = Server!CONNECT[k]
    BY <2>0, Keywords
  <2>2. i + 1 \in 1..Len(text) /\ 1 \in 1..2 /\ Server!CONNECT[1] = "CON"
    BY <1>1 DEF Server!CONNECT
  <2> QED
    BY <2>1, <2>2
<1>4. /\ Server!SET_PARAMETER_IN_DEVICE[1] = "SET_"
      /\ Server!SET_PARAMETER_IN_DEVICE[2] = "PARAMETER"
      /\ Server!SET_PARAMETER_IN_DEVICE[3] = "_IN_DEVICE"
  BY DEF Server!SET_PARAMETER_IN_DEVICE
<1>5. /\ Server!GET_PARAMETER_FROM_DEVICE[1] = "GET_"
      /\ Server!GET_PARAMETER_FROM_DEVICE[2] = "PARAMETER"
      /\ Server!GET_PARAMETER_FROM_DEVICE[3] = "_FROM_DEVICE"
  BY DEF Server!GET_PARAMETER_FROM_DEVICE
<1>6. Server!In(SetComma, text)
        => \E i \in 1..Len(text) - 2 :
              text[i] = "SET_" /\ text[i+1] = "PARAMETER" /\ text[i+2] = "comma"
  BY <1>2, WithCommaFacts
<1>7. Server!In(GetComma, text)
        => \E i \in 1..Len(text) - 2 :
              text[i] = "GET_" /\ text[i+1] = "PARAMETER" /\ text[i+2] = "comma"
  BY <1>2, WithCommaFacts
<1>8. Server!In(Server!SET_PARAMETER_IN_DEVICE, text)
         => \E i \in 1..Len(text) - 2 :
               text[i] = "SET_" /\ text[i+1] = "PARAMETER" /\ text[i+2] = "_IN_DEVICE"
  BY <1>2, <1>4, Keywords
<1>9. Server!In(Server!GET_PARAMETER_FROM_DEVICE, text)
         => \E i \in 1..Len(text) - 2 :
               text[i] = "GET_" /\ text[i+1] = "PARAMETER" /\ text[i+2] = "_FROM_DEVICE"
  BY <1>2, <1>5, Keywords
<1> QED
  BY <1>3, <1>6, <1>7, <1>8, <1>9

(* The name and the number belong to the keyword, and so to one line. *)
LEMMA ArgumentsOfKeyword ==
    ASSUME NEW text \in Text, NEW asked, Composed(text, asked),
           NEW name \in Server!Name, NEW number \in Server!Literal,
           NEW p, Arguments(text, name, number, p)
    PROVE  /\ Server!In(SetComma, text)
              => Server!Set(Server!SET_PARAMETER, name, number) \in asked
           /\ Server!In(Server!SET_PARAMETER_IN_DEVICE, text)
              => Server!Set(Server!SET_PARAMETER_IN_DEVICE, name, number) \in asked
<1> USE DEF Arguments
<1>1. Len(text) \in Nat
  BY TextFacts
<1>2. {name, number} \cap Server!Word = {}
  BY Fragments
<1>3. /\ name \notin {"comma", "PARAMETER", "_IN_DEVICE"}
      /\ number \notin {"comma", "PARAMETER", "_IN_DEVICE"}
  BY <1>2 DEF Server!Word
<1>4. ASSUME NEW q \in 1..Len(text) - 2, text[q+1] = "PARAMETER", text[q+2] = "comma"
      PROVE  text[p-2] = "PARAMETER"
  <2>1. ~(q + 2 < p - 1)
    <3>1. SUFFICES ASSUME q + 2 < p - 1 PROVE FALSE
      OBVIOUS
    <3>2. q + 2 \in 2..p - 2 /\ (q + 2) - 1 = q + 1
      BY <1>1, <3>1
    <3>3. text[q+1] \in {"comma", "newline"}
      BY <1>4, <3>2
    <3> QED
      BY <1>4, <3>3
  <2>2. q + 2 # p /\ q + 2 # p + 2 /\ q + 2 # p + 3
    BY <1>1, <1>3, <1>4
  <2>3. q + 1 # p
    BY <1>3, <1>4
  <2>4. q + 2 = p - 1 /\ q + 1 = p - 2
    BY <1>1, <2>1, <2>2, <2>3
  <2> QED
    BY <1>4, <2>4
<1>5. ASSUME NEW q \in 1..Len(text) - 2, text[q+2] = "_IN_DEVICE"
      PROVE  text[p-2] = "_IN_DEVICE"
  <2>1. ~(q + 2 < p - 2)
    <3>1. SUFFICES ASSUME q + 2 < p - 2 PROVE FALSE
      OBVIOUS
    <3>2. q + 2 \in 1..Len(text) - 1 /\ (q + 2) + 1 = q + 3
      BY <1>1, <3>1
    <3>3. text[q+3] = "comma"
      BY <1>5, <3>2 DEF Composed
    <3>4. q + 3 \in 2..p - 2 /\ (q + 3) - 1 = q + 2
      BY <1>1, <3>1
    <3>5. text[q+2] \in {"comma", "newline"}
      BY <3>3, <3>4
    <3> QED
      BY <1>5, <3>5
  <2>2. q + 2 # p - 1 /\ q + 2 # p /\ q + 2 # p + 1 /\ q + 2 # p + 2 /\ q + 2 # p + 3
    BY <1>1, <1>3, <1>5
  <2>3. q + 2 = p - 2
    BY <1>1, <2>1, <2>2
  <2> QED
    BY <1>5, <2>3
<1>6. /\ text[p-2] = "PARAMETER"
         => Server!Set(Server!SET_PARAMETER, name, number) \in asked
      /\ text[p-2] = "_IN_DEVICE"
         => Server!Set(Server!SET_PARAMETER_IN_DEVICE, name, number) \in asked
  BY DEF Composed
<1> QED
  BY <1>4, <1>5, <1>6, KeywordsIn

(* What a branch acknowledges was asked. *)
LEMMA SetFound ==
    ASSUME NEW text \in Text, NEW asked, Composed(text, asked),
           ~(Len(Server!Sections(text)) < 3),
           Server!Names(Server!Sections(text)[2]),
           Server!IsNumber(Server!Sections(text)[3])
    PROVE  LET name   == Server!Sections(text)[2][1]
               number == Server!Sections(text)[3][1]
           IN  /\ Server!In(SetComma, text)
                  => Server!Set(Server!SET_PARAMETER, name, number) \in asked
               /\ Server!In(Server!SET_PARAMETER_IN_DEVICE, text)
                  => Server!Set(Server!SET_PARAMETER_IN_DEVICE, name, number) \in asked
<1>1. PICK name \in Parameter : Server!Sections(text)[2] = <<name>>
  BY DEF Server!Names
<1>2. PICK number \in Number : Server!Sections(text)[3] = <<number>>
  BY DEF Server!IsNumber
<1>3. name \in Server!Name /\ number \in Server!Literal
  BY Fragments
<1>4. Len(Server!Sections(text)) >= 3
  BY SectionsFacts
<1>5. PICK p : Arguments(text, name, number, p)
  BY <1>1, <1>2, <1>3, <1>4, SectionsAreArguments
<1>6. Server!Sections(text)[2][1] = name /\ Server!Sections(text)[3][1] = number
  BY <1>1, <1>2
<1> QED
  BY <1>3, <1>5, <1>6, ArgumentsOfKeyword

(* How far a pass of the loop has come, and what a branch may do to it. *)
Pass(asked) ==
    [alive : BOOLEAN, initiator : {"undefined", "linked", "unlinked"},
     answers : Nat, acked : SUBSET asked]

Answers(pass, new, keyword, text) ==
    \/ new.answers = pass.answers
    \/ Server!In(keyword, text) /\ new.answers = pass.answers + 1

(* What the outcomes of a branch have in common. *)
LEMMA Outcomes ==
    ASSUME NEW asked, NEW pass \in Pass(asked), NEW new
    PROVE  /\ new \in {pass} => new \in Pass(asked) /\ new.answers = pass.answers
           /\ new \in Server!Raised(pass)
              => new \in Pass(asked) /\ new.answers = pass.answers /\ ~new.alive
           /\ new \in Server!Answered(pass)
              => /\ new \in Pass(asked) /\ new.answers = pass.answers + 1
                 /\ new.alive = pass.alive /\ new.initiator = pass.initiator
           /\ \A c \in asked : new \in Server!Acknowledged(pass, c)
              => /\ new \in Pass(asked) /\ new.answers = pass.answers + 1
                 /\ new.alive = pass.alive /\ new.initiator = pass.initiator
<1>1. ASSUME new \in Server!Raised(pass)
      PROVE  new \in Pass(asked) /\ new.answers = pass.answers /\ ~new.alive
  BY <1>1 DEF Pass, Server!Raised
<1>2. ASSUME NEW n \in Server!Answered(pass)
      PROVE  /\ n \in Pass(asked) /\ n.answers = pass.answers + 1
             /\ n.alive = pass.alive /\ n.initiator = pass.initiator
  BY DEF Pass, Server!Answered
<1>3. ASSUME NEW c \in asked, new \in Server!Acknowledged(pass, c)
      PROVE  /\ new \in Pass(asked) /\ new.answers = pass.answers + 1
             /\ new.alive = pass.alive /\ new.initiator = pass.initiator
  <2>1. PICK old \in Server!Answered(pass) : new = [old EXCEPT !.acked = @ \cup {c}]
    BY <1>3 DEF Server!Acknowledged
  <2>2. /\ old \in Pass(asked) /\ old.answers = pass.answers + 1
        /\ old.alive = pass.alive /\ old.initiator = pass.initiator
    BY <1>2
  <2>3. old.acked \cup {c} \in SUBSET asked
    BY <2>2 DEF Pass
  <2> QED
    BY <2>1, <2>2, <2>3 DEF Pass
<1>4. new \in {pass} => new \in Pass(asked) /\ new.answers = pass.answers
  OBVIOUS
<1> QED
  BY <1>1, <1>2, <1>3, <1>4

(* What each branch may do: answer once if its keyword is there, and       *)
(* acknowledge only what was asked.                                        *)
LEMMA ConnectStep ==
    ASSUME NEW text \in Text, NEW asked, NEW pass \in Pass(asked),
           NEW new \in Server!Connect(pass, text)
    PROVE  new \in Pass(asked) /\ Answers(pass, new, Server!CONNECT, text)
<1>1. CASE Server!Skipped(pass, Server!CONNECT, text)
  BY <1>1, Outcomes DEF Answers, Server!Connect
<1>2. CASE ~Server!Skipped(pass, Server!CONNECT, text)
  <2> DEFINE linked == [pass EXCEPT !.initiator = "linked"]
             unlinked == [pass EXCEPT !.initiator = "unlinked"]
  <2>1. /\ linked \in Pass(asked) /\ linked.answers = pass.answers
        /\ unlinked \in Pass(asked) /\ unlinked.answers = pass.answers
    BY DEF Pass
  <2>2. \E old \in {pass, linked, unlinked} : new \in Server!Answered(old)
    BY <1>2 DEF Server!Connect
  <2>3. Server!In(Server!CONNECT, text)
    BY <1>2 DEF Server!Skipped
  <2> HIDE DEF linked, unlinked
  <2> QED
    BY <2>1, <2>2, <2>3, Outcomes DEF Answers
<1> QED
  BY <1>1, <1>2

LEMMA SetInMapStep ==
    ASSUME NEW text \in Text, NEW asked, Composed(text, asked), NEW pass \in Pass(asked),
           NEW new \in Server!SetInMap(pass, text)
    PROVE  new \in Pass(asked) /\ Answers(pass, new, SetComma, text)
<1> DEFINE items == Server!Sections(text)
           order == Server!Set(Server!SET_PARAMETER, items[2][1], items[3][1])
<1>1. \/ new \in {pass} \/ new \in Server!Raised(pass)
      \/ Server!In(SetComma, text) /\ new \in Server!Answered(pass)
      \/ /\ Server!In(SetComma, text) /\ ~(Len(items) < 3)
         /\ Server!Names(items[2]) /\ Server!IsNumber(items[3])
         /\ new \in Server!Acknowledged(pass, order)
  BY DEF Server!SetInMap, Server!Skipped, SetComma
<1>2. Server!In(SetComma, text) /\ ~(Len(items) < 3)
         /\ Server!Names(items[2]) /\ Server!IsNumber(items[3]) => order \in asked
  BY SetFound
<1> HIDE DEF items, order
<1> QED
  BY <1>1, <1>2, Outcomes DEF Answers

LEMMA SetInDeviceStep ==
    ASSUME NEW text \in Text, NEW asked, Composed(text, asked), NEW pass \in Pass(asked),
           NEW new \in Server!SetInDevice(pass, text)
    PROVE  new \in Pass(asked) /\ Answers(pass, new, Server!SET_PARAMETER_IN_DEVICE, text)
<1> DEFINE items == Server!Sections(text)
           order == Server!Set(Server!SET_PARAMETER_IN_DEVICE, items[2][1], items[3][1])
<1>1. \/ new \in {pass} \/ new \in Server!Raised(pass)
      \/ Server!In(Server!SET_PARAMETER_IN_DEVICE, text) /\ new \in Server!Answered(pass)
      \/ /\ Server!In(Server!SET_PARAMETER_IN_DEVICE, text) /\ ~(Len(items) < 3)
         /\ Server!Names(items[2]) /\ Server!IsNumber(items[3])
         /\ new \in Server!Acknowledged(pass, order)
  BY DEF Server!SetInDevice, Server!Skipped
<1>2. Server!In(Server!SET_PARAMETER_IN_DEVICE, text) /\ ~(Len(items) < 3)
         /\ Server!Names(items[2]) /\ Server!IsNumber(items[3]) => order \in asked
  BY SetFound
<1> HIDE DEF items, order
<1> QED
  BY <1>1, <1>2, Outcomes DEF Answers

LEMMA GetFromMapStep ==
    ASSUME NEW text \in Text, NEW asked, NEW pass \in Pass(asked),
           NEW new \in Server!GetFromMap(pass, text)
    PROVE  new \in Pass(asked) /\ Answers(pass, new, GetComma, text)
<1>1. \/ new \in {pass} \/ new \in Server!Raised(pass)
      \/ Server!In(GetComma, text) /\ new \in Server!Answered(pass)
  BY DEF Server!GetFromMap, Server!Skipped, GetComma
<1> QED
  BY <1>1, Outcomes DEF Answers

LEMMA GetFromDeviceStep ==
    ASSUME NEW text \in Text, NEW asked, NEW pass \in Pass(asked),
           NEW new \in Server!GetFromDevice(pass, text)
    PROVE  new \in Pass(asked) /\ Answers(pass, new, Server!GET_PARAMETER_FROM_DEVICE, text)
<1>1. \/ new \in {pass} \/ new \in Server!Raised(pass)
      \/ Server!In(Server!GET_PARAMETER_FROM_DEVICE, text) /\ new \in Server!Answered(pass)
  BY DEF Server!GetFromDevice, Server!Skipped
<1> QED
  BY <1>1, Outcomes DEF Answers

(* One pass is a chain of branches. *)
Begun == [alive |-> TRUE, initiator |-> sscpInitiator, answers |-> answers, acked |-> acked]

Chain(text, p1, p2, p3, p4, last) ==
    /\ p1 \in Server!Connect(Begun, text)
    /\ p2 \in Server!SetInMap(p1, text)
    /\ p3 \in Server!SetInDevice(p2, text)
    /\ p4 \in Server!GetFromMap(p3, text)
    /\ last \in Server!GetFromDevice(p4, text)

LEMMA PassesAreChains ==
    ASSUME NEW text, NEW last \in Server!Passes(text)
    PROVE  \E p1, p2, p3, p4 : Chain(text, p1, p2, p3, p4, last)
<1> DEFINE connected == Server!Connect(Begun, text)
           set       == UNION {Server!SetInMap(pass, text) : pass \in connected}
           setDevice == UNION {Server!SetInDevice(pass, text) : pass \in set}
           got       == UNION {Server!GetFromMap(pass, text) : pass \in setDevice}
<1>1. last \in UNION {Server!GetFromDevice(pass, text) : pass \in got}
  BY DEF Server!Passes, Begun
<1>2. PICK p4 \in got : last \in Server!GetFromDevice(p4, text)
  <2> HIDE DEF got
  <2> QED
    BY <1>1
<1>3. PICK p3 \in setDevice : p4 \in Server!GetFromMap(p3, text)
  <2> HIDE DEF setDevice
  <2> QED
    BY <1>2
<1>4. PICK p2 \in set : p3 \in Server!SetInDevice(p2, text)
  <2> HIDE DEF set
  <2> QED
    BY <1>3
<1>5. PICK p1 \in connected : p2 \in Server!SetInMap(p1, text)
  <2> HIDE DEF connected
  <2> QED
    BY <1>4
<1> QED
  BY <1>2, <1>3, <1>4, <1>5 DEF Chain

(* Each branch answers to a head of its own. *)
Heads(text) == {i \in 1..Len(text) : text[i] \in {"CON", "SET_", "GET_"}}

ConnectHeads(text) == {i \in 1..Len(text) : text[i] = "CON"}
HeadsBefore(text, head, end) ==
    {i \in 1..Len(text) - 2 : text[i] = head /\ text[i+2] = end}

LEMMA HeadsFinite ==
    ASSUME NEW text \in Text
    PROVE  /\ IsFiniteSet(Heads(text)) /\ Cardinality(Heads(text)) \in Nat
           /\ \A T \in SUBSET Heads(text) :
                 /\ IsFiniteSet(T) /\ Cardinality(T) \in Nat
                 /\ Cardinality(T) <= Cardinality(Heads(text))
<1>1. Len(text) \in Nat
  BY TextFacts
<1>2. IsFiniteSet(1..Len(text)) /\ Heads(text) \in SUBSET (1..Len(text))
  BY <1>1, FS_Interval DEF Heads
<1>3. IsFiniteSet(Heads(text))
  BY <1>2, FS_Subset
<1> QED
  BY <1>3, FS_Subset, FS_CardinalityType

(* The heads that each branch needs. *)
LEMMA HeadsOfBranches ==
    ASSUME NEW text \in Text
    PROVE  /\ ConnectHeads(text) \subseteq Heads(text)
           /\ HeadsBefore(text, "SET_", "comma") \subseteq Heads(text)
           /\ HeadsBefore(text, "SET_", "_IN_DEVICE") \subseteq Heads(text)
           /\ HeadsBefore(text, "GET_", "comma") \subseteq Heads(text)
           /\ HeadsBefore(text, "GET_", "_FROM_DEVICE") \subseteq Heads(text)
<1>1. Len(text) \in Nat
  BY TextFacts
<1>2. \A i \in 1..Len(text) - 2 : i \in 1..Len(text)
  BY <1>1
<1> QED
  BY <1>2 DEF Heads, ConnectHeads, HeadsBefore

(* One more branch, with heads of its own, one more answer. *)
LEMMA OneMoreHead ==
    ASSUME NEW A, IsFiniteSet(A), NEW K, IsFiniteSet(K), A \cap K = {},
           NEW k \in Nat, NEW m \in Nat, NEW n \in Nat, m <= k + Cardinality(A),
           n = m \/ (K # {} /\ n = m + 1)
    PROVE  IsFiniteSet(A \cup K) /\ n <= k + Cardinality(A \cup K)
<1>1. /\ IsFiniteSet(A \cup K)
      /\ Cardinality(A \cup K) = Cardinality(A) + Cardinality(K) - Cardinality(A \cap K)
  BY FS_Union
<1>2. Cardinality(A \cap K) = 0 /\ (Cardinality(K) = 0 <=> K = {})
  BY FS_EmptySet
<1>3. Cardinality(A) \in Nat /\ Cardinality(K) \in Nat
  BY FS_CardinalityType
<1> QED
  BY <1>1, <1>2, <1>3

(* Each keyword needs a head of its own. *)
LEMMA KeywordHeads ==
    ASSUME NEW text \in Text
    PROVE  /\ Server!In(Server!CONNECT, text) => ConnectHeads(text) # {}
           /\ Server!In(SetComma, text) => HeadsBefore(text, "SET_", "comma") # {}
           /\ Server!In(Server!SET_PARAMETER_IN_DEVICE, text)
              => HeadsBefore(text, "SET_", "_IN_DEVICE") # {}
           /\ Server!In(GetComma, text) => HeadsBefore(text, "GET_", "comma") # {}
           /\ Server!In(Server!GET_PARAMETER_FROM_DEVICE, text)
              => HeadsBefore(text, "GET_", "_FROM_DEVICE") # {}
<1>1. ASSUME Server!In(Server!CONNECT, text) PROVE ConnectHeads(text) # {}
  <2>1. \E i \in 1..Len(text) : text[i] = "CON"
    BY <1>1, KeywordsIn
  <2> QED
    BY <2>1 DEF ConnectHeads
<1>2. ASSUME Server!In(SetComma, text) PROVE HeadsBefore(text, "SET_", "comma") # {}
  <2>1. \E i \in 1..Len(text) - 2 :
            text[i] = "SET_" /\ text[i+1] = "PARAMETER" /\ text[i+2] = "comma"
    BY <1>2, KeywordsIn
  <2> QED
    BY <2>1 DEF HeadsBefore
<1>3. ASSUME Server!In(Server!SET_PARAMETER_IN_DEVICE, text) PROVE HeadsBefore(text, "SET_", "_IN_DEVICE") # {}
  <2>1. \E i \in 1..Len(text) - 2 :
            text[i] = "SET_" /\ text[i+1] = "PARAMETER" /\ text[i+2] = "_IN_DEVICE"
    BY <1>3, KeywordsIn
  <2> QED
    BY <2>1 DEF HeadsBefore
<1>4. ASSUME Server!In(GetComma, text) PROVE HeadsBefore(text, "GET_", "comma") # {}
  <2>1. \E i \in 1..Len(text) - 2 :
            text[i] = "GET_" /\ text[i+1] = "PARAMETER" /\ text[i+2] = "comma"
    BY <1>4, KeywordsIn
  <2> QED
    BY <2>1 DEF HeadsBefore
<1>5. ASSUME Server!In(Server!GET_PARAMETER_FROM_DEVICE, text) PROVE HeadsBefore(text, "GET_", "_FROM_DEVICE") # {}
  <2>1. \E i \in 1..Len(text) - 2 :
            text[i] = "GET_" /\ text[i+1] = "PARAMETER" /\ text[i+2] = "_FROM_DEVICE"
    BY <1>5, KeywordsIn
  <2> QED
    BY <2>1 DEF HeadsBefore
<1> QED
  BY <1>1, <1>2, <1>3, <1>4, <1>5

(* A pass answers no more often than the text has heads: CONNECT needs a   *)
(* "CON", and of the four others each needs a "SET_" or a "GET_" that none *)
(* of the rest can use, for what comes two fragments after it is           *)
(* different.                                                              *)
LEMMA PassesAnswer ==
    ASSUME NEW text \in Text, NEW asked, Composed(text, asked), Begun \in Pass(asked),
           NEW last \in Server!Passes(text)
    PROVE  /\ last \in Pass(asked)
           /\ last.answers <= answers + Cardinality(Heads(text))
<1>0. PICK p1, p2, p3, p4 : Chain(text, p1, p2, p3, p4, last)
  BY PassesAreChains
<1>1. /\ p1 \in Server!Connect(Begun, text)
      /\ p2 \in Server!SetInMap(p1, text)
      /\ p3 \in Server!SetInDevice(p2, text)
      /\ p4 \in Server!GetFromMap(p3, text)
      /\ last \in Server!GetFromDevice(p4, text)
  BY <1>0 DEF Chain
<1>2. p1 \in Pass(asked) /\ Answers(Begun, p1, Server!CONNECT, text)
  BY <1>1, ConnectStep
<1>3. p2 \in Pass(asked) /\ Answers(p1, p2, SetComma, text)
  BY <1>1, <1>2, SetInMapStep
<1>4. p3 \in Pass(asked) /\ Answers(p2, p3, Server!SET_PARAMETER_IN_DEVICE, text)
  BY <1>1, <1>3, SetInDeviceStep
<1>5. p4 \in Pass(asked) /\ Answers(p3, p4, GetComma, text)
  BY <1>1, <1>4, GetFromMapStep
<1>6. last \in Pass(asked) /\ Answers(p4, last, Server!GET_PARAMETER_FROM_DEVICE, text)
  BY <1>1, <1>5, GetFromDeviceStep
<1> DEFINE K1 == ConnectHeads(text)
           K2 == HeadsBefore(text, "SET_", "comma")
           K3 == HeadsBefore(text, "SET_", "_IN_DEVICE")
           K4 == HeadsBefore(text, "GET_", "comma")
           K5 == HeadsBefore(text, "GET_", "_FROM_DEVICE")
<1>7. /\ Server!In(Server!CONNECT, text) => K1 # {}
      /\ Server!In(SetComma, text) => K2 # {}
      /\ Server!In(Server!SET_PARAMETER_IN_DEVICE, text) => K3 # {}
      /\ Server!In(GetComma, text) => K4 # {}
      /\ Server!In(Server!GET_PARAMETER_FROM_DEVICE, text) => K5 # {}
  BY KeywordHeads
<1>8. /\ K1 \cap K2 = {} /\ (K1 \cup K2) \cap K3 = {}
      /\ (K1 \cup K2 \cup K3) \cap K4 = {} /\ (K1 \cup K2 \cup K3 \cup K4) \cap K5 = {}
  BY DEF ConnectHeads, HeadsBefore
<1>9. /\ K1 \in SUBSET Heads(text) /\ K2 \in SUBSET Heads(text) /\ K3 \in SUBSET Heads(text)
      /\ K4 \in SUBSET Heads(text) /\ K5 \in SUBSET Heads(text)
  BY HeadsOfBranches
<1>10. /\ Begun.answers = answers /\ answers \in Nat /\ p1.answers \in Nat
       /\ p2.answers \in Nat /\ p3.answers \in Nat /\ p4.answers \in Nat /\ last.answers \in Nat
  BY <1>2, <1>3, <1>4, <1>5, <1>6 DEF Pass, Begun
<1> HIDE DEF K1, K2, K3, K4, K5
<1>11. /\ IsFiniteSet(K1) /\ IsFiniteSet(K2) /\ IsFiniteSet(K3)
       /\ IsFiniteSet(K4) /\ IsFiniteSet(K5)
  BY <1>9, HeadsFinite
<1>12. p1.answers <= answers + Cardinality(K1)
  <2>1. IsFiniteSet({}) /\ Cardinality({}) = 0 /\ {} \cap K1 = {} /\ {} \cup K1 = K1
    BY FS_EmptySet
  <2>2. p1.answers = answers \/ (K1 # {} /\ p1.answers = answers + 1)
    BY <1>2, <1>7, <1>10 DEF Answers
  <2>3. answers <= answers + Cardinality({})
    BY <1>10, <2>1
  <2>4. p1.answers <= answers + Cardinality({} \cup K1)
    BY <1>10, <1>11, <2>1, <2>2, <2>3, OneMoreHead
  <2> QED
    BY <2>1, <2>4
<1>13. /\ IsFiniteSet(K1 \cup K2)
       /\ p2.answers <= answers + Cardinality(K1 \cup K2)
  <2>1. p2.answers = p1.answers \/ (K2 # {} /\ p2.answers = p1.answers + 1)
    BY <1>3, <1>7 DEF Answers
  <2> QED
    BY <1>8, <1>10, <1>11, <1>12, <2>1, OneMoreHead
<1>14. /\ IsFiniteSet(K1 \cup K2 \cup K3)
       /\ p3.answers <= answers + Cardinality(K1 \cup K2 \cup K3)
  <2>1. p3.answers = p2.answers \/ (K3 # {} /\ p3.answers = p2.answers + 1)
    BY <1>4, <1>7 DEF Answers
  <2> QED
    BY <1>8, <1>10, <1>11, <1>13, <2>1, OneMoreHead
<1>15. /\ IsFiniteSet(K1 \cup K2 \cup K3 \cup K4)
       /\ p4.answers <= answers + Cardinality(K1 \cup K2 \cup K3 \cup K4)
  <2>1. p4.answers = p3.answers \/ (K4 # {} /\ p4.answers = p3.answers + 1)
    BY <1>5, <1>7 DEF Answers
  <2> QED
    BY <1>8, <1>10, <1>11, <1>14, <2>1, OneMoreHead
<1>16. last.answers <= answers + Cardinality(K1 \cup K2 \cup K3 \cup K4 \cup K5)
  <2>1. last.answers = p4.answers \/ (K5 # {} /\ last.answers = p4.answers + 1)
    BY <1>6, <1>7 DEF Answers
  <2> QED
    BY <1>8, <1>10, <1>11, <1>15, <2>1, OneMoreHead
<1>17. /\ Cardinality(K1 \cup K2 \cup K3 \cup K4 \cup K5) <= Cardinality(Heads(text))
       /\ Cardinality(K1 \cup K2 \cup K3 \cup K4 \cup K5) \in Nat
       /\ Cardinality(Heads(text)) \in Nat
  <2>1. K1 \cup K2 \cup K3 \cup K4 \cup K5 \in SUBSET Heads(text)
    BY <1>9
  <2> QED
    BY <2>1, HeadsFinite
<1> QED
  BY <1>6, <1>10, <1>16, <1>17

-----------------------------------------------------------------------------
(* The lines of a client, and texts that are made of them.                 *)

(* The texts of the commands. *)
LEMMA GetText ==
    ASSUME NEW word \in Text, NEW name \in Server!Name,
           NEW order, order = Server!Get(word, name)
    PROVE  /\ order \in Text
           /\ Len(order) = Len(word) + 2
           /\ \A i \in 1..Len(word) : order[i] = word[i]
           /\ order[Len(word) + 1] = "comma"
           /\ order[Len(word) + 2] = name
<1>1. Len(word) \in Nat /\ "comma" \in Server!Fragment /\ name \in Server!Fragment
  BY TextFacts, Fragments DEF Server!Word
<1>2. <<"comma", name>> \in Text /\ Len(<<"comma", name>>) = 2
      /\ <<"comma", name>>[1] = "comma" /\ <<"comma", name>>[2] = name
  BY <1>1 DEF Text
<1> DEFINE more == <<"comma", name>>
<1> HIDE DEF more
<1>3. /\ more \in Text /\ Len(more) = 2 /\ more[1] = "comma" /\ more[2] = name
      /\ 1 \in 1..2 /\ 2 \in 1..2
  BY <1>2 DEF more
<1>4. /\ word \o more \in Text
      /\ Len(word \o more) = Len(word) + Len(more)
      /\ \A i \in 1..Len(word) : (word \o more)[i] = word[i]
      /\ \A i \in 1..Len(more) : (word \o more)[Len(word) + i] = more[i]
  BY <1>3, Joined
<1>5. /\ word \o more \in Text
      /\ Len(word \o more) = Len(word) + 2
      /\ \A i \in 1..Len(word) : (word \o more)[i] = word[i]
      /\ (word \o more)[Len(word) + 1] = "comma"
      /\ (word \o more)[Len(word) + 2] = name
  BY <1>3, <1>4
<1> QED
  BY <1>5 DEF more, Server!Get

LEMMA SetText ==
    ASSUME NEW word \in Text, NEW name \in Server!Name, NEW number \in Server!Literal,
           NEW order, order = Server!Set(word, name, number)
    PROVE  /\ order \in Text
           /\ Len(order) = Len(word) + 4
           /\ \A i \in 1..Len(word) : order[i] = word[i]
           /\ order[Len(word) + 1] = "comma"
           /\ order[Len(word) + 2] = name
           /\ order[Len(word) + 3] = "comma"
           /\ order[Len(word) + 4] = number
<1>1. /\ Len(word) \in Nat /\ "comma" \in Server!Fragment /\ name \in Server!Fragment
      /\ number \in Server!Fragment
  BY TextFacts, Fragments DEF Server!Word
<1> DEFINE more == <<"comma", name, "comma", number>>
<1>2. /\ more \in Text /\ Len(more) = 4
      /\ more[1] = "comma" /\ more[2] = name /\ more[3] = "comma" /\ more[4] = number
  BY <1>1 DEF Text
<1> HIDE DEF more
<1>3. 1 \in 1..4 /\ 2 \in 1..4 /\ 3 \in 1..4 /\ 4 \in 1..4
  OBVIOUS
<1>4. /\ word \o more \in Text
      /\ Len(word \o more) = Len(word) + Len(more)
      /\ \A i \in 1..Len(word) : (word \o more)[i] = word[i]
      /\ \A i \in 1..Len(more) : (word \o more)[Len(word) + i] = more[i]
  BY <1>2, Joined
<1>5. /\ word \o more \in Text
      /\ Len(word \o more) = Len(word) + 4
      /\ \A i \in 1..Len(word) : (word \o more)[i] = word[i]
      /\ (word \o more)[Len(word) + 1] = "comma"
      /\ (word \o more)[Len(word) + 2] = name
      /\ (word \o more)[Len(word) + 3] = "comma"
      /\ (word \o more)[Len(word) + 4] = number
  BY <1>2, <1>3, <1>4
<1> QED
  BY <1>5 DEF more, Server!Set

(* The lines, fragment by fragment. *)
ConnectLine(line, order) ==
    /\ order = Server!CONNECT
    /\ Len(line) = 3 /\ line[1] = "CON" /\ line[2] = "NECT" /\ line[3] = "newline"

DisconnectLine(line, order) ==
    /\ order = Server!DISCONNECT
    /\ Len(line) = 4 /\ line[1] = "DIS" /\ line[2] = "CON" /\ line[3] = "NECT"
    /\ line[4] = "newline"

GetLine(line, order, name) ==
    /\ order = Server!Get(Server!GET_PARAMETER, name)
    /\ Len(line) = 5 /\ line[1] = "GET_" /\ line[2] = "PARAMETER" /\ line[3] = "comma"
    /\ line[4] = name /\ line[5] = "newline"

GetFromDeviceLine(line, order, name) ==
    /\ order = Server!Get(Server!GET_PARAMETER_FROM_DEVICE, name)
    /\ Len(line) = 6 /\ line[1] = "GET_" /\ line[2] = "PARAMETER" /\ line[3] = "_FROM_DEVICE"
    /\ line[4] = "comma" /\ line[5] = name /\ line[6] = "newline"

SetLine(line, order, name, number) ==
    /\ order = Server!Set(Server!SET_PARAMETER, name, number)
    /\ Len(line) = 7 /\ line[1] = "SET_" /\ line[2] = "PARAMETER" /\ line[3] = "comma"
    /\ line[4] = name /\ line[5] = "comma" /\ line[6] = number /\ line[7] = "newline"

SetInDeviceLine(line, order, name, number) ==
    /\ order = Server!Set(Server!SET_PARAMETER_IN_DEVICE, name, number)
    /\ Len(line) = 8 /\ line[1] = "SET_" /\ line[2] = "PARAMETER" /\ line[3] = "_IN_DEVICE"
    /\ line[4] = "comma" /\ line[5] = name /\ line[6] = "comma" /\ line[7] = number
    /\ line[8] = "newline"

(* A line has one of six forms. *)
LEMMA LineForms ==
    ASSUME NEW order \in Server!Command
    PROVE  LET line == Server!Line(order)
           IN  /\ line \in Text /\ order \in Text /\ Len(line) = Len(order) + 1
               /\ order[1] = line[1]
               /\ \A i \in 1..Len(order) : line[i] = order[i]
               /\ \/ ConnectLine(line, order)
                  \/ DisconnectLine(line, order)
                  \/ \E name \in Server!Name :
                        GetLine(line, order, name) \/ GetFromDeviceLine(line, order, name)
                  \/ \E name \in Server!Name, number \in Server!Literal :
                        \/ SetLine(line, order, name, number)
                        \/ SetInDeviceLine(line, order, name, number)
<1> DEFINE line == Server!Line(order)
<1>1. ASSUME order \in Text, Len(order) \in Nat, Len(order) > 0
      PROVE  /\ line \in Text /\ Len(line) = Len(order) + 1
             /\ line[Len(order) + 1] = "newline"
             /\ \A i \in 1..Len(order) : line[i] = order[i]
             /\ line[1] = order[1]
  <2>1. "newline" \in Server!Fragment /\ 1 \in 1..Len(order)
    BY <1>1, Fragments DEF Server!Word
  <2> QED
    BY <1>1, <2>1, OneMore DEF Server!Line
<1> HIDE DEF line
<1>2. CASE order = Server!CONNECT
  <2>1. /\ order \in Text /\ Len(order) = 2 /\ order[1] = "CON" /\ order[2] = "NECT"
        /\ 1 \in 1..2 /\ 2 \in 1..2
    BY <1>2, Keywords DEF Server!CONNECT
  <2>2. ConnectLine(line, order)
    BY <1>1, <1>2, <2>1 DEF ConnectLine
  <2> QED
    BY <1>1, <2>1, <2>2 DEF line
<1>3. CASE order = Server!DISCONNECT
  <2>0. {"DIS", "CON", "NECT"} \subseteq Server!Fragment
    BY Fragments DEF Server!Word
  <2>1. /\ order \in Text /\ Len(order) = 3 /\ order[1] = "DIS" /\ order[2] = "CON"
        /\ order[3] = "NECT" /\ 1 \in 1..3 /\ 2 \in 1..3 /\ 3 \in 1..3
    BY <1>3, <2>0 DEF Server!DISCONNECT, Text
  <2>2. DisconnectLine(line, order)
    BY <1>1, <1>3, <2>1 DEF DisconnectLine
  <2> QED
    BY <1>1, <2>1, <2>2 DEF line
<1>4. ASSUME NEW name \in Server!Name, order = Server!Get(Server!GET_PARAMETER, name)
      PROVE  order \in Text /\ Len(order) = 4 /\ GetLine(line, order, name)
  <2>0. PICK word \in Text : word = Server!GET_PARAMETER /\ Len(word) = 2
    BY Keywords
  <2>1. word[1] = "GET_" /\ word[2] = "PARAMETER"
        /\ 1 \in 1..2 /\ 2 \in 1..2
    BY <2>0 DEF Server!GET_PARAMETER
  <2>2. /\ order \in Text /\ Len(order) = 4
        /\ order[1] = "GET_" /\ order[2] = "PARAMETER" /\ order[3] = "comma"
        /\ order[4] = name
    <3>2. order = Server!Get(word, name)
      BY <1>4, <2>0
    <3>3. /\ order \in Text /\ Len(order) = Len(word) + 2
          /\ \A i \in 1..Len(word) : order[i] = word[i]
          /\ order[Len(word) + 1] = "comma"
          /\ order[Len(word) + 2] = name
      BY <3>2, GetText
    <3>4. /\ order \in Text /\ Len(order) = 4
          /\ \A i \in 1..2 : order[i] = word[i]
          /\ order[3] = "comma"
          /\ order[4] = name
      BY <2>0, <3>3
    <3> QED
      BY <2>1, <3>4
  <2>3. 1 \in 1..4 /\ 2 \in 1..4 /\ 3 \in 1..4 /\ 4 \in 1..4
    OBVIOUS
  <2>4. /\ Len(line) = 5 /\ line[5] = "newline"
        /\ \A i \in 1..4 : line[i] = order[i]
    BY <1>1, <2>2
  <2>5. /\ line[1] = order[1]
        /\ line[2] = order[2]
        /\ line[3] = order[3]
        /\ line[4] = order[4]
    BY <2>3, <2>4
  <2> QED
    BY <1>4, <2>2, <2>4, <2>5 DEF GetLine
<1>5. ASSUME NEW name \in Server!Name,
             order = Server!Get(Server!GET_PARAMETER_FROM_DEVICE, name)
      PROVE  order \in Text /\ Len(order) = 5 /\ GetFromDeviceLine(line, order, name)
  <2>0. PICK word \in Text : word = Server!GET_PARAMETER_FROM_DEVICE /\ Len(word) = 3
    BY Keywords
  <2>1. word[1] = "GET_" /\ word[2] = "PARAMETER" /\ word[3] = "_FROM_DEVICE"
        /\ 1 \in 1..3 /\ 2 \in 1..3 /\ 3 \in 1..3
    BY <2>0 DEF Server!GET_PARAMETER_FROM_DEVICE
  <2>2. /\ order \in Text /\ Len(order) = 5
        /\ order[1] = "GET_" /\ order[2] = "PARAMETER" /\ order[3] = "_FROM_DEVICE"
        /\ order[4] = "comma" /\ order[5] = name
    <3>2. order = Server!Get(word, name)
      BY <1>5, <2>0
    <3>3. /\ order \in Text /\ Len(order) = Len(word) + 2
          /\ \A i \in 1..Len(word) : order[i] = word[i]
          /\ order[Len(word) + 1] = "comma"
          /\ order[Len(word) + 2] = name
      BY <3>2, GetText
    <3>4. /\ order \in Text /\ Len(order) = 5
          /\ \A i \in 1..3 : order[i] = word[i]
          /\ order[4] = "comma"
          /\ order[5] = name
      BY <2>0, <3>3
    <3> QED
      BY <2>1, <3>4
  <2>3. 1 \in 1..5 /\ 2 \in 1..5 /\ 3 \in 1..5 /\ 4 \in 1..5 /\ 5 \in 1..5
    OBVIOUS
  <2>4. /\ Len(line) = 6 /\ line[6] = "newline"
        /\ \A i \in 1..5 : line[i] = order[i]
    BY <1>1, <2>2
  <2>5. /\ line[1] = order[1]
        /\ line[2] = order[2]
        /\ line[3] = order[3]
        /\ line[4] = order[4]
        /\ line[5] = order[5]
    BY <2>3, <2>4
  <2> QED
    BY <1>5, <2>2, <2>4, <2>5 DEF GetFromDeviceLine
<1>6. ASSUME NEW name \in Server!Name, NEW number \in Server!Literal,
             order = Server!Set(Server!SET_PARAMETER, name, number)
      PROVE  order \in Text /\ Len(order) = 6 /\ SetLine(line, order, name, number)
  <2>0. PICK word \in Text : word = Server!SET_PARAMETER /\ Len(word) = 2
    BY Keywords
  <2>1. word[1] = "SET_" /\ word[2] = "PARAMETER"
        /\ 1 \in 1..2 /\ 2 \in 1..2
    BY <2>0 DEF Server!SET_PARAMETER
  <2>2. /\ order \in Text /\ Len(order) = 6
        /\ order[1] = "SET_" /\ order[2] = "PARAMETER" /\ order[3] = "comma"
        /\ order[4] = name /\ order[5] = "comma" /\ order[6] = number
    <3>2. order = Server!Set(word, name, number)
      BY <1>6, <2>0
    <3>3. /\ order \in Text /\ Len(order) = Len(word) + 4
          /\ \A i \in 1..Len(word) : order[i] = word[i]
          /\ order[Len(word) + 1] = "comma"
          /\ order[Len(word) + 2] = name
          /\ order[Len(word) + 3] = "comma"
          /\ order[Len(word) + 4] = number
      BY <3>2, SetText
    <3>4. /\ order \in Text /\ Len(order) = 6
          /\ \A i \in 1..2 : order[i] = word[i]
          /\ order[3] = "comma"
          /\ order[4] = name
          /\ order[5] = "comma"
          /\ order[6] = number
      BY <2>0, <3>3
    <3> QED
      BY <2>1, <3>4
  <2>3. /\ 1 \in 1..6 /\ 2 \in 1..6 /\ 3 \in 1..6 /\ 4 \in 1..6 /\ 5 \in 1..6 /\ 6 \in 1..6
    OBVIOUS
  <2>4. /\ Len(line) = 7 /\ line[7] = "newline"
        /\ \A i \in 1..6 : line[i] = order[i]
    BY <1>1, <2>2
  <2>5. /\ line[1] = order[1]
        /\ line[2] = order[2]
        /\ line[3] = order[3]
        /\ line[4] = order[4]
        /\ line[5] = order[5]
        /\ line[6] = order[6]
    BY <2>3, <2>4
  <2> QED
    BY <1>6, <2>2, <2>4, <2>5 DEF SetLine
<1>7. ASSUME NEW name \in Server!Name, NEW number \in Server!Literal,
             order = Server!Set(Server!SET_PARAMETER_IN_DEVICE, name, number)
      PROVE  order \in Text /\ Len(order) = 7 /\ SetInDeviceLine(line, order, name, number)
  <2>0. PICK word \in Text : word = Server!SET_PARAMETER_IN_DEVICE /\ Len(word) = 3
    BY Keywords
  <2>1. word[1] = "SET_" /\ word[2] = "PARAMETER" /\ word[3] = "_IN_DEVICE"
        /\ 1 \in 1..3 /\ 2 \in 1..3 /\ 3 \in 1..3
    BY <2>0 DEF Server!SET_PARAMETER_IN_DEVICE
  <2>2. /\ order \in Text /\ Len(order) = 7
        /\ order[1] = "SET_" /\ order[2] = "PARAMETER" /\ order[3] = "_IN_DEVICE"
        /\ order[4] = "comma" /\ order[5] = name /\ order[6] = "comma"
        /\ order[7] = number
    <3>2. order = Server!Set(word, name, number)
      BY <1>7, <2>0
    <3>3. /\ order \in Text /\ Len(order) = Len(word) + 4
          /\ \A i \in 1..Len(word) : order[i] = word[i]
          /\ order[Len(word) + 1] = "comma"
          /\ order[Len(word) + 2] = name
          /\ order[Len(word) + 3] = "comma"
          /\ order[Len(word) + 4] = number
      BY <3>2, SetText
    <3>4. /\ order \in Text /\ Len(order) = 7
          /\ \A i \in 1..3 : order[i] = word[i]
          /\ order[4] = "comma"
          /\ order[5] = name
          /\ order[6] = "comma"
          /\ order[7] = number
      BY <2>0, <3>3
    <3> QED
      BY <2>1, <3>4
  <2>3. /\ 1 \in 1..7 /\ 2 \in 1..7 /\ 3 \in 1..7 /\ 4 \in 1..7 /\ 5 \in 1..7 /\ 6 \in 1..7
        /\ 7 \in 1..7
    OBVIOUS
  <2>4. /\ Len(line) = 8 /\ line[8] = "newline"
        /\ \A i \in 1..7 : line[i] = order[i]
    BY <1>1, <2>2
  <2>5. /\ line[1] = order[1]
        /\ line[2] = order[2]
        /\ line[3] = order[3]
        /\ line[4] = order[4]
        /\ line[5] = order[5]
        /\ line[6] = order[6]
        /\ line[7] = order[7]
    BY <2>3, <2>4
  <2> QED
    BY <1>7, <2>2, <2>4, <2>5 DEF SetInDeviceLine
<1>8. \/ order = Server!CONNECT \/ order = Server!DISCONNECT
      \/ \E name \in Server!Name :
            \/ order = Server!Get(Server!GET_PARAMETER, name)
            \/ order = Server!Get(Server!GET_PARAMETER_FROM_DEVICE, name)
      \/ \E name \in Server!Name, number \in Server!Literal :
            \/ order = Server!Set(Server!SET_PARAMETER, name, number)
            \/ order = Server!Set(Server!SET_PARAMETER_IN_DEVICE, name, number)
  BY DEF Server!Command
<1>9. CASE \E name \in Server!Name :
              \/ order = Server!Get(Server!GET_PARAMETER, name)
              \/ order = Server!Get(Server!GET_PARAMETER_FROM_DEVICE, name)
  <2>1. PICK name \in Server!Name : \/ order = Server!Get(Server!GET_PARAMETER, name)
                               \/ order = Server!Get(Server!GET_PARAMETER_FROM_DEVICE, name)
    BY <1>9
  <2>2. order \in Text /\ Len(order) \in Nat /\ Len(order) > 0
    BY <1>4, <1>5, <2>1
  <2>3. GetLine(line, order, name) \/ GetFromDeviceLine(line, order, name)
    BY <1>4, <1>5, <2>1
  <2> QED
    BY <1>1, <2>2, <2>3 DEF line
<1>10. CASE \E name \in Server!Name, number \in Server!Literal :
              \/ order = Server!Set(Server!SET_PARAMETER, name, number)
              \/ order = Server!Set(Server!SET_PARAMETER_IN_DEVICE, name, number)
  <2>1. PICK name \in Server!Name, number \in Server!Literal :
               \/ order = Server!Set(Server!SET_PARAMETER, name, number)
               \/ order = Server!Set(Server!SET_PARAMETER_IN_DEVICE, name, number)
    BY <1>10
  <2>2. CASE order = Server!Set(Server!SET_PARAMETER, name, number)
    <3>1. order \in Text /\ Len(order) = 6 /\ SetLine(line, order, name, number)
      BY <1>6, <2>2
    <3>2. Len(order) \in Nat /\ Len(order) > 0
      BY <3>1
    <3> QED
      BY <1>1, <3>1, <3>2 DEF line
  <2>3. CASE order = Server!Set(Server!SET_PARAMETER_IN_DEVICE, name, number)
    <3>1. order \in Text /\ Len(order) = 7 /\ SetInDeviceLine(line, order, name, number)
      BY <1>7, <2>3
    <3>2. Len(order) \in Nat /\ Len(order) > 0
      BY <3>1
    <3> QED
      BY <1>1, <3>1, <3>2 DEF line
  <2> QED
    BY <2>1, <2>2, <2>3
<1> QED
  BY <1>2, <1>3, <1>8, <1>9, <1>10

(* No word of a command is a name or a value. *)
LEMMA Words ==
    /\ \A word \in {"CON", "NECT", "DIS", "SET_", "GET_", "PARAMETER", "_IN_DEVICE",
                    "_FROM_DEVICE", "comma", "newline"} :
          word \notin Server!Name /\ word \notin Server!Literal
    /\ \A name \in Server!Name : name \notin Server!Literal /\ name \notin Server!Word
    /\ \A number \in Server!Literal : number \notin Server!Name /\ number \notin Server!Word
  BY Fragments DEF Server!Word

(* What a line is: the words of a keyword, then its arguments.             *)
Whole(line, asked) ==
    /\ Len(line) >= 3
    /\ line[1] \in HeadWord /\ line[Len(line)] = "newline"
    /\ \A i \in 1..Len(line) - 1 : line[i] # "newline"
    /\ \A i \in 1..3 : line[i] \notin Server!Name
    /\ Composed(line, asked)
    /\ \E h : Heads(line) \subseteq {h}

LEMMA ConnectIsWhole ==
    ASSUME NEW line \in Text, NEW asked, NEW order, ConnectLine(line, order)
    PROVE  Whole(line, asked)
<1>1. Len(line) = 3 /\ line[1] = "CON" /\ line[2] = "NECT" /\ line[3] = "newline"
  BY DEF ConnectLine
<1>2. \A i \in 1..3 : line[i] \notin Server!Name /\ line[i] \notin Server!Literal
  <2>1. \A i \in 1..3 : i = 1 \/ i = 2 \/ i = 3
    OBVIOUS
  <2> QED
    BY <1>1, <2>1, Words
<1>3. \A i \in 1..2 : line[i] # "newline" /\ line[i] # "comma" /\ line[i] # "_IN_DEVICE"
  <2>1. \A i \in 1..2 : i = 1 \/ i = 2
    OBVIOUS
  <2> QED
    BY <1>1, <2>1
<1>4. Composed(line, asked)
  BY <1>1, <1>2, <1>3 DEF Composed
<1>5. Heads(line) \subseteq {1}
  BY <1>1 DEF Heads
<1> QED
  BY <1>1, <1>2, <1>3, <1>4, <1>5 DEF Whole, HeadWord

LEMMA DisconnectIsWhole ==
    ASSUME NEW line \in Text, NEW asked, NEW order, DisconnectLine(line, order)
    PROVE  Whole(line, asked)
<1>1. /\ Len(line) = 4 /\ line[1] = "DIS" /\ line[2] = "CON" /\ line[3] = "NECT"
      /\ line[4] = "newline"
  BY DEF DisconnectLine
<1>2. \A i \in 1..4 : line[i] \notin Server!Name /\ line[i] \notin Server!Literal
  <2>1. \A i \in 1..4 : i = 1 \/ i = 2 \/ i = 3 \/ i = 4
    OBVIOUS
  <2> QED
    BY <1>1, <2>1, Words
<1>3. \A i \in 1..3 : line[i] # "newline" /\ line[i] # "comma" /\ line[i] # "_IN_DEVICE"
  <2>1. \A i \in 1..3 : i = 1 \/ i = 2 \/ i = 3
    OBVIOUS
  <2> QED
    BY <1>1, <2>1
<1>4. Composed(line, asked)
  BY <1>1, <1>2, <1>3 DEF Composed
<1>5. Heads(line) \subseteq {2}
  BY <1>1 DEF Heads
<1> QED
  BY <1>1, <1>2, <1>3, <1>4, <1>5 DEF Whole, HeadWord

LEMMA GetIsWhole ==
    ASSUME NEW line \in Text, NEW asked, NEW order, NEW name \in Server!Name,
           GetLine(line, order, name)
    PROVE  Whole(line, asked)
<1>1. /\ Len(line) = 5 /\ line[1] = "GET_" /\ line[2] = "PARAMETER" /\ line[3] = "comma"
      /\ line[4] = name /\ line[5] = "newline"
  BY DEF GetLine
<1>2. \A i \in 1..5 : i = 1 \/ i = 2 \/ i = 3 \/ i = 4 \/ i = 5
  OBVIOUS
<1>3. /\ \A i \in 1..5 : line[i] \in Server!Name => i = 4
      /\ \A i \in 1..5 : line[i] \notin Server!Literal
  BY <1>1, <1>2, Words
<1>4. \A i \in 1..4 : /\ line[i] # "newline" /\ line[i] # "_IN_DEVICE"
                      /\ line[i] = "comma" => i = 3
  <2>1. name # "newline" /\ name # "comma" /\ name # "_IN_DEVICE"
    BY Words
  <2>2. \A i \in 1..4 : i = 1 \/ i = 2 \/ i = 3 \/ i = 4
    OBVIOUS
  <2> QED
    BY <1>1, <2>1, <2>2
<1>5. Composed(line, asked)
  BY <1>1, <1>3, <1>4 DEF Composed
<1>6. Heads(line) \subseteq {1}
  <2>1. name \notin {"CON", "SET_", "GET_"}
    BY Words
  <2> QED
    BY <1>1, <1>2, <2>1 DEF Heads
<1>7. \A i \in 1..3 : line[i] \notin Server!Name
  BY <1>3
<1> QED
  BY <1>1, <1>4, <1>5, <1>6, <1>7 DEF Whole, HeadWord

LEMMA GetFromDeviceIsWhole ==
    ASSUME NEW line \in Text, NEW asked, NEW order, NEW name \in Server!Name,
           GetFromDeviceLine(line, order, name)
    PROVE  Whole(line, asked)
<1>1. /\ Len(line) = 6 /\ line[1] = "GET_" /\ line[2] = "PARAMETER"
      /\ line[3] = "_FROM_DEVICE" /\ line[4] = "comma" /\ line[5] = name /\ line[6] = "newline"
  BY DEF GetFromDeviceLine
<1>2. \A i \in 1..6 : i = 1 \/ i = 2 \/ i = 3 \/ i = 4 \/ i = 5 \/ i = 6
  OBVIOUS
<1>3. /\ \A i \in 1..6 : line[i] \in Server!Name => i = 5
      /\ \A i \in 1..6 : line[i] \notin Server!Literal
  BY <1>1, <1>2, Words
<1>4. \A i \in 1..5 : /\ line[i] # "newline" /\ line[i] # "_IN_DEVICE"
                      /\ line[i] = "comma" => i = 4
  <2>1. name # "newline" /\ name # "comma" /\ name # "_IN_DEVICE"
    BY Words
  <2>2. \A i \in 1..5 : i = 1 \/ i = 2 \/ i = 3 \/ i = 4 \/ i = 5
    OBVIOUS
  <2> QED
    BY <1>1, <2>1, <2>2
<1>5. Composed(line, asked)
  BY <1>1, <1>3, <1>4 DEF Composed
<1>6. Heads(line) \subseteq {1}
  <2>1. name \notin {"CON", "SET_", "GET_"}
    BY Words
  <2> QED
    BY <1>1, <1>2, <2>1 DEF Heads
<1>7. \A i \in 1..3 : line[i] \notin Server!Name
  BY <1>3
<1> QED
  BY <1>1, <1>4, <1>5, <1>6, <1>7 DEF Whole, HeadWord

LEMMA SetIsWhole ==
    ASSUME NEW line \in Text, NEW asked, NEW order \in asked, NEW name \in Server!Name,
           NEW number \in Server!Literal, SetLine(line, order, name, number)
    PROVE  Whole(line, asked)
<1>1. /\ Len(line) = 7 /\ line[1] = "SET_" /\ line[2] = "PARAMETER" /\ line[3] = "comma"
      /\ line[4] = name /\ line[5] = "comma" /\ line[6] = number /\ line[7] = "newline"
  BY DEF SetLine
<1>2. \A i \in 1..7 : i = 1 \/ i = 2 \/ i = 3 \/ i = 4 \/ i = 5 \/ i = 6 \/ i = 7
  OBVIOUS
<1>3. /\ \A i \in 1..7 : line[i] \in Server!Name => i = 4
      /\ \A i \in 1..7 : line[i] \in Server!Literal => i = 6
  <2>1. name \notin Server!Literal /\ number \notin Server!Name
    BY Words
  <2> QED
    BY <1>1, <1>2, <2>1, Words
<1>4. \A i \in 1..6 : /\ line[i] # "newline" /\ line[i] # "_IN_DEVICE"
                      /\ line[i] = "comma" => i = 3 \/ i = 5
  <2>1. /\ name # "newline" /\ name # "comma" /\ name # "_IN_DEVICE"
        /\ number # "newline" /\ number # "comma" /\ number # "_IN_DEVICE"
    BY Words
  <2>2. \A i \in 1..6 : i = 1 \/ i = 2 \/ i = 3 \/ i = 4 \/ i = 5 \/ i = 6
    OBVIOUS
  <2> QED
    BY <1>1, <2>1, <2>2
<1>5. Server!Set(Server!SET_PARAMETER, line[4], line[6]) \in asked
  BY <1>1 DEF SetLine
<1>6. Composed(line, asked)
  BY <1>1, <1>3, <1>4, <1>5 DEF Composed
<1>7. Heads(line) \subseteq {1}
  <2>1. name \notin {"CON", "SET_", "GET_"} /\ number \notin {"CON", "SET_", "GET_"}
    BY Words
  <2> QED
    BY <1>1, <1>2, <2>1 DEF Heads
<1>8. \A i \in 1..3 : line[i] \notin Server!Name
  BY <1>3
<1> QED
  BY <1>1, <1>4, <1>6, <1>7, <1>8 DEF Whole, HeadWord

LEMMA SetInDeviceIsWhole ==
    ASSUME NEW line \in Text, NEW asked, NEW order \in asked, NEW name \in Server!Name,
           NEW number \in Server!Literal, SetInDeviceLine(line, order, name, number)
    PROVE  Whole(line, asked)
<1>1. /\ Len(line) = 8 /\ line[1] = "SET_" /\ line[2] = "PARAMETER"
      /\ line[3] = "_IN_DEVICE" /\ line[4] = "comma" /\ line[5] = name /\ line[6] = "comma"
      /\ line[7] = number /\ line[8] = "newline"
  BY DEF SetInDeviceLine
<1>2. \A i \in 1..8 : i = 1 \/ i = 2 \/ i = 3 \/ i = 4 \/ i = 5 \/ i = 6 \/ i = 7 \/ i = 8
  OBVIOUS
<1>3. /\ \A i \in 1..8 : line[i] \in Server!Name => i = 5
      /\ \A i \in 1..8 : line[i] \in Server!Literal => i = 7
  <2>1. name \notin Server!Literal /\ number \notin Server!Name
    BY Words
  <2> QED
    BY <1>1, <1>2, <2>1, Words
<1>4. \A i \in 1..7 : /\ line[i] # "newline" /\ (line[i] = "_IN_DEVICE" => i = 3)
                      /\ line[i] = "comma" => i = 4 \/ i = 6
  <2>1. /\ name # "newline" /\ name # "comma" /\ name # "_IN_DEVICE"
        /\ number # "newline" /\ number # "comma" /\ number # "_IN_DEVICE"
    BY Words
  <2>2. \A i \in 1..7 : i = 1 \/ i = 2 \/ i = 3 \/ i = 4 \/ i = 5 \/ i = 6 \/ i = 7
    OBVIOUS
  <2> QED
    BY <1>1, <2>1, <2>2
<1>5. Server!Set(Server!SET_PARAMETER_IN_DEVICE, line[5], line[7]) \in asked
  BY <1>1 DEF SetInDeviceLine
<1>6. Composed(line, asked)
  BY <1>1, <1>3, <1>4, <1>5 DEF Composed
<1>7. Heads(line) \subseteq {1}
  <2>1. name \notin {"CON", "SET_", "GET_"} /\ number \notin {"CON", "SET_", "GET_"}
    BY Words
  <2> QED
    BY <1>1, <1>2, <2>1 DEF Heads
<1>8. \A i \in 1..3 : line[i] \notin Server!Name
  BY <1>3
<1> QED
  BY <1>1, <1>4, <1>6, <1>7, <1>8 DEF Whole, HeadWord

(* Whatever the client sends is a whole line. *)
LEMMA LinesAreWhole ==
    ASSUME NEW order \in Server!Command, NEW asked,
           Head(order) = "SET_" => order \in asked
    PROVE  Server!Line(order) \in Text /\ Whole(Server!Line(order), asked)
<1> DEFINE line == Server!Line(order)
<1>1. /\ line \in Text /\ order \in Text /\ order[1] = line[1]
      /\ \/ ConnectLine(line, order)
         \/ DisconnectLine(line, order)
         \/ \E name \in Server!Name :
               GetLine(line, order, name) \/ GetFromDeviceLine(line, order, name)
         \/ \E name \in Server!Name, number \in Server!Literal :
               \/ SetLine(line, order, name, number)
               \/ SetInDeviceLine(line, order, name, number)
  BY LineForms
<1> HIDE DEF line
<1>2. line[1] = "SET_" => order \in asked
  BY <1>1 
<1>3. ASSUME NEW name \in Server!Name, NEW number \in Server!Literal,
             SetLine(line, order, name, number) \/ SetInDeviceLine(line, order, name, number)
      PROVE  Whole(line, asked)
  <2>1. line[1] = "SET_"
    BY <1>3 DEF SetLine, SetInDeviceLine
  <2>2. order \in asked
    BY <1>2, <2>1
  <2> QED
    BY <1>1, <1>3, <2>2, SetIsWhole, SetInDeviceIsWhole
<1>4. ASSUME NEW name \in Server!Name,
             GetLine(line, order, name) \/ GetFromDeviceLine(line, order, name)
      PROVE  Whole(line, asked)
  BY <1>1, <1>4, GetIsWhole, GetFromDeviceIsWhole
<1>5. ConnectLine(line, order) \/ DisconnectLine(line, order) => Whole(line, asked)
  BY <1>1, ConnectIsWhole, DisconnectIsWhole
<1>6. Whole(line, asked)
  BY <1>1, <1>3, <1>4, <1>5
<1> QED
  BY <1>1, <1>6 DEF line

(* What TCP cuts out is composed like the whole, and so is what it has    *)
(* joined at the end of a line.                                            *)
LEMMA ComposedMore ==
    ASSUME NEW text \in Text, NEW asked, NEW more, asked \subseteq more, Composed(text, asked)
    PROVE  Composed(text, more)
  BY DEF Composed

(* Cutting: the conditions speak of fragments next to each other, which    *)
(* are still next to each other in a part.                                 *)
LEMMA ComposedPart ==
    ASSUME NEW text \in Text, NEW asked, Composed(text, asked),
           NEW m \in 1..Len(text) + 1, NEW n \in m - 1..Len(text)
    PROVE  Composed(SubSeq(text, m, n), asked)
<1> DEFINE part == SubSeq(text, m, n)
<1>1. /\ part \in Text /\ Len(part) = n - m + 1
      /\ \A i \in 1..n - m + 1 : part[i] = text[m + i - 1]
  BY Part
<1>2. Len(text) \in Nat /\ m \in Nat /\ n \in Nat /\ Len(part) \in Nat
  BY TextFacts, <1>1
<1> HIDE DEF part
<1> DEFINE At(i) == m + i - 1
<1>3. ASSUME NEW i \in 1..Len(part)
      PROVE  part[i] = text[At(i)] /\ At(i) \in 1..Len(text)
  BY <1>1, <1>2
<1>4. ASSUME NEW i \in 1..Len(part) - 1
      PROVE  /\ At(i) \in 1..Len(text) - 1 /\ part[i] = text[At(i)]
             /\ part[i+1] = text[At(i) + 1]
  <2>1. i \in 1..Len(part) /\ i + 1 \in 1..Len(part) /\ At(i + 1) = At(i) + 1
    BY <1>1, <1>2
  <2>2. At(i + 1) \in 1..Len(text) /\ part[i] = text[At(i)] /\ part[i+1] = text[At(i) + 1]
    BY <1>3, <2>1
  <2>3. At(i) \in 1..Len(text) - 1
    BY <1>1, <1>2
  <2> QED
    BY <2>2, <2>3
<1>5. ASSUME NEW i \in 2..Len(part), part[i] \in Server!Name
      PROVE  part[i-1] = "comma"
  <2>1. i - 1 \in 1..Len(part) - 1 /\ At(i - 1) + 1 = At(i) /\ (i - 1) + 1 = i
    BY <1>2
  <2>2. part[i] = text[At(i)] /\ part[i-1] = text[At(i) - 1] /\ At(i) \in 2..Len(text)
    BY <1>1, <1>2
  <2> QED
    BY <1>5, <2>2 DEF Composed
<1>6. ASSUME NEW i \in 3..Len(part), part[i] \in Server!Name
      PROVE  part[i-2] \in {"PARAMETER", "_IN_DEVICE", "_FROM_DEVICE"}
  <2>2. part[i] = text[At(i)] /\ part[i-2] = text[At(i) - 2] /\ At(i) \in 3..Len(text)
    BY <1>1, <1>2
  <2> QED
    BY <1>6, <2>2 DEF Composed
<1>7. ASSUME NEW i \in 1..Len(part) - 1
      PROVE  /\ part[i] \in Server!Name \cup Server!Literal => part[i+1] \in {"comma", "newline"}
             /\ i >= 2 /\ part[i] \in Server!Literal => part[i+1] = "newline"
             /\ part[i] = "newline" => part[i+1] \in HeadWord
             /\ part[i] = "comma" => part[i+1] \in Server!Name \cup Server!Literal
             /\ part[i] = "_IN_DEVICE" => part[i+1] = "comma"
  <2> DEFINE j == At(i)
  <2>1. j \in 1..Len(text) - 1 /\ part[i] = text[j] /\ part[i+1] = text[j+1]
    BY <1>4
  <2>2. i >= 2 => j \in 2..Len(text) - 1
    BY <1>2, <2>1
  <2> HIDE DEF j
  <2> QED
    BY <2>1, <2>2 DEF Composed
<1>8. ASSUME NEW i \in 3..Len(part) - 2
      PROVE  /\ part[i] \in Server!Name /\ part[i+1] = "comma" /\ part[i-2] = "PARAMETER"
                => Server!Set(Server!SET_PARAMETER, part[i], part[i+2]) \in asked
             /\ part[i] \in Server!Name /\ part[i+1] = "comma" /\ part[i-2] = "_IN_DEVICE"
                => Server!Set(Server!SET_PARAMETER_IN_DEVICE, part[i], part[i+2]) \in asked
  <2> DEFINE j == At(i)
  <2>1. /\ j \in 3..Len(text) - 2 /\ part[i] = text[j] /\ part[i+1] = text[j+1]
        /\ part[i-2] = text[j-2] /\ part[i+2] = text[j+2]
    BY <1>1, <1>2
  <2> HIDE DEF j
  <2> QED
    BY <2>1 DEF Composed
<1>9. Composed(part, asked)
  <2>1. \A i \in 2..Len(part) - 1 : i \in 1..Len(part) - 1 /\ i >= 2
    BY <1>2
  <2> QED
    BY <1>5, <1>6, <1>7, <1>8, <2>1 DEF Composed
<1> QED
  BY <1>9 DEF part

(* What the client has sent and the server not received. *)
Streamed(text, asked) ==
    /\ text \in Text
    /\ Composed(text, asked)
    /\ text # <<>> => text[Len(text)] = "newline"

(* Joining: where a line follows another, a "newline" and the head of a    *)
(* keyword meet.                                                           *)
LEMMA ComposedJoined ==
    ASSUME NEW text, NEW asked, Streamed(text, asked), NEW line \in Text, Whole(line, asked)
    PROVE  Streamed(text \o line, asked)
<1> DEFINE joined == text \o line
           L == Len(text)
           M == Len(line)
<1>0. text \in Text /\ Composed(text, asked)
  BY DEF Streamed
<1>1. L \in Nat /\ M \in Nat /\ M >= 3
  BY <1>0, TextFacts DEF Whole
<1>2. /\ joined \in Text /\ Len(joined) = L + M
      /\ \A i \in 1..L : joined[i] = text[i]
      /\ \A i \in 1..M : joined[L + i] = line[i]
  BY <1>0, Joined
<1>3. L > 0 => text[L] = "newline"
  BY <1>0, TextFacts DEF Streamed
<1> HIDE DEF joined, L, M
<1>4. ASSUME NEW i \in 1..L + M, i > L
      PROVE  i - L \in 1..M /\ joined[i] = line[i - L]
  <2>1. i - L \in 1..M /\ L + (i - L) = i
    BY <1>1, <1>4
  <2> QED
    BY <1>2, <2>1
<1>5. ASSUME NEW i \in 1..L + M, joined[i] \in Server!Name, i > L
      PROVE  /\ i - L \in 4..M /\ joined[i] = line[i - L]
             /\ joined[i-1] = line[(i - L) - 1] /\ joined[i-2] = line[(i - L) - 2]
  <2>1. i - L \in 1..M /\ joined[i] = line[i - L]
    BY <1>4, <1>5
  <2>2. i - L \notin 1..3
    BY <1>5, <2>1 DEF Whole
  <2>3. i - L \in 4..M
    BY <1>1, <2>1, <2>2
  <2>4. /\ i - 1 \in 1..L + M /\ i - 1 > L /\ (i - 1) - L = (i - L) - 1
        /\ i - 2 \in 1..L + M /\ i - 2 > L /\ (i - 2) - L = (i - L) - 2
    BY <1>1, <2>3
  <2>5. joined[i-1] = line[(i - 1) - L] /\ joined[i-2] = line[(i - 2) - L]
    BY <1>4, <2>4
  <2> QED
    BY <2>1, <2>3, <2>4, <2>5
<1>6. ASSUME NEW i \in 2..L + M, joined[i] \in Server!Name
      PROVE  joined[i-1] = "comma"
  <2>1. CASE i <= L
    <3>1. i \in 2..L /\ i \in 1..L /\ i - 1 \in 1..L
      BY <1>1, <2>1
    <3>2. joined[i] = text[i] /\ joined[i-1] = text[i-1]
      BY <1>2, <3>1
    <3> QED
      BY <1>0, <1>6, <3>1, <3>2 DEF Composed, L
  <2>2. CASE i > L
    <3> DEFINE j == i - L
    <3>1. j \in 4..M /\ joined[i] = line[j] /\ joined[i-1] = line[j-1]
      BY <1>1, <1>5, <1>6, <2>2
    <3> HIDE DEF j
    <3>2. j \in 2..M
      BY <1>1, <3>1
    <3> QED
      BY <1>6, <3>1, <3>2 DEF Whole, Composed, M
  <2> QED
    BY <1>1, <2>1, <2>2
<1>7. ASSUME NEW i \in 3..L + M, joined[i] \in Server!Name
      PROVE  joined[i-2] \in {"PARAMETER", "_IN_DEVICE", "_FROM_DEVICE"}
  <2>1. CASE i <= L
    <3>1. i \in 3..L /\ i \in 1..L /\ i - 2 \in 1..L
      BY <1>1, <2>1
    <3>2. joined[i] = text[i] /\ joined[i-2] = text[i-2]
      BY <1>2, <3>1
    <3> QED
      BY <1>0, <1>7, <3>1, <3>2 DEF Composed, L
  <2>2. CASE i > L
    <3> DEFINE j == i - L
    <3>1. j \in 4..M /\ joined[i] = line[j] /\ joined[i-2] = line[j-2]
      BY <1>1, <1>5, <1>7, <2>2
    <3> HIDE DEF j
    <3>2. j \in 3..M
      BY <1>1, <3>1
    <3> QED
      BY <1>7, <3>1, <3>2 DEF Whole, Composed, M
  <2> QED
    BY <1>1, <2>1, <2>2
<1>8. ASSUME NEW i \in 1..L + M - 1
      PROVE  /\ joined[i] \in Server!Name \cup Server!Literal
                => joined[i+1] \in {"comma", "newline"}
             /\ i >= 2 /\ joined[i] \in Server!Literal => joined[i+1] = "newline"
             /\ joined[i] = "newline" => joined[i+1] \in HeadWord
             /\ joined[i] = "comma" => joined[i+1] \in Server!Name \cup Server!Literal
             /\ joined[i] = "_IN_DEVICE" => joined[i+1] = "comma"
  <2>1. CASE i < L
    <3>1. i \in 1..L - 1 /\ i \in 1..L /\ i + 1 \in 1..L
      BY <1>1, <2>1
    <3>2. joined[i] = text[i] /\ joined[i+1] = text[i+1] /\ (i >= 2 => i \in 2..L - 1)
      BY <1>1, <1>2, <3>1
    <3> QED
      BY <1>0, <3>1, <3>2 DEF Composed, L
  <2>2. CASE i = L
    <3>1. i \in 1..L /\ L > 0
      BY <1>1, <2>2
    <3>2. joined[i] = "newline"
      BY <1>2, <1>3, <2>2, <3>1
    <3>3. joined[i+1] = line[1]
      BY <1>1, <1>2, <2>2
    <3>4. line[1] \in HeadWord
      BY DEF Whole
    <3> QED
      BY <3>2, <3>3, <3>4, Words
  <2>3. CASE i > L
    <3> DEFINE j == i - L
    <3>1. j \in 1..M - 1 /\ joined[i] = line[j] /\ joined[i+1] = line[j+1]
      <4>1. i \in 1..L + M /\ i + 1 \in 1..L + M /\ i + 1 > L /\ (i + 1) - L = (i - L) + 1
        BY <1>1, <2>3
      <4>2. i - L \in 1..M /\ (i + 1) - L \in 1..M /\ joined[i] = line[i - L]
            /\ joined[i+1] = line[(i + 1) - L]
        BY <1>4, <2>3, <4>1
      <4> QED
        BY <1>1, <4>1, <4>2
    <3> HIDE DEF j
    <3>2. j # 1 => j \in 2..M - 1
      BY <1>1, <3>1
    <3>3. j = 1 => line[j] \notin Server!Name \cup Server!Literal
      BY Words DEF Whole, HeadWord
    <3> QED
      BY <3>1, <3>2, <3>3 DEF Whole, Composed, M
  <2> QED
    BY <1>1, <2>1, <2>2, <2>3
<1>9. ASSUME NEW i \in 3..L + M - 2, joined[i] \in Server!Name, joined[i+1] = "comma"
      PROVE  /\ joined[i-2] = "PARAMETER"
                => Server!Set(Server!SET_PARAMETER, joined[i], joined[i+2]) \in asked
             /\ joined[i-2] = "_IN_DEVICE"
                => Server!Set(Server!SET_PARAMETER_IN_DEVICE, joined[i], joined[i+2]) \in asked
  <2>1. CASE i <= L
    <3>1. i # L /\ i + 1 # L
      <4>1. L > 0 /\ L \in 1..L /\ joined[L] = "newline"
        BY <1>1, <1>2, <1>3, <2>1
      <4> QED
        BY <1>1, <1>9, <2>1, <4>1, Words
    <3>2. /\ i \in 3..L - 2 /\ i \in 1..L /\ i - 2 \in 1..L /\ i + 1 \in 1..L /\ i + 2 \in 1..L
      BY <1>1, <2>1, <3>1
    <3>3. /\ joined[i] = text[i] /\ joined[i+1] = text[i+1]
          /\ joined[i-2] = text[i-2] /\ joined[i+2] = text[i+2]
      BY <1>2, <3>2
    <3> QED
      BY <1>0, <1>9, <3>2, <3>3 DEF Composed, L
  <2>2. CASE i > L
    <3> DEFINE j == i - L
    <3>1. i \in 1..L + M /\ j \in 4..M /\ joined[i] = line[j] /\ joined[i-2] = line[j-2]
      BY <1>1, <1>5, <1>9, <2>2
    <3>2. /\ i + 1 \in 1..L + M /\ i + 1 > L /\ (i + 1) - L = j + 1
          /\ i + 2 \in 1..L + M /\ i + 2 > L /\ (i + 2) - L = j + 2
          /\ j \in 3..M - 2
      BY <1>1, <2>2, <3>1
    <3>3. joined[i+1] = line[(i + 1) - L] /\ joined[i+2] = line[(i + 2) - L]
      BY <1>4, <3>2
    <3>4. joined[i+1] = line[j+1] /\ joined[i+2] = line[j+2]
      BY <3>2, <3>3
    <3> HIDE DEF j
    <3> QED
      BY <1>9, <3>1, <3>2, <3>4 DEF Whole, Composed, M
  <2> QED
    BY <1>1, <2>1, <2>2
<1>10. Composed(joined, asked)
  <2>1. Len(joined) = L + M
    BY <1>2
  <2>2. \A i \in 2..Len(joined) : joined[i] \in Server!Name => joined[i-1] = "comma"
    BY <2>1, <1>6
  <2>3. \A i \in 3..Len(joined) :
           joined[i] \in Server!Name
             => joined[i-2] \in {"PARAMETER", "_IN_DEVICE", "_FROM_DEVICE"}
    BY <2>1, <1>7
  <2>4. ASSUME NEW i \in 1..Len(joined) - 1
        PROVE  /\ joined[i] \in Server!Name \cup Server!Literal
                  => joined[i+1] \in {"comma", "newline"}
               /\ i >= 2 /\ joined[i] \in Server!Literal => joined[i+1] = "newline"
               /\ joined[i] = "newline" => joined[i+1] \in HeadWord
               /\ joined[i] = "comma" => joined[i+1] \in Server!Name \cup Server!Literal
               /\ joined[i] = "_IN_DEVICE" => joined[i+1] = "comma"
    <3>1. i \in 1..L + M - 1
      BY <1>1, <2>1
    <3> QED
      BY <1>8, <3>1, Zenon
  <2>5. ASSUME NEW i \in 3..Len(joined) - 2, joined[i] \in Server!Name, joined[i+1] = "comma"
        PROVE  /\ joined[i-2] = "PARAMETER"
                  => Server!Set(Server!SET_PARAMETER, joined[i], joined[i+2]) \in asked
               /\ joined[i-2] = "_IN_DEVICE"
                  => Server!Set(Server!SET_PARAMETER_IN_DEVICE, joined[i], joined[i+2]) \in asked
    <3>1. i \in 3..L + M - 2
      BY <1>1, <2>1
    <3> QED
      BY <1>9, <2>5, <3>1, Zenon
  <2>6. \A i \in 2..Len(joined) - 1 : i \in 1..Len(joined) - 1 /\ i >= 2
    BY <1>1, <2>1
  <2> QED
    BY <2>2, <2>3, <2>4, <2>5, <2>6 DEF Composed
<1>11. joined[Len(joined)] = "newline"
  <2>1. M \in 1..M /\ line[M] = "newline"
    BY <1>1 DEF Whole, M
  <2> QED
    BY <1>2, <2>1
<1>12. joined \in Text /\ Composed(joined, asked) /\ joined[Len(joined)] = "newline"
  BY <1>2, <1>10, <1>11
<1> QED
  BY <1>12 DEF Streamed, joined

(* What is received and what is left share the heads. *)
LEMMA HeadsCut ==
    ASSUME NEW text \in Text, NEW n \in 0..Len(text)
    PROVE  Cardinality(Heads(SubSeq(text, 1, n)))
             + Cardinality(Heads(SubSeq(text, n + 1, Len(text)))) <= Cardinality(Heads(text))
<1> DEFINE begin == SubSeq(text, 1, n)
           rest  == SubSeq(text, n + 1, Len(text))
           A == {i \in Heads(text) : i <= n}
           D == {i \in Heads(text) : i > n}
           f == [i \in Heads(rest) |-> i + n]
<1>1. Len(text) \in Nat /\ n \in Nat
  BY TextFacts
<1>2. begin \in Text /\ Len(begin) = n /\ \A i \in 1..n : begin[i] = text[i]
  <2>1. 1 \in 1..Len(text) + 1 /\ n \in 1 - 1..Len(text) /\ n - 1 + 1 = n
    BY <1>1
  <2>2. \A i \in 1..n : 1 + i - 1 = i
    BY <1>1
  <2> QED
    BY <2>1, <2>2, Part
<1>3. /\ rest \in Text /\ Len(rest) = Len(text) - n
      /\ \A i \in 1..Len(text) - n : rest[i] = text[i + n]
  <2> DEFINE m == n + 1
  <2>1. m \in 1..Len(text) + 1 /\ Len(text) \in m - 1..Len(text) /\ Len(text) - m + 1 = Len(text) - n
    BY <1>1
  <2>2. \A i \in 1..Len(text) - n : m + i - 1 = i + n
    BY <1>1
  <2> HIDE DEF m
  <2>3. /\ SubSeq(text, m, Len(text)) \in Text
        /\ Len(SubSeq(text, m, Len(text))) = Len(text) - m + 1
        /\ \A i \in 1..Len(text) - m + 1 : SubSeq(text, m, Len(text))[i] = text[m + i - 1]
    BY <2>1, Part
  <2>4. /\ SubSeq(text, m, Len(text)) \in Text
        /\ Len(SubSeq(text, m, Len(text))) = Len(text) - n
        /\ \A i \in 1..Len(text) - n : SubSeq(text, m, Len(text))[i] = text[i + n]
    BY <2>1, <2>2, <2>3
  <2> QED
    BY <2>4 DEF m
<1> HIDE DEF begin, rest
<1>4. Heads(begin) \subseteq A
  <2>1. ASSUME NEW i \in Heads(begin) PROVE i \in A
    <3>1. i \in 1..n /\ begin[i] \in {"CON", "SET_", "GET_"}
      BY <1>2 DEF Heads
    <3>2. i \in 1..Len(text) /\ i <= n
      BY <1>1, <3>1
    <3> QED
      BY <1>2, <3>1, <3>2 DEF Heads
  <2> QED
    BY <2>1
<1>5. \A i \in Heads(rest) : i + n \in D /\ i \in Nat
  <2>1. ASSUME NEW i \in Heads(rest) PROVE i + n \in D /\ i \in Nat
    <3>1. i \in 1..Len(text) - n /\ rest[i] \in {"CON", "SET_", "GET_"}
      BY <1>3 DEF Heads
    <3>2. i + n \in 1..Len(text) /\ i + n > n /\ i \in Nat
      BY <1>1, <3>1
    <3>3. i + n \in Heads(text)
      BY <1>3, <3>1, <3>2 DEF Heads
    <3> QED
      BY <3>2, <3>3
  <2> QED
    BY <2>1
<1>6. /\ IsFiniteSet(A) /\ Cardinality(A) \in Nat
      /\ IsFiniteSet(D) /\ Cardinality(D) \in Nat
      /\ A \in SUBSET Heads(text) /\ D \in SUBSET Heads(text)
      /\ IsFiniteSet(A \cup D) /\ Cardinality(A \cup D) <= Cardinality(Heads(text))
      /\ Cardinality(Heads(text)) \in Nat
  <2>1. A \in SUBSET Heads(text) /\ D \in SUBSET Heads(text) /\ A \cup D \in SUBSET Heads(text)
    OBVIOUS
  <2> HIDE DEF A, D
  <2> QED
    BY <2>1, HeadsFinite
<1>7. A \cap D = {}
  <2>1. ASSUME NEW i \in A \cap D PROVE FALSE
    <3>1. i \in 1..Len(text) /\ i <= n /\ i > n
      BY DEF Heads
    <3> QED
      BY <1>1, <3>1
  <2> QED
    BY <2>1
<1> HIDE DEF A, D
<1>8. Cardinality(Heads(begin)) <= Cardinality(A) /\ Cardinality(Heads(begin)) \in Nat
  BY <1>4, <1>6, FS_Subset, FS_CardinalityType
<1>9. Cardinality(Heads(rest)) <= Cardinality(D)
  <2>1. f \in Injection(Heads(rest), D)
    <3>1. f \in [Heads(rest) -> D]
      BY <1>5
    <3>2. \A i, j \in Heads(rest) : f[i] = f[j] => i = j
      BY <1>1, <1>5
    <3> HIDE DEF f
    <3> QED
      BY <3>1, <3>2 DEF Injection, IsInjective
  <2> HIDE DEF f
  <2> QED
    BY <1>6, <2>1, FS_Injection
<1>10. Cardinality(Heads(rest)) \in Nat
  BY <1>3, HeadsFinite
<1>11. Cardinality(A \cup D) = Cardinality(A) + Cardinality(D)
  <2>1. Cardinality(A \cup D) = Cardinality(A) + Cardinality(D) - Cardinality(A \cap D)
    BY <1>6, FS_Union
  <2>2. Cardinality(A \cap D) = 0
    BY <1>7, FS_EmptySet
  <2> QED
    BY <1>6, <2>1, <2>2
<1>12. Cardinality(Heads(begin)) + Cardinality(Heads(rest)) <= Cardinality(Heads(text))
  <2>1. Cardinality(A) + Cardinality(D) <= Cardinality(Heads(text))
    BY <1>6, <1>11
  <2> QED
    BY <1>6, <1>8, <1>9, <1>10, <2>1
<1> QED
  BY <1>12 DEF begin, rest

(* A line has one head at the most. *)
LEMMA HeadsJoined ==
    ASSUME NEW text \in Text, NEW asked, NEW line \in Text, Whole(line, asked)
    PROVE  Cardinality(Heads(text \o line)) <= Cardinality(Heads(text)) + 1
<1>1. PICK h : Heads(line) \subseteq {h}
  BY DEF Whole
<1> DEFINE joined == text \o line
           L == Len(text)
           x == L + h
           S == Heads(text) \cup {x}
<1>2. /\ joined \in Text /\ Len(joined) = L + Len(line)
      /\ \A i \in 1..L : joined[i] = text[i]
      /\ \A i \in 1..Len(line) : joined[L + i] = line[i]
  BY Joined
<1>3. L \in Nat /\ Len(line) \in Nat
  BY TextFacts
<1> HIDE DEF joined, L
<1>4. ASSUME NEW i \in Heads(joined) PROVE i \in S
  <2>1. i \in 1..L + Len(line) /\ joined[i] \in {"CON", "SET_", "GET_"}
    BY <1>2 DEF Heads
  <2>2. CASE i <= L
    <3>1. i \in 1..L
      BY <1>3, <2>1, <2>2
    <3>2. i \in Heads(text)
      BY <1>2, <2>1, <3>1 DEF Heads, L
    <3> QED
      BY <3>2
  <2>3. CASE i > L
    <3>1. i - L \in 1..Len(line) /\ L + (i - L) = i
      BY <1>3, <2>1, <2>3
    <3>2. i - L \in Heads(line)
      BY <1>2, <2>1, <3>1 DEF Heads
    <3>3. i - L = h
      BY <1>1, <3>2
    <3> QED
      BY <3>1, <3>3
  <2> QED
    BY <1>3, <2>1, <2>2, <2>3
<1>5. IsFiniteSet(Heads(text)) /\ Cardinality(Heads(text)) \in Nat
  BY HeadsFinite
<1> HIDE DEF x
<1>6. IsFiniteSet(S) /\ Cardinality(S) \in Nat /\ Cardinality(S) <= Cardinality(Heads(text)) + 1
  <2>1. /\ IsFiniteSet(S)
        /\ Cardinality(S) = IF x \in Heads(text) THEN Cardinality(Heads(text))
                            ELSE Cardinality(Heads(text)) + 1
    BY <1>5, FS_AddElement
  <2> QED
    BY <1>5, <2>1
<1>7. Cardinality(Heads(joined)) <= Cardinality(S) /\ Cardinality(Heads(joined)) \in Nat
  <2>1. Heads(joined) \in SUBSET S
    BY <1>4
  <2> HIDE DEF S
  <2> QED
    BY <1>6, <2>1, FS_Subset, FS_CardinalityType
<1>8. Cardinality(Heads(joined)) <= Cardinality(Heads(text)) + 1
  BY <1>5, <1>6, <1>7
<1> QED
  BY <1>8 DEF joined

(* A cut within an argument puts another one in its place, at the end of   *)
(* what is received and at the beginning of what is left.                  *)
LEMMA FirstReplaced ==
    ASSUME NEW text \in Text, NEW asked, Composed(text, asked), NEW other \in Text,
           Len(other) = Len(text), \A i \in 2..Len(text) : other[i] = text[i],
           text[1] \in Server!Name \cup Server!Literal,
           other[1] \in Server!Name \cup Server!Literal
    PROVE  Composed(other, asked) /\ Heads(other) = Heads(text)
<1> DEFINE L == Len(text)
<1>1. L \in Nat
  BY TextFacts
<1>2. /\ text[1] \notin Server!Word /\ other[1] \notin Server!Word
      /\ \A word \in HeadWord \cup {"comma", "newline", "PARAMETER", "_IN_DEVICE", "_FROM_DEVICE"} :
            text[1] # word /\ other[1] # word
  BY Words DEF HeadWord
<1> HIDE DEF L
<1>3. \A i \in 1..L : i = 1 \/ i \in 2..L
  BY <1>1
<1>4. ASSUME NEW i \in 2..L
      PROVE  /\ other[i] = text[i] /\ (i = 2 \/ other[i-1] = text[i-1])
             /\ i = 2 => text[i-1] # "comma"
  <2>1. (i = 2 /\ i - 1 = 1) \/ i - 1 \in 2..L
    BY <1>1
  <2>2. \A k \in 2..L : other[k] = text[k]
    BY DEF L
  <2>3. i = 2 => text[i-1] # "comma"
    BY <1>2, <2>1
  <2> QED
    BY <2>1, <2>2, <2>3
<1>5. ASSUME NEW i \in 3..L
      PROVE  /\ i \in 2..L /\ other[i] = text[i] /\ (i = 3 \/ other[i-2] = text[i-2])
             /\ i = 3 => text[i-2] \notin {"PARAMETER", "_IN_DEVICE", "_FROM_DEVICE"}
                         /\ other[i-2] \notin {"PARAMETER", "_IN_DEVICE", "_FROM_DEVICE"}
  <2>1. i \in 2..L /\ ((i = 3 /\ i - 2 = 1) \/ i - 2 \in 2..L)
    BY <1>1
  <2>2. \A k \in 2..L : other[k] = text[k]
    BY DEF L
  <2>3. /\ text[1] \notin {"PARAMETER", "_IN_DEVICE", "_FROM_DEVICE"}
        /\ other[1] \notin {"PARAMETER", "_IN_DEVICE", "_FROM_DEVICE"}
    BY <1>2
  <2>4. i = 3 => i - 2 = 1
    BY <2>1
  <2> QED
    BY <2>1, <2>2, <2>3, <2>4
<1>6. ASSUME NEW i \in 1..L - 1
      PROVE  /\ other[i+1] = text[i+1]
             /\ other[i] = text[i] \/ (i = 1 /\ i \notin 2..L - 1)
  <2>1. i + 1 \in 2..L /\ (i = 1 \/ i \in 2..L)
    BY <1>1
  <2> QED
    BY <2>1 DEF L
<1>7. ASSUME NEW i \in 3..L - 2
      PROVE  /\ i \in 3..L /\ other[i] = text[i] /\ other[i+1] = text[i+1]
             /\ other[i+2] = text[i+2]
  <2>1. i \in 3..L /\ i \in 2..L /\ i + 1 \in 2..L /\ i + 2 \in 2..L
    BY <1>1
  <2> QED
    BY <2>1 DEF L
<1>8. Composed(other, asked)
  <2>1. Len(other) = L /\ Len(text) = L
    BY DEF L
  <2>2. \A i \in 2..L : other[i] \in Server!Name => other[i-1] = "comma"
    BY <1>4, <2>1 DEF Composed
  <2>3. \A i \in 3..L :
           other[i] \in Server!Name => other[i-2] \in {"PARAMETER", "_IN_DEVICE", "_FROM_DEVICE"}
    BY <1>5, <2>1 DEF Composed
  <2>4. ASSUME NEW i \in 1..L - 1
        PROVE  /\ other[i] \in Server!Name \cup Server!Literal => other[i+1] \in {"comma", "newline"}
               /\ i \in 2..L - 1 /\ other[i] \in Server!Literal => other[i+1] = "newline"
               /\ other[i] = "newline" => other[i+1] \in HeadWord
               /\ other[i] = "comma" => other[i+1] \in Server!Name \cup Server!Literal
               /\ other[i] = "_IN_DEVICE" => other[i+1] = "comma"
    <3>1. CASE other[i] = text[i]
      BY <1>6, <2>1, <3>1 DEF Composed
    <3>2. CASE i = 1 /\ i \notin 2..L - 1
      BY <1>2, <1>6, <2>1, <3>2 DEF Composed
    <3> QED
      BY <1>6, <3>1, <3>2
  <2>5. ASSUME NEW i \in 3..L - 2
        PROVE  /\ other[i] \in Server!Name /\ other[i+1] = "comma" /\ other[i-2] = "PARAMETER"
                  => Server!Set(Server!SET_PARAMETER, other[i], other[i+2]) \in asked
               /\ other[i] \in Server!Name /\ other[i+1] = "comma" /\ other[i-2] = "_IN_DEVICE"
                  => Server!Set(Server!SET_PARAMETER_IN_DEVICE, other[i], other[i+2]) \in asked
    BY <1>5, <1>7, <2>1 DEF Composed
  <2>6. \A i \in 2..L - 1 : i \in 1..L - 1
    BY <1>1
  <2> QED
    BY <2>1, <2>2, <2>3, <2>4, <2>5, <2>6 DEF Composed
<1>9. Heads(other) = Heads(text)
  <2>1. \A i \in 1..L : other[i] = text[i] \/ i = 1
    BY <1>3 DEF L
  <2> QED
    BY <1>2, <2>1 DEF Heads, L, HeadWord
<1> QED
  BY <1>8, <1>9

(* What may be acknowledged: what was asked for, or its beginning.         *)
Beginnings ==
    {Server!Set(word, name, half.begin) :
        word \in {Server!SET_PARAMETER, Server!SET_PARAMETER_IN_DEVICE},
        name \in Server!Name, half \in Halves}
Asked == sent \cup {c \in Beginnings : Server!CutShort(c)}

LEMMA AskedMeans == \A c : c \in Asked <=> c \in sent \/ Server!CutShort(c)
<1>1. ASSUME NEW c, Server!CutShort(c) PROVE c \in Beginnings
  BY <1>1 DEF Server!CutShort, Beginnings
<1> QED
  BY <1>1 DEF Asked

LEMMA LastReplaced ==
    ASSUME NEW text \in Text, Composed(text, sent), NEW other \in Text, text # <<>>,
           Len(other) = Len(text), \A i \in 1..Len(text) - 1 : other[i] = text[i],
           NEW half \in Halves,
           text[Len(text)] = half.whole, other[Len(text)] = half.begin
    PROVE  Composed(other, Asked)
<1> DEFINE L == Len(text)
<1>1. L \in Nat /\ L >= 1
  BY TextFacts
<1>2. /\ \/ text[L] \in Server!Name /\ other[L] \in Server!Name
         \/ text[L] \in Server!Literal /\ other[L] \in Server!Literal
      /\ text[L] = half.whole /\ other[L] = half.begin
  <2>1. text[L] = half.whole /\ other[L] = half.begin
    OBVIOUS
  <2> QED
    BY <2>1, HalvesFacts
<1>3. /\ text[L] \in Server!Name <=> other[L] \in Server!Name
      /\ text[L] \in Server!Name \cup Server!Literal
      /\ other[L] \in Server!Name \cup Server!Literal
      /\ text[L] \notin {"comma", "newline"} /\ text[L] \notin HeadWord
  BY <1>2, Words DEF HeadWord
<1>4. \A i \in 1..L - 1 : other[i] = text[i]
  OBVIOUS
<1>5. Len(other) = L /\ Len(text) = L
  OBVIOUS
<1> HIDE DEF L
<1>6. \A i \in 1..L : i = L \/ i \in 1..L - 1
  BY <1>1
<1>7. \A i \in 2..L : other[i] \in Server!Name => other[i-1] = "comma"
  <2>1. \A i \in 2..L : i \in 1..L /\ i - 1 \in 1..L - 1
    BY <1>1
  <2> QED
    BY <1>3, <1>4, <1>5, <1>6, <2>1 DEF Composed
<1>8. \A i \in 3..L :
         other[i] \in Server!Name => other[i-2] \in {"PARAMETER", "_IN_DEVICE", "_FROM_DEVICE"}
  <2>1. \A i \in 3..L : i \in 1..L /\ i - 2 \in 1..L - 1
    BY <1>1
  <2> QED
    BY <1>3, <1>4, <1>5, <1>6, <2>1 DEF Composed
<1>9. ASSUME NEW i \in 1..L - 1
      PROVE  /\ other[i] \in Server!Name \cup Server!Literal => other[i+1] \in {"comma", "newline"}
             /\ i \in 2..L - 1 /\ other[i] \in Server!Literal => other[i+1] = "newline"
             /\ other[i] = "newline" => other[i+1] \in HeadWord
             /\ other[i] = "comma" => other[i+1] \in Server!Name \cup Server!Literal
             /\ other[i] = "_IN_DEVICE" => other[i+1] = "comma"
  <2>1. i + 1 \in 1..L /\ other[i] = text[i]
    BY <1>1, <1>4
  <2>2. other[i+1] = text[i+1] \/ i + 1 = L
    BY <1>4, <1>6, <2>1
  <2>3. CASE other[i+1] = text[i+1]
    BY <1>5, <2>1, <2>3 DEF Composed
  <2>4. CASE i + 1 = L
    BY <1>3, <1>5, <2>1, <2>4 DEF Composed
  <2> QED
    BY <2>2, <2>3, <2>4
<1>10. ASSUME NEW i \in 3..L - 2, other[i] \in Server!Name, other[i+1] = "comma"
       PROVE  /\ other[i-2] = "PARAMETER"
                 => Server!Set(Server!SET_PARAMETER, other[i], other[i+2]) \in Asked
              /\ other[i-2] = "_IN_DEVICE"
                 => Server!Set(Server!SET_PARAMETER_IN_DEVICE, other[i], other[i+2]) \in Asked
  <2>1. /\ i \in 1..L - 1 /\ i + 1 \in 1..L - 1 /\ i - 2 \in 1..L - 1 /\ i + 2 \in 1..L
    BY <1>1
  <2>2. other[i] = text[i] /\ other[i+1] = text[i+1] /\ other[i-2] = text[i-2]
    BY <1>4, <2>1
  <2>3. /\ other[i-2] = "PARAMETER"
           => Server!Set(Server!SET_PARAMETER, other[i], text[i+2]) \in sent
        /\ other[i-2] = "_IN_DEVICE"
           => Server!Set(Server!SET_PARAMETER_IN_DEVICE, other[i], text[i+2]) \in sent
    BY <1>5, <1>10, <2>2 DEF Composed
  <2>4. CASE i + 2 \in 1..L - 1
    BY <1>4, <2>3, <2>4, AskedMeans
  <2>5. CASE i + 2 = L
    <3>1. text[i+2] = half.whole /\ other[i+2] = half.begin
      BY <1>2, <2>5
    <3>2. /\ other[i-2] = "PARAMETER"
             => Server!CutShort(Server!Set(Server!SET_PARAMETER, other[i], other[i+2]))
          /\ other[i-2] = "_IN_DEVICE"
             => Server!CutShort(Server!Set(Server!SET_PARAMETER_IN_DEVICE, other[i], other[i+2]))
      BY <1>10, <2>3, <3>1 DEF Server!CutShort
    <3> QED
      BY <3>2, AskedMeans
  <2> QED
    BY <1>6, <2>1, <2>4, <2>5
<1> QED
  <2>1. \A i \in 2..L - 1 : i \in 1..L - 1
    BY <1>1
  <2> QED
    BY <1>5, <1>7, <1>8, <1>9, <1>10, <2>1 DEF Composed

-----------------------------------------------------------------------------
(* The inductive invariant of the command server.                          *)

(* What is acknowledged was asked for, exactly unless an argument was cut, *)
(* the stream is made of lines, and each answer is due to one of them.     *)
ServerInv ==
    /\ Server!TypeOK
    /\ acked \subseteq Asked
    /\ ~halved => acked \subseteq sent
    /\ Streamed(stream, sent)
    /\ answers + Cardinality(Heads(stream)) <= commands
    /\ server = "accepting" => client = "away"

(* Before anything is sent. *)
LEMMA NothingStreamed ==
    ASSUME NEW asked
    PROVE  Streamed(<<>>, asked) /\ Cardinality(Heads(<<>>)) = 0
<1>1. <<>> \in Text /\ Len(<<>>) = 0
  BY DEF Text
<1>2. Composed(<<>>, asked)
  BY <1>1 DEF Composed
<1>3. Heads(<<>>) = {}
  BY <1>1 DEF Heads
<1> QED
  BY <1>1, <1>2, <1>3, FS_EmptySet DEF Streamed

(* The invariant holds at the start, and every action keeps it. *)
LEMMA ServerInvInit == Server!Init => ServerInv
<1> SUFFICES ASSUME Server!Init PROVE ServerInv
  OBVIOUS
<1>0. 0 \in 0..MaxCommands
  BY ServerAssumption DEF Server!ConstantsOK
<1>1. Server!TypeOK
  <2>1. stream \in Seq(Server!Fragment)
    BY DEF Server!Init
  <2>2. halved \in BOOLEAN /\ careful \in BOOLEAN
    BY Zenon DEF Server!Init
  <2> QED
    BY <1>0, <2>1, <2>2 DEF Server!Init, Server!TypeOK
<1>2. stream = <<>> /\ acked = {} /\ answers = 0 /\ commands = 0 /\ client = "away"
  BY DEF Server!Init
<1>3. Streamed(stream, sent) /\ Cardinality(Heads(stream)) = 0
  BY <1>2, NothingStreamed
<1> QED
  BY <1>1, <1>2, <1>3 DEF ServerInv

LEMMA ServerInvStart == ServerInv /\ Server!Start => ServerInv'
<1> SUFFICES ASSUME ServerInv, Server!Start PROVE ServerInv'
  OBVIOUS
<1>0. 0 \in 0..MaxCommands
  BY ServerAssumption DEF Server!ConstantsOK
<1>1. Server!TypeOK'
  <2>1. stream' \in Seq(Server!Fragment)
    BY DEF Server!Start
  <2>2. halved' \in BOOLEAN /\ careful' \in BOOLEAN
    BY Zenon DEF Server!Start
  <2>3. server' \in {"down", "accepting", "serving", "ended"}
    BY DEF Server!Start
  <2> QED
    BY <1>0, <2>1, <2>2, <2>3 DEF Server!Start, Server!TypeOK
<1>2. stream' = <<>> /\ acked' = {} /\ answers' = 0 /\ commands' = 0 /\ client' = "away"
  BY DEF Server!Start
<1>3. Streamed(stream', sent') /\ Cardinality(Heads(stream')) = 0
  BY <1>2, NothingStreamed
<1> QED
  BY <1>1, <1>2, <1>3 DEF ServerInv

LEMMA ServerInvAccept == ServerInv /\ (Server!Accept \/ Server!Close) => ServerInv'
<1> SUFFICES ASSUME ServerInv, Server!Accept \/ Server!Close PROVE ServerInv'
  OBVIOUS
<1>1. Server!TypeOK'
  BY DEF ServerInv, Server!Accept, Server!Close, Server!TypeOK
<1>2. /\ UNCHANGED <<stream, sent, acked, halved, answers, commands>>
      /\ server' = "accepting" => client' = "away"
  BY DEF ServerInv, Server!Accept, Server!Close
<1>3. Asked' = Asked
  BY <1>2 DEF Asked, Server!CutShort
<1> QED
  BY <1>1, <1>2, <1>3 DEF ServerInv

LEMMA ServerInvSend == ServerInv /\ Server!Send => ServerInv'
<1> SUFFICES ASSUME ServerInv, Server!Send PROVE ServerInv'
  OBVIOUS
<1>1. PICK order \in Server!Command :
         /\ stream' = stream \o Server!Line(order)
         /\ sent' = IF Head(order) = "SET_" THEN sent \cup {order} ELSE sent
  BY DEF Server!Send
<1>2. /\ commands < MaxCommands /\ commands' = commands + 1
      /\ UNCHANGED <<server, interfaceType, sscpInitiator, client, answers, acked,
                     halved, careful>>
  BY DEF Server!Send
<1>3. sent \subseteq sent' /\ sent' \subseteq Server!Command
  BY <1>1 DEF ServerInv, Server!TypeOK
<1>4. stream \in Text /\ Streamed(stream, sent')
  BY <1>3, ComposedMore DEF ServerInv, Streamed
<1>5. Server!Line(order) \in Text /\ Whole(Server!Line(order), sent')
  BY <1>1, LinesAreWhole
<1>6. Streamed(stream', sent') /\ stream' \in Seq(Server!Fragment)
  BY <1>1, <1>4, <1>5, ComposedJoined DEF Streamed, Text
<1>7. Cardinality(Heads(stream')) <= Cardinality(Heads(stream)) + 1
  BY <1>1, <1>4, <1>5, HeadsJoined
<1>8. /\ Cardinality(Heads(stream)) \in Nat /\ Cardinality(Heads(stream')) \in Nat
      /\ answers \in Nat /\ commands \in Nat /\ MaxCommands \in Nat
  <2>1. stream' \in Text
    BY <1>6 DEF Streamed
  <2> QED
    BY <1>4, <2>1, HeadsFinite, ServerAssumption
       DEF ServerInv, Server!TypeOK, Server!ConstantsOK
<1>9. Server!TypeOK'
  <2>1. commands' \in 0..MaxCommands
    BY <1>2, <1>8
  <2> QED
    BY <1>2, <1>3, <1>6, <2>1 DEF ServerInv, Server!TypeOK
<1>10. answers' + Cardinality(Heads(stream')) <= commands'
  BY <1>2, <1>7, <1>8 DEF ServerInv
<1>11. Asked \subseteq Asked'
  BY <1>3 DEF Asked, Server!CutShort
<1> QED
  BY <1>2, <1>3, <1>6, <1>9, <1>10, <1>11 DEF ServerInv

(* What is received and what is left have the heads of the stream, and     *)
(* what is received asks for nothing but what may be acknowledged.         *)
CutInTwo(request, rest) ==
    /\ request \in Text /\ Composed(request, Asked)
    /\ rest \in Text /\ Streamed(rest, sent)
    /\ Cardinality(Heads(request)) + Cardinality(Heads(rest)) <= Cardinality(Heads(stream))

(* The two parts of the stream, either of which may be empty. *)
LEMMA PartsOfStream ==
    ASSUME ServerInv, NEW n \in 0..Len(stream)
    PROVE  LET request == SubSeq(stream, 1, n)
               rest    == SubSeq(stream, n + 1, Len(stream))
           IN  /\ request \in Text /\ Composed(request, sent) /\ Len(request) = n
               /\ \A i \in 1..n : request[i] = stream[i]
               /\ rest \in Text /\ Streamed(rest, sent) /\ Len(rest) = Len(stream) - n
               /\ \A i \in 1..Len(stream) - n : rest[i] = stream[n + i]
<1> DEFINE request == SubSeq(stream, 1, n)
           rest    == SubSeq(stream, n + 1, Len(stream))
           m       == n + 1
<1>1. stream \in Text /\ Composed(stream, sent) /\ Len(stream) \in Nat
  BY TextFacts DEF ServerInv, Streamed
<1>2. /\ request \in Text /\ Composed(request, sent) /\ Len(request) = n
      /\ \A i \in 1..n : request[i] = stream[i]
  <2>1. 1 \in 1..Len(stream) + 1 /\ n \in 1 - 1..Len(stream) /\ n - 1 + 1 = n
    BY <1>1
  <2>2. \A i \in 1..n : 1 + i - 1 = i
    BY <1>1
  <2> QED
    BY <1>1, <2>1, <2>2, Part, ComposedPart
<1>3. m \in 1..Len(stream) + 1 /\ Len(stream) \in m - 1..Len(stream)
  BY <1>1
<1>4. Len(stream) - m + 1 = Len(stream) - n /\ \A i \in 1..Len(stream) - n : m + i - 1 = n + i
  BY <1>1
<1>5. rest = SubSeq(stream, m, Len(stream))
  OBVIOUS
<1> HIDE DEF request, rest, m
<1>6. /\ rest \in Text /\ Composed(rest, sent) /\ Len(rest) = Len(stream) - n
      /\ \A i \in 1..Len(stream) - n : rest[i] = stream[n + i]
  <2>1. /\ rest \in Text /\ Composed(rest, sent) /\ Len(rest) = Len(stream) - m + 1
        /\ \A i \in 1..Len(stream) - m + 1 : rest[i] = stream[m + i - 1]
    BY <1>1, <1>3, <1>5, Part, ComposedPart
  <2> QED
    BY <1>4, <2>1
<1>7. ASSUME rest # <<>> PROVE rest[Len(rest)] = "newline"
  <2>1. Len(rest) # 0 /\ Len(rest) \in Nat
    BY <1>6, <1>7, TextFacts
  <2>2. Len(rest) \in 1..Len(stream) - n /\ n + Len(rest) = Len(stream) /\ Len(stream) # 0
    BY <1>1, <1>6, <2>1
  <2>3. rest[Len(rest)] = stream[Len(stream)]
    BY <1>6, <2>2
  <2> QED
    BY <1>1, <2>2, <2>3, TextFacts DEF ServerInv, Streamed
<1>8. Streamed(rest, sent)
  BY <1>6, <1>7 DEF Streamed
<1> QED
  BY <1>2, <1>6, <1>8 DEF request, rest

(* A cut between two fragments. *)
LEMMA CutBetween ==
    ASSUME ServerInv, NEW n \in 1..Len(stream)
    PROVE  /\ CutInTwo(SubSeq(stream, 1, n), SubSeq(stream, n + 1, Len(stream)))
           /\ Composed(SubSeq(stream, 1, n), sent)
<1>1. stream \in Text /\ Len(stream) \in Nat
  BY TextFacts DEF ServerInv, Streamed
<1>2. n \in 0..Len(stream)
  BY <1>1
<1>3. sent \subseteq Asked
  BY AskedMeans
<1> QED
  BY <1>1, <1>2, <1>3, PartsOfStream, ComposedMore, HeadsCut DEF CutInTwo

(* A cut within an argument: an argument ends what is received, and one    *)
(* begins what is left.                                                    *)
LEMMA CutWithin ==
    ASSUME ServerInv, NEW n \in 1..Len(stream), NEW half \in Halves, stream[n] = half.whole
    PROVE  CutInTwo(SubSeq(stream, 1, n - 1) \o <<half.begin>>,
                    <<half.end>> \o SubSeq(stream, n + 1, Len(stream)))
<1> DEFINE L       == Len(stream)
           before  == SubSeq(stream, 1, n - 1)
           upTo    == SubSeq(stream, 1, n)
           since   == SubSeq(stream, n - 1 + 1, L)
           after   == SubSeq(stream, n + 1, L)
           request == before \o <<half.begin>>
           rest    == <<half.end>> \o after
<1>1. stream \in Text /\ L \in Nat /\ n \in 0..L /\ n - 1 \in 0..L /\ n >= 1
  BY TextFacts DEF ServerInv, Streamed
<1>2. /\ upTo \in Text /\ Composed(upTo, sent) /\ Len(upTo) = n
      /\ \A i \in 1..n : upTo[i] = stream[i]
      /\ after \in Text /\ Streamed(after, sent) /\ Len(after) = L - n
      /\ \A i \in 1..L - n : after[i] = stream[n + i]
  BY <1>1, PartsOfStream
<1>3. /\ before \in Text /\ Len(before) = n - 1
      /\ \A i \in 1..n - 1 : before[i] = stream[i]
      /\ since \in Text /\ Streamed(since, sent) /\ Len(since) = L - (n - 1)
      /\ \A i \in 1..L - (n - 1) : since[i] = stream[n - 1 + i]
  BY <1>1, PartsOfStream
<1>4. Cardinality(Heads(before)) + Cardinality(Heads(since)) <= Cardinality(Heads(stream))
  BY <1>1, HeadsCut
<1> HIDE DEF L, before, upTo, since, after
<1>5. /\ <<half.begin>> \in Text /\ Len(<<half.begin>>) = 1 /\ <<half.begin>>[1] = half.begin
      /\ <<half.end>> \in Text /\ Len(<<half.end>>) = 1 /\ <<half.end>>[1] = half.end
  BY HalvesFacts DEF Text
<1>6. /\ request \in Text /\ Len(request) = n
      /\ \A i \in 1..n - 1 : request[i] = stream[i]
      /\ request[n] = half.begin
  <2>1. /\ request \in Text /\ Len(request) = Len(before) + 1
        /\ \A i \in 1..Len(before) : request[i] = before[i]
        /\ request[Len(before) + 1] = half.begin
    <3> DEFINE argument == <<half.begin>>
    <3>1. request = before \o argument
      OBVIOUS
    <3>2. argument \in Text /\ Len(argument) = 1 /\ argument[1] = half.begin /\ 1 \in 1..1
      BY <1>5
    <3> HIDE DEF argument, request
    <3>3. /\ request \in Text /\ Len(request) = Len(before) + Len(argument)
          /\ \A i \in 1..Len(before) : request[i] = before[i]
          /\ \A i \in 1..Len(argument) : request[Len(before) + i] = argument[i]
      BY <1>3, <3>1, <3>2, Joined
    <3> QED
      BY <3>2, <3>3
  <2>2. n - 1 + 1 = n
    BY <1>1
  <2> QED
    BY <1>3, <2>1, <2>2
<1>7. /\ rest \in Text /\ Len(rest) = L - (n - 1) /\ rest[1] = half.end
      /\ \A i \in 2..L - (n - 1) : rest[i] = stream[n - 1 + i]
  <2>1. /\ rest \in Text /\ Len(rest) = 1 + Len(after) /\ rest[1] = half.end
        /\ \A i \in 1..Len(after) : rest[1 + i] = after[i]
    <3>1. 1 \in 1..1
      OBVIOUS
    <3> QED
      BY <1>2, <1>5, <3>1, Joined
  <2> HIDE DEF rest
  <2>2. \A i \in 2..L - (n - 1) : i - 1 \in 1..L - n /\ 1 + (i - 1) = i /\ n + (i - 1) = n - 1 + i
    BY <1>1
  <2>3. 1 + (L - n) = L - (n - 1)
    BY <1>1
  <2> QED
    BY <1>2, <2>1, <2>2, <2>3
<1> HIDE DEF request, rest
<1>8. Composed(request, Asked)
  <2>1. upTo # <<>> /\ upTo[n] = half.whole /\ \A i \in 1..n - 1 : request[i] = upTo[i]
    <3>1. n \in 1..n /\ \A i \in 1..n - 1 : i \in 1..n
      BY <1>1
    <3>2. upTo # <<>>
      BY <1>1, <1>2, TextFacts
    <3>3. upTo[n] = stream[n]
      BY <1>2, <3>1
    <3>4. \A i \in 1..n - 1 : request[i] = upTo[i]
      BY <1>2, <1>6, <3>1
    <3> QED
      BY <3>2, <3>3, <3>4
  <2>2. /\ upTo[Len(upTo)] = half.whole /\ request[Len(upTo)] = half.begin
        /\ Len(request) = Len(upTo) /\ \A i \in 1..Len(upTo) - 1 : request[i] = upTo[i]
    BY <1>2, <1>6, <2>1
  <2>3. upTo \in Text /\ request \in Text /\ upTo # <<>> /\ Composed(upTo, sent)
    BY <1>2, <1>6, <2>1
  <2> QED
    BY <2>2, <2>3, LastReplaced
<1>9. Heads(request) = Heads(before)
  <2>1. half.begin \notin {"CON", "SET_", "GET_"}
    BY HalvesFacts, Words
  <2>2. \A i \in 1..n : i = n \/ i \in 1..n - 1
    BY <1>1
  <2>3. \A i \in 1..n - 1 : i \in 1..n /\ i # n
    BY <1>1
  <2> QED
    BY <1>3, <1>6, <2>1, <2>2, <2>3 DEF Heads
<1>10. Composed(rest, sent) /\ Heads(rest) = Heads(since)
  <2>1. since[1] = half.whole /\ Len(since) = Len(rest)
    <3>1. 1 \in 1..L - (n - 1) /\ n - 1 + 1 = n
      BY <1>1
    <3> QED
      BY <1>3, <1>7, <3>1
  <2>2. \A i \in 2..Len(since) : rest[i] = since[i]
    <3>1. \A i \in 2..L - (n - 1) : i \in 1..L - (n - 1)
      BY <1>1
    <3> QED
      BY <1>3, <1>7, <3>1
  <2>3. /\ since[1] \in Server!Name \cup Server!Literal
        /\ rest[1] \in Server!Name \cup Server!Literal
    BY <1>7, <2>1, HalvesFacts
  <2> QED
    BY <1>3, <1>7, <2>1, <2>2, <2>3, FirstReplaced DEF Streamed
<1>11. rest[Len(rest)] = "newline"
  <2>1. since # <<>> /\ since[Len(since)] = "newline" /\ Len(since) \in Nat
    BY <1>1, <1>3, TextFacts DEF Streamed
  <2>2. Len(since) # 1
    <3>1. since[1] = half.whole /\ half.whole # "newline"
      <4>1. 1 \in 1..L - (n - 1) /\ n - 1 + 1 = n
        BY <1>1
      <4> QED
        BY <1>3, <4>1, HalvesFacts, Words
    <3> QED
      BY <2>1, <3>1
  <2>3. Len(since) \in 2..L - (n - 1) /\ Len(since) \in 1..L - (n - 1)
    BY <1>1, <1>3, <2>2
  <2> QED
    BY <1>3, <1>7, <2>1, <2>3
<1>12. CutInTwo(request, rest)
  BY <1>4, <1>6, <1>7, <1>8, <1>9, <1>10, <1>11 DEF CutInTwo, Streamed
<1> QED
  BY <1>12 DEF request, rest, before, after, L

(* The pass that a text leads to. *)
Taken(request, rest, pass) ==
    /\ careful' = (careful /\ rest = <<>> /\ Server!Proper(request))
    /\ pass \in Server!Passes(request)
    /\ sscpInitiator' = pass.initiator
    /\ answers' = pass.answers
    /\ acked' = pass.acked
    /\ \/ pass.alive /\ UNCHANGED server
       \/ /\ ~pass.alive \/ (client = "closed" /\ pass.answers # answers)
          /\ server' = "ended"
    /\ stream' = IF server' = "ended" THEN <<>> ELSE rest

LEMMA TakenSome ==
    ASSUME NEW request, NEW rest, Server!Take(request, rest)
    PROVE  /\ \E pass : Taken(request, rest, pass)
           /\ server = "serving"
           /\ UNCHANGED <<interfaceType, client, commands, sent>>
  BY DEF Server!Take, Taken

(* A pass answers no more often than what it received has heads, and the   *)
(* rest of the stream keeps its own.                                       *)
LEMMA ServerInvTake ==
    ASSUME ServerInv, NEW request, NEW rest, CutInTwo(request, rest),
           Server!Take(request, rest), halved' \in BOOLEAN,
           ~halved' => ~halved /\ Composed(request, sent)
    PROVE  ServerInv'
<1>1. PICK pass : Taken(request, rest, pass)
  BY TakenSome
<1>2. UNCHANGED <<interfaceType, client, commands, sent>>
  BY TakenSome
<1>3. stream \in Text /\ request \in Text /\ rest \in Text /\ Streamed(rest, sent)
  BY DEF ServerInv, Streamed, CutInTwo
<1>4. /\ pass \in Server!Passes(request)
      /\ sscpInitiator' = pass.initiator /\ answers' = pass.answers /\ acked' = pass.acked
      /\ server' \in {server, "ended"}
      /\ stream' = <<>> \/ stream' = rest
      /\ careful' \in BOOLEAN
  BY <1>1 DEF Taken, ServerInv, Server!TypeOK
<1>5. Begun \in Pass(Asked) /\ (~halved => Begun \in Pass(sent))
  BY DEF Begun, Pass, ServerInv, Server!TypeOK
<1>6. pass \in Pass(Asked) /\ pass.answers <= answers + Cardinality(Heads(request))
  BY <1>3, <1>4, <1>5, PassesAnswer DEF CutInTwo
<1>7. ~halved' => pass \in Pass(sent)
  BY <1>3, <1>4, <1>5, PassesAnswer
<1>8. Asked' = Asked
  BY <1>2 DEF Asked, Server!CutShort
<1>9. acked' \subseteq Asked' /\ (~halved' => acked' \subseteq sent')
  BY <1>2, <1>4, <1>6, <1>7, <1>8 DEF Pass
<1>10. Streamed(stream', sent')
  BY <1>2, <1>3, <1>4, NothingStreamed
<1>11. /\ Cardinality(Heads(request)) \in Nat /\ Cardinality(Heads(rest)) \in Nat
       /\ Cardinality(Heads(stream)) \in Nat
       /\ answers \in Nat /\ commands \in Nat /\ pass.answers \in Nat
  BY <1>3, <1>6, HeadsFinite, ServerAssumption
     DEF ServerInv, Server!TypeOK, Server!ConstantsOK, Pass
<1>12. answers' + Cardinality(Heads(stream')) <= commands'
  <2>1. Cardinality(Heads(stream')) = 0 \/ Cardinality(Heads(stream')) = Cardinality(Heads(rest))
    BY <1>4, NothingStreamed
  <2>2. commands' = commands /\ answers + Cardinality(Heads(stream)) <= commands
    BY <1>2 DEF ServerInv
  <2>3. Cardinality(Heads(request)) + Cardinality(Heads(rest)) <= Cardinality(Heads(stream))
    BY DEF CutInTwo
  <2> QED
    BY <1>4, <1>6, <1>11, <2>1, <2>2, <2>3
<1>13. Server!TypeOK'
  <2>1. stream' \in Seq(Server!Fragment)
    BY <1>10 DEF Streamed, Text
  <2>2. sscpInitiator' \in {"undefined", "linked", "unlinked"} /\ answers' \in Nat
    BY <1>4, <1>6 DEF Pass
  <2> QED
    BY <1>2, <1>4, <2>1, <2>2 DEF ServerInv, Server!TypeOK
<1>14. server' # "accepting"
  BY <1>4, TakenSome
<1> QED
  BY <1>9, <1>10, <1>12, <1>13, <1>14 DEF ServerInv

LEMMA ServerInvReceive == ServerInv /\ Server!Receive => ServerInv'
<1> SUFFICES ASSUME ServerInv, Server!Receive PROVE ServerInv'
  OBVIOUS
<1>1. halved' = halved /\ halved' \in BOOLEAN
  BY DEF Server!Receive, ServerInv, Server!TypeOK
<1>2. PICK n \in 1..Len(stream) :
         Server!Take(SubSeq(stream, 1, n), SubSeq(stream, n + 1, Len(stream)))
  BY DEF Server!Receive
<1>3. /\ CutInTwo(SubSeq(stream, 1, n), SubSeq(stream, n + 1, Len(stream)))
      /\ Composed(SubSeq(stream, 1, n), sent)
  BY CutBetween
<1> QED
  BY <1>1, <1>2, <1>3, ServerInvTake

LEMMA ServerInvReceiveHalf == ServerInv /\ Server!ReceiveHalf => ServerInv'
<1> SUFFICES ASSUME ServerInv, Server!ReceiveHalf PROVE ServerInv'
  OBVIOUS
<1>1. halved' = TRUE /\ halved' \in BOOLEAN
  BY DEF Server!ReceiveHalf
<1>2. PICK n \in 1..Len(stream), half \in Halves :
         /\ stream[n] = half.whole
         /\ Server!Take(SubSeq(stream, 1, n - 1) \o <<half.begin>>,
                        <<half.end>> \o SubSeq(stream, n + 1, Len(stream)))
  BY DEF Server!ReceiveHalf
<1>3. CutInTwo(SubSeq(stream, 1, n - 1) \o <<half.begin>>,
               <<half.end>> \o SubSeq(stream, n + 1, Len(stream)))
  BY <1>2, CutWithin
<1> QED
  BY <1>1, <1>2, <1>3, ServerInvTake

LEMMA ServerInvNext == ServerInv /\ Server!Next => ServerInv'
  BY ServerInvStart, ServerInvAccept, ServerInvSend, ServerInvReceive, ServerInvReceiveHalf
     DEF Server!Next

(* What follows from the invariant. *)
LEMMA ServerInvHolds == ServerInv => Server!TypeOK /\ Server!AcksAreRight /\ answers <= commands
<1> SUFFICES ASSUME ServerInv PROVE Server!AcksAreRight /\ answers <= commands
  BY DEF ServerInv
<1>0. Server!AcksAreRight
  BY AskedMeans DEF ServerInv, Server!AcksAreRight
<1>1. /\ answers \in Nat /\ commands \in Nat /\ Cardinality(Heads(stream)) \in Nat
      /\ answers + Cardinality(Heads(stream)) <= commands
  BY HeadsFinite, ServerAssumption
     DEF ServerInv, Streamed, Server!TypeOK, Server!ConstantsOK
<1> QED
  BY <1>0, <1>1

-----------------------------------------------------------------------------
(* A line that a careful client sends, whole.                              *)

(* A line with arguments has its keyword as its first section, and each    *)
(* argument as one more.                                                   *)
LEMMA SectionBetween ==
    ASSUME NEW text \in Text, NEW i \in Server!Begins(text), NEW j \in Server!Begins(text),
           i < j, \A k \in i + 1..j - 1 : text[k] # "comma"
    PROVE  Rank(text, j) = Rank(text, i) + 1
<1> DEFINE B == Server!Begins(text)
<1>1. /\ B \in SUBSET Nat /\ IsFiniteSet(B)
      /\ \A k \in B : k \in Server!Bounds(text) /\ k \in 0..Len(text)
  BY BeginsFacts
<1>2. Len(text) \in Nat /\ i \in 0..Len(text) /\ j \in 0..Len(text)
  BY <1>1, TextFacts
<1>3. ASSUME NEW k \in B, k < j PROVE k <= i
  <2>1. SUFFICES ASSUME k > i PROVE FALSE
    BY <1>1, <1>2
  <2>2. k \in 0..Len(text) /\ k \in Server!Bounds(text)
    BY <1>1
  <2>3. k # 0 /\ k # Len(text) + 1 /\ k \in i + 1..j - 1
    BY <1>2, <1>3, <2>1, <2>2
  <2>4. text[k] = "comma"
    BY <2>2, <2>3, BoundsFacts
  <2> QED
    BY <2>3, <2>4
<1> HIDE DEF B
<1>4. Cardinality(Below(B, j)) = Cardinality(Below(B, i)) + 1
  <2>1. i \in B /\ j \in B
    BY DEF B
  <2> QED
    BY <1>1, <1>3, <2>1, RankOfNext
<1> QED
  BY <1>4 DEF Rank, B

(* What a line begins with is its first section. *)
LEMMA FirstSection ==
    ASSUME NEW text \in Text, text # <<>>, text[1] # "comma", text[1] # "newline"
    PROVE  0 \in Server!Begins(text) /\ Rank(text, 0) = 0
<1>1. Len(text) \in Nat /\ 0 < Len(text) /\ 0 \in Server!Bounds(text) /\ 0 # Len(text) + 1
  BY TextFacts, BoundsFacts
<1>2. PICK j : IsNext(text, 0, j)
  BY <1>1, Follower
<1>3. Server!Item(text, 0) # <<>>
  <2>1. text[0+1] # "comma" /\ text[0+1] # "newline"
    OBVIOUS
  <2> QED
    BY <1>1, <1>2, <2>1, ItemAfter
<1>4. 0 \in Server!Begins(text)
  BY <1>1, <1>3, BeginsFacts
<1>5. Below(Server!Begins(text), 0) = {}
  <2>1. ASSUME NEW k \in Below(Server!Begins(text), 0) PROVE FALSE
    <3>1. k \in Server!Begins(text) /\ k < 0
      BY DEF Below
    <3>2. k \in 0..Len(text)
      BY <3>1, BeginsFacts
    <3> QED
      BY <1>1, <3>1, <3>2
  <2> QED
    BY <2>1
<1>6. Rank(text, 0) = 0
  BY <1>5, FS_EmptySet DEF Rank
<1> QED
  BY <1>4, <1>6

(* A section of one fragment.                                              *)
LEMMA ArgumentSection ==
    ASSUME NEW text \in Text, NEW asked, Composed(text, asked),
           NEW c \in 1..Len(text) - 1, text[c] = "comma",
           NEW n \in Nat, Rank(text, c) = n, NEW e, IsNext(text, c, e),
           e = c + 2 \/ (e = c + 3 /\ text[c+2] = "newline")
    PROVE  /\ Len(Server!Sections(text)) >= n + 1
           /\ Len(Server!Sections(text)) \in Nat
           /\ Server!Sections(text)[n + 1] = <<text[c+1]>>
<1>1. Len(text) \in Nat /\ c \in 1..Len(text) /\ c < Len(text)
  BY TextFacts
<1>2. c \in Server!Begins(text) /\ c \in Server!Bounds(text)
  BY <1>1, CommaBegins, BoundsFacts
<1>3. text[c+1] # "comma" /\ text[c+1] # "newline"
  BY AfterComma
<1>4. /\ Server!Item(text, c) \in Text
      /\ Server!Item(text, c)[1] = text[c+1]
      /\ Len(Server!Item(text, c)) = IF text[e-1] = "newline" THEN e - 2 - c ELSE e - 1 - c
  BY <1>1, <1>2, <1>3, ItemAfter
<1>5. Len(Server!Item(text, c)) = 1
  <2>1. CASE e = c + 2
    <3>1. text[e-1] # "newline"
      BY <1>1, <1>3, <2>1
    <3> QED
      BY <1>1, <1>4, <2>1, <3>1
  <2>2. CASE e = c + 3 /\ text[c+2] = "newline"
    <3>1. text[e-1] = "newline"
      BY <1>1, <2>2
    <3> QED
      BY <1>1, <1>4, <2>2, <3>1
  <2> QED
    BY <2>1, <2>2
<1>6. Server!Item(text, c) = <<text[c+1]>>
  BY <1>4, <1>5, OneFragment
<1> DEFINE B == Server!Begins(text)
<1>7. n < Cardinality(B) /\ Cardinality(B) \in Nat
  <2>1. B \in SUBSET Nat /\ IsFiniteSet(B) /\ c \in B
    BY <1>2, BeginsFacts
  <2>2. Cardinality(Below(B, c)) = n
    BY DEF Rank
  <2> HIDE DEF B
  <2>3. Below(B, c) \in SUBSET B /\ Below(B, c) # B
    BY <1>1, <2>1 DEF Below
  <2>4. Cardinality(Below(B, c)) <= Cardinality(B) /\ Cardinality(B) # Cardinality(Below(B, c))
    BY <2>1, <2>3, FS_Subset
  <2> QED
    BY <2>1, <2>2, <2>4, FS_CardinalityType
<1>8. n + 1 \in 1..Cardinality(B) /\ Rank(text, c) = (n + 1) - 1
  BY <1>7
<1>9. Server!Sections(text)[n + 1] = Server!Item(text, c)
  BY <1>2, <1>8, SectionAt
<1>10. Len(Server!Sections(text)) = Cardinality(B)
  BY SectionsFacts
<1> QED
  BY <1>6, <1>7, <1>9, <1>10

(* The next comma, or the end. *)
LEMMA NextComma ==
    ASSUME NEW text \in Text, NEW i \in 0..Len(text), NEW j \in i + 1..Len(text) + 1,
           j = Len(text) + 1 \/ text[j] = "comma", \A k \in i + 1..j - 1 : text[k] # "comma"
    PROVE  IsNext(text, i, j)
<1>1. Len(text) \in Nat
  BY TextFacts
<1>2. j \in Server!Bounds(text)
  <2>1. j = Len(text) + 1 \/ j \in 1..Len(text)
    BY <1>1
  <2> QED
    BY <2>1, BoundsFacts
<1>3. ASSUME NEW k \in Server!Bounds(text), i < k, k < j PROVE FALSE
  <2>1. k \in 0..Len(text) + 1
    BY BoundsFacts
  <2>2. k # 0 /\ k # Len(text) + 1 /\ k \in i + 1..j - 1
    BY <1>1, <1>3, <2>1
  <2>3. text[k] = "comma"
    BY <2>2, BoundsFacts
  <2> QED
    BY <2>2, <2>3
<1>4. ASSUME NEW k \in Server!Bounds(text), i < k PROVE j <= k
  <2>1. k \in 0..Len(text) + 1
    BY BoundsFacts
  <2> QED
    BY <1>1, <1>3, <1>4, <2>1
<1> QED
  BY <1>1, <1>2, <1>4 DEF IsNext

(* The first argument is the second section. *)
LEMMA FirstArgument ==
    ASSUME NEW text \in Text, NEW asked, Composed(text, asked),
           text[1] # "comma", text[1] # "newline",
           NEW c \in 1..Len(text) - 1, text[c] = "comma", \A k \in 1..c - 1 : text[k] # "comma",
           NEW e, IsNext(text, c, e), e = c + 2 \/ (e = c + 3 /\ text[c+2] = "newline")
    PROVE  /\ c \in Server!Begins(text) /\ Rank(text, c) = 1
           /\ Len(Server!Sections(text)) >= 2
           /\ Len(Server!Sections(text)) \in Nat
           /\ Server!Sections(text)[2] = <<text[c+1]>>
<1>1. Len(text) \in Nat /\ text # <<>> /\ 0 < c /\ 0 + 1 = 1
  BY TextFacts
<1>2. 0 \in Server!Begins(text) /\ Rank(text, 0) = 0 /\ c \in Server!Begins(text)
  BY <1>1, FirstSection, CommaBegins
<1>3. Rank(text, c) = 0 + 1
  BY <1>1, <1>2, SectionBetween
<1>4. /\ Len(Server!Sections(text)) >= 1 + 1
      /\ Len(Server!Sections(text)) \in Nat
      /\ Server!Sections(text)[1 + 1] = <<text[c+1]>>
  <2>1. Rank(text, c) = 1 /\ 1 \in Nat
    BY <1>3
  <2> QED
    BY <2>1, ArgumentSection
<1> QED
  BY <1>2, <1>3, <1>4

(* The sections of a line with one argument. *)
LEMMA OneArgument ==
    ASSUME NEW text \in Text, NEW asked, Composed(text, asked),
           text[1] # "comma", text[1] # "newline",
           NEW c \in Nat \ {0}, Len(text) = c + 2, text[c] = "comma", text[c+2] = "newline",
           \A k \in 1..c - 1 : text[k] # "comma"
    PROVE  /\ ~(Len(Server!Sections(text)) < 2)
           /\ Server!Sections(text)[2] = <<text[c+1]>>
<1> DEFINE e == c + 3
<1>1. c \in 1..Len(text) - 1 /\ c \in 0..Len(text) /\ e \in c + 1..Len(text) + 1 /\ e = Len(text) + 1
  OBVIOUS
<1>2. ASSUME NEW k \in c + 1..e - 1 PROVE text[k] # "comma"
  <2>1. k = c + 1 \/ k = c + 2
    OBVIOUS
  <2> QED
    BY <1>1, <2>1, AfterComma
<1>3. IsNext(text, c, e)
  BY <1>1, <1>2, NextComma
<1>4. /\ Len(Server!Sections(text)) >= 2
      /\ Len(Server!Sections(text)) \in Nat
      /\ Server!Sections(text)[2] = <<text[c+1]>>
  BY <1>1, <1>3, FirstArgument
<1> QED
  BY <1>4

(* The sections of a line with two arguments. *)
LEMMA TwoArguments ==
    ASSUME NEW text \in Text, NEW asked, Composed(text, asked),
           text[1] # "comma", text[1] # "newline",
           NEW c \in Nat \ {0}, Len(text) = c + 4,
           text[c] = "comma", text[c+2] = "comma", text[c+4] = "newline",
           \A k \in 1..c - 1 : text[k] # "comma"
    PROVE  /\ ~(Len(Server!Sections(text)) < 3)
           /\ Server!Sections(text)[2] = <<text[c+1]>>
           /\ Server!Sections(text)[3] = <<text[c+3]>>
<1> DEFINE d == c + 2
           e == c + 5
<1>1. /\ c \in 1..Len(text) - 1 /\ c \in 0..Len(text) /\ d \in c + 1..Len(text) + 1
      /\ d \in 1..Len(text) - 1 /\ d \in 0..Len(text) /\ e \in d + 1..Len(text) + 1
      /\ e = Len(text) + 1 /\ c + 3 = d + 1 /\ e = d + 3 /\ c + 4 = d + 2 /\ c < d
  OBVIOUS
<1>2. ASSUME NEW k \in c + 1..d - 1 PROVE text[k] # "comma"
  <2>1. k = c + 1
    OBVIOUS
  <2> QED
    BY <1>1, <2>1, AfterComma
<1>3. ASSUME NEW k \in d + 1..e - 1 PROVE text[k] # "comma"
  <2>1. k = d + 1 \/ k = d + 2
    OBVIOUS
  <2> QED
    BY <1>1, <2>1, AfterComma
<1>4. IsNext(text, c, d) /\ IsNext(text, d, e)
  <2>1. IsNext(text, c, d)
    BY <1>1, <1>2, NextComma
  <2>2. IsNext(text, d, e)
    BY <1>1, <1>3, NextComma
  <2> QED
    BY <2>1, <2>2
<1> HIDE DEF d, e
<1>5. /\ Len(Server!Sections(text)) >= 2
      /\ Len(Server!Sections(text)) \in Nat
      /\ Server!Sections(text)[2] = <<text[c+1]>>
      /\ c \in Server!Begins(text) /\ Rank(text, c) = 1
  BY <1>1, <1>4, FirstArgument DEF d
<1>6. Rank(text, d) = 2 /\ text[d] = "comma"
  <2>1. text[d] = "comma"
    BY DEF d
  <2>2. d \in Server!Begins(text)
    BY <1>1, <2>1, CommaBegins
  <2>3. Rank(text, d) = 1 + 1
    BY <1>1, <1>2, <1>5, <2>2, SectionBetween
  <2> QED
    BY <2>1, <2>3
<1>7. /\ Len(Server!Sections(text)) >= 2 + 1
      /\ Server!Sections(text)[2 + 1] = <<text[d+1]>>
  <2>1. 2 \in Nat /\ e = d + 3 /\ text[d+2] = "newline"
    BY <1>1
  <2> QED
    BY <1>1, <1>4, <1>6, <2>1, ArgumentSection
<1>8. text[d+1] = text[c+3]
  BY <1>1
<1> QED
  BY <1>5, <1>7, <1>8

(* Each line has one keyword. *)
LEMMA InAt ==
    ASSUME NEW word \in Text, NEW text \in Text, NEW i \in 0..Len(text) - Len(word),
           \A k \in 1..Len(word) : text[i+k] = word[k]
    PROVE  Server!In(word, text)
  BY InMeans

(* Of the five keywords, the lines of CONNECT and DISCONNECT have that of  *)
(* CONNECT.                                                                *)
LEMMA ConnectHasKeyword ==
    ASSUME NEW line \in Text, NEW order,
           ConnectLine(line, order) \/ DisconnectLine(line, order)
    PROVE  /\ Server!In(Server!CONNECT, line)
           /\ ~Server!In(SetComma, line) /\ ~Server!In(Server!SET_PARAMETER_IN_DEVICE, line)
           /\ ~Server!In(GetComma, line) /\ ~Server!In(Server!GET_PARAMETER_FROM_DEVICE, line)
<1>1. Server!CONNECT \in Text /\ Len(Server!CONNECT) = 2
      /\ Server!CONNECT[1] = "CON" /\ Server!CONNECT[2] = "NECT"
  BY Keywords DEF Server!CONNECT
<1>2. CASE ConnectLine(line, order)
  <2>1. Len(line) = 3 /\ line[1] = "CON" /\ line[2] = "NECT" /\ line[3] = "newline"
    BY <1>2 DEF ConnectLine
  <2>2. Server!In(Server!CONNECT, line)
    <3>1. 0 \in 0..Len(line) - Len(Server!CONNECT)
      BY <1>1, <2>1
    <3>2. \A k \in 1..Len(Server!CONNECT) : line[0+k] = Server!CONNECT[k]
      BY <1>1, <2>1
    <3> QED
      BY <1>1, <3>1, <3>2, InAt
  <2>3. \A i \in 1..Len(line) : line[i] # "SET_" /\ line[i] # "GET_"
    BY <2>1
  <2>4. \A i \in 1..Len(line) - 2 : i \in 1..Len(line)
    BY <2>1
  <2>5. /\ HeadsBefore(line, "SET_", "comma") = {} /\ HeadsBefore(line, "GET_", "comma") = {}
        /\ HeadsBefore(line, "SET_", "_IN_DEVICE") = {}
        /\ HeadsBefore(line, "GET_", "_FROM_DEVICE") = {}
    BY <2>3, <2>4 DEF HeadsBefore
  <2> QED
    BY <2>2, <2>5, KeywordHeads
<1>3. CASE DisconnectLine(line, order)
  <2>1. /\ Len(line) = 4 /\ line[1] = "DIS" /\ line[2] = "CON" /\ line[3] = "NECT"
        /\ line[4] = "newline"
    BY <1>3 DEF DisconnectLine
  <2>2. Server!In(Server!CONNECT, line)
    <3>1. 1 \in 0..Len(line) - Len(Server!CONNECT)
      BY <1>1, <2>1
    <3>2. \A k \in 1..Len(Server!CONNECT) : line[1+k] = Server!CONNECT[k]
      BY <1>1, <2>1
    <3> QED
      BY <1>1, <3>1, <3>2, InAt
  <2>3. \A i \in 1..Len(line) : line[i] # "SET_" /\ line[i] # "GET_"
    BY <2>1
  <2>4. \A i \in 1..Len(line) - 2 : i \in 1..Len(line)
    BY <2>1
  <2>5. /\ HeadsBefore(line, "SET_", "comma") = {} /\ HeadsBefore(line, "GET_", "comma") = {}
        /\ HeadsBefore(line, "SET_", "_IN_DEVICE") = {}
        /\ HeadsBefore(line, "GET_", "_FROM_DEVICE") = {}
    BY <2>3, <2>4 DEF HeadsBefore
  <2> QED
    BY <2>2, <2>5, KeywordHeads
<1> QED
  BY <1>2, <1>3

(* The line of GET_PARAMETER has its own only, with the comma. *)
LEMMA GetHasKeyword ==
    ASSUME NEW line \in Text, NEW order, NEW name \in Server!Name,
           GetLine(line, order, name)
    PROVE  /\ Server!In(GetComma, line)
           /\ ~Server!In(Server!CONNECT, line)
           /\ ~Server!In(SetComma, line) /\ ~Server!In(Server!SET_PARAMETER_IN_DEVICE, line)
           /\ ~Server!In(Server!GET_PARAMETER_FROM_DEVICE, line)
<1>1. /\ Len(line) = 5 /\ line[1] = "GET_" /\ line[2] = "PARAMETER" /\ line[3] = "comma"
      /\ line[4] = name /\ line[5] = "newline"
  BY DEF GetLine
<1>2. Server!In(GetComma, line)
  <2>1. 0 \in 0..Len(line) - Len(GetComma)
    BY <1>1, WithCommaFacts
  <2>2. \A k \in 1..3 : k = 1 \/ k = 2 \/ k = 3
    OBVIOUS
  <2>3. \A k \in 1..Len(GetComma) : line[0+k] = GetComma[k]
    BY <1>1, <2>2, WithCommaFacts
  <2> QED
    BY <2>1, <2>3, InAt, WithCommaFacts
<1>3. \A i \in 1..5 : line[i] # "SET_" /\ line[i] # "CON" /\ line[i] # "_FROM_DEVICE"
  <2>1. \A i \in 1..5 : i = 1 \/ i = 2 \/ i = 3 \/ i = 4 \/ i = 5
    OBVIOUS
  <2>2. name # "SET_" /\ name # "CON" /\ name # "_FROM_DEVICE"
    BY Words
  <2> QED
    BY <1>1, <2>1, <2>2
<1>4. /\ \A i \in 1..Len(line) : line[i] # "CON"
      /\ \A i \in 1..Len(line) - 2 : line[i] # "SET_" /\ line[i+2] # "_FROM_DEVICE"
  <2>1. \A i \in 1..Len(line) - 2 : i \in 1..5 /\ i + 2 \in 1..5
    BY <1>1
  <2> QED
    BY <1>1, <1>3, <2>1
<1>5. ConnectHeads(line) = {}
  BY <1>4 DEF ConnectHeads
<1>6. /\ HeadsBefore(line, "SET_", "comma") = {}
      /\ HeadsBefore(line, "SET_", "_IN_DEVICE") = {}
      /\ HeadsBefore(line, "GET_", "_FROM_DEVICE") = {}
  BY <1>4 DEF HeadsBefore
<1> QED
  BY <1>2, <1>5, <1>6, KeywordHeads

(* That of GET_PARAMETER_FROM_DEVICE has no comma after GET_PARAMETER. *)
LEMMA GetFromDeviceHasKeyword ==
    ASSUME NEW line \in Text, NEW order, NEW name \in Server!Name,
           GetFromDeviceLine(line, order, name)
    PROVE  /\ Server!In(Server!GET_PARAMETER_FROM_DEVICE, line)
           /\ ~Server!In(Server!CONNECT, line)
           /\ ~Server!In(SetComma, line) /\ ~Server!In(Server!SET_PARAMETER_IN_DEVICE, line)
           /\ ~Server!In(GetComma, line)
<1>1. /\ Len(line) = 6 /\ line[1] = "GET_" /\ line[2] = "PARAMETER"
      /\ line[3] = "_FROM_DEVICE" /\ line[4] = "comma" /\ line[5] = name /\ line[6] = "newline"
  BY DEF GetFromDeviceLine
<1>2. Server!In(Server!GET_PARAMETER_FROM_DEVICE, line)
  <2> DEFINE word == Server!GET_PARAMETER_FROM_DEVICE
  <2>0. /\ word \in Text /\ Len(word) = 3
        /\ word[1] = "GET_" /\ word[2] = "PARAMETER" /\ word[3] = "_FROM_DEVICE"
    BY Keywords DEF Server!GET_PARAMETER_FROM_DEVICE
  <2> HIDE DEF word
  <2>1. 0 \in 0..Len(line) - Len(word)
    BY <1>1, <2>0
  <2>2. \A k \in 1..3 : k = 1 \/ k = 2 \/ k = 3
    OBVIOUS
  <2>3. \A k \in 1..Len(word) : line[0+k] = word[k]
    BY <1>1, <2>0, <2>2
  <2>4. Server!In(word, line)
    BY <2>0, <2>1, <2>3, InAt
  <2> QED
    BY <2>4 DEF word
<1>3. \A i \in 1..6 : line[i] # "SET_" /\ line[i] # "CON" /\ (line[i] = "GET_" => i = 1)
  <2>1. \A i \in 1..6 : i = 1 \/ i = 2 \/ i = 3 \/ i = 4 \/ i = 5 \/ i = 6
    OBVIOUS
  <2>2. name # "SET_" /\ name # "CON" /\ name # "GET_"
    BY Words
  <2> QED
    BY <1>1, <2>1, <2>2
<1>4. /\ \A i \in 1..Len(line) : line[i] # "CON"
      /\ \A i \in 1..Len(line) - 2 : /\ line[i] # "SET_"
                                     /\ line[i] = "GET_" => line[i+2] # "comma"
  <2>1. \A i \in 1..Len(line) - 2 : i \in 1..6
    BY <1>1
  <2> QED
    BY <1>1, <1>3, <2>1
<1>5. ConnectHeads(line) = {}
  BY <1>4 DEF ConnectHeads
<1>6. /\ HeadsBefore(line, "SET_", "comma") = {}
      /\ HeadsBefore(line, "SET_", "_IN_DEVICE") = {}
      /\ HeadsBefore(line, "GET_", "comma") = {}
  BY <1>4 DEF HeadsBefore
<1> QED
  BY <1>2, <1>5, <1>6, KeywordHeads

(* Likewise SET_PARAMETER ... *)
LEMMA SetHasKeyword ==
    ASSUME NEW line \in Text, NEW order, NEW name \in Server!Name,
           NEW number \in Server!Literal, SetLine(line, order, name, number)
    PROVE  /\ Server!In(SetComma, line)
           /\ ~Server!In(Server!CONNECT, line)
           /\ ~Server!In(Server!SET_PARAMETER_IN_DEVICE, line)
           /\ ~Server!In(GetComma, line) /\ ~Server!In(Server!GET_PARAMETER_FROM_DEVICE, line)
<1>1. /\ Len(line) = 7 /\ line[1] = "SET_" /\ line[2] = "PARAMETER" /\ line[3] = "comma"
      /\ line[4] = name /\ line[5] = "comma" /\ line[6] = number /\ line[7] = "newline"
  BY DEF SetLine
<1>2. Server!In(SetComma, line)
  <2>1. 0 \in 0..Len(line) - Len(SetComma)
    BY <1>1, WithCommaFacts
  <2>2. \A k \in 1..3 : k = 1 \/ k = 2 \/ k = 3
    OBVIOUS
  <2>3. \A k \in 1..Len(SetComma) : line[0+k] = SetComma[k]
    BY <1>1, <2>2, WithCommaFacts
  <2> QED
    BY <2>1, <2>3, InAt, WithCommaFacts
<1>3. \A i \in 1..7 : line[i] # "GET_" /\ line[i] # "CON" /\ line[i] # "_IN_DEVICE"
  <2>1. \A i \in 1..7 : i = 1 \/ i = 2 \/ i = 3 \/ i = 4 \/ i = 5 \/ i = 6 \/ i = 7
    OBVIOUS
  <2>2. /\ name # "GET_" /\ name # "CON" /\ name # "_IN_DEVICE"
        /\ number # "GET_" /\ number # "CON" /\ number # "_IN_DEVICE"
    BY Words
  <2> QED
    BY <1>1, <2>1, <2>2
<1>4. /\ \A i \in 1..Len(line) : line[i] # "CON"
      /\ \A i \in 1..Len(line) - 2 : line[i] # "GET_" /\ line[i+2] # "_IN_DEVICE"
  <2>1. \A i \in 1..Len(line) - 2 : i \in 1..7 /\ i + 2 \in 1..7
    BY <1>1
  <2> QED
    BY <1>1, <1>3, <2>1
<1>5. ConnectHeads(line) = {}
  BY <1>4 DEF ConnectHeads
<1>6. /\ HeadsBefore(line, "SET_", "_IN_DEVICE") = {}
      /\ HeadsBefore(line, "GET_", "comma") = {}
      /\ HeadsBefore(line, "GET_", "_FROM_DEVICE") = {}
  BY <1>4 DEF HeadsBefore
<1> QED
  BY <1>2, <1>5, <1>6, KeywordHeads

(* ... and SET_PARAMETER_IN_DEVICE. *)
LEMMA SetInDeviceHasKeyword ==
    ASSUME NEW line \in Text, NEW order, NEW name \in Server!Name,
           NEW number \in Server!Literal, SetInDeviceLine(line, order, name, number)
    PROVE  /\ Server!In(Server!SET_PARAMETER_IN_DEVICE, line)
           /\ ~Server!In(Server!CONNECT, line)
           /\ ~Server!In(SetComma, line)
           /\ ~Server!In(GetComma, line) /\ ~Server!In(Server!GET_PARAMETER_FROM_DEVICE, line)
<1>1. /\ Len(line) = 8 /\ line[1] = "SET_" /\ line[2] = "PARAMETER"
      /\ line[3] = "_IN_DEVICE" /\ line[4] = "comma" /\ line[5] = name /\ line[6] = "comma"
      /\ line[7] = number /\ line[8] = "newline"
  BY DEF SetInDeviceLine
<1>2. Server!In(Server!SET_PARAMETER_IN_DEVICE, line)
  <2> DEFINE word == Server!SET_PARAMETER_IN_DEVICE
  <2>0. /\ word \in Text /\ Len(word) = 3
        /\ word[1] = "SET_" /\ word[2] = "PARAMETER" /\ word[3] = "_IN_DEVICE"
    BY Keywords DEF Server!SET_PARAMETER_IN_DEVICE
  <2> HIDE DEF word
  <2>1. 0 \in 0..Len(line) - Len(word)
    BY <1>1, <2>0
  <2>2. \A k \in 1..3 : k = 1 \/ k = 2 \/ k = 3
    OBVIOUS
  <2>3. \A k \in 1..Len(word) : line[0+k] = word[k]
    BY <1>1, <2>0, <2>2
  <2>4. Server!In(word, line)
    BY <2>0, <2>1, <2>3, InAt
  <2> QED
    BY <2>4 DEF word
<1>3. \A i \in 1..8 : line[i] # "GET_" /\ line[i] # "CON" /\ (line[i] = "SET_" => i = 1)
  <2>1. \A i \in 1..8 : i = 1 \/ i = 2 \/ i = 3 \/ i = 4 \/ i = 5 \/ i = 6 \/ i = 7 \/ i = 8
    OBVIOUS
  <2>2. /\ name # "GET_" /\ name # "CON" /\ name # "SET_"
        /\ number # "GET_" /\ number # "CON" /\ number # "SET_"
    BY Words
  <2> QED
    BY <1>1, <2>1, <2>2
<1>4. /\ \A i \in 1..Len(line) : line[i] # "CON"
      /\ \A i \in 1..Len(line) - 2 : /\ line[i] # "GET_"
                                     /\ line[i] = "SET_" => line[i+2] # "comma"
  <2>1. \A i \in 1..Len(line) - 2 : i \in 1..8
    BY <1>1
  <2> QED
    BY <1>1, <1>3, <2>1
<1>5. ConnectHeads(line) = {}
  BY <1>4 DEF ConnectHeads
<1>6. /\ HeadsBefore(line, "SET_", "comma") = {}
      /\ HeadsBefore(line, "GET_", "comma") = {}
      /\ HeadsBefore(line, "GET_", "_FROM_DEVICE") = {}
  BY <1>4 DEF HeadsBefore
<1> QED
  BY <1>2, <1>5, <1>6, KeywordHeads

(* ... and the arguments it was sent with as sections. *)
LEMMA GetSections ==
    ASSUME NEW line \in Text, NEW order, NEW name \in Server!Name,
           GetLine(line, order, name) \/ GetFromDeviceLine(line, order, name)
    PROVE  ~(Len(Server!Sections(line)) < 2) /\ Server!Sections(line)[2] = <<name>>
<1>1. CASE GetLine(line, order, name)
  <2>1. /\ Len(line) = 3 + 2 /\ line[1] = "GET_" /\ line[2] = "PARAMETER" /\ line[3] = "comma"
        /\ line[3+1] = name /\ line[3+2] = "newline"
    BY <1>1 DEF GetLine
  <2>2. Composed(line, {})
    BY <1>1, GetIsWhole DEF Whole
  <2>3. \A k \in 1..3 - 1 : line[k] # "comma"
    BY <2>1
  <2>4. 3 \in Nat \ {0} /\ line[1] # "comma" /\ line[1] # "newline"
    BY <2>1
  <2>5. ~(Len(Server!Sections(line)) < 2) /\ Server!Sections(line)[2] = <<line[3+1]>>
    BY <2>1, <2>2, <2>3, <2>4, OneArgument
  <2> QED
    BY <2>1, <2>5
<1>2. CASE GetFromDeviceLine(line, order, name)
  <2>1. /\ Len(line) = 4 + 2 /\ line[1] = "GET_" /\ line[2] = "PARAMETER"
        /\ line[3] = "_FROM_DEVICE" /\ line[4] = "comma" /\ line[4+1] = name
        /\ line[4+2] = "newline"
    BY <1>2 DEF GetFromDeviceLine
  <2>2. Composed(line, {})
    BY <1>2, GetFromDeviceIsWhole DEF Whole
  <2>3. \A k \in 1..4 - 1 : line[k] # "comma"
    BY <2>1
  <2>4. 4 \in Nat \ {0} /\ line[1] # "comma" /\ line[1] # "newline"
    BY <2>1
  <2>5. ~(Len(Server!Sections(line)) < 2) /\ Server!Sections(line)[2] = <<line[4+1]>>
    BY <2>1, <2>2, <2>3, <2>4, OneArgument
  <2> QED
    BY <2>1, <2>5
<1> QED
  BY <1>1, <1>2

LEMMA SetSections ==
    ASSUME NEW line \in Text, NEW order, NEW name \in Server!Name, NEW number \in Server!Literal,
           SetLine(line, order, name, number) \/ SetInDeviceLine(line, order, name, number)
    PROVE  /\ ~(Len(Server!Sections(line)) < 3)
           /\ Server!Sections(line)[2] = <<name>> /\ Server!Sections(line)[3] = <<number>>
<1>1. CASE SetLine(line, order, name, number)
  <2>1. /\ Len(line) = 3 + 4 /\ line[1] = "SET_" /\ line[2] = "PARAMETER" /\ line[3] = "comma"
        /\ line[3+1] = name /\ line[3+2] = "comma" /\ line[3+3] = number
        /\ line[3+4] = "newline"
    BY <1>1 DEF SetLine
  <2>2. Composed(line, {order})
    BY <1>1, SetIsWhole DEF Whole
  <2>3. \A k \in 1..3 - 1 : line[k] # "comma"
    BY <2>1
  <2>4. 3 \in Nat \ {0} /\ line[1] # "comma" /\ line[1] # "newline"
    BY <2>1
  <2>5. /\ ~(Len(Server!Sections(line)) < 3)
        /\ Server!Sections(line)[2] = <<line[3+1]>> /\ Server!Sections(line)[3] = <<line[3+3]>>
    BY <2>1, <2>2, <2>3, <2>4, TwoArguments
  <2> QED
    BY <2>1, <2>5
<1>2. CASE SetInDeviceLine(line, order, name, number)
  <2>1. /\ Len(line) = 4 + 4 /\ line[1] = "SET_" /\ line[2] = "PARAMETER"
        /\ line[3] = "_IN_DEVICE" /\ line[4] = "comma" /\ line[4+1] = name
        /\ line[4+2] = "comma" /\ line[4+3] = number /\ line[4+4] = "newline"
    BY <1>2 DEF SetInDeviceLine
  <2>2. Composed(line, {order})
    BY <1>2, SetInDeviceIsWhole DEF Whole
  <2>3. \A k \in 1..4 - 1 : line[k] # "comma"
    BY <2>1
  <2>4. 4 \in Nat \ {0} /\ line[1] # "comma" /\ line[1] # "newline"
    BY <2>1
  <2>5. /\ ~(Len(Server!Sections(line)) < 3)
        /\ Server!Sections(line)[2] = <<line[4+1]>> /\ Server!Sections(line)[3] = <<line[4+3]>>
    BY <2>1, <2>2, <2>3, <2>4, TwoArguments
  <2> QED
    BY <2>1, <2>5
<1> QED
  BY <1>1, <1>2

(* A text has each of its fragments in it. *)
LEMMA HasFragment ==
    ASSUME NEW text \in Text, NEW i \in 1..Len(text)
    PROVE  Server!In(<<text[i]>>, text)
<1> DEFINE word == <<text[i]>>
<1>1. Len(text) \in Nat /\ text[i] \in Server!Fragment
  BY TextFacts
<1>2. word \in Text /\ Len(word) = 1 /\ word[1] = text[i]
  BY <1>1 DEF Text
<1> HIDE DEF word
<1>3. i - 1 \in 0..Len(text) - Len(word) /\ (i - 1) + 1 = i
  BY <1>1, <1>2
<1>4. \A k \in 1..Len(word) : text[(i - 1) + k] = word[k]
  BY <1>2, <1>3
<1>5. Server!In(word, text)
  BY <1>2, <1>3, <1>4, InAt
<1> QED
  BY <1>5 DEF word

(* What is in a command is in its line. *)
LEMMA InCommandInLine ==
    ASSUME NEW order \in Server!Command, NEW word \in Text, Server!In(word, order)
    PROVE  Server!In(word, Server!Line(order))
<1> DEFINE line == Server!Line(order)
<1>1. /\ line \in Text /\ order \in Text /\ Len(line) = Len(order) + 1
      /\ \A i \in 1..Len(order) : line[i] = order[i]
  BY LineForms
<1> HIDE DEF line
<1>2. PICK i \in 0..Len(order) - Len(word) : \A k \in 1..Len(word) : order[i+k] = word[k]
  BY <1>1, InMeans
<1>3. Len(order) \in Nat /\ Len(word) \in Nat
  BY <1>1, TextFacts
<1>4. i \in 0..Len(line) - Len(word)
  BY <1>1, <1>3
<1>5. ASSUME NEW k \in 1..Len(word) PROVE line[i+k] = word[k]
  <2>1. i + k \in 1..Len(order)
    BY <1>3
  <2> QED
    BY <1>1, <1>2, <2>1
<1>6. Server!In(word, line)
  BY <1>1, <1>4, <1>5, InAt
<1> QED
  BY <1>6 DEF line

(* What a careful client sends. *)
GetProper(line, order, name) == GetLine(line, order, name) \/ GetFromDeviceLine(line, order, name)
SetProper(line, order, name, number) ==
    SetLine(line, order, name, number) \/ SetInDeviceLine(line, order, name, number)

(* A line is proper if its name is in the configuration file, its value is *)
(* a number, and, but for CONNECT, the initiator is linked.                *)
LEMMA ProperMeans ==
    ASSUME NEW line, Server!Proper(line)
    PROVE  \E order \in Server!Command :
              /\ line = Server!Line(order) /\ line \in Text
              /\ \/ ConnectLine(line, order) \/ DisconnectLine(line, order)
                 \/ /\ sscpInitiator = "linked"
                    /\ \E name \in Parameter : GetProper(line, order, name)
                 \/ /\ sscpInitiator = "linked"
                    /\ \E name \in Parameter, number \in Number :
                          SetProper(line, order, name, number)
<1>1. PICK order \in Server!Command :
         /\ line = Server!Line(order)
         /\ ~Server!In(<<"x">>, order) /\ ~Server!In(<<Unknown>>, order)
         /\ Server!In(Server!CONNECT, order) \/ sscpInitiator = "linked"
  BY DEF Server!Proper
<1>2. /\ line \in Text /\ order \in Text /\ Len(line) = Len(order) + 1
      /\ \A i \in 1..Len(order) : line[i] = order[i]
      /\ \/ ConnectLine(line, order)
         \/ DisconnectLine(line, order)
         \/ \E name \in Server!Name : GetProper(line, order, name)
         \/ \E name \in Server!Name, number \in Server!Literal :
               SetProper(line, order, name, number)
  BY <1>1, LineForms DEF GetProper, SetProper
<1>3. ASSUME NEW i \in 1..Len(line) - 1
      PROVE  line[i] # Unknown /\ line[i] # "x"
  <2>1. i \in 1..Len(order)
    BY <1>2, TextFacts
  <2>2. line[i] = order[i] /\ Server!In(<<order[i]>>, order)
    BY <1>2, <2>1, HasFragment
  <2> QED
    BY <1>1, <2>2
<1>4. ~Server!In(Server!CONNECT, line) => sscpInitiator = "linked"
  BY <1>1, InCommandInLine, Keywords
<1>5. ASSUME NEW name \in Server!Name, GetProper(line, order, name)
      PROVE  sscpInitiator = "linked" /\ name \in Parameter
  <2>1. sscpInitiator = "linked"
    BY <1>2, <1>4, <1>5, GetHasKeyword, GetFromDeviceHasKeyword DEF GetProper
  <2>2. (Len(line) = 5 /\ line[4] = name) \/ (Len(line) = 6 /\ line[5] = name)
    BY <1>5 DEF GetProper, GetLine, GetFromDeviceLine
  <2>3. name # Unknown
    <3>1. CASE Len(line) = 5 /\ line[4] = name
      <4>1. 4 \in 1..Len(line) - 1
        BY <3>1
      <4> QED
        BY <1>3, <3>1, <4>1
    <3>2. CASE Len(line) = 6 /\ line[5] = name
      <4>1. 5 \in 1..Len(line) - 1
        BY <3>2
      <4> QED
        BY <1>3, <3>2, <4>1
    <3> QED
      BY <2>2, <3>1, <3>2
  <2> QED
    BY <2>1, <2>3 DEF Server!Name
<1>6. ASSUME NEW name \in Server!Name, NEW number \in Server!Literal,
             SetProper(line, order, name, number)
      PROVE  sscpInitiator = "linked" /\ name \in Parameter /\ number \in Number
  <2>1. sscpInitiator = "linked"
    BY <1>2, <1>4, <1>6, SetHasKeyword, SetInDeviceHasKeyword DEF SetProper
  <2>2. \/ Len(line) = 7 /\ line[4] = name /\ line[6] = number
        \/ Len(line) = 8 /\ line[5] = name /\ line[7] = number
    BY <1>6 DEF SetProper, SetLine, SetInDeviceLine
  <2>3. name # Unknown /\ number # "x"
    <3>1. CASE Len(line) = 7 /\ line[4] = name /\ line[6] = number
      <4>1. 4 \in 1..Len(line) - 1 /\ 6 \in 1..Len(line) - 1
        BY <3>1
      <4> QED
        BY <1>3, <3>1, <4>1
    <3>2. CASE Len(line) = 8 /\ line[5] = name /\ line[7] = number
      <4>1. 5 \in 1..Len(line) - 1 /\ 7 \in 1..Len(line) - 1
        BY <3>2
      <4> QED
        BY <1>3, <3>2, <4>1
    <3> QED
      BY <2>2, <3>1, <3>2
  <2> QED
    BY <2>1, <2>3 DEF Server!Name, Server!Literal
<1> QED
  BY <1>1, <1>2, <1>5, <1>6

(* A branch whose keyword is not there leaves the pass as it is. *)
LEMMA Skips ==
    ASSUME NEW text, NEW pass
    PROVE  /\ ~Server!In(Server!CONNECT, text) => Server!Connect(pass, text) = {pass}
           /\ ~Server!In(SetComma, text) => Server!SetInMap(pass, text) = {pass}
           /\ ~Server!In(Server!SET_PARAMETER_IN_DEVICE, text)
              => Server!SetInDevice(pass, text) = {pass}
           /\ ~Server!In(GetComma, text) => Server!GetFromMap(pass, text) = {pass}
           /\ ~Server!In(Server!GET_PARAMETER_FROM_DEVICE, text)
              => Server!GetFromDevice(pass, text) = {pass}
  BY DEF Server!Skipped, SetComma, GetComma, Server!Connect, Server!SetInMap,
         Server!SetInDevice, Server!GetFromMap, Server!GetFromDevice

(* An answer, or, but over the serial link, an exception. *)
Settled(last) ==
    /\ last.alive => last.answers = answers + 1
    /\ interfaceType = "SERIAL" => last.alive

(* CONNECT is always answered. *)
LEMMA ConnectSettles ==
    ASSUME NEW asked, Begun \in Pass(asked), NEW line \in Text, Server!In(Server!CONNECT, line),
           NEW p \in Server!Connect(Begun, line)
    PROVE  Settled(p)
<1> DEFINE linked == [Begun EXCEPT !.initiator = "linked"]
           unlinked == [Begun EXCEPT !.initiator = "unlinked"]
<1>1. /\ Begun.alive /\ Begun.answers = answers
      /\ linked \in Pass(asked) /\ linked.alive /\ linked.answers = answers
      /\ unlinked \in Pass(asked) /\ unlinked.alive /\ unlinked.answers = answers
  BY DEF Pass, Begun
<1>2. \E old \in {Begun, linked, unlinked} : p \in Server!Answered(old)
  BY <1>1 DEF Server!Connect, Server!Skipped
<1> HIDE DEF linked, unlinked
<1>3. PICK old \in {Begun, linked, unlinked} : p \in Server!Answered(old)
  BY <1>2
<1>4. old \in Pass(asked) /\ old.alive /\ old.answers = answers
  BY <1>1
<1> QED
  BY <1>3, <1>4, Outcomes DEF Settled

(* A set with a name and a number that there are is answered, unless the   *)
(* link raises.                                                            *)
LEMMA SetSettles ==
    ASSUME NEW known, Begun \in Pass(known), NEW line \in Text, NEW order,
           sscpInitiator = "linked", NEW name \in Parameter, NEW number \in Number,
           SetProper(line, order, name, number)
    PROVE  /\ Server!In(SetComma, line)
              => \A p \in Server!SetInMap(Begun, line) : Settled(p)
           /\ Server!In(Server!SET_PARAMETER_IN_DEVICE, line)
              => \A p \in Server!SetInDevice(Begun, line) : Settled(p)
<1> DEFINE items == Server!Sections(line)
           c1 == Server!Set(Server!SET_PARAMETER, items[2][1], items[3][1])
           c2 == Server!Set(Server!SET_PARAMETER_IN_DEVICE, items[2][1], items[3][1])
           asked == known \cup {c1, c2}
<1>1. ~(Len(items) < 3) /\ items[2] = <<name>> /\ items[3] = <<number>>
  <2>1. name \in Server!Name /\ number \in Server!Literal
    BY Fragments
  <2> QED
    BY <2>1, SetSections DEF SetProper
<1>2. Server!Names(items[2]) /\ Server!IsNumber(items[3])
  BY <1>1 DEF Server!Names, Server!IsNumber
<1>3. Begun.alive /\ Begun.initiator = "linked" /\ Begun.answers = answers
  BY DEF Begun
<1>4. Begun \in Pass(asked)
  BY DEF Pass, Begun
<1>5. Server!In(SetComma, line) => Server!SetInMap(Begun, line) = Server!Acknowledged(Begun, c1)
  BY <1>1, <1>2, <1>3 DEF Server!SetInMap, Server!Skipped, SetComma
<1>6. Server!In(Server!SET_PARAMETER_IN_DEVICE, line)
        => Server!SetInDevice(Begun, line)
             = Server!Acknowledged(Begun, c2)
               \cup IF interfaceType = "SERIAL" THEN Server!Answered(Begun)
                    ELSE Server!Raised(Begun)
  BY <1>1, <1>2, <1>3 DEF Server!SetInDevice, Server!Skipped
<1>7. c1 \in asked /\ c2 \in asked
  OBVIOUS
<1> HIDE DEF c1, c2, asked, items
<1>8. /\ \A p \in Server!Acknowledged(Begun, c1) : Settled(p)
      /\ \A p \in Server!Acknowledged(Begun, c2) : Settled(p)
      /\ \A p \in Server!Answered(Begun) : Settled(p)
  BY <1>3, <1>4, <1>7, Outcomes DEF Settled
<1>9. interfaceType # "SERIAL" => \A p \in Server!Raised(Begun) : Settled(p)
  BY <1>4, Outcomes DEF Settled
<1> QED
  BY <1>5, <1>6, <1>8, <1>9

(* So is a get. *)
LEMMA GetSettles ==
    ASSUME NEW asked, Begun \in Pass(asked), NEW line \in Text, NEW order,
           sscpInitiator = "linked", NEW name \in Parameter,
           GetProper(line, order, name)
    PROVE  /\ Server!In(GetComma, line)
              => \A p \in Server!GetFromMap(Begun, line) : Settled(p)
           /\ Server!In(Server!GET_PARAMETER_FROM_DEVICE, line)
              => \A p \in Server!GetFromDevice(Begun, line) : Settled(p)
<1> DEFINE items == Server!Sections(line)
<1>1. ~(Len(items) < 2) /\ items[2] = <<name>>
  <2>1. name \in Server!Name
    BY Fragments
  <2> QED
    BY <2>1, GetSections DEF GetProper
<1>2. Server!Names(items[2])
  BY <1>1 DEF Server!Names
<1>3. Begun.alive /\ Begun.initiator = "linked" /\ Begun.answers = answers
  BY DEF Begun
<1>4. Server!In(GetComma, line) => Server!GetFromMap(Begun, line) = Server!Answered(Begun)
  BY <1>1, <1>2, <1>3 DEF Server!GetFromMap, Server!Skipped, GetComma
<1>5. Server!In(Server!GET_PARAMETER_FROM_DEVICE, line)
        => Server!GetFromDevice(Begun, line)
             = Server!Answered(Begun)
               \cup IF interfaceType = "SERIAL" THEN {} ELSE Server!Raised(Begun)
  BY <1>1, <1>2, <1>3 DEF Server!GetFromDevice, Server!Skipped
<1> HIDE DEF items
<1>6. \A p \in Server!Answered(Begun) : Settled(p)
  BY <1>3, Outcomes DEF Settled
<1>7. interfaceType # "SERIAL" => \A p \in Server!Raised(Begun) : Settled(p)
  BY Outcomes DEF Settled
<1> QED
  BY <1>4, <1>5, <1>6, <1>7

(* One branch takes the line, the others leave the pass as it is. *)
LEMMA ProperSettles ==
    ASSUME NEW asked, Begun \in Pass(asked), NEW line, Server!Proper(line), NEW last \in Server!Passes(line)
    PROVE  Settled(last)
<1>1. PICK order \in Server!Command :
         /\ line = Server!Line(order) /\ line \in Text
         /\ \/ ConnectLine(line, order) \/ DisconnectLine(line, order)
            \/ /\ sscpInitiator = "linked"
               /\ \E name \in Parameter : GetProper(line, order, name)
            \/ /\ sscpInitiator = "linked"
               /\ \E name \in Parameter, number \in Number :
                     SetProper(line, order, name, number)
  BY ProperMeans
<1>0. PICK p1, p2, p3, p4 : Chain(line, p1, p2, p3, p4, last)
  BY PassesAreChains
<1>2. /\ p1 \in Server!Connect(Begun, line)
      /\ p2 \in Server!SetInMap(p1, line)
      /\ p3 \in Server!SetInDevice(p2, line)
      /\ p4 \in Server!GetFromMap(p3, line)
      /\ last \in Server!GetFromDevice(p4, line)
  BY <1>0 DEF Chain
<1>3. /\ ~Server!In(Server!CONNECT, line) => p1 = Begun
      /\ ~Server!In(SetComma, line) => p2 = p1
      /\ ~Server!In(Server!SET_PARAMETER_IN_DEVICE, line) => p3 = p2
      /\ ~Server!In(GetComma, line) => p4 = p3
      /\ ~Server!In(Server!GET_PARAMETER_FROM_DEVICE, line) => last = p4
  BY <1>2, Skips
<1>4. CASE ConnectLine(line, order) \/ DisconnectLine(line, order)
  <2>1. last = p1 /\ Server!In(Server!CONNECT, line)
    BY <1>1, <1>3, <1>4, ConnectHasKeyword
  <2> QED
    BY <1>1, <1>2, <2>1, ConnectSettles
<1>5. ASSUME sscpInitiator = "linked", NEW name \in Parameter, GetLine(line, order, name)
      PROVE  Settled(last)
  <2>1. name \in Server!Name
    BY Fragments
  <2>2. last = p4 /\ p3 = Begun /\ Server!In(GetComma, line)
    BY <1>1, <1>3, <1>5, <2>1, GetHasKeyword
  <2> QED
    BY <1>1, <1>2, <1>5, <2>2, GetSettles DEF GetProper
<1>6. ASSUME sscpInitiator = "linked", NEW name \in Parameter,
             GetFromDeviceLine(line, order, name)
      PROVE  Settled(last)
  <2>1. name \in Server!Name
    BY Fragments
  <2>2. p4 = Begun /\ Server!In(Server!GET_PARAMETER_FROM_DEVICE, line)
    BY <1>1, <1>3, <1>6, <2>1, GetFromDeviceHasKeyword
  <2> QED
    BY <1>1, <1>2, <1>6, <2>2, GetSettles DEF GetProper
<1>7. ASSUME sscpInitiator = "linked", NEW name \in Parameter, NEW number \in Number,
             SetLine(line, order, name, number)
      PROVE  Settled(last)
  <2>1. name \in Server!Name /\ number \in Server!Literal
    BY Fragments
  <2>2. last = p2 /\ p1 = Begun /\ Server!In(SetComma, line)
    BY <1>1, <1>3, <1>7, <2>1, SetHasKeyword
  <2> QED
    BY <1>1, <1>2, <1>7, <2>2, SetSettles DEF SetProper
<1>8. ASSUME sscpInitiator = "linked", NEW name \in Parameter, NEW number \in Number,
             SetInDeviceLine(line, order, name, number)
      PROVE  Settled(last)
  <2>1. name \in Server!Name /\ number \in Server!Literal
    BY Fragments
  <2>2. last = p3 /\ p2 = Begun /\ Server!In(Server!SET_PARAMETER_IN_DEVICE, line)
    BY <1>1, <1>3, <1>8, <2>1, SetInDeviceHasKeyword
  <2> QED
    BY <1>1, <1>2, <1>8, <2>2, SetSettles DEF SetProper
<1> QED
  BY <1>1, <1>4, <1>5, <1>6, <1>7, <1>8 DEF GetProper, SetProper

-----------------------------------------------------------------------------
(* A careful client gets one answer to each line.                          *)

(* How many lines a text ends. *)
Ends(text) == {i \in 1..Len(text) : text[i] = "newline"}

(* Lines counts them. *)
LEMMA LinesAreEnds ==
    ASSUME NEW text \in Text
    PROVE  /\ Server!Lines(text) = Cardinality(Ends(text))
           /\ IsFiniteSet(Ends(text)) /\ Server!Lines(text) \in Nat
<1>1. Len(text) \in Nat
  BY TextFacts
<1>2. IsFiniteSet(1..Len(text)) /\ Ends(text) \in SUBSET (1..Len(text))
  BY <1>1, FS_Interval DEF Ends
<1>3. IsFiniteSet(Ends(text)) /\ Cardinality(Ends(text)) \in Nat
  BY <1>2, FS_Subset, FS_CardinalityType
<1>4. Server!Lines(text) = Cardinality(Ends(text))
  BY SameCardinality DEF Server!Lines, Ends
<1> QED
  BY <1>3, <1>4

LEMMA LinesOfNothing == Server!Lines(<<>>) = 0
<1>1. <<>> \in Text /\ Len(<<>>) = 0
  BY DEF Text
<1>2. Ends(<<>>) = {}
  BY <1>1 DEF Ends
<1> QED
  BY <1>1, <1>2, LinesAreEnds, FS_EmptySet

(* A line is one line. *)
LEMMA LinesOfLine ==
    ASSUME NEW line \in Text, NEW asked, Whole(line, asked)
    PROVE  Server!Lines(line) = 1
<1> DEFINE n == Len(line)
<1>1. n \in Nat /\ n >= 3 /\ line[n] = "newline" /\ \A i \in 1..n - 1 : line[i] # "newline"
  BY TextFacts DEF Whole
<1>2. Ends(line) = {n}
  <2>1. ASSUME NEW i \in 1..n PROVE line[i] = "newline" <=> i = n
    BY <1>1
  <2> QED
    BY <1>1, <2>1 DEF Ends
<1> QED
  BY <1>2, LinesAreEnds, FS_Singleton

(* A line behind a text is one line more. *)
LEMMA LinesJoined ==
    ASSUME NEW text \in Text, NEW asked, NEW line \in Text, Whole(line, asked)
    PROVE  Server!Lines(text \o line) = Server!Lines(text) + 1
<1> DEFINE joined == text \o line
           L == Len(text)
           M == Len(line)
           e == L + M
<1>1. L \in Nat /\ M \in Nat /\ M >= 3 /\ line[M] = "newline"
      /\ \A i \in 1..M - 1 : line[i] # "newline"
  BY TextFacts DEF Whole
<1>2. /\ joined \in Text /\ Len(joined) = L + M
      /\ \A i \in 1..L : joined[i] = text[i]
      /\ \A i \in 1..M : joined[L + i] = line[i]
  BY Joined
<1> HIDE DEF joined, L, M
<1>3. ASSUME NEW i PROVE i \in Ends(joined) <=> i \in Ends(text) \cup {e}
  <2>1. CASE i \in 1..L
    <3>1. i \in 1..L + M /\ i # e /\ joined[i] = text[i]
      BY <1>1, <1>2, <2>1
    <3> QED
      BY <1>2, <2>1, <3>1 DEF Ends, L
  <2>2. CASE i \in L + 1..e - 1
    <3>1. i \in 1..L + M /\ i # e /\ i - L \in 1..M - 1 /\ i - L \in 1..M /\ L + (i - L) = i
          /\ i \notin 1..L
      BY <1>1, <2>2
    <3>2. joined[i] = line[i - L]
      BY <1>2, <3>1
    <3>3. joined[i] # "newline"
      BY <1>1, <3>1, <3>2
    <3> QED
      BY <3>1, <3>3 DEF Ends, L
  <2>3. CASE i = e
    <3>1. i \in 1..L + M /\ M \in 1..M
      BY <1>1, <2>3
    <3>2. joined[i] = "newline"
      BY <1>1, <1>2, <2>3, <3>1
    <3> QED
      BY <1>2, <2>3, <3>1, <3>2 DEF Ends
  <2>4. CASE i \notin 1..e
    <3>1. i \notin 1..L + M /\ i \notin 1..L /\ i # e
      BY <1>1, <2>4
    <3> QED
      BY <1>2, <3>1 DEF Ends, L
  <2>5. i \in 1..e => i \in 1..L \/ i \in L + 1..e - 1 \/ i = e
    BY <1>1
  <2> QED
    BY <2>1, <2>2, <2>3, <2>4, <2>5
<1>4. Ends(joined) = Ends(text) \cup {e} /\ e \notin Ends(text)
  <2>1. e \notin 1..L
    BY <1>1
  <2> QED
    BY <1>3, <2>1 DEF Ends, L
<1> HIDE DEF e
<1>5. Cardinality(Ends(joined)) = Cardinality(Ends(text)) + 1
  BY <1>4, LinesAreEnds, FS_AddElement
<1>6. Server!Lines(joined) = Server!Lines(text) + 1
  BY <1>2, <1>5, LinesAreEnds
<1> QED
  BY <1>6 DEF joined

(* The second half of OneAnswerEach goes on by itself. *)
Careful ==
    careful /\ client # "closed" =>
        /\ server # "ended" => answers + Server!Lines(stream) = commands
        /\ interfaceType = "SERIAL" => server # "ended"

(* It holds at the start, and every action keeps it. *)
LEMMA CarefulInit == Server!Init => Careful
  BY LinesOfNothing DEF Server!Init, Careful

LEMMA CarefulStart == Server!Start => Careful'
<1> SUFFICES ASSUME Server!Start PROVE Careful'
  OBVIOUS
<1>1. stream' = <<>> /\ answers' = 0 /\ commands' = 0 /\ server' # "ended"
  BY DEF Server!Start
<1> QED
  BY <1>1, LinesOfNothing DEF Careful

LEMMA CarefulAccept == Careful /\ ServerInv /\ (Server!Accept \/ Server!Close) => Careful'
<1>1. ASSUME Careful, Server!Accept, ServerInv PROVE Careful'
  <2>1. server = "accepting" /\ server' = "serving"
        /\ UNCHANGED <<interfaceType, stream, commands, answers, careful>>
    BY <1>1 DEF Server!Accept
  <2>2. client = "away"
    BY <1>1, <2>1 DEF ServerInv
  <2> QED
    BY <1>1, <2>1, <2>2 DEF Careful
<1>2. ASSUME Server!Close PROVE Careful'
  BY <1>2 DEF Server!Close, Careful
<1> QED
  BY <1>1, <1>2

LEMMA CarefulSend == Careful /\ ServerInv /\ Server!Send => Careful'
<1> SUFFICES ASSUME Careful, ServerInv, Server!Send PROVE Careful'
  OBVIOUS
<1>1. PICK order \in Server!Command : stream' = stream \o Server!Line(order)
  BY DEF Server!Send
<1>2. /\ commands' = commands + 1
      /\ UNCHANGED <<server, interfaceType, client, answers, careful>>
  BY DEF Server!Send
<1>3. Server!Line(order) \in Text /\ Whole(Server!Line(order), {order})
  BY LinesAreWhole
<1>4. stream \in Text /\ answers \in Nat
  BY DEF ServerInv, Streamed, Server!TypeOK
<1>5. Server!Lines(stream') = Server!Lines(stream) + 1 /\ Server!Lines(stream) \in Nat
  BY <1>1, <1>3, <1>4, LinesJoined, LinesAreEnds
<1> QED
  BY <1>2, <1>4, <1>5 DEF Careful

(* A careful client has one line under way, the server receives all of it  *)
(* and settles it.                                                         *)
LEMMA CarefulReceive == Careful /\ ServerInv /\ Server!Receive => Careful'
<1> SUFFICES ASSUME Careful, ServerInv, Server!Receive, careful', client' # "closed"
             PROVE  /\ server' # "ended" => answers' + Server!Lines(stream') = commands'
                    /\ interfaceType' = "SERIAL" => server' # "ended"
  BY DEF Careful
<1>0. PICK n \in 1..Len(stream) :
         Server!Take(SubSeq(stream, 1, n), SubSeq(stream, n + 1, Len(stream)))
  BY DEF Server!Receive
<1> DEFINE request == SubSeq(stream, 1, n)
           rest    == SubSeq(stream, n + 1, Len(stream))
<1>1. PICK pass : Taken(request, rest, pass)
  BY <1>0, TakenSome
<1>2. server = "serving" /\ UNCHANGED <<interfaceType, client, commands, sent>>
  BY <1>0, TakenSome
<1>3. /\ stream \in Text /\ answers \in Nat /\ Begun \in Pass(Asked)
      /\ Len(stream) \in Nat /\ n \in 0..Len(stream)
  BY TextFacts DEF ServerInv, Streamed, Server!TypeOK, Begun, Pass
<1>4. /\ careful /\ rest = <<>> /\ Server!Proper(request)
      /\ pass \in Server!Passes(request) /\ answers' = pass.answers
      /\ (pass.alive /\ server' = server) \/ (~pass.alive /\ server' = "ended")
      /\ server' # "ended" => stream' = rest
  BY <1>1, <1>2 DEF Taken
<1>5. Settled(pass)
  BY <1>3, <1>4, ProperSettles
<1>6. request = stream
  <2>1. /\ request \in Text /\ Len(request) = n /\ \A i \in 1..n : request[i] = stream[i]
        /\ rest \in Text /\ Len(rest) = Len(stream) - n
    BY <1>3, PartsOfStream
  <2> HIDE DEF request, rest
  <2>2. n = Len(stream)
    BY <1>3, <1>4, <2>1, TextFacts
  <2> QED
    BY <1>3, <2>1, <2>2, SeqEqual DEF Text
<1>7. Server!Lines(stream) = 1
  <2>1. PICK order \in Server!Command : stream = Server!Line(order)
    BY <1>4, <1>6 DEF Server!Proper
  <2>2. Whole(stream, {order})
    BY <2>1, LinesAreWhole
  <2> QED
    BY <1>3, <2>2, LinesOfLine
<1>8. server' # "ended" => Server!Lines(stream') = 0
  BY <1>4, LinesOfNothing
<1>9. answers + 1 = commands
  BY <1>2, <1>4, <1>7 DEF Careful
<1>10. server' # "ended" => answers' = answers + 1
  BY <1>4, <1>5 DEF Settled
<1>11. interfaceType' = "SERIAL" => server' # "ended"
  BY <1>2, <1>4, <1>5 DEF Settled
<1> QED
  BY <1>2, <1>3, <1>8, <1>9, <1>10, <1>11

(* A recv that ends within an argument leaves the rest of it. *)
LEMMA CarefulReceiveHalf == ServerInv /\ Server!ReceiveHalf => Careful'
<1> SUFFICES ASSUME ServerInv, Server!ReceiveHalf PROVE ~careful'
  BY DEF Careful
<1>1. PICK n \in 1..Len(stream), half \in Halves :
         Server!Take(SubSeq(stream, 1, n - 1) \o <<half.begin>>,
                     <<half.end>> \o SubSeq(stream, n + 1, Len(stream)))
  BY DEF Server!ReceiveHalf
<1> DEFINE after == SubSeq(stream, n + 1, Len(stream))
<1>2. careful' => <<half.end>> \o after = <<>>
  BY <1>1 DEF Server!Take
<1>3. /\ after \in Text /\ <<half.end>> \in Text /\ Len(<<half.end>>) = 1
      /\ Len(after) \in Nat
  <2>1. Len(stream) \in Nat
    BY TextFacts DEF ServerInv, Streamed
  <2>2. n \in 0..Len(stream)
    BY <2>1
  <2> QED
    BY <2>2, PartsOfStream, HalvesFacts, TextFacts DEF Text
<1> HIDE DEF after
<1>4. Len(<<half.end>> \o after) = 1 + Len(after) /\ <<half.end>> \o after \in Text
  BY <1>3, Joined
<1> QED
  BY <1>2, <1>3, <1>4, TextFacts

LEMMA CarefulNext == Careful /\ ServerInv /\ Server!Next => Careful'
  BY CarefulStart, CarefulAccept, CarefulSend, CarefulReceive, CarefulReceiveHalf
     DEF Server!Next

-----------------------------------------------------------------------------
(* Both programs.                                                          *)

FrontEndsInv == Inv /\ ServerInv /\ Careful

(* It holds at the start. *)
LEMMA FrontEndsInvInit == MCInit => FrontEndsInv
  BY InvInit, ServerInvInit, CarefulInit DEF MCInit, FrontEndsInv

(* The program that runs keeps its invariant, and leaves the other's alone. *)
LEMMA FrontEndsInvNext ==
    FrontEndsInv /\ [MCNext]_<<program, vars, serverVars>> => FrontEndsInv'
<1>1. ASSUME ServerInv, Careful, UNCHANGED serverVars PROVE ServerInv' /\ Careful'
  <2>1. UNCHANGED <<server, interfaceType, sscpInitiator, client, stream,
                    commands, answers, sent, acked, halved, careful>>
    BY <1>1 DEF serverVars
  <2>2. Server!TypeOK'
    BY <1>1, <2>1 DEF ServerInv, Server!TypeOK
  <2>3. Asked' = Asked
    BY <2>1 DEF Asked, Server!CutShort
  <2>4. ServerInv'
    BY <1>1, <2>1, <2>2, <2>3 DEF ServerInv
  <2> QED
    BY <1>1, <2>1, <2>4 DEF Careful
<1>2. Inv /\ UNCHANGED vars => Inv'
  BY Inductive
<1>3. Inv /\ Next => Inv'
  BY Inductive
<1> QED
  BY <1>1, <1>2, <1>3, ServerInvNext, CarefulNext DEF FrontEndsInv, MCNext

(* The invariants of both hold together. *)
THEOREM FrontEndsInvariance == MCSpec => []FrontEndsInv
  BY FrontEndsInvInit, FrontEndsInvNext, PTL DEF MCSpec

(* The bridge does here what it does alone, so that its theorems hold. *)
THEOREM FrontEndsRunTheBridge == MCSpec => Spec
<1>1. MCInit => Init
  BY DEF MCInit
<1>2. [MCNext]_<<program, vars, serverVars>> => [Next]_vars
  BY DEF MCNext
<1> QED
  BY <1>1, <1>2, PTL DEF MCSpec, Spec

(* The variables of both programs stay in their types. *)
THEOREM FrontEndsTypeCorrect == MCSpec => []FrontEndsTypeOK
<1>1. FrontEndsInv => FrontEndsTypeOK
  BY DEF FrontEndsInv, FrontEndsTypeOK, Inv, ServerInv
<1> QED
  BY <1>1, FrontEndsInvariance, PTL

(* As long as no recv ends within an argument, a set that the server       *)
(* acknowledges is one the client asked for, with that name and that       *)
(* number, in whatever other pieces its commands arrive.  Once one does,   *)
(* its number may be the beginning of the number that was asked for.       *)
THEOREM AllAcksAreRight == MCSpec => []AcksAreRight
<1>1. FrontEndsInv => AcksAreRight
  BY ServerInvHolds DEF FrontEndsInv, AcksAreRight
<1> QED
  BY <1>1, FrontEndsInvariance, PTL

(* A client gets no answer too many, and a careful one gets one answer to  *)
(* each command, from a server that goes on over the serial link.          *)
THEOREM EachIsAnsweredOnce == MCSpec => []OneAnswerEach
<1>1. FrontEndsInv => OneAnswerEach
  BY ServerInvHolds DEF FrontEndsInv, Careful, OneAnswerEach, Server!OneAnswerEach
<1> QED
  BY <1>1, FrontEndsInvariance, PTL
=============================================================================
