---------------------------- MODULE MqChatProofs ----------------------------
(***************************************************************************)
(* The safety of MqChat for any number of clients and slots and any length *)
(* of the queues: types; and, as long as nobody presses Ctrl+C before the  *)
(* identifier is known, that slots stay with their clients (SlotsInv) and  *)
(* all clients get one conversation (ConversationInv).                     *)
(***************************************************************************)
EXTENDS MqChat, SequenceTheorems, FiniteSetTheorems, TLAPS

-----------------------------------------------------------------------------
(* The inductive invariants *)

\* What clients send to the server, and what is put into the queue of a client.
Request == [type : {"INIT", "MESSAGE", "STOP"}, id : Entry \cup {Unset}, from : Client]
Letter == {m \in Message : IF m.type = "IDENTIFIER" THEN m.id \in Entry ELSE m.from \in Client}

QueueType ==
    /\ srvq \in Seq(Request)
    /\ cur \in Request \cup {NoMsg}
    /\ srv \in {"init", "relay", "stop"} => cur \in Request
    /\ srv = "init" => cur.type = "INIT"
    /\ inbox \in [Client -> Seq(Letter)]
    /\ pipe \in [Client -> Seq(Entry)]

TypeInv == TypeOK /\ QueueType

\* A parent that is to learn its identifier has a child to tell it.
Unhurried ==
    /\ flag \in [Client -> BOOLEAN]
    /\ \A c \in Client : pc[c] \in {"off", "failed", "init", "fork", "read"} =>
           flag[c] /\ child[c] # "exited"

\* Parents whose STOP has been sent, or never will be.
Away == {c \in Client : pc[c] \in {"wait", "done", "dead"}}

\* Every identifier on its way to a client names a slot of that client.
Told ==
    \A c \in Client \ Away :
        /\ \A n \in 1 .. Len(inbox[c]) :
               inbox[c][n].type = "IDENTIFIER" => clients[inbox[c][n].id] = c
        /\ \A n \in 1 .. Len(pipe[c]) : clients[pipe[c][n]] = c
        /\ pc[c] \in {"test", "scanf", "stop"} =>
               client_id[c] \in Entry /\ clients[client_id[c]] = c

\* A STOP in the server's queue is the only one of its sender, and names a slot
\* that is still the sender's.
Goodbyes ==
    \A n \in 1 .. Len(srvq) : srvq[n].type = "STOP" =>
        /\ srvq[n].from \in Away
        /\ srvq[n].id \in Entry /\ clients[srvq[n].id] = srvq[n].from
        /\ cur.type = "STOP" => cur.from # srvq[n].from
        /\ \A k \in 1 .. Len(srvq) :
               srvq[k].type = "STOP" /\ srvq[k].from = srvq[n].from => k = n

\* The STOP the server handled last finds its slot free if it is handled again.
LastGoodbye ==
    cur.type = "STOP" =>
        /\ cur.from \in Away
        /\ cur.id \in Entry
        /\ srv = "stop" => clients[cur.id] \in {cur.from, NoClient}
        /\ srv \in {"test", "receive"} => clients[cur.id] = NoClient

SlotsInv == TypeInv /\ Unhurried /\ Told /\ Goodbyes /\ LastGoodbye

-----------------------------------------------------------------------------
(* The least of the slots, and the messages of a queue *)

LEMMA LeastNumber ==
    ASSUME NEW S, S \subseteq Nat, S # {}
    PROVE  \E l \in S : \A k \in S : l <= k
<1>1. PICK l \in S : \A k \in S : <<k, l>> \notin OpToRel(<, Nat)
  BY NatLessThanWellFounded, WFMin
<1>2. \A k \in S : ~(k < l)
  BY <1>1 DEF OpToRel
<1> QED
  BY <1>2

LEMMA LeastSlot ==
    ASSUME NEW S, S \subseteq Entry, S # {}
    PROVE  Least(S) \in S /\ \A t \in S : Least(S) <= t
<1>1. S \subseteq Nat
  BY MqAssumption DEF Id, Past, Entry
<1>2. \E l \in S : \A k \in S : l <= k
  BY <1>1, LeastNumber
<1> QED
  BY <1>2 DEF Least

LEMMA SlotRange ==
    /\ \A s \in Entry : s \in Nat
    /\ \A s \in Id : s \in Entry /\ s + 1 \in 0 .. Slots
BY MqAssumption DEF Id, Past, Entry

LEMMA UnsetNoSlot == Unset \notin Entry
BY MqAssumption DEF Unset, Id, Past, Entry

-----------------------------------------------------------------------------
(* Types *)

LEMMA InitType == Init => TypeInv
BY MqAssumption
   DEF Init, TypeInv, TypeOK, QueueType, NoMsg, Msg, Id, Past, Entry, Unset

\* A step that leaves the server and the queues alone.
LEMMA SameServerType ==
    ASSUME TypeInv, UNCHANGED <<server, srvq, inbox>>,
           pc' \in [Client -> {"off", "init", "fork", "read", "test", "scanf", "stop",
                               "wait", "done", "failed", "dead"}],
           child' \in [Client -> {"off", "test", "receive", "exited"}],
           client_id' \in [Client -> Entry \cup {Unset}],
           pipe' \in [Client -> Seq(Entry)]
    PROVE  TypeInv'
BY DEF TypeInv, TypeOK, QueueType, server

\* A client sends a message to the server.
LEMMA SendType ==
    ASSUME TypeInv, NEW m \in Request, SendServer(m), UNCHANGED <<server, inbox>>,
           pc' \in [Client -> {"off", "init", "fork", "read", "test", "scanf", "stop",
                               "wait", "done", "failed", "dead"}],
           UNCHANGED <<child, client_id, pipe>>
    PROVE  TypeInv'
<1>1. srvq' \in Seq(Request) /\ Len(srvq') = Len(srvq) + 1 /\ Len(srvq) < QueueSize
  BY DEF SendServer, TypeInv, QueueType
<1>2. Len(srvq') <= QueueSize
  BY <1>1, MqAssumption DEF TypeInv, QueueType
<1> QED
  BY <1>1, <1>2 DEF TypeInv, TypeOK, QueueType, server

LEMMA ProcessType ==
    ASSUME TypeInv, NEW c \in Client,
           Process(c) \/ Type(c) \/ Interrupt(c) \/ Crash(c)
    PROVE  TypeInv'
<1> USE DEF Parent, users
<1>1. CASE Connect(c)
  BY <1>1, SameServerType DEF Connect, TypeInv, TypeOK, QueueType
<1>2. CASE SendInit(c)
  <2>1. Msg("INIT", Unset, c) \in Request
    BY DEF Msg, Request
  <2> QED
    BY <1>2, <2>1, SendType DEF SendInit, TypeInv, TypeOK
<1>3. CASE Fork(c)
  BY <1>3, SameServerType DEF Fork, TypeInv, TypeOK, QueueType
<1>4. CASE ReadId(c)
  <2>1. pipe[c] \in Seq(Entry)
    BY DEF TypeInv, QueueType
  <2>2. PICK x \in Entry \cup {Unset} : client_id' = [client_id EXCEPT ![c] = x]
    BY <1>4, <2>1 DEF ReadId
  <2> QED
    BY <1>4, <2>2, SameServerType DEF ReadId, TypeInv, TypeOK, QueueType
<1>5. CASE Test(c)
  BY <1>5, SameServerType DEF Test, TypeInv, TypeOK, QueueType
<1>6. CASE Type(c)
  <2>1. Msg("MESSAGE", client_id[c], c) \in Request
    BY DEF Msg, Request, TypeInv, TypeOK
  <2> QED
    BY <1>6, <2>1, SendType DEF Type, TypeInv, TypeOK
<1>7. CASE SendStop(c)
  <2>1. Msg("STOP", client_id[c], c) \in Request
    BY DEF Msg, Request, TypeInv, TypeOK
  <2> QED
    BY <1>7, <2>1, SendType DEF SendStop, TypeInv, TypeOK
<1>8. CASE Unlink(c)
  BY <1>8, SameServerType DEF Unlink, TypeInv, TypeOK, QueueType
<1>9. CASE Interrupt(c)
  BY <1>9, SameServerType DEF Interrupt, TypeInv, TypeOK, QueueType
<1>10. CASE Crash(c)
  BY <1>10, SameServerType DEF Crash, TypeInv, TypeOK, QueueType
<1>11. CASE ChildTest(c)
  BY <1>11, SameServerType DEF ChildTest, TypeInv, TypeOK, QueueType
<1>12. CASE ChildReceive(c)
  <2>1. inbox[c] \in Seq(Letter) /\ inbox[c] # <<>> /\ Len(inbox[c]) <= QueueSize
    BY <1>12 DEF ChildReceive, TypeInv, TypeOK, QueueType
  <2>2. /\ Head(inbox[c]) \in Letter
        /\ Tail(inbox[c]) \in Seq(Letter)
        /\ Len(Tail(inbox[c])) <= QueueSize
    BY <2>1, MqAssumption
  <2>3. inbox' = [inbox EXCEPT ![c] = Tail(inbox[c])]
    BY <1>12 DEF ChildReceive
  <2>4. /\ inbox' \in [Client -> Seq(Letter)]
        /\ \A d \in Client : Len(inbox'[d]) <= QueueSize
    BY <2>2, <2>3 DEF TypeInv, TypeOK, QueueType
  <2>5. pipe' \in [Client -> Seq(Entry)]
    BY <1>12, <2>2 DEF ChildReceive, Letter, TypeInv, QueueType
  <2>6. UNCHANGED <<server, srvq, pc, client_id>>
    BY <1>12 DEF ChildReceive
  <2>7. child' \in [Client -> {"off", "test", "receive", "exited"}]
    BY <1>12 DEF ChildReceive, TypeInv, TypeOK
  <2> QED
    BY <2>4, <2>5, <2>6, <2>7 DEF TypeInv, TypeOK, QueueType, server
<1> QED
  BY <1>1, <1>2, <1>3, <1>4, <1>5, <1>6, <1>7, <1>8, <1>9, <1>10, <1>11, <1>12
     DEF Process

\* The server takes up message m.
LEMMA DispatchType ==
    ASSUME TypeInv, NEW m \in Request, Dispatch(m), UNCHANGED clients
    PROVE  /\ srv' \in {"init", "relay", "stop"}
           /\ cur' \in Request
           /\ next' \in 0 .. Slots
           /\ clients' \in [Entry -> Client \cup {NoClient}]
           /\ srv' = "init" => cur'.type = "INIT"
           /\ srv' = "relay" => cur'.type = "MESSAGE"
           /\ srv' = "stop" => cur'.type = "STOP"
<1>1. m.type \in {"INIT", "MESSAGE", "STOP"}
  BY DEF Request
<1>2. srv' = Handler[m.type] /\ cur' = m /\ next' = 0
  BY DEF Dispatch, Go
<1>3. 0 \in 0 .. Slots
  BY MqAssumption
<1> QED
  BY <1>1, <1>2, <1>3 DEF Handler, TypeInv, TypeOK

LEMMA RequestIsMessage == Request \subseteq Message
BY DEF Request, Message, MsgType

LEMMA RequestIsLetter == Request \subseteq Letter
BY DEF Request, Letter, Message, MsgType

\* A letter is put into the queue of a client.
LEMMA LetterType ==
    ASSUME TypeInv, NEW c \in Client, NEW m \in Letter, Send(c, m)
    PROVE  /\ inbox' \in [Client -> Seq(Letter)]
           /\ \A d \in Client : Len(inbox'[d]) <= QueueSize
<1>1. inbox \in [Client -> Seq(Letter)]
  BY DEF TypeInv, QueueType
<1>2. inbox[c] \in Seq(Letter) /\ Len(inbox[c]) < QueueSize
  BY <1>1 DEF Send
<1>3. /\ Append(inbox[c], m) \in Seq(Letter)
      /\ Len(Append(inbox[c], m)) <= QueueSize
  BY <1>2, MqAssumption
<1> QED
  BY <1>1, <1>3 DEF Send, TypeInv, TypeOK

LEMMA RegisterType == TypeInv /\ Register => TypeInv'
<1> SUFFICES ASSUME TypeInv, Register PROVE TypeInv'
  OBVIOUS
<1>1. cur \in Request /\ cur.from \in Client
  BY DEF Register, TypeInv, QueueType, Request
<1>2. UNCHANGED <<cur, next, srvq, pc, child, pipe, client_id>>
  BY DEF Register, users
<1>3. CASE Free # {} /\ Send(cur.from, Msg("IDENTIFIER", Least(Free), NoClient))
           /\ clients' = [clients EXCEPT ![Least(Free)] = cur.from] /\ srv' = "test"
  <2>1. Least(Free) \in Entry
    BY <1>3, LeastSlot DEF Free
  <2>2. Msg("IDENTIFIER", Least(Free), NoClient) \in Letter
    BY <2>1 DEF Msg, Letter, Message, MsgType
  <2>3. clients' \in [Entry -> Client \cup {NoClient}]
    BY <1>1, <1>3, <2>1 DEF TypeInv, TypeOK
  <2> QED
    BY <1>1, <1>2, <1>3, <2>2, <2>3, LetterType DEF TypeInv, TypeOK, QueueType
<1>4. CASE srv' = "failed" /\ UNCHANGED <<clients, joined, inbox>>
  BY <1>1, <1>2, <1>4 DEF TypeInv, TypeOK, QueueType
<1> QED
  BY <1>3, <1>4 DEF Register, Go

\* The next slot the relay goes to is that of a client.
LEMMA RestSlot ==
    ASSUME TypeInv, Rest # {}
    PROVE  /\ Least(Rest) \in Id /\ Least(Rest) \in Rest
           /\ clients[Least(Rest)] \in Client
           /\ Least(Rest) + 1 \in 0 .. Slots
<1>1. Least(Rest) \in Rest
  BY SlotRange, LeastSlot DEF Rest
<1> QED
  BY <1>1, SlotRange DEF Rest, TypeInv, TypeOK

LEMMA RelayType == TypeInv /\ Relay => TypeInv'
<1> SUFFICES ASSUME TypeInv, Relay PROVE TypeInv'
  OBVIOUS
<1>1. cur \in Request /\ cur \in Letter
  BY RequestIsLetter DEF Relay, TypeInv, QueueType
<1>2. UNCHANGED <<cur, clients, srvq, pc, child, pipe, client_id>>
  BY DEF Relay, users
<1>3. CASE Rest # {} /\ Send(clients[Least(Rest)], cur) /\ next' = Least(Rest) + 1
           /\ srv' = srv
  BY <1>1, <1>2, <1>3, RestSlot, LetterType DEF TypeInv, TypeOK, QueueType
<1>4. CASE srv' = "test" /\ UNCHANGED <<inbox, next>>
  BY <1>1, <1>2, <1>4 DEF TypeInv, TypeOK, QueueType
<1> QED
  BY <1>3, <1>4 DEF Relay, Go

LEMMA DeregisterType == TypeInv /\ Deregister => TypeInv'
<1> SUFFICES ASSUME TypeInv, Deregister PROVE TypeInv'
  OBVIOUS
<1>1. cur \in Request /\ cur \in Letter
  BY RequestIsLetter DEF Deregister, TypeInv, QueueType
<1>2. UNCHANGED <<cur, next, srvq, pc, child, pipe, client_id>>
  BY DEF Deregister, users
<1>3. CASE cur.id \in Entry /\ clients[cur.id] # NoClient /\ Send(clients[cur.id], cur)
           /\ clients' = [clients EXCEPT ![cur.id] = NoClient] /\ srv' = "test"
  <2>1. clients[cur.id] \in Client
    BY <1>3 DEF TypeInv, TypeOK
  <2>2. clients' \in [Entry -> Client \cup {NoClient}]
    BY <1>3 DEF TypeInv, TypeOK
  <2> QED
    BY <1>1, <1>2, <1>3, <2>1, <2>2, LetterType DEF TypeInv, TypeOK, QueueType
<1>4. CASE srv' \in {"test", "failed"} /\ UNCHANGED <<inbox, clients>>
  BY <1>1, <1>2, <1>4 DEF TypeInv, TypeOK, QueueType
<1> QED
  BY <1>3, <1>4 DEF Deregister, Go

LEMMA ReceiveType == TypeInv /\ ServerReceive => TypeInv'
<1> SUFFICES ASSUME TypeInv, ServerReceive PROVE TypeInv'
  OBVIOUS
<1>1. /\ Head(srvq) \in Request /\ Tail(srvq) \in Seq(Request)
      /\ Len(Tail(srvq)) <= QueueSize
  BY MqAssumption DEF ServerReceive, TypeInv, TypeOK, QueueType
<1>2. /\ Dispatch(Head(srvq)) /\ srvq' = Tail(srvq)
      /\ UNCHANGED <<clients, inbox, pc, child, pipe, client_id>>
  BY DEF ServerReceive, users
<1> QED
  BY <1>1, <1>2, DispatchType, RequestIsMessage DEF TypeInv, TypeOK, QueueType

LEMMA ServerInterruptType == TypeInv /\ ServerInterrupt => TypeInv'
<1> SUFFICES ASSUME TypeInv, ServerInterrupt PROVE TypeInv'
  OBVIOUS
<1>1. UNCHANGED <<srvq, inbox, pc, child, pipe, client_id>>
  BY DEF ServerInterrupt, users
<1>2. CASE UNCHANGED <<srv, cur, next, log, clients>>
  BY <1>1, <1>2 DEF TypeInv, TypeOK, QueueType
<1>3. CASE cur # NoMsg /\ Dispatch(cur) /\ UNCHANGED clients
  <2>1. cur \in Request
    BY <1>3 DEF TypeInv, QueueType
  <2> QED
    BY <1>1, <1>3, <2>1, DispatchType, RequestIsMessage DEF TypeInv, TypeOK, QueueType
<1>4. CASE srv' \in {"test", "failed"} /\ UNCHANGED <<cur, next, log, clients>>
  BY <1>1, <1>4 DEF TypeInv, TypeOK, QueueType
<1>5. CASE srv = "relay" /\ Rest # {} /\ next' = Least(Rest) + 1
           /\ UNCHANGED <<srv, cur, log, clients>>
  BY <1>1, <1>5, RestSlot DEF TypeInv, TypeOK, QueueType
<1>6. CASE srv = "init" /\ Free # {} /\ srv' = "test" /\ UNCHANGED <<cur, next, log>>
           /\ clients' = [clients EXCEPT ![Least(Free)] = cur.from]
  <2>1. Least(Free) \in Entry /\ cur.from \in Client
    BY <1>6, LeastSlot DEF Free, TypeInv, QueueType, Request
  <2> QED
    BY <1>1, <1>6, <2>1 DEF TypeInv, TypeOK, QueueType
<1> QED
  BY <1>2, <1>3, <1>4, <1>5, <1>6 DEF ServerInterrupt, Go

LEMMA StepType == TypeInv /\ [Next]_vars => TypeInv'
<1> SUFFICES ASSUME TypeInv, [Next]_vars PROVE TypeInv'
  OBVIOUS
<1>1. CASE TestFlag \/ ServerKilled
  BY <1>1 DEF TestFlag, ServerKilled, Go, users, TypeInv, TypeOK, QueueType
<1>2. CASE UNCHANGED vars
  BY <1>2 DEF vars, server, users, TypeInv, TypeOK, QueueType
<1> QED
  BY <1>1, <1>2, ProcessType, ReceiveType, RegisterType, RelayType, DeregisterType,
     ServerInterruptType DEF Next, Server

\* Types: the queues never hold more than mq_maxmsg, the loop over clients stays
\* within the array, and a message is only handled by the case of the switch it
\* belongs to.  Identifiers need not stay within the array: one may be Past.
THEOREM TypeCorrect == Spec => []TypeOK
<1>1. TypeInv => TypeOK
  BY DEF TypeInv
<1> QED
  BY <1>1, InitType, StepType, PTL DEF Spec

-----------------------------------------------------------------------------
(* Slots, while nobody is in a hurry *)

LEMMA InitSlots == Init => SlotsInv
<1> SUFFICES ASSUME Init PROVE SlotsInv
  OBVIOUS
<1>1. Unhurried /\ LastGoodbye
  BY DEF Init, Unhurried, LastGoodbye, NoMsg, Msg
<1>2. Told /\ Goodbyes
  BY DEF Init, Told, Goodbyes
<1> QED
  BY <1>1, <1>2, InitType DEF SlotsInv

\* Ctrl+C comes after the identifier, so the child is there to pass it on.
LEMMA ParentUnhurried ==
    ASSUME SlotsInv, NEW c \in Client,
           Process(c) \/ Type(c) \/ Interrupt(c) \/ Crash(c), Patient
    PROVE  Unhurried'
<1> USE DEF Parent
<1>1. CASE Interrupt(c)
  <2>1. pc[c] \in {"test", "scanf"} /\ flag' = [flag EXCEPT ![c] = FALSE]
        /\ UNCHANGED <<pc, child>>
    BY <1>1 DEF Interrupt, Patient, SlotsInv, Unhurried
  <2> QED
    BY <2>1 DEF SlotsInv, Unhurried
<1>2. CASE Connect(c) \/ SendInit(c) \/ Fork(c) \/ ReadId(c) \/ Test(c)
           \/ SendStop(c) \/ Unlink(c) \/ Type(c) \/ Crash(c)
  BY <1>2 DEF Connect, SendInit, Fork, ReadId, Test, SendStop, Unlink, Type, Crash,
              SlotsInv, Unhurried, TypeInv, TypeOK
<1>3. CASE ChildTest(c) \/ ChildReceive(c)
  BY <1>3 DEF ChildTest, ChildReceive, SlotsInv, Unhurried, TypeInv, TypeOK
<1> QED
  BY <1>1, <1>2, <1>3 DEF Process

\* A step of a client c that sends nothing and reads no queue: what others are
\* told does not change, and c goes away if at all.
LEMMA QuietSlots ==
    ASSUME SlotsInv, NEW c \in Client, UNCHANGED <<server, srvq>>,
           \A d \in Client \ {c} :
               /\ pc'[d] = pc[d] /\ client_id'[d] = client_id[d]
               /\ inbox'[d] = inbox[d] /\ pipe'[d] = pipe[d],
           c \in Away => c \in Away',
           c \notin Away' =>
               /\ \A n \in 1 .. Len(inbox'[c]) :
                      inbox'[c][n].type = "IDENTIFIER" => clients[inbox'[c][n].id] = c
               /\ \A n \in 1 .. Len(pipe'[c]) : clients[pipe'[c][n]] = c
               /\ pc'[c] \in {"test", "scanf", "stop"} =>
                      client_id'[c] \in Entry /\ clients[client_id'[c]] = c
    PROVE  Told' /\ Goodbyes' /\ LastGoodbye'
<1>1. Away \subseteq Away' /\ \A d \in Client \ Away' : d # c => d \notin Away
  BY DEF Away
<1>2. Told'
  BY <1>1 DEF SlotsInv, Told, server
<1>3. Goodbyes' /\ LastGoodbye'
  BY <1>1 DEF SlotsInv, Goodbyes, LastGoodbye, server
<1> QED
  BY <1>2, <1>3

\* Appended to the server's queue: m comes last.
LEMMA SentLast ==
    ASSUME TypeInv, NEW m \in Request, SendServer(m)
    PROVE  /\ Len(srvq') = Len(srvq) + 1 /\ Len(srvq) \in Nat
           /\ srvq'[Len(srvq) + 1] = m
           /\ \A n \in 1 .. Len(srvq) : srvq'[n] = srvq[n] /\ srvq[n] \in Request
BY DEF SendServer, TypeInv, QueueType

LEMMA ParentSlots ==
    ASSUME SlotsInv, NEW c \in Client,
           Process(c) \/ Type(c) \/ Interrupt(c) \/ Crash(c), Patient
    PROVE  Told' /\ Goodbyes' /\ LastGoodbye'
<1> USE DEF Parent
<1>0. /\ pc \in [Client -> {"off", "init", "fork", "read", "test", "scanf", "stop",
                              "wait", "done", "failed", "dead"}]
      /\ TypeInv /\ Told /\ Goodbyes /\ LastGoodbye
  BY DEF SlotsInv, TypeInv, TypeOK
<1>1. CASE Connect(c) \/ Fork(c) \/ Test(c) \/ Unlink(c) \/ Interrupt(c) \/ Crash(c)
           \/ ChildTest(c)
  <2>1. /\ UNCHANGED <<server, srvq, inbox, pipe, client_id>>
        /\ \A d \in Client \ {c} : pc'[d] = pc[d]
        /\ c \in Away => c \in Away'
        /\ c \notin Away' =>
              /\ c \notin Away
              /\ pc'[c] \in {"test", "scanf", "stop"} => pc[c] \in {"test", "scanf", "stop"}
    BY <1>0, <1>1 DEF Connect, Fork, Test, Unlink, Interrupt, Crash, ChildTest, Away
  <2> QED
    BY <1>0, <2>1, QuietSlots DEF Told
<1>2. CASE ReadId(c)
  <2>1. pipe[c] \in Seq(Entry) /\ c \notin Away /\ pc[c] = "read" /\ child[c] # "exited"
    BY <1>0, <1>2 DEF ReadId, SlotsInv, Unhurried, TypeInv, QueueType, Away
  <2>2. pipe[c] # <<>> /\ client_id' = [client_id EXCEPT ![c] = Head(pipe[c])]
    BY <1>2, <2>1 DEF ReadId
  <2>3. Head(pipe[c]) \in Entry /\ clients[Head(pipe[c])] = c
    BY <1>0, <2>1, <2>2 DEF Told
  <2>4. client_id'[c] = Head(pipe[c]) /\ \A d \in Client \ {c} : client_id'[d] = client_id[d]
    BY <1>0, <2>2 DEF TypeInv, TypeOK
  <2>5. /\ UNCHANGED <<server, srvq, inbox, pipe>>
        /\ \A d \in Client \ {c} : pc'[d] = pc[d]
    BY <1>0, <1>2 DEF ReadId
  <2> QED
    BY <1>0, <2>1, <2>3, <2>4, <2>5, QuietSlots DEF Told
<1>3. CASE ChildReceive(c)
  <2>1. inbox[c] \in Seq(Letter) /\ inbox[c] # <<>> /\ pipe[c] \in Seq(Entry)
    BY <1>0, <1>3 DEF ChildReceive, TypeInv, QueueType
  <2>2. /\ inbox'[c] = Tail(inbox[c])
        /\ pipe'[c] = IF Head(inbox[c]).type = "IDENTIFIER"
                      THEN Append(pipe[c], Head(inbox[c]).id) ELSE pipe[c]
        /\ \A d \in Client \ {c} : inbox'[d] = inbox[d] /\ pipe'[d] = pipe[d]
        /\ UNCHANGED <<server, srvq, pc, client_id>>
    BY <1>0, <1>3 DEF ChildReceive, TypeInv, QueueType
  <2>3. ASSUME c \notin Away
        PROVE  /\ \A n \in 1 .. Len(inbox'[c]) :
                      inbox'[c][n].type = "IDENTIFIER" => clients[inbox'[c][n].id] = c
               /\ \A n \in 1 .. Len(pipe'[c]) : clients[pipe'[c][n]] = c
    <3>1. /\ \A n \in 1 .. Len(inbox[c]) :
                 inbox[c][n].type = "IDENTIFIER" => clients[inbox[c][n].id] = c
          /\ \A n \in 1 .. Len(pipe[c]) : clients[pipe[c][n]] = c
      BY <1>0, <2>3 DEF Told
    <3>2. \A n \in 1 .. Len(inbox'[c]) : /\ n + 1 \in 1 .. Len(inbox[c])
                                         /\ inbox'[c][n] = inbox[c][n + 1]
      BY <2>1, <2>2
    <3>3. \A n \in 1 .. Len(inbox'[c]) :
              inbox'[c][n].type = "IDENTIFIER" => clients[inbox'[c][n].id] = c
      BY <3>1, <3>2
    <3>4. CASE Head(inbox[c]).type = "IDENTIFIER"
      <4>1. Head(inbox[c]) = inbox[c][1] /\ 1 \in 1 .. Len(inbox[c])
        BY <2>1
      <4>2. clients[Head(inbox[c]).id] = c /\ Head(inbox[c]).id \in Entry
        BY <2>1, <3>1, <3>4, <4>1 DEF Letter
      <4>3. /\ Len(pipe'[c]) = Len(pipe[c]) + 1 /\ Len(pipe[c]) \in Nat
            /\ pipe'[c][Len(pipe[c]) + 1] = Head(inbox[c]).id
            /\ \A n \in 1 .. Len(pipe[c]) : pipe'[c][n] = pipe[c][n]
        BY <2>1, <2>2, <3>4, <4>2
      <4>4. ASSUME NEW n \in 1 .. Len(pipe'[c]) PROVE clients[pipe'[c][n]] = c
        <5>1. n \in 1 .. Len(pipe[c]) \/ n = Len(pipe[c]) + 1
          BY <4>3
        <5> QED
          BY <3>1, <4>2, <4>3, <5>1
      <4> QED
        BY <3>3, <4>4
    <3>5. CASE Head(inbox[c]).type # "IDENTIFIER"
      BY <2>2, <3>1, <3>3, <3>5
    <3> QED
      BY <3>4, <3>5
  <2> QED
    BY <1>0, <2>2, <2>3, QuietSlots DEF Told, Away
<1>4. ASSUME NEW m \in Request, m.type # "STOP", SendServer(m),
             UNCHANGED <<server, inbox, pipe, client_id>>,
             \A d \in Client \ {c} : pc'[d] = pc[d],
             c \notin Away /\ c \notin Away',
             pc'[c] \in {"test", "scanf", "stop"} => pc[c] \in {"test", "scanf", "stop"}
      PROVE  Told' /\ Goodbyes' /\ LastGoodbye'
  <2>1. Away' = Away
    BY <1>0, <1>4 DEF Away
  <2>2. Told'
    BY <1>0, <1>4, <2>1 DEF Told, server
  <2>3. Goodbyes'
    BY <1>0, <1>4, <2>1, SentLast DEF Goodbyes, server
  <2> QED
    BY <1>0, <1>4, <2>1, <2>2, <2>3 DEF LastGoodbye, server
<1>5. CASE SendInit(c)
  <2>1. Msg("INIT", Unset, c) \in Request /\ Msg("INIT", Unset, c).type # "STOP"
    BY DEF Msg, Request
  <2> QED
    BY <1>0, <1>4, <1>5, <2>1 DEF SendInit, Away
<1>6. CASE Type(c)
  <2>1. /\ Msg("MESSAGE", client_id[c], c) \in Request
        /\ Msg("MESSAGE", client_id[c], c).type # "STOP"
    BY <1>0 DEF Msg, Request, TypeInv, TypeOK
  <2> QED
    BY <1>0, <1>4, <1>6, <2>1 DEF Type, Away
<1>7. CASE SendStop(c)
  <2> DEFINE m == Msg("STOP", client_id[c], c)
  <2>1. /\ pc[c] = "stop" /\ pc' = [pc EXCEPT ![c] = "wait"] /\ SendServer(m)
        /\ UNCHANGED <<server, inbox, pipe, client_id>>
    BY <1>7 DEF SendStop
  <2>2. /\ c \notin Away /\ Away' = Away \cup {c}
        /\ client_id[c] \in Entry /\ clients[client_id[c]] = c
    BY <1>0, <2>1 DEF Away, Told
  <2>3. m \in Request /\ m.type = "STOP" /\ m.from = c /\ m.id = client_id[c]
    BY <2>2 DEF Msg, Request
  <2> HIDE DEF m
  <2>4. Told'
    BY <1>0, <2>1, <2>2 DEF Told, Away, server
  <2>5. Goodbyes'
    BY <1>0, <2>1, <2>2, <2>3, SentLast DEF Goodbyes, LastGoodbye, server
  <2> QED
    BY <1>0, <2>1, <2>2, <2>4, <2>5 DEF LastGoodbye, server
<1> QED
  BY <1>1, <1>2, <1>3, <1>5, <1>6, <1>7 DEF Process

\* A letter that is no identifier goes to some client, and no slot changes hands.
LEMMA ToldStill ==
    ASSUME SlotsInv, clients' = clients, UNCHANGED users,
           \/ inbox' = inbox
           \/ \E c \in Client, m \in Letter : m.type # "IDENTIFIER" /\ Send(c, m)
    PROVE  Told'
<1>1. Away' = Away
  BY DEF Away, users
<1>2. CASE inbox' = inbox
  BY <1>1, <1>2 DEF SlotsInv, Told, users
<1>3. ASSUME NEW c \in Client, NEW m \in Letter, m.type # "IDENTIFIER", Send(c, m)
      PROVE  Told'
  <2>1. /\ inbox[c] \in Seq(Letter) /\ inbox'[c] = Append(inbox[c], m)
        /\ \A d \in Client \ {c} : inbox'[d] = inbox[d]
    BY <1>3 DEF Send, SlotsInv, TypeInv, QueueType
  <2>2. /\ Len(inbox'[c]) = Len(inbox[c]) + 1 /\ Len(inbox[c]) \in Nat
        /\ inbox'[c][Len(inbox[c]) + 1] = m
        /\ \A n \in 1 .. Len(inbox[c]) : inbox'[c][n] = inbox[c][n]
    BY <2>1
  <2>3. ASSUME NEW d \in Client \ Away, NEW n \in 1 .. Len(inbox'[d]),
               inbox'[d][n].type = "IDENTIFIER"
        PROVE  clients[inbox'[d][n].id] = d
    <3>1. CASE d = c
      <4>1. n # Len(inbox[c]) + 1
        BY <1>3, <2>2, <2>3, <3>1
      <4>2. n \in 1 .. Len(inbox[d]) /\ inbox'[d][n] = inbox[d][n]
        BY <2>2, <3>1, <4>1
      <4> QED
        BY <2>3, <4>2 DEF SlotsInv, Told
    <3>2. CASE d # c
      BY <2>1, <2>3, <3>2 DEF SlotsInv, Told
    <3> QED
      BY <3>1, <3>2
  <2> QED
    BY <1>1, <2>3 DEF SlotsInv, Told, users
<1> QED
  BY <1>2, <1>3

\* The server takes up a message and nothing else happens.
LEMMA ReceiveSlots ==
    ASSUME SlotsInv, ServerReceive
    PROVE  Told' /\ Goodbyes' /\ LastGoodbye'
<1>1. /\ srvq \in Seq(Request) /\ srvq # <<>> /\ Goodbyes
  BY DEF ServerReceive, SlotsInv, TypeInv, QueueType
<1>2. /\ cur' = srvq[1] /\ srv' = Handler[srvq[1].type] /\ srvq[1] \in Request
      /\ Len(srvq') = Len(srvq) - 1 /\ Len(srvq) \in Nat \ {0}
      /\ \A n \in 1 .. Len(srvq') : n + 1 \in 1 .. Len(srvq) /\ srvq'[n] = srvq[n + 1]
      /\ UNCHANGED <<clients, inbox, users>>
  BY <1>1 DEF ServerReceive, Dispatch, Go
<1>3. Told' /\ Away' = Away
  BY <1>2, ToldStill DEF Away, users
<1>4. Goodbyes'
  <2> SUFFICES ASSUME NEW n \in 1 .. Len(srvq'), srvq'[n].type = "STOP"
               PROVE  /\ srvq'[n].from \in Away
                      /\ srvq'[n].id \in Entry /\ clients[srvq'[n].id] = srvq'[n].from
                      /\ cur'.type = "STOP" => cur'.from # srvq'[n].from
                      /\ \A k \in 1 .. Len(srvq') :
                            srvq'[k].type = "STOP" /\ srvq'[k].from = srvq'[n].from => k = n
    BY <1>2, <1>3 DEF Goodbyes
  <2>1. n + 1 \in 1 .. Len(srvq) /\ srvq'[n] = srvq[n + 1] /\ 1 \in 1 .. Len(srvq) /\ n + 1 # 1
    BY <1>2
  <2>2. /\ srvq'[n].from \in Away
        /\ srvq'[n].id \in Entry /\ clients[srvq'[n].id] = srvq'[n].from
    BY <1>1, <2>1 DEF Goodbyes
  <2>3. cur'.type = "STOP" => cur'.from # srvq'[n].from
    BY <1>1, <1>2, <2>1 DEF Goodbyes
  <2>4. ASSUME NEW k \in 1 .. Len(srvq'), srvq'[k].type = "STOP",
               srvq'[k].from = srvq'[n].from
        PROVE  k = n
    <3>1. k + 1 \in 1 .. Len(srvq) /\ srvq'[k] = srvq[k + 1]
      BY <1>2
    <3>2. k + 1 = n + 1
      BY <1>1, <2>1, <2>4, <3>1 DEF Goodbyes
    <3> QED
      BY <3>2
  <2> QED
    BY <2>2, <2>3, <2>4
<1>5. LastGoodbye'
  BY <1>1, <1>2, <1>3 DEF Goodbyes, LastGoodbye, Handler
<1> QED
  BY <1>3, <1>4, <1>5

\* A client is given a free slot, and told which, or not told.
LEMMA GivenSlot ==
    ASSUME SlotsInv, cur \in Request, cur.type # "STOP", Free # {},
           clients' = [clients EXCEPT ![Least(Free)] = cur.from],
           \/ inbox' = inbox
           \/ Send(cur.from, Msg("IDENTIFIER", Least(Free), NoClient)),
           UNCHANGED <<cur, srvq, users>>
    PROVE  Told' /\ Goodbyes' /\ LastGoodbye'
<1> DEFINE l == Least(Free)
           c == cur.from
<1>1. l \in Entry /\ clients[l] = NoClient /\ c \in Client
  BY LeastSlot DEF Free, Request
<1>2. /\ clients'[l] = c
      /\ \A s \in Entry : s # l => clients'[s] = clients[s]
      /\ \A s \in Entry : clients[s] # NoClient => clients'[s] = clients[s]
  BY <1>1 DEF SlotsInv, TypeInv, TypeOK
<1>3. Away' = Away /\ \A d \in Client : d # NoClient
  BY MqAssumption DEF Away, users
<1>4. Goodbyes' /\ LastGoodbye'
  <2>1. \A n \in 1 .. Len(srvq) : srvq[n].from \in Client
    <3>1. \A n \in 1 .. Len(srvq) : srvq[n] \in Request
      BY DEF SlotsInv, TypeInv, QueueType
    <3> QED
      BY <3>1 DEF Request
  <2> QED
    BY <1>2, <1>3, <2>1 DEF SlotsInv, Goodbyes, LastGoodbye
<1>5. ASSUME NEW d \in Client \ Away
      PROVE  /\ \A n \in 1 .. Len(inbox[d]) :
                    inbox[d][n].type = "IDENTIFIER" => clients'[inbox[d][n].id] = d
             /\ \A n \in 1 .. Len(pipe[d]) : clients'[pipe[d][n]] = d
             /\ pc[d] \in {"test", "scanf", "stop"} =>
                    client_id[d] \in Entry /\ clients'[client_id[d]] = d
  <2>1. /\ \A n \in 1 .. Len(inbox[d]) : inbox[d][n] \in Letter
        /\ \A n \in 1 .. Len(pipe[d]) : pipe[d][n] \in Entry
    BY DEF SlotsInv, TypeInv, QueueType
  <2> QED
    BY <1>2, <1>3, <2>1 DEF SlotsInv, Told, Letter
<1>6. Told'
  <2>1. CASE inbox' = inbox
    BY <1>3, <1>5, <2>1 DEF Told, users
  <2>2. CASE Send(c, Msg("IDENTIFIER", l, NoClient))
    <3>1. /\ inbox[c] \in Seq(Letter)
          /\ inbox'[c] = Append(inbox[c], Msg("IDENTIFIER", l, NoClient))
          /\ \A d \in Client \ {c} : inbox'[d] = inbox[d]
      BY <1>1, <2>2 DEF Send, SlotsInv, TypeInv, QueueType
    <3>2. /\ Len(inbox'[c]) = Len(inbox[c]) + 1 /\ Len(inbox[c]) \in Nat
          /\ inbox'[c][Len(inbox[c]) + 1].id = l
          /\ \A n \in 1 .. Len(inbox[c]) : inbox'[c][n] = inbox[c][n]
      BY <3>1 DEF Msg
    <3> HIDE DEF l, c
    <3>3. ASSUME NEW d \in Client \ Away, NEW n \in 1 .. Len(inbox'[d]),
                 inbox'[d][n].type = "IDENTIFIER"
          PROVE  clients'[inbox'[d][n].id] = d
      <4>1. CASE d = c /\ n = Len(inbox[c]) + 1
        BY <1>2, <3>2, <4>1
      <4>2. CASE ~(d = c /\ n = Len(inbox[c]) + 1)
        <5>1. n \in 1 .. Len(inbox[d]) /\ inbox'[d][n] = inbox[d][n]
          BY <3>1, <3>2, <4>2
        <5> QED
          BY <1>5, <3>3, <5>1
      <4> QED
        BY <4>1, <4>2
    <3> QED
      BY <1>3, <1>5, <3>3 DEF Told, users
  <2> QED
    BY <2>1, <2>2
<1> QED
  BY <1>4, <1>6

LEMMA RegisterSlots ==
    ASSUME SlotsInv, Register
    PROVE  Told' /\ Goodbyes' /\ LastGoodbye'
<1>1. /\ cur \in Request /\ cur.type # "STOP" /\ UNCHANGED <<cur, srvq, users>>
      /\ srv' # "stop"
  BY DEF Register, Go, SlotsInv, TypeInv, QueueType
<1>2. CASE UNCHANGED <<clients, inbox>>
  BY <1>1, <1>2, ToldStill DEF SlotsInv, Goodbyes, LastGoodbye, Away, users
<1>3. CASE Free # {} /\ clients' = [clients EXCEPT ![Least(Free)] = cur.from]
           /\ Send(cur.from, Msg("IDENTIFIER", Least(Free), NoClient))
  BY <1>1, <1>3, GivenSlot
<1> QED
  BY <1>2, <1>3 DEF Register

LEMMA RelaySlots ==
    ASSUME SlotsInv, Relay
    PROVE  Told' /\ Goodbyes' /\ LastGoodbye'
<1>1. /\ cur \in Letter /\ cur.type = "MESSAGE" /\ UNCHANGED <<cur, clients, srvq, users>>
  BY RequestIsLetter DEF Relay, SlotsInv, TypeInv, TypeOK, QueueType
<1>2. \/ inbox' = inbox
      \/ \E c \in Client, m \in Letter : m.type # "IDENTIFIER" /\ Send(c, m)
  BY <1>1, RestSlot DEF Relay, SlotsInv
<1>3. Told' /\ Away' = Away
  BY <1>1, <1>2, ToldStill DEF Away, users
<1> QED
  BY <1>1, <1>3 DEF SlotsInv, Goodbyes, LastGoodbye

\* The slot that is freed is that of the sender, who has left; it is not one
\* that another STOP in the queue names.
LEMMA DeregisterSlots ==
    ASSUME SlotsInv, Deregister
    PROVE  Told' /\ Goodbyes' /\ LastGoodbye'
<1>1. /\ cur \in Letter /\ cur \in Request /\ cur.type = "STOP" /\ srv = "stop"
      /\ UNCHANGED <<cur, srvq, users>> /\ Away' = Away
  BY RequestIsLetter DEF Deregister, SlotsInv, TypeInv, TypeOK, QueueType, Away, users
<1>2. cur.from \in Away /\ cur.id \in Entry /\ clients[cur.id] \in {cur.from, NoClient}
  BY <1>1 DEF SlotsInv, LastGoodbye
<1>3. CASE /\ clients[cur.id] # NoClient /\ Send(clients[cur.id], cur)
           /\ clients' = [clients EXCEPT ![cur.id] = NoClient] /\ srv' = "test"
  <2>1. /\ clients[cur.id] = cur.from /\ cur.from \in Client
        /\ clients'[cur.id] = NoClient
        /\ \A s \in Entry : clients[s] # cur.from => clients'[s] = clients[s]
    BY <1>1, <1>2, <1>3 DEF SlotsInv, TypeInv, TypeOK, Request
  <2>2. ASSUME NEW d \in Client \ Away
        PROVE  /\ \A n \in 1 .. Len(inbox[d]) :
                      inbox[d][n].type = "IDENTIFIER" => clients'[inbox[d][n].id] = d
               /\ \A n \in 1 .. Len(pipe[d]) : clients'[pipe[d][n]] = d
               /\ pc[d] \in {"test", "scanf", "stop"} =>
                      client_id[d] \in Entry /\ clients'[client_id[d]] = d
    <3>1. /\ \A n \in 1 .. Len(inbox[d]) : inbox[d][n] \in Letter
          /\ \A n \in 1 .. Len(pipe[d]) : pipe[d][n] \in Entry
          /\ d # cur.from
      BY <1>2 DEF SlotsInv, TypeInv, QueueType
    <3> QED
      BY <2>1, <3>1 DEF SlotsInv, Told, Letter
  <2>3. /\ inbox[cur.from] \in Seq(Letter)
        /\ \A d \in Client \ {cur.from} : inbox'[d] = inbox[d]
    BY <1>3, <2>1 DEF Send, SlotsInv, TypeInv, QueueType
  <2>4. Told'
    BY <1>1, <1>2, <2>2, <2>3 DEF Told, users
  <2>5. Goodbyes' /\ LastGoodbye'
    BY <1>1, <1>2, <1>3, <2>1 DEF SlotsInv, Goodbyes, LastGoodbye
  <2> QED
    BY <2>4, <2>5
<1>4. CASE clients[cur.id] = NoClient /\ UNCHANGED <<inbox, clients>> /\ srv' # "stop"
  BY <1>1, <1>2, <1>4, ToldStill DEF SlotsInv, Goodbyes, LastGoodbye
<1> QED
  BY <1>2, <1>3, <1>4 DEF Deregister, Go

LEMMA ServerInterruptSlots ==
    ASSUME SlotsInv, ServerInterrupt
    PROVE  Told' /\ Goodbyes' /\ LastGoodbye'
<1>1. UNCHANGED <<srvq, inbox, users>> /\ Away' = Away
  BY DEF ServerInterrupt, Away, users
<1>2. CASE UNCHANGED <<srv, cur, clients>>
  BY <1>1, <1>2, ToldStill DEF SlotsInv, Goodbyes, LastGoodbye
<1>3. CASE srv = "receive" /\ cur # NoMsg /\ Dispatch(cur) /\ UNCHANGED clients
  <2>1. cur' = cur
    BY <1>3 DEF Dispatch
  <2>2. cur.type = "STOP" => clients[cur.id] = NoClient /\ srv' = "stop"
    BY <1>3 DEF SlotsInv, LastGoodbye, Dispatch, Handler, Go
  <2> QED
    BY <1>1, <1>3, <2>1, <2>2, ToldStill DEF SlotsInv, Goodbyes, LastGoodbye
<1>4. CASE cur = NoMsg /\ UNCHANGED <<cur, clients>>
  <2>1. cur.type # "STOP"
    BY <1>4 DEF NoMsg, Msg
  <2> QED
    BY <1>1, <1>4, <2>1, ToldStill DEF SlotsInv, Goodbyes, LastGoodbye
<1>5. CASE srv' = "failed" /\ UNCHANGED <<cur, clients>>
  BY <1>1, <1>5, ToldStill DEF SlotsInv, Goodbyes, LastGoodbye
<1>6. CASE srv = "init" /\ Free # {} /\ UNCHANGED cur
           /\ clients' = [clients EXCEPT ![Least(Free)] = cur.from]
  <2>1. cur \in Request /\ cur.type # "STOP"
    BY <1>6 DEF SlotsInv, TypeInv, QueueType
  <2> QED
    BY <1>1, <1>6, <2>1, GivenSlot
<1> QED
  BY <1>2, <1>3, <1>4, <1>5, <1>6 DEF ServerInterrupt, Go

LEMMA StepSlots == SlotsInv /\ [Next /\ Patient]_vars => SlotsInv'
<1> SUFFICES ASSUME SlotsInv, [Next /\ Patient]_vars PROVE SlotsInv'
  OBVIOUS
<1>1. TypeInv'
  BY StepType DEF SlotsInv
<1>2. CASE UNCHANGED vars
  <2>1. Unhurried' /\ Away' = Away
    BY <1>2 DEF vars, users, SlotsInv, Unhurried, Away
  <2>2. Told' /\ Goodbyes' /\ LastGoodbye'
    BY <1>2, <2>1 DEF vars, server, users, SlotsInv, Told, Goodbyes, LastGoodbye
  <2> QED
    BY <1>1, <2>1, <2>2 DEF SlotsInv
<1>3. ASSUME NEW c \in Client, Process(c) \/ Type(c) \/ Interrupt(c) \/ Crash(c), Patient
      PROVE  SlotsInv'
  BY <1>1, <1>3, ParentUnhurried, ParentSlots DEF SlotsInv
<1>4. CASE Server \/ ServerInterrupt \/ ServerKilled
  <2>1. UNCHANGED users
    BY <1>4 DEF Server, TestFlag, ServerReceive, Register, Relay, Deregister,
                ServerInterrupt, ServerKilled
  <2>2. Unhurried' /\ Away' = Away
    BY <2>1 DEF users, SlotsInv, Unhurried, Away
  <2>3. CASE TestFlag \/ ServerKilled
    <3>1. UNCHANGED <<cur, clients, inbox, srvq>> /\ srv' # "stop" /\
          (srv' \in {"test", "receive"} => srv \in {"test", "receive"})
      BY <2>3 DEF TestFlag, ServerKilled, Go
    <3> QED
      BY <1>1, <2>1, <2>2, <3>1, ToldStill DEF SlotsInv, Goodbyes, LastGoodbye
  <2> QED
    BY <1>1, <1>4, <2>2, <2>3, ReceiveSlots, RegisterSlots, RelaySlots, DeregisterSlots,
       ServerInterruptSlots DEF SlotsInv, Server
<1> QED
  BY <1>2, <1>3, <1>4 DEF Next

\* A client that chats owns the slot its identifier names: no two clients are
\* given one slot, and no STOP, not even one the server handles a second time,
\* takes the slot of another client.  This includes the word behind a full array
\* that one client may be given as its slot.
THEOREM SlotsAreOwned == PatientSpec => []OwnSlot
<1>1. SlotsInv => OwnSlot
  BY DEF SlotsInv, Told, Away, OwnSlot
<1> QED
  BY <1>1, InitSlots, StepSlots, PTL DEF PatientSpec

LEMMA StepLeaves ==
    ASSUME SlotsInv, [Next /\ Patient]_vars,
           NEW s \in Entry, clients[s] # NoClient, clients'[s] # clients[s]
    PROVE  cur.from = clients[s]
<1>1. CASE Register
  <2>1. clients' = [clients EXCEPT ![Least(Free)] = cur.from] /\ Free # {}
    BY <1>1 DEF Register
  <2>2. Least(Free) \in Free
    BY <2>1, LeastSlot DEF Free
  <2> QED
    BY <2>1, <2>2 DEF Free, SlotsInv, TypeInv, TypeOK
<1>2. CASE Deregister
  <2>1. clients' = [clients EXCEPT ![cur.id] = NoClient] /\ srv = "stop"
    BY <1>2 DEF Deregister
  <2>2. s = cur.id
    BY <2>1 DEF SlotsInv, TypeInv, TypeOK
  <2> QED
    BY <2>1, <2>2 DEF SlotsInv, TypeInv, TypeOK, LastGoodbye
<1>3. CASE ServerInterrupt
  <2>1. clients' = [clients EXCEPT ![Least(Free)] = cur.from] /\ Free # {}
    BY <1>3 DEF ServerInterrupt
  <2>2. Least(Free) \in Free
    BY <2>1, LeastSlot DEF Free
  <2> QED
    BY <2>1, <2>2 DEF Free, SlotsInv, TypeInv, TypeOK
<1>4. CASE TestFlag \/ ServerReceive \/ Relay \/ ServerKilled \/ UNCHANGED vars
  BY <1>4 DEF TestFlag, ServerReceive, Relay, ServerKilled, vars, server
<1>5. ASSUME NEW c \in Client, Process(c) \/ Type(c) \/ Interrupt(c) \/ Crash(c)
      PROVE  clients' = clients
  BY <1>5 DEF Process, Connect, SendInit, Fork, ReadId, Test, Type, SendStop, Unlink,
              Interrupt, Crash, ChildTest, ChildReceive, server
<1> QED
  BY <1>1, <1>2, <1>3, <1>4, <1>5 DEF Next, Server

\* A slot is only ever freed for the client that has it, which asked to leave.
THEOREM ClientsLeaveThemselves == PatientSpec => LeavesItself
<1> DEFINE Leaves == \A s \in Entry : clients[s] # NoClient /\ clients'[s] # clients[s] =>
                         cur.from = clients[s]
<1>1. SlotsInv /\ [Next /\ Patient]_vars => [Leaves]_vars
  BY StepLeaves
<1> QED
  BY <1>1, InitSlots, StepSlots, PTL DEF PatientSpec, LeavesItself

-----------------------------------------------------------------------------
(* What Keep keeps *)

\* F gives, for every prefix of s, what is left of it when only the members of
\* S are kept.
Keeps(F, s, S) ==
    F = [i \in 0 .. Len(s) |->
            IF i = 0 THEN <<>>
            ELSE IF s[i] \in S THEN Append(F[i - 1], s[i]) ELSE F[i - 1]]

Kept(s, S, t) == \E F : Keeps(F, s, S) /\ t = F[Len(s)]

LEMMA KeepsType ==
    ASSUME NEW A, NEW s \in Seq(A), NEW S, NEW F, Keeps(F, s, S)
    PROVE  F \in [0 .. Len(s) -> Seq(A)]
<1> DEFINE Bad == {i \in 0 .. Len(s) : F[i] \notin Seq(A)}
<1>0. Bad \subseteq Nat
  OBVIOUS
<1>1. /\ DOMAIN F = 0 .. Len(s) /\ F[0] = <<>>
      /\ \A i \in 1 .. Len(s) :
            F[i] = IF s[i] \in S THEN Append(F[i - 1], s[i]) ELSE F[i - 1]
  <2>1. \A i \in 0 .. Len(s) :
            F[i] = IF i = 0 THEN <<>>
                   ELSE IF s[i] \in S THEN Append(F[i - 1], s[i]) ELSE F[i - 1]
    BY DEF Keeps
  <2>2. F[0] = <<>>
    <3>1. 0 \in 0 .. Len(s)
      OBVIOUS
    <3> QED
      BY <2>1, <3>1
  <2>3. \A i \in 1 .. Len(s) :
            F[i] = IF s[i] \in S THEN Append(F[i - 1], s[i]) ELSE F[i - 1]
    BY <2>1
  <2>4. DOMAIN F = 0 .. Len(s)
    BY DEF Keeps
  <2> QED
    BY <2>2, <2>3, <2>4
<1>2. F = [i \in DOMAIN F |-> F[i]]
  BY DEF Keeps
<1>3. ASSUME Bad # {} PROVE FALSE
  <2>1. PICK i \in Bad : \A k \in Bad : i <= k
    BY <1>0, <1>3, LeastNumber
  <2>2. i \in 0 .. Len(s) /\ F[i] \notin Seq(A)
    BY <2>1
  <2>3. \A k \in 0 .. Len(s) : k < i => F[k] \in Seq(A)
    BY <2>1
  <2> HIDE DEF Bad
  <2>4. i # 0
    <3>1. <<>> \in Seq(A)
      OBVIOUS
    <3> QED
      BY <1>1, <2>2, <3>1, Zenon
  <2>5. i \in 1 .. Len(s) /\ i - 1 \in 0 .. Len(s) /\ i - 1 < i
    BY <2>2, <2>4
  <2>6. F[i - 1] \in Seq(A) /\ s[i] \in A
    BY <2>3, <2>5
  <2>7. Append(F[i - 1], s[i]) \in Seq(A)
    BY <2>6
  <2> QED
    BY <1>1, <2>2, <2>5, <2>6, <2>7, Zenon
<1> QED
  BY <1>1, <1>2, <1>3

LEMMA KeptUnique ==
    ASSUME NEW A, NEW s \in Seq(A), NEW S, NEW t, NEW u, Kept(s, S, t), Kept(s, S, u)
    PROVE  t = u
<1>1. PICK F : Keeps(F, s, S) /\ t = F[Len(s)]
  BY DEF Kept
<1>2. PICK G : Keeps(G, s, S) /\ u = G[Len(s)]
  BY DEF Kept
<1> DEFINE Bad == {i \in 0 .. Len(s) : F[i] # G[i]}
<1>0. Bad \subseteq Nat
  OBVIOUS
<1>3. ASSUME Bad # {} PROVE FALSE
  <2>1. PICK i \in Bad : \A k \in Bad : i <= k
    BY <1>0, <1>3, LeastNumber
  <2>2. i # 0 /\ i \in 1 .. Len(s)
    BY <1>1, <1>2, <2>1 DEF Keeps
  <2>3. i - 1 \notin Bad /\ i - 1 \in 0 .. Len(s)
    BY <2>1, <2>2
  <2> QED
    BY <1>1, <1>2, <2>1, <2>2, <2>3 DEF Keeps
<1> QED
  BY <1>1, <1>2, <1>3

LEMMA KeptEmpty == \A S : Kept(<<>>, S, <<>>)
<1> TAKE S
<1> DEFINE F == [i \in 0 .. 0 |-> <<>>]
<1>1. Keeps(F, <<>>, S) /\ F[Len(<<>>)] = <<>>
  BY DEF Keeps
<1> QED
  BY <1>1 DEF Kept

LEMMA KeptAppend ==
    ASSUME NEW A, NEW s \in Seq(A), NEW x \in A, NEW S, NEW t, Kept(s, S, t)
    PROVE  Kept(Append(s, x), S, IF x \in S THEN Append(t, x) ELSE t)
<1>1. PICK F : Keeps(F, s, S) /\ t = F[Len(s)]
  BY DEF Kept
<1> DEFINE l == Len(s)
           r == IF x \in S THEN Append(t, x) ELSE t
           G == [i \in 0 .. l + 1 |-> IF i = l + 1 THEN r ELSE F[i]]
           sx == Append(s, x)
<1>2. /\ Len(sx) = l + 1 /\ l \in Nat /\ sx[l + 1] = x
      /\ \A i \in 1 .. l : sx[i] = s[i]
  OBVIOUS
<1>3. /\ G[l + 1] = r /\ G[l] = t /\ \A i \in 0 .. l : G[i] = F[i]
  BY <1>1, <1>2
<1>4. \A i \in 0 .. l + 1 :
          G[i] = IF i = 0 THEN <<>>
                 ELSE IF sx[i] \in S THEN Append(G[i - 1], sx[i]) ELSE G[i - 1]
  <2> TAKE i \in 0 .. l + 1
  <2>1. CASE i = l + 1
    <3>1. i # 0 /\ i - 1 = l
      BY <1>2, <2>1
    <3> QED
      BY <1>2, <1>3, <2>1, <3>1
  <2>2. CASE i # l + 1
    <3>1. i \in 0 .. l /\ (i # 0 => i \in 1 .. l /\ i - 1 \in 0 .. l)
      BY <1>2, <2>2
    <3>2. F[i] = IF i = 0 THEN <<>>
                 ELSE IF s[i] \in S THEN Append(F[i - 1], s[i]) ELSE F[i - 1]
      BY <1>1, <3>1 DEF Keeps
    <3> HIDE DEF G, sx
    <3> QED
      BY <1>2, <1>3, <3>1, <3>2
  <2> QED
    BY <2>1, <2>2
<1>5. G = [i \in 0 .. l + 1 |-> G[i]]
  OBVIOUS
<1> HIDE DEF G, sx
<1>6. Keeps(G, sx, S)
  BY <1>2, <1>4, <1>5 DEF Keeps
<1> QED
  BY <1>2, <1>3, <1>6 DEF Kept, sx

\* Something is kept of every sequence.
LEMMA KeptExists ==
    ASSUME NEW A, NEW S
    PROVE  \A s \in Seq(A) : \E t : Kept(s, S, t)
<1> DEFINE Bad == {n \in Nat : \E s \in Seq(A) : Len(s) = n /\ ~ \E t : Kept(s, S, t)}
<1>1. ASSUME Bad # {} PROVE FALSE
  <2>1. PICK n \in Bad : \A k \in Bad : n <= k
    BY <1>1, LeastNumber
  <2>2. PICK s \in Seq(A) : Len(s) = n /\ ~ \E t : Kept(s, S, t)
    BY <2>1
  <2>3. s # <<>>
    BY <2>2, KeptEmpty
  <2>4. PICK r \in Seq(A), x \in A : s = Append(r, x)
    BY <2>3, SequenceEmptyOrAppend
  <2>5. Len(r) \in Nat /\ Len(r) < n
    BY <2>2, <2>4
  <2>6. Len(r) \notin Bad
    BY <2>1, <2>5
  <2>7. PICK t : Kept(r, S, t)
    BY <2>5, <2>6
  <2> QED
    BY <2>2, <2>4, <2>7, KeptAppend
<1> QED
  BY <1>1

LEMMA KeepIs ==
    ASSUME NEW A, NEW s \in Seq(A), NEW S
    PROVE  Kept(s, S, Keep(s, S))
<1>1. \E F : Keeps(F, s, S)
  BY KeptExists DEF Kept
<1> DEFINE G == CHOOSE F : Keeps(F, s, S)
<1>2. Keeps(G, s, S)
  BY <1>1
<1>3. Keep(s, S) = G[Len(s)]
  BY DEF Keep, Keeps
<1> QED
  BY <1>2, <1>3 DEF Kept

LEMMA KeepEmpty == \A S : Keep(<<>>, S) = <<>>
<1> TAKE S
<1>1. <<>> \in Seq({})
  OBVIOUS
<1> QED
  BY <1>1, KeepIs, KeptEmpty, KeptUnique

LEMMA KeepType ==
    ASSUME NEW A, NEW s \in Seq(A), NEW S
    PROVE  Keep(s, S) \in Seq(A)
<1>1. PICK F : Keeps(F, s, S) /\ Keep(s, S) = F[Len(s)]
  BY KeepIs DEF Kept
<1>2. F \in [0 .. Len(s) -> Seq(A)]
  BY <1>1, KeepsType
<1> QED
  BY <1>1, <1>2

LEMMA KeepAppend ==
    ASSUME NEW A, NEW S
    PROVE  \A s \in Seq(A), x \in A :
               Keep(Append(s, x), S) =
                   IF x \in S THEN Append(Keep(s, S), x) ELSE Keep(s, S)
<1> TAKE s \in Seq(A), x \in A
<1> DEFINE t == Keep(s, S)
           u == IF x \in S THEN Append(t, x) ELSE t
<1>1. Append(s, x) \in Seq(A)
  OBVIOUS
<1>2. Kept(Append(s, x), S, u)
  BY KeepIs, KeptAppend
<1>3. Kept(Append(s, x), S, Keep(Append(s, x), S))
  BY <1>1, KeepIs
<1> HIDE DEF u
<1>4. Keep(Append(s, x), S) = u
  BY <1>1, <1>2, <1>3, KeptUnique
<1> QED
  BY <1>4 DEF u

LEMMA KeepOne ==
    ASSUME NEW A, NEW x \in A, NEW S
    PROVE  Keep(<<x>>, S) = IF x \in S THEN <<x>> ELSE <<>>
<1> DEFINE e == <<>>
<1>1. e \in Seq(A)
  OBVIOUS
<1>2. Append(e, x) = <<x>> /\ Keep(e, S) = e
  BY KeepEmpty
<1> HIDE DEF e
<1>3. Keep(Append(e, x), S) = IF x \in S THEN Append(Keep(e, S), x) ELSE Keep(e, S)
  BY <1>1, KeepAppend
<1> QED
  BY <1>2, <1>3 DEF e

\* What is kept of a sequence is what is kept of its first part, followed by
\* what is kept of the rest.
LEMMA KeepConcat ==
    ASSUME NEW A, NEW S, NEW r \in Seq(A)
    PROVE  \A s \in Seq(A) : Keep(r \o s, S) = Keep(r, S) \o Keep(s, S)
<1> DEFINE Same(s) == Keep(r \o s, S) = Keep(r, S) \o Keep(s, S)
           Bad == {n \in Nat : \E s \in Seq(A) : Len(s) = n /\ ~Same(s)}
<1>0. Bad \subseteq Nat /\ Keep(r, S) \in Seq(A)
  BY KeepType
<1>1. ASSUME Bad # {} PROVE FALSE
  <2>1. PICK n \in Bad : \A k \in Bad : n <= k
    BY <1>0, <1>1, LeastNumber
  <2>2. PICK s \in Seq(A) : Len(s) = n /\ ~Same(s)
    BY <2>1
  <2>3. s # <<>>
    <3>1. r \o <<>> = r /\ Keep(r, S) \o <<>> = Keep(r, S)
      BY <1>0, ConcatEmptySeq
    <3>2. Same(<<>>)
      BY <3>1, KeepEmpty
    <3> QED
      BY <2>2, <3>2
  <2>4. PICK q \in Seq(A), x \in A : s = Append(q, x)
    BY <2>3, SequenceEmptyOrAppend
  <2>5. Len(q) \in Nat /\ Len(q) < n
    BY <2>2, <2>4
  <2>6. Same(q)
    BY <2>1, <2>5
  <2>7. Keep(q, S) \in Seq(A) /\ r \o q \in Seq(A)
    BY KeepType, ConcatProperties
  <2>8. r \o s = Append(r \o q, x)
    BY <2>4, <2>7
  <2>9. Keep(r \o s, S) = IF x \in S THEN Append(Keep(r \o q, S), x) ELSE Keep(r \o q, S)
    <3> DEFINE rq == r \o q
    <3>1. rq \in Seq(A)
      BY <2>7
    <3> HIDE DEF rq
    <3>2. Keep(Append(rq, x), S) = IF x \in S THEN Append(Keep(rq, S), x) ELSE Keep(rq, S)
      BY <3>1, KeepAppend
    <3> QED
      BY <2>8, <3>2 DEF rq
  <2>10. Keep(s, S) = IF x \in S THEN Append(Keep(q, S), x) ELSE Keep(q, S)
    BY <2>4, KeepAppend
  <2>11. Keep(r, S) \o Append(Keep(q, S), x) = Append(Keep(r, S) \o Keep(q, S), x)
    BY <1>0, <2>7
  <2> QED
    BY <2>2, <2>6, <2>9, <2>10, <2>11
<1> HIDE DEF Same
<1>2. \A s \in Seq(A) : Same(s)
  BY <1>1
<1> QED
  BY <1>2 DEF Same

-----------------------------------------------------------------------------
(* One conversation for all *)

RecordType ==
    /\ log \in Seq(Request)
    /\ got \in [Client -> Seq(Letter)]
    /\ joined \in [Client -> Nat]

\* A MESSAGE is taken up before the STOP of its sender, so it names a slot that
\* is still the sender's.
Lasting ==
    \A n \in 1 .. Len(srvq) : srvq[n].type = "MESSAGE" =>
        /\ srvq[n].id \in Entry /\ clients[srvq[n].id] = srvq[n].from
        /\ cur.type = "STOP" => cur.from # srvq[n].from
        /\ \A k \in 1 .. n : srvq[k].type = "STOP" => srvq[k].from # srvq[n].from

CurLasting == cur.type = "MESSAGE" => cur.id \in Entry /\ clients[cur.id] = cur.from

\* No client has two slots.
Apart == \A s, t \in Entry : clients[s] # NoClient /\ clients[s] = clients[t] => s = t

\* Clients that have no slot and have not been sent anything.
Fresh == {c \in Client : /\ inbox[c] = <<>> /\ got[c] = <<>>
                         /\ \A s \in Entry : clients[s] # c}

\* Who is to be registered is new, and is registered once.
Newcomers ==
    /\ \A c \in Client : pc[c] \in {"off", "init"} => c \in Fresh
    /\ \A n \in 1 .. Len(srvq) : srvq[n].type = "INIT" =>
        /\ srvq[n].from \in Fresh /\ pc[srvq[n].from] \notin {"off", "init"}
        /\ srv = "init" => cur.from # srvq[n].from
        /\ \A k \in 1 .. Len(srvq) :
               srvq[k].type = "INIT" /\ srvq[k].from = srvq[n].from => k = n
    /\ srv = "init" => cur.from \in Fresh /\ pc[cur.from] \notin {"off", "init"}

\* Clients join before the messages they are to have; the one that is handed
\* round is the last of the log.
History ==
    /\ \A s \in Entry, c \in Client : clients[s] = c => joined[c] <= Len(log)
    /\ srv = "relay" =>
        /\ Len(log) > 0 /\ log[Len(log)] = cur
        /\ \A s \in Entry, c \in Client : clients[s] = c => joined[c] < Len(log)

Agreed == \A s \in Id, c \in Client : clients[s] = c => Delivered(c) = Due(s, c)

TalkInv == SlotsInv /\ RecordType /\ Lasting /\ CurLasting

Shared == Apart /\ Newcomers /\ History /\ Agreed

ConversationInv == TalkInv /\ (sflag => Shared)

LEMMA InitTalk == Init => TalkInv
<1> SUFFICES ASSUME Init PROVE TalkInv
  OBVIOUS
<1>1. RecordType /\ Lasting
  BY DEF Init, RecordType, Lasting
<1>2. CurLasting
  BY DEF Init, CurLasting, NoMsg, Msg
<1> QED
  BY <1>1, <1>2, InitSlots DEF TalkInv

LEMMA ClientRecord ==
    ASSUME TalkInv, NEW c \in Client,
           Process(c) \/ Type(c) \/ Interrupt(c) \/ Crash(c)
    PROVE  RecordType'
<1>1. CASE ChildReceive(c)
  <2>1. inbox[c] \in Seq(Letter) /\ inbox[c] # <<>> /\ got[c] \in Seq(Letter)
    BY <1>1 DEF ChildReceive, TalkInv, SlotsInv, TypeInv, QueueType, RecordType
  <2>2. Head(inbox[c]) \in Letter
    BY <2>1
  <2>3. Append(got[c], Head(inbox[c])) \in Seq(Letter)
    BY <2>1, <2>2
  <2> QED
    BY <1>1, <2>3 DEF ChildReceive, TalkInv, RecordType, server
<1>2. CASE UNCHANGED <<log, got, joined>>
  BY <1>2 DEF TalkInv, RecordType
<1> QED
  BY <1>1, <1>2 DEF Process, Connect, SendInit, Fork, ReadId, Test, Type, SendStop, Unlink,
                    Interrupt, Crash, ChildTest, server

\* What a client sends goes to the end of the queue, and after a STOP it sends
\* nothing.
LEMMA ClientTalk ==
    ASSUME TalkInv, NEW c \in Client,
           Process(c) \/ Type(c) \/ Interrupt(c) \/ Crash(c)
    PROVE  Lasting' /\ CurLasting'
<1>1. UNCHANGED server
  BY DEF Process, Connect, SendInit, Fork, ReadId, Test, Type, SendStop, Unlink,
         Interrupt, Crash, ChildTest, ChildReceive
<1>2. CurLasting'
  BY <1>1 DEF server, TalkInv, CurLasting
<1>3. CASE srvq' = srvq
  BY <1>1, <1>2, <1>3 DEF server, TalkInv, Lasting
<1>4. ASSUME NEW m \in Request, m.type # "MESSAGE", SendServer(m)
      PROVE  Lasting'
  BY <1>1, <1>4, SentLast DEF server, TalkInv, SlotsInv, Lasting
<1>5. CASE SendInit(c)
  <2>1. Msg("INIT", Unset, c) \in Request /\ Msg("INIT", Unset, c).type # "MESSAGE"
    BY DEF Msg, Request
  <2> QED
    BY <1>2, <1>4, <1>5, <2>1 DEF SendInit
<1>6. CASE SendStop(c)
  <2>1. /\ Msg("STOP", client_id[c], c) \in Request
        /\ Msg("STOP", client_id[c], c).type # "MESSAGE"
    BY DEF Msg, Request, TalkInv, SlotsInv, TypeInv, TypeOK
  <2> QED
    BY <1>2, <1>4, <1>6, <2>1 DEF SendStop
<1>7. CASE Type(c)
  <2> DEFINE m == Msg("MESSAGE", client_id[c], c)
  <2>1. /\ pc[c] = "scanf" /\ SendServer(m)
        /\ c \notin Away /\ client_id[c] \in Entry /\ clients[client_id[c]] = c
    BY <1>7 DEF Type, Parent, Away, TalkInv, SlotsInv, Told
  <2>2. m \in Request /\ m.id = client_id[c] /\ m.from = c /\ m.type = "MESSAGE"
    BY <2>1 DEF Msg, Request
  <2>3. /\ cur.type = "STOP" => cur.from # c
        /\ \A k \in 1 .. Len(srvq) : srvq[k].type = "STOP" => srvq[k].from # c
    BY <2>1 DEF TalkInv, SlotsInv, LastGoodbye, Goodbyes
  <2> HIDE DEF m
  <2>4. ASSUME NEW n \in 1 .. Len(srvq'), srvq'[n].type = "MESSAGE"
        PROVE  /\ srvq'[n].id \in Entry /\ clients[srvq'[n].id] = srvq'[n].from
               /\ cur.type = "STOP" => cur.from # srvq'[n].from
               /\ \A k \in 1 .. n : srvq'[k].type = "STOP" => srvq'[k].from # srvq'[n].from
    <3>1. CASE n = Len(srvq) + 1
      <4>1. \A k \in 1 .. n : srvq'[k].type = "STOP" => k \in 1 .. Len(srvq) /\ srvq'[k] = srvq[k]
        BY <2>1, <2>2, <3>1, SentLast DEF TalkInv, SlotsInv
      <4> QED
        BY <2>1, <2>2, <2>3, <3>1, <4>1, SentLast DEF TalkInv, SlotsInv
    <3>2. CASE n # Len(srvq) + 1
      <4>1. n \in 1 .. Len(srvq) /\ \A k \in 1 .. n : k \in 1 .. Len(srvq) /\ srvq'[k] = srvq[k]
        BY <2>1, <2>2, <3>2, SentLast DEF TalkInv, SlotsInv
      <4>2. srvq'[n] = srvq[n]
        BY <4>1
      <4> QED
        BY <2>4, <4>1, <4>2 DEF TalkInv, Lasting
    <3> QED
      BY <3>1, <3>2
  <2> QED
    BY <1>1, <1>2, <2>4 DEF server, Lasting
<1> QED
  BY <1>2, <1>3, <1>5, <1>6, <1>7
     DEF Process, Connect, Fork, ReadId, Test, Unlink, Interrupt, Crash, ChildTest,
         ChildReceive

LEMMA DispatchRecord ==
    ASSUME RecordType, NEW m \in Request, Dispatch(m), UNCHANGED <<joined, got>>
    PROVE  RecordType'
<1>1. log' = log \/ log' = Append(log, m)
  BY DEF Dispatch
<1>2. log \in Seq(Request) /\ Append(log, m) \in Seq(Request)
  BY DEF RecordType
<1>3. log' \in Seq(Request)
  BY <1>1, <1>2
<1> QED
  BY <1>3 DEF RecordType

LEMMA ServerRecord ==
    ASSUME TalkInv, Server \/ ServerInterrupt \/ ServerKilled
    PROVE  RecordType'
<1>1. CASE ServerReceive
  <2>1. Head(srvq) \in Request
    BY <1>1 DEF ServerReceive, TalkInv, SlotsInv, TypeInv, QueueType
  <2> QED
    BY <1>1, <2>1, DispatchRecord DEF ServerReceive, users, TalkInv
<1>2. CASE Register
  <2>1. UNCHANGED <<log, got>>
    BY <1>2 DEF Register, users
  <2>2. joined' = joined \/ joined' = [joined EXCEPT ![cur.from] = Len(log)]
    BY <1>2 DEF Register
  <2> QED
    BY <2>1, <2>2 DEF TalkInv, RecordType
<1>3. CASE ServerInterrupt
  <2>1. UNCHANGED <<joined, got>>
    BY <1>3 DEF ServerInterrupt, users
  <2>2. CASE log' = log
    BY <2>1, <2>2 DEF TalkInv, RecordType
  <2>3. CASE cur # NoMsg /\ Dispatch(cur)
    BY <2>1, <2>3, DispatchRecord DEF TalkInv, SlotsInv, TypeInv, QueueType
  <2>4. log' = log \/ (cur # NoMsg /\ Dispatch(cur))
    BY <1>3 DEF ServerInterrupt
  <2> QED
    BY <2>2, <2>3, <2>4
<1>4. CASE TestFlag \/ Relay \/ Deregister \/ ServerKilled
  <2>1. UNCHANGED <<log, joined, got>>
    BY <1>4 DEF TestFlag, Relay, Deregister, ServerKilled, users
  <2> QED
    BY <2>1 DEF TalkInv, RecordType
<1> QED
  BY <1>1, <1>2, <1>3, <1>4 DEF Server

\* Slots that are taken stay as they are.
LEMMA TakenTalk ==
    ASSUME TalkInv, UNCHANGED <<cur, srvq>>,
           \A s \in Entry : clients[s] # NoClient => clients'[s] = clients[s]
    PROVE  Lasting' /\ CurLasting'
<1>1. \A n \in 1 .. Len(srvq) : srvq[n].from # NoClient
  <2>1. \A n \in 1 .. Len(srvq) : srvq[n] \in Request
    BY DEF TalkInv, SlotsInv, TypeInv, QueueType
  <2> QED
    BY <2>1, MqAssumption DEF Request
<1>2. cur.type = "MESSAGE" => cur.from # NoClient
  <2>1. cur.type = "MESSAGE" => cur \in Request
    BY DEF TalkInv, SlotsInv, TypeInv, QueueType, NoMsg, Msg
  <2> QED
    BY <2>1, MqAssumption DEF Request
<1> QED
  BY <1>1, <1>2 DEF TalkInv, Lasting, CurLasting

LEMMA ServerTalk ==
    ASSUME TalkInv, Server \/ ServerInterrupt \/ ServerKilled
    PROVE  Lasting' /\ CurLasting'
<1>1. CASE ServerReceive
  <2>1. /\ srvq \in Seq(Request) /\ srvq # <<>>
    BY <1>1 DEF ServerReceive, TalkInv, SlotsInv, TypeInv, QueueType
  <2>2. /\ cur' = srvq[1] /\ UNCHANGED clients
        /\ Len(srvq') = Len(srvq) - 1 /\ Len(srvq) \in Nat \ {0}
        /\ \A n \in 1 .. Len(srvq') : n + 1 \in 1 .. Len(srvq) /\ srvq'[n] = srvq[n + 1]
    BY <1>1, <2>1 DEF ServerReceive, Dispatch
  <2>3. CurLasting'
    BY <2>2 DEF TalkInv, Lasting, CurLasting
  <2>4. ASSUME NEW n \in 1 .. Len(srvq'), srvq'[n].type = "MESSAGE"
        PROVE  /\ srvq'[n].id \in Entry /\ clients[srvq'[n].id] = srvq'[n].from
               /\ cur'.type = "STOP" => cur'.from # srvq'[n].from
               /\ \A k \in 1 .. n : srvq'[k].type = "STOP" => srvq'[k].from # srvq'[n].from
    <3>1. n + 1 \in 1 .. Len(srvq) /\ srvq'[n] = srvq[n + 1] /\ 1 \in 1 .. n + 1
      BY <2>2
    <3>2. \A k \in 1 .. n : k + 1 \in 1 .. n + 1 /\ srvq'[k] = srvq[k + 1]
      BY <2>2
    <3>3. /\ srvq[n + 1].id \in Entry /\ clients[srvq[n + 1].id] = srvq[n + 1].from
          /\ \A k \in 1 .. n + 1 : srvq[k].type = "STOP" => srvq[k].from # srvq[n + 1].from
      BY <2>4, <3>1 DEF TalkInv, Lasting
    <3>4. cur'.type = "STOP" => cur'.from # srvq'[n].from
      BY <2>2, <3>1, <3>3
    <3>5. \A k \in 1 .. n : srvq'[k].type = "STOP" => srvq'[k].from # srvq'[n].from
      BY <3>1, <3>2, <3>3
    <3> QED
      BY <3>1, <3>3, <3>4, <3>5
  <2> QED
    BY <2>2, <2>3, <2>4 DEF Lasting
<1>2. CASE Register
  <2>1. UNCHANGED <<cur, srvq>>
    BY <1>2 DEF Register
  <2>2. \A s \in Entry : clients[s] # NoClient => clients'[s] = clients[s]
    <3>1. CASE clients' = clients
      BY <3>1
    <3>2. CASE Free # {} /\ clients' = [clients EXCEPT ![Least(Free)] = cur.from]
      <4>1. Least(Free) \in Free
        BY <3>2, LeastSlot DEF Free
      <4> QED
        BY <3>2, <4>1 DEF Free, TalkInv, SlotsInv, TypeInv, TypeOK
    <3> QED
      BY <1>2, <3>1, <3>2 DEF Register
  <2> QED
    BY <2>1, <2>2, TakenTalk
<1>3. CASE ServerInterrupt
  <2>1. UNCHANGED <<cur, srvq>>
    BY <1>3 DEF ServerInterrupt, Dispatch
  <2>2. \A s \in Entry : clients[s] # NoClient => clients'[s] = clients[s]
    <3>1. CASE clients' = clients
      BY <3>1
    <3>2. CASE Free # {} /\ clients' = [clients EXCEPT ![Least(Free)] = cur.from]
      <4>1. Least(Free) \in Free
        BY <3>2, LeastSlot DEF Free
      <4> QED
        BY <3>2, <4>1 DEF Free, TalkInv, SlotsInv, TypeInv, TypeOK
    <3> QED
      BY <1>3, <3>1, <3>2 DEF ServerInterrupt
  <2> QED
    BY <2>1, <2>2, TakenTalk
<1>4. CASE TestFlag \/ Relay \/ ServerKilled
  <2>1. UNCHANGED <<cur, srvq, clients>>
    BY <1>4 DEF TestFlag, Relay, ServerKilled
  <2> QED
    BY <2>1, TakenTalk
<1>5. CASE Deregister
  <2>1. cur.type = "STOP" /\ srv = "stop" /\ UNCHANGED <<cur, srvq>>
    BY <1>5 DEF Deregister, TalkInv, SlotsInv, TypeInv, TypeOK
  <2>2. CASE clients' = clients
    BY <2>1, <2>2, TakenTalk
  <2>3. CASE clients[cur.id] # NoClient /\ clients' = [clients EXCEPT ![cur.id] = NoClient]
    <3>1. cur.id \in Entry /\ clients[cur.id] = cur.from
      BY <2>1, <2>3 DEF TalkInv, SlotsInv, LastGoodbye
    <3>2. \A s \in Entry : clients[s] # cur.from => clients'[s] = clients[s]
      BY <2>3, <3>1 DEF TalkInv, SlotsInv, TypeInv, TypeOK
    <3>3. Lasting'
      BY <2>1, <3>2 DEF TalkInv, Lasting
    <3> QED
      BY <2>1, <3>3 DEF CurLasting
  <2> QED
    BY <1>5, <2>2, <2>3 DEF Deregister
<1> QED
  BY <1>1, <1>2, <1>3, <1>4, <1>5 DEF Server

LEMMA StepTalk == TalkInv /\ [Next /\ Patient]_vars => TalkInv'
<1> SUFFICES ASSUME TalkInv, [Next /\ Patient]_vars PROVE TalkInv'
  OBVIOUS
<1>1. SlotsInv'
  BY StepSlots DEF TalkInv
<1>2. CASE UNCHANGED vars
  <2>1. RecordType'
    BY <1>2 DEF vars, server, users, TalkInv, RecordType
  <2>2. Lasting' /\ CurLasting'
    BY <1>2, TakenTalk DEF vars, server
  <2> QED
    BY <1>1, <2>1, <2>2 DEF TalkInv
<1>3. ASSUME NEW c \in Client, Process(c) \/ Type(c) \/ Interrupt(c) \/ Crash(c)
      PROVE  TalkInv'
  BY <1>1, <1>3, ClientRecord, ClientTalk DEF TalkInv
<1>4. CASE Server \/ ServerInterrupt \/ ServerKilled
  BY <1>1, <1>4, ServerRecord, ServerTalk DEF TalkInv
<1> QED
  BY <1>2, <1>3, <1>4 DEF Next

LEMMA AppendConcat ==
    ASSUME NEW A, NEW s \in Seq(A), NEW x \in A, NEW r \in Seq(A)
    PROVE  s \o (<<x>> \o r) = Append(s, x) \o r
<1>1. Append(s, x) = s \o <<x>> /\ <<x>> \in Seq(A)
  BY AppendIsConcat
<1>2. s \o (<<x>> \o r) = (s \o <<x>>) \o r
  BY <1>1, ConcatAssociative
<1> QED
  BY <1>1, <1>2

\* Delivered and Due in the next state.
LEMMA DeliveredNext ==
    ASSUME NEW c \in Client
    PROVE  Delivered(c)' = got'[c] \o Keep(inbox'[c], Texts(Client))
BY DEF Delivered, Keep, Texts

LEMMA DueNext ==
    ASSUME NEW s \in Id, NEW c \in Client
    PROVE  Due(s, c)' = Keep(SubSeq(log', joined'[c] + 1,
                                    Len(log') - (IF srv' = "relay" /\ s >= next' THEN 1 ELSE 0)),
                             Texts(Client \ {c}))
BY DEF Due, Keep, Texts

LEMMA SameDelivered ==
    ASSUME NEW c \in Client, got'[c] = got[c], inbox'[c] = inbox[c]
    PROVE  Delivered(c)' = Delivered(c)
BY DeliveredNext DEF Delivered

LEMMA SameDue ==
    ASSUME NEW s \in Id, NEW c \in Client, log' = log, joined'[c] = joined[c],
           srv' = "relay" /\ s >= next' <=> srv = "relay" /\ s >= next
    PROVE  Due(s, c)' = Due(s, c)
BY DueNext DEF Due

LEMMA InitShared == Init => Shared
<1> SUFFICES ASSUME Init PROVE Shared
  OBVIOUS
<1>1. \A s \in Entry, c \in Client : clients[s] # c
  BY MqAssumption DEF Init
<1>2. Apart
  BY DEF Init, Apart
<1>3. Newcomers
  BY <1>1 DEF Init, Newcomers, Fresh
<1> QED
  BY SlotRange, <1>1, <1>2, <1>3 DEF Shared, History, Agreed, Init

\* A child takes a letter from the queue: what has been delivered is the same.
LEMMA ReceivedSame ==
    ASSUME TalkInv, NEW c \in Client, ChildReceive(c)
    PROVE  \A d \in Client : Delivered(d)' = Delivered(d)
<1> TAKE d \in Client
<1>1. CASE d # c
  <2>1. got'[d] = got[d] /\ inbox'[d] = inbox[d]
    BY <1>1 DEF ChildReceive, TalkInv, RecordType, SlotsInv, TypeInv, QueueType
  <2> QED
    BY <2>1, SameDelivered
<1>2. CASE d = c
  <2> DEFINE q == inbox[c]
             m == Head(q)
             T == Texts(Client)
  <2>1. q \in Seq(Letter) /\ q # <<>> /\ got[c] \in Seq(Letter)
    BY DEF ChildReceive, TalkInv, SlotsInv, TypeInv, QueueType, RecordType
  <2>2. /\ m \in Letter /\ Tail(q) \in Seq(Letter) /\ q = <<m>> \o Tail(q)
        /\ <<m>> \in Seq(Letter)
    BY <2>1
  <2>3. /\ inbox'[c] = Tail(q)
        /\ got'[c] = IF m.type = "MESSAGE" THEN Append(got[c], m) ELSE got[c]
    BY DEF ChildReceive, TalkInv, RecordType, SlotsInv, TypeInv, QueueType
  <2>4. m \in T <=> m.type = "MESSAGE"
    <3>1. m \in Message /\ (m.type = "MESSAGE" => m.from \in Client)
      BY <2>2 DEF Letter
    <3> HIDE DEF m
    <3> QED
      BY <3>1 DEF Texts, Message, MsgType
  <2> HIDE DEF q, m, T
  <2>5. Keep(q, T) = Keep(<<m>>, T) \o Keep(Tail(q), T)
    <3> DEFINE f == <<m>>
               r == Tail(q)
    <3>1. f \in Seq(Letter) /\ r \in Seq(Letter) /\ q = f \o r
      BY <2>2
    <3> HIDE DEF f, r
    <3>2. Keep(f \o r, T) = Keep(f, T) \o Keep(r, T)
      BY <3>1, KeepConcat
    <3> QED
      BY <3>1, <3>2 DEF f, r
  <2>6. Keep(<<m>>, T) = IF m.type = "MESSAGE" THEN <<m>> ELSE <<>>
    BY <2>2, <2>4, KeepOne
  <2>7. Keep(Tail(q), T) \in Seq(Letter)
    BY <2>2, KeepType
  <2>8. Delivered(c) = got[c] \o Keep(q, T) /\ Delivered(c)' = got'[c] \o Keep(inbox'[c], T)
    BY DeliveredNext DEF Delivered, q, T
  <2>9. CASE m.type = "MESSAGE"
    <3> DEFINE r == Keep(Tail(q), T)
               g == got[c]
    <3>1. r \in Seq(Letter) /\ g \in Seq(Letter) /\ m \in Letter
      BY <2>1, <2>2, <2>7
    <3> HIDE DEF r, g
    <3>2. g \o (<<m>> \o r) = Append(g, m) \o r
      BY <3>1, AppendConcat
    <3> QED
      BY <1>2, <2>3, <2>5, <2>6, <2>8, <2>9, <3>2 DEF r, g
  <2>10. CASE m.type # "MESSAGE"
    <3> DEFINE r == Keep(Tail(q), T)
    <3>1. r \in Seq(Letter)
      BY <2>7
    <3> HIDE DEF r
    <3>2. <<>> \o r = r
      BY <3>1
    <3> QED
      BY <1>2, <2>3, <2>5, <2>6, <2>8, <2>10, <3>2 DEF r
  <2> QED
    BY <2>9, <2>10
<1> QED
  BY <1>1, <1>2

\* A step of client c moves the messages of c only, and c is not called for
\* registration twice.
LEMMA ClientNewcomers ==
    ASSUME TalkInv, Shared, NEW c \in Client,
           Process(c) \/ Type(c) \/ Interrupt(c) \/ Crash(c)
    PROVE  Newcomers'
<1> USE DEF Parent
<1>0. /\ pc \in [Client -> {"off", "init", "fork", "read", "test", "scanf", "stop",
                            "wait", "done", "failed", "dead"}]
      /\ TypeInv /\ Newcomers
      /\ \A n \in 1 .. Len(srvq) : srvq[n] \in Request /\ srvq[n].from \in Client
      /\ srv = "init" => cur.from \in Client
  <2>1. \A n \in 1 .. Len(srvq) : srvq[n] \in Request
    BY DEF TalkInv, SlotsInv, TypeInv, QueueType
  <2>2. srv = "init" => cur \in Request
    BY DEF TalkInv, SlotsInv, TypeInv, QueueType
  <2> QED
    BY <2>1, <2>2 DEF TalkInv, SlotsInv, TypeInv, TypeOK, Shared, Request
<1>1. UNCHANGED server
  BY DEF Process, Connect, SendInit, Fork, ReadId, Test, Type, SendStop, Unlink,
         Interrupt, Crash, ChildTest, ChildReceive
<1>2. \A d \in Client : /\ pc'[d] \in {"off", "init"} => pc[d] \in {"off", "init"}
                        /\ d \in Fresh => d \in Fresh'
  <2>1. \A d \in Client : pc'[d] \in {"off", "init"} => pc[d] \in {"off", "init"}
    BY <1>0 DEF Process, Connect, SendInit, Fork, ReadId, Test, Type, SendStop, Unlink,
         Interrupt, Crash, ChildTest, ChildReceive
  <2>2. CASE ChildReceive(c)
    <3>1. \A d \in Client : d \in Fresh => d # c
      BY <2>2 DEF ChildReceive, Fresh
    <3>2. \A d \in Client \ {c} : inbox'[d] = inbox[d] /\ got'[d] = got[d]
      BY <2>2 DEF ChildReceive, TalkInv, RecordType, SlotsInv, TypeInv, QueueType
    <3> QED
      BY <1>1, <2>1, <3>1, <3>2 DEF Fresh, server
  <2>3. CASE UNCHANGED <<inbox, got>>
    BY <1>1, <2>1, <2>3 DEF Fresh, server
  <2> QED
    BY <2>2, <2>3 DEF Process, Connect, SendInit, Fork, ReadId, Test, Type, SendStop,
                      Unlink, Interrupt, Crash, ChildTest
<1>3. /\ \A d \in Client : pc'[d] \in {"off", "init"} => d \in Fresh'
      /\ srv' = "init" => cur'.from \in Fresh' /\ pc'[cur.from] \notin {"off", "init"}
  BY <1>0, <1>1, <1>2 DEF Newcomers, server
<1>4. CASE srvq' = srvq
  BY <1>0, <1>1, <1>2, <1>3, <1>4 DEF Newcomers, server
<1>5. ASSUME NEW m \in Request, SendServer(m), m.type # "INIT"
      PROVE  Newcomers'
  <2>1. ASSUME NEW n \in 1 .. Len(srvq'), srvq'[n].type = "INIT"
        PROVE  n \in 1 .. Len(srvq) /\ srvq'[n] = srvq[n]
    BY <1>0, <1>5, <2>1, SentLast
  <2> QED
    BY <1>0, <1>1, <1>2, <1>3, <2>1 DEF Newcomers, server
<1>6. CASE SendInit(c)
  <2> DEFINE m == Msg("INIT", Unset, c)
  <2>1. m \in Request /\ m.from = c /\ m.type = "INIT"
    BY DEF Msg, Request
  <2>2. SendServer(m) /\ pc[c] = "init" /\ pc'[c] = "fork"
    BY <1>0, <1>6 DEF SendInit
  <2> HIDE DEF m
  <2>3. /\ \A n \in 1 .. Len(srvq) : srvq[n].type = "INIT" => srvq[n].from # c
        /\ srv = "init" => cur.from # c
        /\ c \in Fresh
    BY <1>0, <2>2 DEF Newcomers
  <2>4. ASSUME NEW n \in 1 .. Len(srvq'), srvq'[n].type = "INIT"
        PROVE  \/ n \in 1 .. Len(srvq) /\ srvq'[n] = srvq[n]
               \/ n = Len(srvq) + 1 /\ srvq'[n] = m
    BY <1>0, <2>1, <2>2, SentLast
  <2>5. ASSUME NEW n \in 1 .. Len(srvq'), srvq'[n].type = "INIT"
        PROVE  /\ srvq'[n].from \in Fresh' /\ pc'[srvq'[n].from] \notin {"off", "init"}
               /\ srv' = "init" => cur'.from # srvq'[n].from
               /\ \A k \in 1 .. Len(srvq') :
                     srvq'[k].type = "INIT" /\ srvq'[k].from = srvq'[n].from => k = n
    <3>1. c \in Fresh'
      BY <1>2, <2>3
    <3>2. CASE n = Len(srvq) + 1 /\ srvq'[n] = m
      BY <1>1, <2>1, <2>2, <2>3, <2>4, <3>1, <3>2 DEF server
    <3>3. CASE n \in 1 .. Len(srvq) /\ srvq'[n] = srvq[n]
      <4>1. /\ srvq[n].from \in Fresh /\ pc[srvq[n].from] \notin {"off", "init"}
            /\ srv = "init" => cur.from # srvq[n].from
            /\ \A k \in 1 .. Len(srvq) :
                  srvq[k].type = "INIT" /\ srvq[k].from = srvq[n].from => k = n
            /\ srvq[n].from \in Client /\ srvq[n].from # c
        BY <1>0, <2>3, <2>5, <3>3 DEF Newcomers
      <4>2. ASSUME NEW k \in 1 .. Len(srvq'), srvq'[k].type = "INIT",
                   srvq'[k].from = srvq[n].from
            PROVE  k = n
        <5>1. k \in 1 .. Len(srvq) /\ srvq'[k] = srvq[k]
          BY <2>1, <2>4, <4>1, <4>2
        <5> QED
          BY <4>1, <4>2, <5>1
      <4>3. srvq[n].from \in Fresh' /\ pc'[srvq[n].from] \notin {"off", "init"}
        BY <1>2, <4>1
      <4> QED
        BY <1>1, <3>3, <4>1, <4>2, <4>3 DEF server
    <3> QED
      BY <2>4, <2>5, <3>2, <3>3
  <2> QED
    BY <1>1, <1>3, <2>5 DEF Newcomers, server
<1>7. CASE Type(c)
  <2>1. /\ Msg("MESSAGE", client_id[c], c) \in Request
        /\ Msg("MESSAGE", client_id[c], c).type # "INIT"
    BY <1>0 DEF Msg, Request, TypeInv, TypeOK
  <2> QED
    BY <1>5, <1>7, <2>1 DEF Type
<1>8. CASE SendStop(c)
  <2>1. /\ Msg("STOP", client_id[c], c) \in Request
        /\ Msg("STOP", client_id[c], c).type # "INIT"
    BY <1>0 DEF Msg, Request, TypeInv, TypeOK
  <2> QED
    BY <1>5, <1>8, <2>1 DEF SendStop
<1> QED
  BY <1>4, <1>6, <1>7, <1>8
     DEF Process, Connect, Fork, ReadId, Test, Unlink, Interrupt, Crash, ChildTest,
         ChildReceive

LEMMA ClientShared ==
    ASSUME TalkInv, Shared, NEW c \in Client,
           Process(c) \/ Type(c) \/ Interrupt(c) \/ Crash(c)
    PROVE  Shared'
<1>1. UNCHANGED server
  BY DEF Process, Connect, SendInit, Fork, ReadId, Test, Type, SendStop, Unlink,
         Interrupt, Crash, ChildTest, ChildReceive
<1>2. Apart' /\ History'
  BY <1>1 DEF Shared, Apart, History, server
<1>3. \A d \in Client : Delivered(d)' = Delivered(d)
  <2>1. CASE ChildReceive(c)
    BY <2>1, ReceivedSame
  <2>2. CASE UNCHANGED <<inbox, got>>
    BY <2>2, SameDelivered
  <2> QED
    BY <2>1, <2>2 DEF Process, Connect, SendInit, Fork, ReadId, Test, Type, SendStop,
                      Unlink, Interrupt, Crash, ChildTest
<1>4. \A s \in Id, d \in Client : Due(s, d)' = Due(s, d)
  BY <1>1, SameDue DEF server
<1>5. Agreed'
  <2> SUFFICES ASSUME NEW s \in Id, NEW d \in Client, clients'[s] = d
               PROVE  Delivered(d)' = Due(s, d)'
    BY DEF Agreed
  <2>1. Delivered(d) = Due(s, d)
    BY <1>1 DEF Shared, Agreed, server
  <2> QED
    BY <1>3, <1>4, <2>1
<1> QED
  BY <1>2, <1>5, ClientNewcomers DEF Shared

\* Delivered and Due of a client stay as they are: no letter is put into its
\* queue, and the server does not come past its slot.
LEMMA AgreedStill ==
    ASSUME Shared, NEW s \in Id, NEW d \in Client, clients[s] = d,
           UNCHANGED <<log, users>>, joined'[d] = joined[d], inbox'[d] = inbox[d],
           srv' = "relay" /\ s >= next' <=> srv = "relay" /\ s >= next
    PROVE  Delivered(d)' = Due(s, d)'
<1>1. Delivered(d) = Due(s, d)
  BY DEF Shared, Agreed
<1>2. got'[d] = got[d]
  BY DEF users
<1>3. Delivered(d)' = Delivered(d)
  BY <1>2, SameDelivered
<1>4. Due(s, d)' = Due(s, d)
  BY SameDue
<1> QED
  BY <1>1, <1>3, <1>4

LEMMA SubSeqAppend ==
    ASSUME NEW A, NEW q \in Seq(A), NEW x \in A, NEW j \in Nat
    PROVE  SubSeq(Append(q, x), j + 1, Len(q)) = SubSeq(q, j + 1, Len(q))
<1> DEFINE l == Len(q)
           a == SubSeq(Append(q, x), j + 1, l)
           b == SubSeq(q, j + 1, l)
<1>1. l \in Nat /\ \A n \in 1 .. l : q[n] \in A /\ Append(q, x)[n] = q[n]
  OBVIOUS
<1>2. /\ a \in Seq(A) /\ Len(a) = IF j + 1 <= l THEN l - (j + 1) + 1 ELSE 0
      /\ \A n \in 1 .. l - (j + 1) + 1 : a[n] = Append(q, x)[j + 1 + n - 1]
  BY <1>1, SubSeqProperties
<1>3. /\ b \in Seq(A) /\ Len(b) = IF j + 1 <= l THEN l - (j + 1) + 1 ELSE 0
      /\ \A n \in 1 .. l - (j + 1) + 1 : b[n] = q[j + 1 + n - 1]
  BY <1>1, SubSeqProperties
<1> HIDE DEF l, a, b
<1>4. ASSUME NEW n \in 1 .. Len(a) PROVE a[n] = b[n]
  <2>1. j + 1 <= l
    BY <1>1, <1>2
  <2>2. n \in 1 .. l - (j + 1) + 1
    BY <1>2, <2>1
  <2>3. j + 1 + n - 1 \in 1 .. l
    BY <1>1, <2>2
  <2>4. Append(q, x)[j + 1 + n - 1] = q[j + 1 + n - 1]
    BY <1>1, <2>3
  <2> QED
    BY <1>2, <1>3, <2>2, <2>4
<1>5. a = b
  BY <1>2, <1>3, <1>4, SeqEqual
<1> QED
  BY <1>5 DEF a, b, l

\* A MESSAGE that is put on the log is not due to anybody until the server comes
\* past its slot.
LEMMA ReceiveShared ==
    ASSUME TalkInv, Shared, ServerReceive
    PROVE  Shared'
<1> DEFINE m == Head(srvq)
<1>1. /\ srvq \in Seq(Request) /\ srvq # <<>>
  BY DEF ServerReceive, TalkInv, SlotsInv, TypeInv, QueueType
<1>2. /\ m \in Request /\ m = srvq[1] /\ 1 \in 1 .. Len(srvq)
      /\ Len(srvq') = Len(srvq) - 1 /\ Len(srvq) \in Nat \ {0}
      /\ \A n \in 1 .. Len(srvq') : n + 1 \in 1 .. Len(srvq) /\ srvq'[n] = srvq[n + 1]
  BY <1>1 DEF ServerReceive
<1>3. /\ cur' = m /\ next' = 0 /\ srv' = Handler[m.type] /\ srv = "receive"
      /\ log' = IF m.type = "MESSAGE" THEN Append(log, m) ELSE log
      /\ UNCHANGED <<clients, joined, inbox, users>>
  BY DEF ServerReceive, Dispatch, Go
<1>4. m.type \in {"INIT", "MESSAGE", "STOP"} /\ m.from \in Client
  BY <1>2 DEF Request
<1>5. /\ srv' = "init" <=> m.type = "INIT"
      /\ srv' = "relay" <=> m.type = "MESSAGE"
  BY <1>3, <1>4 DEF Handler
<1>6. log \in Seq(Request) /\ joined \in [Client -> Nat]
  BY DEF TalkInv, RecordType
<1> HIDE DEF m
<1>7. Apart'
  BY <1>3 DEF Shared, Apart
<1>8. Newcomers'
  <2>1. Fresh' = Fresh /\ pc' = pc
    BY <1>3 DEF Fresh, users
  <2>2. srv' = "init" => cur'.from \in Fresh /\ pc[cur'.from] \notin {"off", "init"}
    BY <1>2, <1>3, <1>5 DEF Shared, Newcomers
  <2>3. ASSUME NEW n \in 1 .. Len(srvq'), srvq'[n].type = "INIT"
        PROVE  /\ srvq'[n].from \in Fresh /\ pc[srvq'[n].from] \notin {"off", "init"}
               /\ srv' = "init" => cur'.from # srvq'[n].from
               /\ \A k \in 1 .. Len(srvq') :
                     srvq'[k].type = "INIT" /\ srvq'[k].from = srvq'[n].from => k = n
    <3>1. n + 1 \in 1 .. Len(srvq) /\ srvq'[n] = srvq[n + 1] /\ n + 1 # 1
      BY <1>2
    <3>2. /\ srvq[n + 1].from \in Fresh /\ pc[srvq[n + 1].from] \notin {"off", "init"}
          /\ \A k \in 1 .. Len(srvq) :
                srvq[k].type = "INIT" /\ srvq[k].from = srvq[n + 1].from => k = n + 1
      BY <2>3, <3>1 DEF Shared, Newcomers
    <3>3. srv' = "init" => cur'.from # srvq'[n].from
      BY <1>2, <1>3, <1>5, <3>1, <3>2
    <3>4. ASSUME NEW k \in 1 .. Len(srvq'), srvq'[k].type = "INIT",
                 srvq'[k].from = srvq'[n].from
          PROVE  k = n
      <4>1. k + 1 \in 1 .. Len(srvq) /\ srvq'[k] = srvq[k + 1]
        BY <1>2
      <4>2. k + 1 = n + 1
        BY <3>1, <3>2, <3>4, <4>1
      <4> QED
        BY <4>2
    <3> QED
      BY <3>1, <3>2, <3>3, <3>4
  <2> QED
    BY <2>1, <2>2, <2>3 DEF Shared, Newcomers
<1>9. History'
  <2>1. CASE m.type = "MESSAGE"
    <3>1. /\ Len(log') = Len(log) + 1 /\ Len(log) \in Nat /\ log'[Len(log) + 1] = m
      BY <1>2, <1>3, <1>6, <2>1
    <3> QED
      BY <1>3, <1>6, <3>1 DEF Shared, History
  <2>2. CASE m.type # "MESSAGE"
    BY <1>3, <1>5, <2>2 DEF Shared, History
  <2> QED
    BY <2>1, <2>2
<1>10. Agreed'
  <2> SUFFICES ASSUME NEW s \in Id, NEW d \in Client, clients'[s] = d
               PROVE  Delivered(d)' = Due(s, d)'
    BY DEF Agreed
  <2>1. clients[s] = d /\ joined[d] <= Len(log) /\ joined[d] \in Nat
    BY SlotRange, <1>3, <1>6 DEF Shared, History
  <2>2. CASE m.type # "MESSAGE"
    BY <1>3, <1>5, <2>1, <2>2, AgreedStill
  <2>3. CASE m.type = "MESSAGE"
    <3>1. /\ log' = Append(log, m) /\ srv' = "relay" /\ s >= next'
      BY <1>3, <1>5, <2>3, SlotRange
    <3>2. Len(log') - 1 = Len(log) /\ Len(log) \in Nat
      BY <1>2, <1>6, <3>1
    <3>3. SubSeq(log', joined[d] + 1, Len(log)) = SubSeq(log, joined[d] + 1, Len(log))
      BY <1>2, <1>6, <2>1, <3>1, SubSeqAppend
    <3>4. Due(s, d)' = Keep(SubSeq(log', joined'[d] + 1, Len(log') - 1), Texts(Client \ {d}))
      BY <3>1, DueNext
    <3>5. Due(s, d) = Keep(SubSeq(log, joined[d] + 1, Len(log)), Texts(Client \ {d}))
      BY <1>3, <3>2 DEF Due
    <3>6. Due(s, d)' = Due(s, d)
      BY <1>3, <3>2, <3>3, <3>4, <3>5
    <3>7. Delivered(d)' = Delivered(d)
      BY <1>3, SameDelivered DEF users
    <3> QED
      BY <2>1, <3>6, <3>7 DEF Shared, Agreed
  <2> QED
    BY <2>2, <2>3
<1> QED
  BY <1>7, <1>8, <1>9, <1>10 DEF Shared

\* A step of the server that registers nobody: who is new stays new.
LEMMA NewcomersStill ==
    ASSUME Shared, UNCHANGED <<srvq, cur, users>>, srv' # "init", Fresh \subseteq Fresh'
    PROVE  Newcomers'
BY DEF Shared, Newcomers, users

LEMMA RegisterShared ==
    ASSUME TalkInv, Shared, Register
    PROVE  Shared'
<1>1. /\ srv = "init" /\ srv' \in {"test", "failed"} /\ UNCHANGED <<cur, next, log, srvq, users>>
      /\ cur.from \in Fresh /\ pc[cur.from] \notin {"off", "init"}
  BY DEF Register, Go, Shared, Newcomers
<1>2. CASE UNCHANGED <<clients, joined, inbox>>
  <2>1. Fresh' = Fresh /\ Apart' /\ History'
    BY <1>1, <1>2 DEF Fresh, users, Shared, Apart, History
  <2>2. Agreed'
    BY <1>1, <1>2, AgreedStill DEF Agreed
  <2> QED
    BY <1>1, <2>1, <2>2, NewcomersStill DEF Shared
<1>3. CASE /\ Free # {} /\ clients' = [clients EXCEPT ![Least(Free)] = cur.from]
           /\ Send(cur.from, Msg("IDENTIFIER", Least(Free), NoClient))
           /\ joined' = [joined EXCEPT ![cur.from] = Len(log)]
  <2> DEFINE l == Least(Free)
             c == cur.from
             m == Msg("IDENTIFIER", l, NoClient)
  <2>1. /\ l \in Entry /\ clients[l] = NoClient
        /\ c \in Client /\ c # NoClient /\ inbox[c] = <<>> /\ got[c] = <<>>
        /\ \A s \in Entry : clients[s] # c
    BY <1>1, <1>3, LeastSlot, MqAssumption DEF Free, Fresh
  <2>2. /\ m \in Letter /\ m \notin Texts(Client) /\ <<m>> = Append(<<>>, m)
    BY <2>1 DEF Msg, Letter, Message, MsgType, Texts
  <2>3. /\ clients'[l] = c /\ \A s \in Entry : s # l => clients'[s] = clients[s]
        /\ joined'[c] = Len(log) /\ \A d \in Client : d # c => joined'[d] = joined[d]
        /\ inbox'[c] = <<m>> /\ \A d \in Client : d # c => inbox'[d] = inbox[d]
        /\ Len(log) \in Nat
    BY <1>3, <2>1, <2>2 DEF Send, TalkInv, SlotsInv, TypeInv, TypeOK, QueueType, RecordType
  <2> HIDE DEF l, c, m
  <2>4. Apart'
    BY <2>1, <2>3 DEF Shared, Apart
  <2>5. Newcomers'
    <3>1. \A d \in Fresh : d # c => d \in Fresh'
      BY <1>1, <2>3 DEF Fresh, users
    <3>2. \A n \in 1 .. Len(srvq) : srvq[n].type = "INIT" => srvq[n].from # c
      BY <1>1 DEF Shared, Newcomers, c
    <3>3. pc[c] \notin {"off", "init"}
      BY <1>1 DEF c
    <3> QED
      BY <1>1, <3>1, <3>2, <3>3 DEF Shared, Newcomers, users
  <2>6. History'
    BY <1>1, <2>1, <2>3 DEF Shared, History
  <2>7. Agreed'
    <3> SUFFICES ASSUME NEW s \in Id, NEW d \in Client, clients'[s] = d
                 PROVE  Delivered(d)' = Due(s, d)'
      BY DEF Agreed
    <3>1. CASE d = c
      <4>1. Keep(inbox'[c], Texts(Client)) = <<>>
        BY <2>2, <2>3, KeepOne
      <4>2. Delivered(d)' = <<>> \o <<>>
        BY <1>1, <2>1, <3>1, <4>1, DeliveredNext DEF users
      <4>3. Due(s, d)' = Keep(SubSeq(log, Len(log) + 1, Len(log) - 0), Texts(Client \ {d}))
        BY <1>1, <2>3, <3>1, DueNext
      <4>4. SubSeq(log, Len(log) + 1, Len(log) - 0) = <<>>
        BY <2>3, SubSeqEmpty
      <4> DEFINE T == Texts(Client \ {d})
                 e == SubSeq(log, Len(log) + 1, Len(log) - 0)
      <4>5. Keep(<<>>, T) = <<>>
        BY KeepEmpty
      <4>6. <<>> \o <<>> = <<>>
        OBVIOUS
      <4>7. Due(s, d)' = Keep(e, T) /\ e = <<>>
        BY <4>3, <4>4
      <4> HIDE DEF T, e
      <4> QED
        BY <4>2, <4>5, <4>6, <4>7
    <3>2. CASE d # c
      <4>1. clients[s] = d
        BY SlotRange, <2>3, <3>2
      <4> QED
        BY <1>1, <2>3, <3>2, <4>1, AgreedStill
    <3> QED
      BY <3>1, <3>2
  <2> QED
    BY <2>4, <2>5, <2>6, <2>7 DEF Shared
<1> QED
  BY <1>2, <1>3 DEF Register

\* The server has come past slot s, with the message it hands round.
LEMMA PassedDue ==
    ASSUME TalkInv, Shared, srv = "relay", NEW s \in Id, NEW d \in Client, clients[s] = d,
           s >= next, ~(srv' = "relay" /\ s >= next'), UNCHANGED <<log, joined>>
    PROVE  Due(s, d)' = IF cur.from = d THEN Due(s, d) ELSE Append(Due(s, d), cur)
<1> DEFINE L == Len(log)
           j == joined[d]
           q == SubSeq(log, j + 1, L - 1)
           T == Texts(Client \ {d})
<1>1. /\ log \in Seq(Request) /\ j \in Nat /\ L \in Nat /\ j < L /\ log[L] = cur
      /\ cur.type = "MESSAGE" /\ cur \in Request
  BY SlotRange DEF TalkInv, RecordType, Shared, History, SlotsInv, TypeInv, TypeOK, QueueType
<1>2. q \in Seq(Request)
  <2>1. \A n \in j + 1 .. L - 1 : log[n] \in Request
    BY <1>1
  <2> QED
    BY <1>1, <2>1, SubSeqProperties
<1>3. SubSeq(log, j + 1, L) = Append(q, cur)
  <2>1. j + 1 \in 1 .. L /\ L \in j + 1 .. L
    BY <1>1
  <2>2. SubSeq(log, j + 1, L) = q \o <<cur>>
    BY <1>1, <2>1, SubSeqRecursiveSecond
  <2> HIDE DEF q
  <2> QED
    BY <1>1, <1>2, <2>2, AppendIsConcat
<1>4. Due(s, d) = Keep(q, T)
  BY DEF Due
<1>5. Due(s, d)' = Keep(SubSeq(log, j + 1, L - 0), T)
  BY DueNext
<1>6. L - 0 = L
  BY <1>1
<1>7. cur \in T <=> cur.from # d
  BY <1>1 DEF Texts, Request
<1> HIDE DEF q, T, L, j
<1>8. Keep(Append(q, cur), T) = IF cur \in T THEN Append(Keep(q, T), cur) ELSE Keep(q, T)
  BY <1>1, <1>2, KeepAppend
<1> QED
  BY <1>3, <1>4, <1>5, <1>6, <1>7, <1>8

LEMMA RelayShared ==
    ASSUME TalkInv, Shared, Relay
    PROVE  Shared'
<1>1. /\ srv = "relay" /\ UNCHANGED <<sflag, cur, clients, log, joined, srvq, users>>
      /\ cur.type = "MESSAGE" /\ cur \in Request /\ cur \in Letter
      /\ cur.id \in Entry /\ clients[cur.id] = cur.from
  BY RequestIsLetter
     DEF Relay, TalkInv, SlotsInv, TypeInv, TypeOK, QueueType, CurLasting
<1>2. Apart' /\ next \in Nat
  BY <1>1 DEF Shared, Apart, TalkInv, SlotsInv, TypeInv, TypeOK
\* Whom the server passes without sending is the sender.
<1>3. ASSUME NEW s \in Id, NEW d \in Client, clients[s] = d, s >= next, s \notin Rest
      PROVE  cur.from = d
  <2>1. d # NoClient
    BY MqAssumption
  <2> QED
    BY <1>1, <1>3, <2>1 DEF Rest
<1>4. CASE Rest # {} /\ Send(clients[Least(Rest)], cur) /\ next' = Least(Rest) + 1
           /\ srv' = srv
  <2> DEFINE l == Least(Rest)
             c == clients[l]
  <2>1. /\ l \in Id /\ l \in Rest /\ c \in Client /\ \A t \in Rest : l <= t
        /\ l >= next /\ l # cur.id /\ c # NoClient
    BY SlotRange, <1>4, RestSlot, LeastSlot, MqAssumption DEF TalkInv, SlotsInv, Rest
  <2>2. /\ inbox[c] \in Seq(Letter) /\ inbox'[c] = Append(inbox[c], cur)
        /\ \A d \in Client : d # c => inbox'[d] = inbox[d]
    BY <1>4, <2>1 DEF Send, TalkInv, SlotsInv, TypeInv, QueueType
  <2>3. next' = l + 1 /\ srv' = "relay" /\ clients[l] = c
    BY <1>1, <1>4
  <2> HIDE DEF l, c
  <2>4. Newcomers'
    <3>1. Fresh \subseteq Fresh'
      BY SlotRange, <1>1, <2>1, <2>2, <2>3 DEF Fresh, users
    <3> QED
      BY <1>1, <2>3, <3>1, NewcomersStill
  <2>5. History'
    BY <1>1, <2>3 DEF Shared, History
  <2>6. Agreed'
    <3> SUFFICES ASSUME NEW s \in Id, NEW d \in Client, clients[s] = d
                 PROVE  Delivered(d)' = Due(s, d)'
      BY <1>1 DEF Agreed
    <3>0. Delivered(d) = Due(s, d) /\ s \in Nat /\ l \in Nat
      BY <2>1, SlotRange DEF Shared, Agreed
    <3>1. CASE s = l
      <4>0. d = c /\ s >= next /\ ~(s >= next')
        BY <2>1, <2>3, <3>0, <3>1
      <4>a. cur.from # c
        <5> SUFFICES ASSUME cur.from = c PROVE FALSE
          OBVIOUS
        <5>1. clients[cur.id] = c /\ clients[l] = c
          BY <1>1, <2>3
        <5> QED
          BY SlotRange, <1>1, <2>1, <5>1 DEF Shared, Apart
      <4>1. d = c /\ cur.from # d /\ s >= next /\ ~(s >= next')
        BY <4>0, <4>a
      <4>2. Due(s, d)' = Append(Due(s, d), cur)
        BY <1>1, <2>3, <4>1, PassedDue
      <4>3. cur \in Texts(Client)
        BY <1>1 DEF Texts, Request
      <4>4. Keep(inbox'[c], Texts(Client)) = Append(Keep(inbox[c], Texts(Client)), cur)
        BY <1>1, <2>2, <4>3, KeepAppend
      <4> DEFINE k == Keep(inbox[c], Texts(Client))
                 g == got[c]
      <4>5. k \in Seq(Letter) /\ g \in Seq(Letter) /\ cur \in Letter
        BY <1>1, <2>1, <2>2, KeepType DEF TalkInv, RecordType
      <4>6. Delivered(d) = g \o k /\ Delivered(d)' = g \o Append(k, cur)
        BY <1>1, <4>1, <4>4, DeliveredNext DEF Delivered, users
      <4> HIDE DEF k, g
      <4>7. g \o Append(k, cur) = Append(g \o k, cur)
        BY <4>5
      <4> QED
        BY <3>0, <4>2, <4>6, <4>7
    <3>2. CASE s # l
      <4>1. d # c
        BY SlotRange, <2>1, <2>3, <3>2 DEF Shared, Apart
      <4>2. Delivered(d)' = Delivered(d)
        BY <1>1, <2>2, <4>1, SameDelivered DEF users
      <4>3. CASE s >= next /\ s < l
        <5>1. s \notin Rest /\ ~(s >= next')
          BY <2>1, <2>3, <3>0, <4>3
        <5>2. Due(s, d)' = Due(s, d)
          BY <1>1, <1>3, <4>3, <5>1, PassedDue
        <5> QED
          BY <3>0, <4>2, <5>2
      <4>4. CASE ~(s >= next /\ s < l)
        <5>1. s >= next' <=> s >= next
          BY <1>2, <2>1, <2>3, <3>0, <3>2, <4>4
        <5>2. Due(s, d)' = Due(s, d)
          BY <1>1, <2>3, <5>1, SameDue
        <5> QED
          BY <3>0, <4>2, <5>2
      <4> QED
        BY <4>3, <4>4
    <3> QED
      BY <3>1, <3>2
  <2> QED
    BY <1>2, <2>4, <2>5, <2>6 DEF Shared
<1>5. CASE Rest = {} /\ srv' = "test" /\ UNCHANGED <<inbox, next>>
  <2>1. Fresh' = Fresh
    BY <1>1, <1>5 DEF Fresh, users
  <2>2. History'
    BY <1>1, <1>5 DEF Shared, History
  <2>3. Agreed'
    <3> SUFFICES ASSUME NEW s \in Id, NEW d \in Client, clients[s] = d
                 PROVE  Delivered(d)' = Due(s, d)'
      BY <1>1 DEF Agreed
    <3>1. CASE s >= next
      <4>1. Due(s, d)' = Due(s, d)
        BY <1>1, <1>3, <1>5, <3>1, PassedDue
      <4>2. Delivered(d)' = Delivered(d)
        BY <1>1, <1>5, SameDelivered DEF users
      <4> QED
        BY <4>1, <4>2 DEF Shared, Agreed
    <3>2. CASE ~(s >= next)
      BY <1>1, <1>5, <3>2, AgreedStill
    <3> QED
      BY <3>1, <3>2
  <2> QED
    BY <1>1, <1>2, <1>5, <2>1, <2>2, <2>3, NewcomersStill DEF Shared
<1> QED
  BY <1>4, <1>5 DEF Relay, Go

LEMMA DeregisterShared ==
    ASSUME TalkInv, Shared, Deregister
    PROVE  Shared'
<1>1. /\ srv = "stop" /\ srv' \in {"test", "failed"}
      /\ UNCHANGED <<cur, next, log, joined, srvq, users>>
      /\ cur.type = "STOP" /\ cur \in Request
  BY DEF Deregister, Go, TalkInv, SlotsInv, TypeInv, TypeOK, QueueType
<1>2. CASE UNCHANGED <<clients, inbox>>
  <2>1. Fresh' = Fresh /\ Apart' /\ History'
    BY <1>1, <1>2 DEF Fresh, users, Shared, Apart, History
  <2>2. Agreed'
    BY <1>1, <1>2, AgreedStill DEF Agreed
  <2> QED
    BY <1>1, <2>1, <2>2, NewcomersStill DEF Shared
<1>3. CASE /\ cur.id \in Entry /\ clients[cur.id] # NoClient /\ Send(clients[cur.id], cur)
           /\ clients' = [clients EXCEPT ![cur.id] = NoClient]
  <2> DEFINE c == clients[cur.id]
  <2>1. /\ c \in Client
        /\ clients'[cur.id] = NoClient
        /\ \A s \in Entry : s # cur.id => clients'[s] = clients[s]
        /\ \A d \in Client : d # c => inbox'[d] = inbox[d]
    BY <1>3 DEF Send, TalkInv, SlotsInv, TypeInv, TypeOK, QueueType
  <2>2. \A s \in Entry, d \in Client : clients'[s] = d => clients[s] = d /\ d # c
    BY <1>3, <2>1, MqAssumption DEF Shared, Apart
  <2>3. clients[cur.id] = c
    OBVIOUS
  <2> HIDE DEF c
  <2>4. Fresh \subseteq Fresh'
    BY <1>1, <1>3, <2>1, <2>2, <2>3 DEF Fresh, users
  <2>5. Apart' /\ History'
    BY <1>1, <2>1, <2>2 DEF Shared, Apart, History
  <2>6. Agreed'
    <3> SUFFICES ASSUME NEW s \in Id, NEW d \in Client, clients'[s] = d
                 PROVE  Delivered(d)' = Due(s, d)'
      BY DEF Agreed
    <3> QED
      BY SlotRange, <1>1, <2>1, <2>2, AgreedStill
  <2> QED
    BY <1>1, <2>4, <2>5, <2>6, NewcomersStill DEF Shared
<1> QED
  BY <1>2, <1>3 DEF Deregister

LEMMA StepConversation ==
    ConversationInv /\ [Next /\ Patient]_vars => ConversationInv'
<1> SUFFICES ASSUME ConversationInv, [Next /\ Patient]_vars PROVE ConversationInv'
  OBVIOUS
<1>1. TalkInv'
  BY StepTalk DEF ConversationInv
<1> SUFFICES ASSUME sflag' PROVE Shared'
  BY <1>1 DEF ConversationInv
<1>2. CASE UNCHANGED vars
  <2>1. sflag /\ Shared /\ Fresh' = Fresh
    BY <1>2 DEF ConversationInv, vars, server, users, Fresh
  <2>2. Apart' /\ History' /\ Newcomers'
    BY <1>2, <2>1 DEF Shared, Apart, History, Newcomers, vars, server, users
  <2>3. Agreed'
    BY <1>2, <2>1, AgreedStill DEF Agreed, vars, server
  <2> QED
    BY <2>2, <2>3 DEF Shared
<1>3. ASSUME NEW c \in Client, Process(c) \/ Type(c) \/ Interrupt(c) \/ Crash(c)
      PROVE  Shared'
  <2>1. sflag
    BY <1>3 DEF Process, Connect, SendInit, Fork, ReadId, Test, Type, SendStop, Unlink,
                Interrupt, Crash, ChildTest, ChildReceive, server
  <2> QED
    BY <1>3, <2>1, ClientShared DEF ConversationInv
<1>4. CASE Server
  <2>1. sflag /\ TalkInv /\ Shared
    BY <1>4 DEF ConversationInv, Server, TestFlag, ServerReceive, Register, Relay, Deregister
  <2>2. CASE TestFlag
    <3>1. /\ srv = "test" /\ srv' \notin {"init", "relay"}
          /\ UNCHANGED <<cur, next, clients, log, joined, srvq, inbox, users>>
      BY <2>2 DEF TestFlag, Go
    <3>2. Fresh' = Fresh /\ Apart' /\ History'
      BY <2>1, <3>1 DEF Fresh, users, Shared, Apart, History
    <3>3. Agreed'
      BY <2>1, <3>1, AgreedStill DEF Agreed
    <3> QED
      BY <2>1, <3>1, <3>2, <3>3, NewcomersStill DEF Shared
  <2> QED
    BY <1>4, <2>1, <2>2, ReceiveShared, RegisterShared, RelayShared, DeregisterShared
       DEF Server
<1>5. CASE ServerInterrupt \/ ServerKilled
  BY <1>5 DEF ServerInterrupt, ServerKilled
<1> QED
  BY <1>2, <1>3, <1>4, <1>5 DEF Next

\* Until the server is interrupted, every client in the chat gets all messages
\* of the others since it joined, each once and in one order for all, however
\* the parents, the children and the server interleave and whoever crashes.
THEOREM OneConversation == PatientSpec => []SameConversation
<1>1. Init => ConversationInv
  BY InitTalk, InitShared DEF ConversationInv
<1>2. ConversationInv => SameConversation
  BY SlotRange DEF ConversationInv, TalkInv, SlotsInv, TypeInv, TypeOK, Shared, Agreed,
         SameConversation
<1> QED
  BY <1>1, <1>2, StepConversation, PTL DEF PatientSpec
=============================================================================
