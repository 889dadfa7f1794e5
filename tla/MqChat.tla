------------------------------- MODULE MqChat -------------------------------
(***************************************************************************)
(* The chat of cw7 over POSIX message queues (server.c, client.c).  The    *)
(* server reads one queue and writes to one queue per client; a client is  *)
(* a parent that sends what its user types and a child that reads its      *)
(* queue and hands the identifier it is given to the parent over a pipe.   *)
(* SIGINT is how clients and server end.  signal() of server.c, compiled   *)
(* with _XOPEN_SOURCE, lets mq_receive and mq_send fail with EINTR; that   *)
(* of client.c restarts the call that was interrupted.                     *)
(***************************************************************************)
EXTENDS Integers, FiniteSets, Sequences

CONSTANTS Client, NoClient,
          Slots,        \* length of the array clients
          QueueSize,    \* mq_maxmsg of every queue
          MaxLines,     \* bound: words typed, by all users together
          MaxCrashes    \* bound: clients that die without a STOP

ASSUME MqAssumption ==
    /\ NoClient \notin Client
    /\ Slots \in Nat \ {0}
    /\ QueueSize \in Nat \ {0}

Id == 0 .. Slots - 1
Past == Slots           \* a word behind the array clients that happens to hold -1
Entry == Id \cup {Past}
Unset == -1             \* client_id before it is read: some place beyond these
Msg(type, id, c) == [type |-> type, id |-> id, from |-> c]
NoMsg == Msg("none", Unset, NoClient)

VARIABLES
    srv,                \* server: what it does next
    sflag,              \* flag of server.c
    cur,                \* recive_msg
    next,               \* i in the loop over clients
    clients,            \* the array and the word Past behind it
    srvq, inbox,        \* the queues
    pc,                 \* parents: what they do next
    child,              \* children: what they do next
    flag,               \* flag of client.c, the same in parent and child
    pipe, client_id,
    lines,              \* words typed so far
    crashed,            \* clients that died
    log, got, joined    \* history: MESSAGEs taken by the server, received by each
                        \* child, and the length of log when a client joined

server == <<srv, sflag, cur, next, clients, log, joined>>
users == <<pc, child, flag, pipe, client_id, lines, crashed, got>>
vars == <<server, srvq, inbox, users>>

Init ==
    /\ srv = "test" /\ sflag = TRUE /\ cur = NoMsg /\ next = 0
    /\ clients = [s \in Entry |-> NoClient]
    /\ srvq = <<>>
    /\ inbox = [c \in Client |-> <<>>]
    /\ pc = [c \in Client |-> "off"]
    /\ child = [c \in Client |-> "off"]
    /\ flag = [c \in Client |-> TRUE]
    /\ pipe = [c \in Client |-> <<>>]
    /\ client_id = [c \in Client |-> Unset]
    /\ lines = 0
    /\ crashed = {}
    /\ log = <<>>
    /\ got = [c \in Client |-> <<>>]
    /\ joined = [c \in Client |-> 0]

-----------------------------------------------------------------------------
(* The parent of client c *)

Parent(c, at, to) == pc[c] = at /\ pc' = [pc EXCEPT ![c] = to]

\* mq_send to the server's queue blocks while the queue is full.
SendServer(m) == Len(srvq) < QueueSize /\ srvq' = Append(srvq, m)

\* The client creates its queue and opens that of the server, if there is one.
Connect(c) ==
    /\ Parent(c, "off", IF srv = "exited" THEN "failed" ELSE "init")
    /\ UNCHANGED <<server, srvq, inbox, child, flag, pipe, client_id, lines, crashed, got>>

SendInit(c) ==
    /\ Parent(c, "init", "fork")
    /\ SendServer(Msg("INIT", Unset, c))
    /\ UNCHANGED <<server, inbox, child, flag, pipe, client_id, lines, crashed, got>>

Fork(c) ==
    /\ Parent(c, "fork", "read")
    /\ child' = [child EXCEPT ![c] = "test"]
    /\ UNCHANGED <<server, srvq, inbox, flag, pipe, client_id, lines, crashed, got>>

\* Mutant: the read does not wait for the child.
ReadIdEarly(c) ==
    /\ Parent(c, "read", "test")
    /\ IF pipe[c] # <<>> THEN client_id' = [client_id EXCEPT ![c] = Head(pipe[c])]
       ELSE \E x \in Id : client_id' = [client_id EXCEPT ![c] = x]
    /\ UNCHANGED <<server, srvq, inbox, child, flag, pipe, lines, crashed, got>>

\* read from the pipe: the identifier, or the end of file of a child that left
\* without one, which leaves client_id as it was, uninitialised.
ReadId(c) ==
    /\ Parent(c, "read", "test")
    /\ \/ pipe[c] # <<>> /\ client_id' = [client_id EXCEPT ![c] = Head(pipe[c])]
       \/ /\ pipe[c] = <<>> /\ child[c] = "exited"
          /\ \E x \in Entry \cup {Unset} : client_id' = [client_id EXCEPT ![c] = x]
    /\ UNCHANGED <<server, srvq, inbox, child, flag, pipe, lines, crashed, got>>

Test(c) ==
    /\ Parent(c, "test", IF flag[c] THEN "scanf" ELSE "stop")
    /\ UNCHANGED <<server, srvq, inbox, child, flag, pipe, client_id, lines, crashed, got>>

\* Once in scanf, the parent needs another word before it looks at flag again.
Type(c) ==
    /\ lines < MaxLines
    /\ lines' = lines + 1
    /\ Parent(c, "scanf", "test")
    /\ SendServer(Msg("MESSAGE", client_id[c], c))
    /\ UNCHANGED <<server, inbox, child, flag, pipe, client_id, crashed, got>>

SendStop(c) ==
    /\ Parent(c, "stop", "wait")
    /\ SendServer(Msg("STOP", client_id[c], c))
    /\ UNCHANGED <<server, inbox, child, flag, pipe, client_id, lines, crashed, got>>

Unlink(c) ==
    /\ child[c] = "exited"
    /\ Parent(c, "wait", "done")
    /\ UNCHANGED <<server, srvq, inbox, child, flag, pipe, client_id, lines, crashed, got>>

\* Ctrl+C reaches parent and child, from the time the handler is set.
Interrupt(c) ==
    /\ pc[c] \in {"fork", "read", "test", "scanf"}
    /\ flag[c]
    /\ flag' = [flag EXCEPT ![c] = FALSE]
    /\ UNCHANGED <<server, srvq, inbox, pc, child, pipe, client_id, lines, crashed, got>>

\* Both processes die; the queue stays.
Crash(c) ==
    /\ pc[c] \notin {"off", "failed", "done", "dead"}
    /\ Cardinality(crashed) < MaxCrashes
    /\ crashed' = crashed \cup {c}
    /\ pc' = [pc EXCEPT ![c] = "dead"]
    /\ child' = [child EXCEPT ![c] = "exited"]
    /\ UNCHANGED <<server, srvq, inbox, flag, pipe, client_id, lines, got>>

-----------------------------------------------------------------------------
(* The child of client c *)

ChildTest(c) ==
    /\ child[c] = "test"
    /\ child' = [child EXCEPT ![c] = IF flag[c] THEN "receive" ELSE "exited"]
    /\ UNCHANGED <<server, srvq, inbox, pc, flag, pipe, client_id, lines, crashed, got>>

ChildReceive(c) ==
    /\ child[c] = "receive" /\ inbox[c] # <<>>
    /\ child' = [child EXCEPT ![c] = "test"]
    /\ inbox' = [inbox EXCEPT ![c] = Tail(@)]
    /\ LET m == Head(inbox[c])
       IN /\ pipe' = IF m.type = "IDENTIFIER"
                     THEN [pipe EXCEPT ![c] = Append(@, m.id)] ELSE pipe
          /\ got' = IF m.type = "MESSAGE" THEN [got EXCEPT ![c] = Append(@, m)] ELSE got
    /\ UNCHANGED <<server, srvq, pc, flag, client_id, lines, crashed>>

-----------------------------------------------------------------------------
(* The server *)

Go(l) == srv' = l

Handler == [INIT |-> "init", MESSAGE |-> "relay", STOP |-> "stop"]

\* Start on recive_msg.
Dispatch(m) ==
    /\ cur' = m
    /\ next' = 0
    /\ Go(Handler[m.type])
    /\ log' = IF m.type = "MESSAGE" THEN Append(log, m) ELSE log

TestFlag ==
    /\ srv = "test"
    /\ Go(IF sflag THEN "receive" ELSE "exited")
    /\ UNCHANGED <<sflag, cur, next, clients, log, joined, srvq, inbox, users>>

ServerReceive ==
    /\ srv = "receive" /\ srvq # <<>>
    /\ Dispatch(Head(srvq))
    /\ srvq' = Tail(srvq)
    /\ UNCHANGED <<sflag, clients, joined, inbox, users>>

\* mq_send to the queue of client c blocks while that queue is full.
Send(c, m) ==
    /\ Len(inbox[c]) < QueueSize
    /\ inbox' = [inbox EXCEPT ![c] = Append(@, m)]

Free == {s \in Entry : clients[s] = NoClient}
Least(S) == CHOOSE s \in S : \A t \in S : s <= t

\* Mutant: every client is given the first slot.
RegisterFirst ==
    /\ srv = "init" /\ pc[cur.from] # "done"
    /\ clients' = [clients EXCEPT ![0] = cur.from]
    /\ Send(cur.from, Msg("IDENTIFIER", 0, NoClient))
    /\ joined' = [joined EXCEPT ![cur.from] = Len(log)]
    /\ Go("test")
    /\ UNCHANGED <<sflag, cur, next, log, srvq, users>>

\* The search for a free slot runs on behind an array that is full: it may find
\* a word there that holds -1, which is then given away like a slot, or none
\* before the memory ends, which kills the server.  The model has one such word
\* and does not follow whose it was.  If the client has already removed its
\* queue, mq_open fails and the server exits.
Register ==
    /\ srv = "init"
    /\ \/ /\ Free # {} /\ pc[cur.from] # "done"
          /\ clients' = [clients EXCEPT ![Least(Free)] = cur.from]
          /\ Send(cur.from, Msg("IDENTIFIER", Least(Free), NoClient))
          /\ joined' = [joined EXCEPT ![cur.from] = Len(log)]
          /\ Go("test")
       \/ /\ Free \subseteq {Past} \/ pc[cur.from] = "done"
          /\ Go("failed")
          /\ UNCHANGED <<clients, joined, inbox>>
    /\ UNCHANGED <<sflag, cur, next, log, srvq, users>>

\* Mutant: the sender gets its own message too.
RestAll == {s \in Id : s >= next /\ clients[s] # NoClient}

\* The slots the loop over clients still has to send to.
Rest == {s \in Id : s >= next /\ clients[s] # NoClient /\ s # cur.id}

\* Mutant: no break after the case MESSAGE.
RelayFallsThrough ==
    /\ srv = "relay"
    /\ IF Rest # {}
       THEN Send(clients[Least(Rest)], cur) /\ next' = Least(Rest) + 1 /\ UNCHANGED srv
       ELSE Go("stop") /\ UNCHANGED <<inbox, next>>
    /\ UNCHANGED <<sflag, cur, clients, log, joined, srvq, users>>

Relay ==
    /\ srv = "relay"
    /\ \/ /\ Rest # {}
          /\ Send(clients[Least(Rest)], cur)
          /\ next' = Least(Rest) + 1
          /\ UNCHANGED srv
       \/ /\ Rest = {}
          /\ Go("test")
          /\ UNCHANGED <<inbox, next>>
    /\ UNCHANGED <<sflag, cur, clients, log, joined, srvq, users>>

\* Mutant: no goodbye is sent.
DeregisterSilently ==
    /\ srv = "stop" /\ cur.id \in Entry
    /\ clients' = [clients EXCEPT ![cur.id] = NoClient]
    /\ Go("test")
    /\ UNCHANGED <<sflag, cur, next, log, joined, srvq, inbox, users>>

\* STOP from an identifier that was never set reads beside the array: the entry
\* found there may pass for a free one, or mq_send to it fails.
Deregister ==
    /\ srv = "stop"
    /\ \/ /\ cur.id \in Entry /\ clients[cur.id] # NoClient
          /\ Send(clients[cur.id], cur)
          /\ clients' = [clients EXCEPT ![cur.id] = NoClient]
          /\ Go("test")
       \/ /\ cur.id \in Entry => clients[cur.id] = NoClient
          /\ srv' \in {"test"} \cup (IF cur.id \in Entry THEN {} ELSE {"failed"})
          /\ UNCHANGED <<inbox, clients>>
    /\ UNCHANGED <<sflag, cur, next, log, joined, srvq, users>>

\* SIGINT.  A blocked mq_receive fails, which is not looked at: the last message
\* is handled again (before the first one recive_msg is not initialised: nothing
\* happens, or mq_open of no name fails).  A blocked mq_send fails: the relay
\* goes on to the next client, a goodbye or an identifier is given up.
ServerInterrupt ==
    /\ sflag /\ srv \notin {"exited", "failed"}
    /\ sflag' = FALSE
    /\ \/ UNCHANGED <<srv, cur, next, log, clients>>
       \/ /\ srv = "receive" /\ srvq = <<>>
          /\ \/ cur # NoMsg /\ Dispatch(cur)
             \/ cur = NoMsg /\ srv' \in {"test", "failed"} /\ UNCHANGED <<cur, next, log>>
          /\ UNCHANGED clients
       \/ /\ srv = "relay" /\ Rest # {}
          /\ Len(inbox[clients[Least(Rest)]]) = QueueSize
          /\ next' = Least(Rest) + 1
          /\ UNCHANGED <<srv, cur, log, clients>>
       \/ /\ srv = "stop" /\ cur.id \in Entry /\ clients[cur.id] # NoClient
          /\ Len(inbox[clients[cur.id]]) = QueueSize
          /\ Go("failed")
          /\ UNCHANGED <<cur, next, log, clients>>
       \/ /\ srv = "init" /\ Free # {} /\ pc[cur.from] # "done"
          /\ Len(inbox[cur.from]) = QueueSize
          /\ clients' = [clients EXCEPT ![Least(Free)] = cur.from]
          /\ Go("test")
          /\ UNCHANGED <<cur, next, log>>
    /\ UNCHANGED <<joined, srvq, inbox, users>>

-----------------------------------------------------------------------------

\* The handler is reset when it runs: a second SIGINT ends the server on the spot.
ServerKilled ==
    /\ ~sflag /\ srv \notin {"exited", "failed"}
    /\ Go("failed")
    /\ UNCHANGED <<sflag, cur, next, log, clients, joined, srvq, inbox, users>>

Process(c) ==
    \/ Connect(c) \/ SendInit(c) \/ Fork(c) \/ ReadId(c) \/ Test(c)
    \/ SendStop(c) \/ Unlink(c) \/ ChildTest(c) \/ ChildReceive(c)

Server == TestFlag \/ ServerReceive \/ Register \/ Relay \/ Deregister

Next == \/ Server \/ ServerInterrupt \/ ServerKilled
        \/ \E c \in Client : Process(c) \/ Type(c) \/ Interrupt(c) \/ Crash(c)

Spec == Init /\ [][Next]_vars

\* Nobody presses Ctrl+C in a client before it knows its identifier.  The code
\* does not see to it: the handler is set before the fork.
Patient == \A c \in Client : flag'[c] # flag[c] => pc[c] \in {"test", "scanf"}

PatientSpec == Init /\ [][Next /\ Patient]_vars

ParentProcess(c) ==
    SendInit(c) \/ Fork(c) \/ ReadId(c) \/ Test(c) \/ SendStop(c) \/ Unlink(c)

\* Processes that can run do; users need not type, nobody need press Ctrl+C.
\* Of the parent's steps only mq_send can be disabled again, by another sender
\* that fills the queue; senders are served in order, hence SF.
FairSpec ==
    /\ Spec
    /\ WF_vars(Server)
    /\ \A c \in Client : /\ SF_vars(ParentProcess(c))
                         /\ WF_vars(ChildTest(c) \/ ChildReceive(c))

-----------------------------------------------------------------------------
(* Properties *)

MsgType == {"INIT", "IDENTIFIER", "MESSAGE", "STOP"}
Message == [type : MsgType, id : Entry \cup {Unset}, from : Client \cup {NoClient}]

TypeOK ==
    /\ srv \in {"test", "receive", "init", "relay", "stop", "exited", "failed"}
    /\ cur \in Message \cup {NoMsg}
    /\ next \in 0 .. Slots
    /\ clients \in [Entry -> Client \cup {NoClient}]
    /\ Len(srvq) <= QueueSize
    /\ \A c \in Client : Len(inbox[c]) <= QueueSize
    /\ pc \in [Client -> {"off", "init", "fork", "read", "test", "scanf", "stop",
                          "wait", "done", "failed", "dead"}]
    /\ child \in [Client -> {"off", "test", "receive", "exited"}]
    /\ client_id \in [Client -> Entry \cup {Unset}]
    /\ srv = "relay" => cur.type = "MESSAGE"
    /\ srv = "stop" => cur.type = "STOP"

\* A client that chats owns the slot its identifier names: two clients are never
\* given one slot, and no STOP takes the slot of somebody else.
OwnSlot ==
    \A c \in Client :
        pc[c] \in {"test", "scanf", "stop"} => clients[client_id[c]] = c

\* What line 95 of server.c prints, "Klient %d opuscil serwer" (client %d left
\* the server), is true: a slot is freed by the client that has it.
LeavesItself ==
    [][\A s \in Entry : clients[s] # NoClient /\ clients'[s] # clients[s] =>
           cur.from = clients[s]]_vars

\* The members of S in sequence s, in their order.
Keep(s, S) ==
    LET kept[n \in 0 .. Len(s)] ==
            IF n = 0 THEN <<>>
            ELSE IF s[n] \in S THEN Append(kept[n - 1], s[n]) ELSE kept[n - 1]
    IN  kept[Len(s)]

\* What the clients C say.
Texts(C) == [type : {"MESSAGE"}, id : Entry \cup {Unset}, from : C]

\* Messages for c, received and still queued.
Delivered(c) == got[c] \o Keep(inbox[c], Texts(Client))

\* The messages client c, in slot s, is to have by now: what the server took
\* since c joined, save the one it is handing round if it has yet to come to s.
Due(s, c) ==
    LET pending == IF srv = "relay" /\ s >= next THEN 1 ELSE 0
    IN  Keep(SubSeq(log, joined[c] + 1, Len(log) - pending), Texts(Client \ {c}))

\* Every client in the array gets the same conversation: all messages the server
\* took since it joined, except its own, each once and in one order for all.
SameConversation ==
    sflag => \A s \in Id : clients[s] # NoClient =>
        Delivered(clients[s]) = Due(s, clients[s])

\* A queue that is full and has no reader left blocks whoever sends to it.
Jammed == \E c \in Client : child[c] = "exited" /\ Len(inbox[c]) = QueueSize

\* Nobody has pressed Ctrl+C in a client that does not know its identifier.
NobodyHasty == \A c \in Client : pc[c] \in {"fork", "read"} => flag[c]

\* Who wants to leave can: as long as nobody is interrupted too early, and
\* unless the server is down, or stuck on the full queue of a client that no
\* longer reads, the STOP is answered and the client ends.
LeavingEnds ==
    []NobodyHasty =>
        \A c \in Client :
            pc[c] = "stop" ~> \/ pc[c] \in {"done", "dead"}
                              \/ srv \in {"exited", "failed"}
                              \/ Jammed
=============================================================================
