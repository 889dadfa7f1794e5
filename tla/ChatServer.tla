----------------------------- MODULE ChatServer -----------------------------
(***************************************************************************)
(* The TCP chat server of cw11 (server.c) with the clients that talk to it *)
(* (client.c).  The server is one process: main accepts connections and    *)
(* registers them in the array clients[], one client_handler thread serves *)
(* each registration, alive_checker starts a check_alive thread for every  *)
(* active slot every ten seconds.  clients_mutex guards the array, but not *)
(* every access to it; recv_mutex of a slot guards reading its socket.     *)
(* Two block while they hold clients_mutex: main in the recv of a name,    *)
(* and a handler in the send of a text.  The other critical sections of    *)
(* clients_mutex are single steps.                                         *)
(***************************************************************************)
EXTENDS Integers, FiniteSets, Sequences, SequencesExt

CONSTANTS Conn,         \* runs of client.c; each connects once
          NoConn,
          NameOf,       \* NameOf[c]: argv[1] of c, a sequence of characters
          MAX_CLIENTS,
          Rounds,       \* bound: check_alive threads of one slot at a time
          MaxLines,     \* bound: lines typed, by all users together
          SocketCap     \* bound: chunks a socket buffers in one direction

ASSUME ChatAssumption ==
    /\ IsFiniteSet(Conn)
    /\ NoConn \notin Conn
    /\ MAX_CLIENTS \in Nat \ {0}
    /\ IsFiniteSet(Rounds)
    /\ MaxLines \in Nat
    /\ SocketCap \in Nat

Slot == 0 .. MAX_CLIENTS - 1
Fd == 0 .. Cardinality(Conn)          \* 0 is no socket: clients[] starts zeroed

\* A chunk is what one send puts on the wire: a command of client.c, or a name.
Chunk(cmd, to, c) == [cmd |-> cmd, to |-> to, by |-> c]
Nothing == Chunk("none", <<>>, NoConn)     \* recv returned 0 or -1
\* What a client receives: from is the name the server puts before the text,
\* by the client whose text it is.
Line(kind, from, c) == [kind |-> kind, from |-> from, by |-> c]
Alive == Line("ALIVE", <<>>, NoConn)

VARIABLES
    client,      \* state of each client process
    lines,       \* lines typed so far
    backlog,     \* connections not yet accepted
    up, down,    \* chunks on their way to the server, to the client
    reset,       \* connections a segment of which the dead client answered by RST
    fds,         \* the descriptor table of the server
    active, sock, name, lock,         \* clients[i].active, socket_fd, name, recv_mutex held
    num_clients,
    main, new_fd, i,                  \* main: next call, client_socket_fd, i
    guest,                            \* the connection main is registering
    hpc, hidx, hname, hbuf,           \* client_handler threads, one per connection
    check,                            \* check_alive threads
    owner,                            \* history: connection last registered in a slot
    label,                            \* history: name a connection was registered under
    struck,                           \* history: connections closed by a thread at work
                                      \* on a slot that is not theirs
    killed                            \* the server died

net == <<client, lines, backlog, up, down, reset>>
registry == <<active, sock, name, num_clients>>
acceptor == <<main, new_fd, i, guest, owner, label>>
handlers == <<hpc, hidx, hname, hbuf>>
vars == <<net, fds, registry, lock, acceptor, handlers, check, struck, killed>>

Init ==
    /\ client = [c \in Conn |-> "off"]
    /\ lines = 0
    /\ backlog = <<>>
    /\ up = [c \in Conn |-> <<>>]
    /\ down = [c \in Conn |-> <<>>]
    /\ reset = [c \in Conn |-> FALSE]
    /\ fds = [f \in Fd |-> NoConn]
    /\ active = [s \in Slot |-> FALSE]
    /\ sock = [s \in Slot |-> 0]
    /\ name = [s \in Slot |-> <<>>]
    /\ lock = [s \in Slot |-> FALSE]
    /\ num_clients = 0
    /\ main = "accept" /\ new_fd = 0 /\ i = 0 /\ guest = NoConn
    /\ hpc = [c \in Conn |-> "off"]
    /\ hidx = [c \in Conn |-> 0]
    /\ hname = [c \in Conn |-> <<>>]
    /\ hbuf = [c \in Conn |-> Nothing]
    /\ check = [s \in Slot |-> [k \in Rounds |-> "idle"]]
    /\ owner = [s \in Slot |-> NoConn]
    /\ label = [c \in Conn |-> <<>>]
    /\ struck = {}
    /\ killed = FALSE

-----------------------------------------------------------------------------
(* Clients *)

Connect(c) ==
    /\ client[c] = "off"
    /\ client' = [client EXCEPT ![c] = "connected"]
    /\ backlog' = Append(backlog, c)
    /\ UNCHANGED <<lines, up, down, reset>>

SendName(c) ==
    /\ client[c] = "connected"
    /\ client' = [client EXCEPT ![c] = "chatting"]
    /\ up' = [up EXCEPT ![c] = Append(@, Chunk("NAME", <<>>, c))]
    /\ UNCHANGED <<lines, backlog, down, reset>>

\* A line of the user goes out as it was typed; the server knows these three.
SendLine(c) ==
    /\ client[c] = "chatting"
    /\ lines < MaxLines
    /\ Len(up[c]) < SocketCap
    /\ lines' = lines + 1
    /\ \E m \in {Chunk("2ALL", <<>>, c), Chunk("LIST", <<>>, c)}
                  \cup {Chunk("2ONE", NameOf[d], c) : d \in Conn \ {c}} :
           up' = [up EXCEPT ![c] = Append(@, m)]
    /\ UNCHANGED <<client, backlog, down, reset>>

\* recv returns what has arrived, one chunk or several run together: only an
\* ALIVE that comes alone is recognised and answered.
Receive(c) ==
    /\ client[c] = "chatting"
    /\ \E k \in 1 .. Len(down[c]) :
         /\ down' = [down EXCEPT ![c] = SubSeq(@, k + 1, Len(@))]
         /\ up' = IF k = 1 /\ Head(down[c]) = Alive
                  THEN [up EXCEPT ![c] = Append(@, Chunk("ALIVE_response", <<>>, c))]
                  ELSE up
    /\ UNCHANGED <<client, lines, backlog, reset>>

\* Closing a socket with unread input resets the connection at once.
Close(c) ==
    /\ client' = [client EXCEPT ![c] = "gone"]
    /\ down' = [down EXCEPT ![c] = <<>>]
    /\ reset' = [reset EXCEPT ![c] = down[c] # <<>>]

Interrupt(c) ==
    /\ client[c] = "chatting"
    /\ up' = [up EXCEPT ![c] = Append(@, Chunk("STOP", <<>>, c))]
    /\ Close(c)
    /\ UNCHANGED <<lines, backlog>>

Crash(c) ==
    /\ client[c] \in {"connected", "chatting"}
    /\ Close(c)
    /\ UNCHANGED <<lines, backlog, up>>

Client(c) ==
    /\ \/ Connect(c) \/ SendName(c) \/ SendLine(c) \/ Receive(c)
       \/ Interrupt(c) \/ Crash(c)
    /\ UNCHANGED <<fds, registry, lock, acceptor, handlers, check, struck, killed>>

-----------------------------------------------------------------------------
(* Sockets as the server sees them *)

\* clients_mutex
MutexFree == main \notin {"scan", "name"} /\ \A c \in Conn : hpc[c] # "send"

\* read or recv on descriptor f: take the next k chunks, or get nothing because
\* of the timeout, the end of the stream or a descriptor that is not open.
Read(f, k) == /\ fds[f] # NoConn
              /\ k \in 1 .. Len(up[fds[f]])
              /\ up' = [up EXCEPT ![fds[f]] = SubSeq(@, k + 1, Len(@))]
              /\ UNCHANGED <<client, lines, backlog, down, reset>>
Empty(f) == fds[f] # NoConn => up[fds[f]] = <<>>

\* send of m to the socket of every slot in T.  Sending to a client that is gone
\* gets a RST back; sending once more may raise SIGPIPE, which nobody catches.
Deliver(T, m) ==
    LET hits(c) == Cardinality({s \in T : fds[sock[s]] = c})
    IN /\ \A c \in Conn : client[c] # "gone" => Len(down[c]) + hits(c) <= SocketCap
       /\ down' = [c \in Conn |-> IF client[c] = "gone" THEN down[c]
                                  ELSE down[c] \o [n \in 1 .. hits(c) |-> m]]
       /\ reset' = [c \in Conn |-> reset[c] \/ (client[c] = "gone" /\ hits(c) > 0)]
       /\ killed' \in {FALSE, \E c \in Conn : reset[c] /\ hits(c) > 0}
       /\ UNCHANGED <<client, lines, backlog, up>>

CloseFd(f) == fds' = [fds EXCEPT ![f] = NoConn]

\* A thread at work on slot s closes its socket, whoever has the descriptor now.
CloseSlot(s) ==
    /\ CloseFd(sock[s])
    /\ struck' = struck \cup ({fds[sock[s]]} \ {owner[s], NoConn})

\* Mutant: num_clients is not decremented.
UnregisterUncounted(s) ==
    /\ MutexFree
    /\ active' = [active EXCEPT ![s] = FALSE]
    /\ UNCHANGED <<num_clients, sock, name>>

\* Mutant: active is not cleared.
UnregisterActive(s) ==
    /\ MutexFree
    /\ num_clients' = num_clients - 1
    /\ UNCHANGED <<active, sock, name>>

\* The common end of STOP and of a failed check.
Unregister(s) ==
    /\ MutexFree
    /\ active' = [active EXCEPT ![s] = FALSE]
    /\ num_clients' = num_clients - 1
    /\ UNCHANGED <<sock, name>>

-----------------------------------------------------------------------------
(* main *)

\* accept returns the lowest descriptor that is not open.
Accept ==
    /\ main = "accept" /\ backlog # <<>>
    /\ guest' = Head(backlog)
    /\ backlog' = Tail(backlog)
    /\ new_fd' = CHOOSE f \in Fd \ {0} :
                   /\ fds[f] = NoConn
                   /\ \A g \in Fd \ {0} : fds[g] = NoConn => f <= g
    /\ fds' = [fds EXCEPT ![new_fd'] = guest']
    /\ main' = "lock"
    /\ UNCHANGED <<client, lines, up, down, reset, registry, lock, i, owner, label,
                   handlers>>

Refuse ==
    /\ main = "lock" /\ MutexFree /\ num_clients >= MAX_CLIENTS
    /\ CloseFd(new_fd)
    /\ main' = "accept"
    /\ UNCHANGED <<net, registry, lock, new_fd, i, guest, owner, label, handlers>>

Admit ==
    /\ main = "lock" /\ MutexFree /\ num_clients < MAX_CLIENTS
    /\ i' = 0
    /\ main' = "scan"
    /\ UNCHANGED <<net, fds, registry, lock, new_fd, guest, owner, label, handlers>>

\* One turn of the search for an inactive slot; if there is none the loop ends
\* and the socket stays open, registered nowhere.
Scan ==
    /\ main = "scan"
    /\ \/ /\ i = MAX_CLIENTS
          /\ main' = "accept"
          /\ UNCHANGED <<i, sock>>
       \/ /\ i < MAX_CLIENTS /\ active[i]
          /\ i' = i + 1
          /\ UNCHANGED <<main, sock>>
       \/ /\ i < MAX_CLIENTS /\ ~active[i]
          /\ sock' = [sock EXCEPT ![i] = new_fd]
          /\ main' = "name"
          /\ UNCHANGED i
    /\ UNCHANGED <<net, fds, active, name, num_clients, lock, new_fd, guest,
                   owner, label, handlers>>

\* recv of the name, under clients_mutex.  The bytes go over the start of what
\* the slot's last user left, without a terminating zero; a command that arrives
\* with the name becomes part of it.  A peer that has closed leaves name as it was.
Text(m) == IF m.cmd = "NAME" THEN NameOf[m.by] ELSE <<m.cmd>>
Overwrite(old, new) == new \o SubSeq(old, Len(new) + 1, Len(old))

\* Mutant: clients_mutex is not unlocked after the registration.
RecvNameLocked ==
    /\ main = "name"
    /\ fds[new_fd] # NoConn
    /\ up[fds[new_fd]] # <<>>
    /\ Read(new_fd, 1)
    /\ name' = [name EXCEPT ![i] = Text(Head(up[fds[new_fd]]))]
    /\ active' = [active EXCEPT ![i] = TRUE]
    /\ num_clients' = num_clients + 1
    /\ hpc' = [hpc EXCEPT ![guest] = "start"]
    /\ UNCHANGED <<fds, sock, lock, main, new_fd, i, guest, owner, label,
                   hidx, hname, hbuf>>

RecvName ==
    /\ main = "name"
    /\ \/ \E k \in 1 .. SocketCap :
            /\ Read(new_fd, k)
            /\ name' = [name EXCEPT ![i] = Overwrite(@, FlattenSeq(
                            [n \in 1 .. k |-> Text(up[fds[new_fd]][n])]))]
       \/ /\ Empty(new_fd)
          /\ fds[new_fd] # NoConn => client[fds[new_fd]] = "gone"
          /\ UNCHANGED <<net, name>>
    /\ active' = [active EXCEPT ![i] = TRUE]
    /\ lock' = [lock EXCEPT ![i] = FALSE]
    /\ num_clients' = num_clients + 1
    /\ owner' = [owner EXCEPT ![i] = guest]
    /\ label' = [label EXCEPT ![guest] = name'[i]]
    /\ hpc' = [hpc EXCEPT ![guest] = "start"]
    /\ main' = "accept"
    /\ UNCHANGED <<fds, sock, new_fd, i, guest, hidx, hname, hbuf>>

Main == /\ \/ Accept \/ Refuse \/ Admit \/ Scan \/ RecvName
        /\ UNCHANGED <<check, struck, killed>>

-----------------------------------------------------------------------------
(* client_handler: c is the connection the thread was created for *)

Goto(c, l) == hpc' = [hpc EXCEPT ![c] = l]

\* The thread ends and its variables with it.
Exit(c) == /\ Goto(c, "done")
           /\ hidx' = [hidx EXCEPT ![c] = 0]
           /\ hname' = [hname EXCEPT ![c] = <<>>]
           /\ hbuf' = [hbuf EXCEPT ![c] = Nothing]

\* Mutant: the thread takes the name of slot 0.
HStartFirstName(c) ==
    /\ hpc[c] = "start" /\ i \in Slot
    /\ hidx' = [hidx EXCEPT ![c] = i]
    /\ hname' = [hname EXCEPT ![c] = name[0]]
    /\ Goto(c, "lock")
    /\ UNCHANGED <<net, fds, registry, lock, hbuf, struck, killed>>

\* The argument is the address of main's loop variable: the thread takes the
\* slot that variable names by the time it runs.  One past the array lie
\* num_clients and clients_mutex, and zeros: what the thread takes for a
\* descriptor is the number of any, its recv may swallow what is there, and it
\* finds active = 0 and ends, unless the memory ends first.
HStart(c) ==
    /\ hpc[c] = "start"
    /\ \/ /\ i \in Slot
          /\ hidx' = [hidx EXCEPT ![c] = i]
          /\ hname' = [hname EXCEPT ![c] = name[i]]
          /\ Goto(c, "lock")
          /\ UNCHANGED <<net, hbuf, killed>>
       \/ /\ i \notin Slot
          /\ UNCHANGED net \/ \E f \in Fd, k \in 1 .. SocketCap : Read(f, k)
          /\ Exit(c)
          /\ killed' \in BOOLEAN
    /\ UNCHANGED <<fds, registry, lock, struck>>

HLock(c) ==
    /\ hpc[c] = "lock"
    /\ ~lock[hidx[c]]
    /\ lock' = [lock EXCEPT ![hidx[c]] = TRUE]
    /\ Goto(c, "recv")
    /\ UNCHANGED <<net, fds, registry, hidx, hname, hbuf, struck, killed>>

\* Only the command at the start of the buffer is looked at: what arrived
\* together with it is lost.
HRecv(c) ==
    /\ hpc[c] = "recv"
    /\ \/ \E k \in 1 .. SocketCap :
            /\ Read(sock[hidx[c]], k)
            /\ hbuf' = [hbuf EXCEPT ![c] = Head(up[fds[sock[hidx[c]]]])]
       \/ /\ Empty(sock[hidx[c]])
          /\ hbuf' = [hbuf EXCEPT ![c] = Nothing]
          /\ UNCHANGED net
    /\ lock' = [lock EXCEPT ![hidx[c]] = FALSE]
    /\ Goto(c, "check")
    /\ UNCHANGED <<fds, registry, hidx, hname, struck, killed>>

HCheck(c) ==
    /\ hpc[c] = "check"
    /\ \/ ~active[hidx[c]] /\ Exit(c)
       \/ /\ active[hidx[c]]
          /\ Goto(c, CASE hbuf[c].cmd = "STOP" -> "stop"
                       [] hbuf[c].cmd \in {"2ALL", "2ONE", "LIST"} -> "act"
                       [] OTHER -> "lock")
          /\ UNCHANGED <<hidx, hname>>
          /\ hbuf' = IF hpc'[c] = "act" THEN hbuf ELSE [hbuf EXCEPT ![c] = Nothing]
    /\ UNCHANGED <<net, fds, registry, lock, struck, killed>>

\* Under clients_mutex: a text keeps it while it is sent, the list is only
\* written down under it.
HAct(c) ==
    /\ hpc[c] = "act" /\ MutexFree
    /\ Goto(c, IF hbuf[c].cmd = "LIST" THEN "reply" ELSE "send")
    /\ UNCHANGED <<net, fds, registry, lock, hidx, hname, hbuf, struck, killed>>

\* send_to_all and send_to_one pick the receivers by comparing names.
Named(n) == {s \in Slot : active[s] /\ name[s] = n}
First(S) == {s \in S : \A t \in S : s <= t}

\* The sends of one text are one step, taken when none of them blocks: the
\* registered slots and their names cannot change under the mutex meanwhile.
HSend(c) ==
    /\ \/ /\ hpc[c] = "send" /\ hbuf[c].cmd = "2ALL"
          /\ Deliver({s \in Slot : active[s]} \ Named(hname[c]),
                     Line("2ALL", hname[c], hbuf[c].by))
       \/ /\ hpc[c] = "send" /\ hbuf[c].cmd = "2ONE"
          /\ Deliver(First(Named(hbuf[c].to)), Line("2ONE", hname[c], hbuf[c].by))
       \/ /\ hpc[c] = "reply"
          /\ Deliver({hidx[c]}, Line("LIST", <<>>, NoConn))
    /\ Goto(c, "lock")
    /\ hbuf' = [hbuf EXCEPT ![c] = Nothing]
    /\ UNCHANGED <<fds, registry, lock, hidx, hname, struck>>

HStop(c) ==
    /\ hpc[c] = "stop"
    /\ CloseSlot(hidx[c])
    /\ Goto(c, "clear")
    /\ UNCHANGED <<net, registry, lock, hidx, hname, hbuf, killed>>

HClear(c) ==
    /\ hpc[c] = "clear"
    /\ Unregister(hidx[c])
    /\ Exit(c)
    /\ UNCHANGED <<net, fds, lock, struck, killed>>

Handler(c) ==
    /\ \/ HStart(c) \/ HLock(c) \/ HRecv(c) \/ HCheck(c) \/ HAct(c)
       \/ HSend(c) \/ HStop(c) \/ HClear(c)
    /\ UNCHANGED <<acceptor, check>>

-----------------------------------------------------------------------------
(* alive_checker and the check_alive threads it starts *)

Step(s, k, l) == check' = [check EXCEPT ![s][k] = l]

AliveRound ==
    /\ MutexFree
    /\ \A s \in Slot : active[s] => \E k \in Rounds : check[s][k] = "idle"
    /\ check' = [s \in Slot |->
           IF active[s]
           THEN [check[s] EXCEPT ![CHOOSE k \in Rounds : check[s][k] = "idle"] = "lock"]
           ELSE check[s]]
    /\ UNCHANGED <<net, fds, registry, lock, struck, killed>>

\* Mutant: the check does not wait for recv_mutex.
CLockFree(s, k) ==
    /\ check[s][k] = "lock"
    /\ lock' = [lock EXCEPT ![s] = TRUE]
    /\ Step(s, k, "send")
    /\ UNCHANGED <<net, fds, registry, struck, killed>>

CLock(s, k) ==
    /\ check[s][k] = "lock"
    /\ ~lock[s]
    /\ lock' = [lock EXCEPT ![s] = TRUE]
    /\ Step(s, k, "send")
    /\ UNCHANGED <<net, fds, registry, struck, killed>>

CSend(s, k) ==
    /\ check[s][k] = "send"
    /\ Deliver({s}, Alive)
    /\ Step(s, k, "read")
    /\ UNCHANGED <<fds, registry, lock, struck>>

\* Mutant: a result of 0 passes for an answer, only -1 closes the socket.
CReadZero(s, k) ==
    /\ check[s][k] = "read"
    /\ \/ /\ \E n \in 1 .. SocketCap : Read(sock[s], n)
          /\ Step(s, k, "idle")
       \/ /\ Empty(sock[s])
          /\ Step(s, k, IF fds[sock[s]] = NoConn THEN "close" ELSE "idle")
          /\ UNCHANGED net
    /\ lock' = [lock EXCEPT ![s] = FALSE]
    /\ UNCHANGED <<fds, registry, struck, killed>>

\* Whatever the client sent counts as its answer and is thrown away.
CRead(s, k) ==
    /\ check[s][k] = "read"
    /\ \/ /\ \E n \in 1 .. SocketCap : Read(sock[s], n)
          /\ Step(s, k, "idle")
       \/ /\ Empty(sock[s])
          /\ Step(s, k, "close")
          /\ UNCHANGED net
    /\ lock' = [lock EXCEPT ![s] = FALSE]
    /\ UNCHANGED <<fds, registry, struck, killed>>

CClose(s, k) ==
    /\ check[s][k] = "close"
    /\ CloseSlot(s)
    /\ Step(s, k, "clear")
    /\ UNCHANGED <<net, registry, lock, killed>>

CClear(s, k) ==
    /\ check[s][k] = "clear"
    /\ Unregister(s)
    /\ Step(s, k, "idle")
    /\ UNCHANGED <<net, fds, lock, struck, killed>>

Check(s, k) ==
    CLock(s, k) \/ CSend(s, k) \/ CRead(s, k) \/ CClose(s, k) \/ CClear(s, k)

Checker == /\ AliveRound \/ \E s \in Slot, k \in Rounds : Check(s, k)
           /\ UNCHANGED <<acceptor, handlers>>

-----------------------------------------------------------------------------

Server == ~killed /\ (Main \/ Checker \/ \E c \in Conn : Handler(c))

Next == Server \/ \E c \in Conn : Client(c)

Spec == Init /\ [][Next]_vars

(* What the server has in place of waiting for its threads: a new client       *)
(* usually comes long after the threads of the last one that left are through. *)

\* Every thread at work serves a registered slot whose socket is open.
Served(s) == active[s] /\ fds[sock[s]] # NoConn
Quiet == /\ \A c \in Conn : hpc[c] \notin {"off", "done"} =>
                hpc[c] # "start" /\ Served(hidx[c])
         /\ \A s \in Slot, k \in Rounds : check[s][k] # "idle" => Served(s)
Calm == main' # main /\ main' \in {"lock", "scan"} => Quiet

CalmSpec == Init /\ [][Next /\ Calm]_vars

FairCalmSpec ==
    /\ CalmSpec
    /\ \A c \in Conn : /\ WF_vars(~killed /\ Handler(c))
                       /\ WF_vars(SendName(c) /\ Client(c))
                       /\ WF_vars(Receive(c) /\ Client(c))
    /\ WF_vars(~killed /\ (Scan \/ RecvName) /\ Main)
    /\ WF_vars(~killed /\ AliveRound /\ Checker)
    /\ \A s \in Slot, k \in Rounds : /\ SF_vars(~killed /\ CLock(s, k) /\ Checker)
                                     /\ WF_vars(~killed /\ Check(s, k) /\ Checker)

-----------------------------------------------------------------------------
(* Properties *)

Cmds == {"2ALL", "2ONE", "LIST", "STOP", "ALIVE_response", "NAME", "none"}
TypeOK ==
    /\ client \in [Conn -> {"off", "connected", "chatting", "gone"}]
    /\ lines \in 0 .. MaxLines
    /\ \A c \in Conn : \A n \in 1 .. Len(up[c]) : up[c][n].cmd \in Cmds \ {"none"}
    /\ \A c \in Conn : Len(down[c]) <= SocketCap
    /\ fds \in [Fd -> Conn \cup {NoConn}]
    /\ active \in [Slot -> BOOLEAN]
    /\ sock \in [Slot -> Fd]
    /\ lock \in [Slot -> BOOLEAN]
    /\ num_clients \in Int
    /\ main \in {"accept", "lock", "scan", "name"}
    /\ i \in 0 .. MAX_CLIENTS
    /\ main = "name" => i \in Slot /\ ~active[i]
    /\ hpc \in [Conn -> {"off", "start", "lock", "recv", "check", "act", "send",
                         "reply", "stop", "clear", "done"}]
    /\ hidx \in [Conn -> 0 .. MAX_CLIENTS]
    /\ \A c \in Conn : hbuf[c].cmd \in Cmds
    /\ check \in [Slot -> [Rounds -> {"idle", "lock", "send", "read", "close", "clear"}]]
    /\ owner \in [Slot -> Conn \cup {NoConn}]
    /\ struck \subseteq Conn

\* num_clients never runs ahead of the array, whatever the threads do: a client
\* is turned away only when every slot is really taken.
CountNeverAhead == num_clients <= Cardinality({s \in Slot : active[s]})

\* A registered slot refers to the connection it was given.  Its descriptor may
\* be closed, and even stand for a newer connection, but only until the thread
\* that closed it clears the slot; or else a thread at work on another slot has
\* closed it, whose own descriptor had been closed and given out again before.
SlotOwnsDescriptor ==
    \A s \in Slot : active[s] =>
        \/ fds[sock[s]] = owner[s]
        \/ \E c \in Conn : hpc[c] = "clear" /\ hidx[c] = s
        \/ \E k \in Rounds : check[s][k] = "clear"
        \/ owner[s] \in struck

\* Under Calm two threads never read the same slot's socket at once, so the
\* answer to an ALIVE cannot be taken by the handler while the check waits for it.
OneReader ==
    \A s \in Slot :
        Cardinality({c \in Conn : hpc[c] = "recv" /\ hidx[c] = s})
          + Cardinality({k \in Rounds : check[s][k] = "read"}) <= 1

\* Under Calm a text reaches a client under the name its sender was registered
\* by, and a 2ALL never comes back to its sender.
Authentic ==
    \A d \in Conn : \A n \in 1 .. Len(down[d]) :
        LET m == down[d][n]
        IN m.by # NoConn => /\ m.from = label[m.by]
                            /\ m.kind = "2ALL" => m.by # d

\* Under Calm the slot of a client that has gone is freed in the end, unless the
\* server dies first of the signal a send to that client raises.
SlotsAreFreed ==
    \A s \in Slot :
        active[s] /\ client[owner[s]] = "gone" ~> ~active[s] \/ killed
=============================================================================
