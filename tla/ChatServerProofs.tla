-------------------------- MODULE ChatServerProofs --------------------------
(***************************************************************************)
(* The safety of ChatServer for every number of slots, of connections and  *)
(* of checks.  Under every interleaving: num_clients never runs ahead of   *)
(* the array clients[], since main, once it has found an inactive slot     *)
(* under clients_mutex, still has an inactive slot when it marks it active *)
(* (Claim); types; and the sockets of registered slots, which only threads *)
(* at work on other slots can close (SlotInv).  Under CalmSpec: such       *)
(* threads are never there (OwnInv), so a socket has one reader (Readers)  *)
(* and texts bear the name of their sender (NamesKept and TextsSigned).    *)
(***************************************************************************)
EXTENDS ChatServer, SequenceTheorems, FiniteSetTheorems, TLAPS

Registered == {s \in Slot : active[s]}

RegistryType == active \in [Slot -> BOOLEAN] /\ num_clients \in Int

\* The slot main looks at, and the one it has found.
Claim == /\ main = "scan" => i \in Nat
         /\ main = "name" => i \in Slot /\ ~active[i]

RegistryInv == RegistryType /\ Claim /\ CountNeverAhead

-----------------------------------------------------------------------------

LEMMA RegisteredFinite ==
    IsFiniteSet(Registered) /\ Cardinality(Registered) \in Nat
<1>1. IsFiniteSet(Slot)
  BY ChatAssumption, FS_Interval DEF Slot
<1>2. Registered \in SUBSET Slot
  BY DEF Registered
<1> QED
  BY <1>1, <1>2, FS_Subset, FS_CardinalityType

LEMMA InitRegistry == Init => RegistryInv
<1> SUFFICES ASSUME Init PROVE RegistryInv
  OBVIOUS
<1>1. CountNeverAhead
  BY RegisteredFinite DEF Init, CountNeverAhead, Registered
<1> QED
  BY <1>1 DEF Init, RegistryInv, RegistryType, Claim

\* A step that touches neither the array nor the count nor main.
LEMMA SameRegistry ==
    ASSUME RegistryInv, active' = active, num_clients' = num_clients,
           main' = main, i' = i
    PROVE  RegistryInv'
BY DEF RegistryInv, RegistryType, Claim, CountNeverAhead, Slot

\* STOP and a failed check take one from the count and at most one slot from
\* the array; doing it twice to one slot takes two from the count.
LEMMA UnregisterRegistry ==
    ASSUME RegistryInv, NEW s, Unregister(s), main' = main, i' = i
    PROVE  RegistryInv'
<1> DEFINE cleared == [active EXCEPT ![s] = FALSE]
<1>1. active \in [Slot -> BOOLEAN] /\ num_clients \in Int
  BY DEF RegistryInv, RegistryType
<1>2. /\ cleared \in [Slot -> BOOLEAN]
      /\ \A t \in Slot : cleared[t] <=> active[t] /\ t # s
  BY <1>1
<1>3. active' = cleared /\ num_clients' = num_clients - 1 /\ MutexFree
  BY DEF Unregister
<1> HIDE DEF cleared
<1>4. RegistryType' /\ Claim'
  <2>1. RegistryType'
    BY <1>1, <1>2, <1>3 DEF RegistryType
  <2>2. Claim'
    BY <1>3 DEF MutexFree, Claim
  <2> QED
    BY <2>1, <2>2
<1>5. Registered' = Registered \ {s}
  BY <1>2, <1>3 DEF Registered, Slot
<1>6. num_clients' <= Cardinality(Registered')
  <2>1. Cardinality(Registered \ {s}) =
            IF s \in Registered THEN Cardinality(Registered) - 1
                               ELSE Cardinality(Registered)
    BY RegisteredFinite, FS_RemoveElement
  <2>2. num_clients <= Cardinality(Registered)
    BY DEF RegistryInv, CountNeverAhead, Registered
  <2> QED
    BY <1>1, <1>3, <1>5, <2>1, <2>2, RegisteredFinite
<1>7. CountNeverAhead'
  BY <1>6 DEF CountNeverAhead, Registered, Slot
<1> QED
  BY <1>4, <1>7 DEF RegistryInv

\* The registration adds one to the count and a slot to the array.
LEMMA RecvNameRegistry == RegistryInv /\ RecvName => RegistryInv'
<1> SUFFICES ASSUME RegistryInv, RecvName PROVE RegistryInv'
  OBVIOUS
<1>1. /\ active' = [active EXCEPT ![i] = TRUE]
      /\ num_clients' = num_clients + 1
      /\ main' = "accept"
      /\ i \in Slot /\ ~active[i]
  BY DEF RecvName, RegistryInv, Claim
<1>2. Registered' = Registered \cup {i} /\ i \notin Registered
  BY <1>1 DEF RegistryInv, RegistryType, Registered
<1>3. Cardinality(Registered') = Cardinality(Registered) + 1
  BY <1>2, RegisteredFinite, FS_AddElement
<1>4. CountNeverAhead'
  <2>1. num_clients' <= Cardinality(Registered')
    BY <1>1, <1>3, RegisteredFinite
       DEF RegistryInv, RegistryType, CountNeverAhead, Registered
  <2> QED
    BY <2>1 DEF CountNeverAhead, Registered, Slot
<1>5. RegistryType' /\ Claim'
  BY <1>1 DEF RegistryInv, RegistryType, Claim
<1> QED
  BY <1>4, <1>5 DEF RegistryInv

LEMMA MainRegistry == RegistryInv /\ Main => RegistryInv'
<1> SUFFICES ASSUME RegistryInv, Main PROVE RegistryInv'
  OBVIOUS
<1>1. CASE RecvName
  BY <1>1, RecvNameRegistry
<1>2. CASE Accept \/ Refuse \/ Admit \/ Scan
  <2>1. active' = active /\ num_clients' = num_clients
    BY <1>2 DEF Accept, Refuse, Admit, Scan, registry
  <2>2. Claim'
    BY <1>2, <2>1, ChatAssumption
       DEF Accept, Refuse, Admit, Scan, RegistryInv, Claim, Slot, RegistryType
  <2> QED
    BY <2>1, <2>2 DEF RegistryInv, RegistryType, CountNeverAhead, Slot
<1> QED
  BY <1>1, <1>2 DEF Main

LEMMA HandlerRegistry ==
    ASSUME RegistryInv, NEW c \in Conn, Handler(c)
    PROVE  RegistryInv'
<1>1. main' = main /\ i' = i
  BY DEF Handler, acceptor
<1>2. CASE HClear(c)
  BY <1>1, <1>2, UnregisterRegistry DEF HClear
<1>3. CASE \/ HStart(c) \/ HLock(c) \/ HRecv(c) \/ HCheck(c) \/ HAct(c)
           \/ HSend(c) \/ HStop(c)
  <2>1. active' = active /\ num_clients' = num_clients
    BY <1>3 DEF HStart, HLock, HRecv, HCheck, HAct, HSend, HStop, registry
  <2> QED
    BY <1>1, <2>1, SameRegistry
<1> QED
  BY <1>2, <1>3 DEF Handler

LEMMA CheckerRegistry == RegistryInv /\ Checker => RegistryInv'
<1> SUFFICES ASSUME RegistryInv, Checker PROVE RegistryInv'
  OBVIOUS
<1>1. main' = main /\ i' = i
  BY DEF Checker, acceptor
<1>2. ASSUME NEW s \in Slot, NEW k \in Rounds, CClear(s, k)
      PROVE  RegistryInv'
  BY <1>1, <1>2, UnregisterRegistry DEF CClear
<1>3. ASSUME AliveRound \/ \E s \in Slot, k \in Rounds :
                 CLock(s, k) \/ CSend(s, k) \/ CRead(s, k) \/ CClose(s, k)
      PROVE  RegistryInv'
  <2>1. active' = active /\ num_clients' = num_clients
    BY <1>3 DEF AliveRound, CLock, CSend, CRead, CClose, registry
  <2> QED
    BY <1>1, <2>1, SameRegistry
<1> QED
  BY <1>2, <1>3 DEF Checker, Check

LEMMA StepRegistry == RegistryInv /\ [Next]_vars => RegistryInv'
<1> SUFFICES ASSUME RegistryInv, [Next]_vars PROVE RegistryInv'
  OBVIOUS
<1>1. CASE Server
  BY <1>1, MainRegistry, HandlerRegistry, CheckerRegistry DEF Server
<1>2. ASSUME NEW c \in Conn, Client(c)
      PROVE  RegistryInv'
  BY <1>2, SameRegistry DEF Client, registry, acceptor
<1>3. CASE UNCHANGED vars
  BY <1>3, SameRegistry DEF vars, registry, acceptor
<1> QED
  BY <1>1, <1>2, <1>3 DEF Next

\* num_clients is at most the number of registered slots, so a client is turned
\* away only when every slot is taken: however often STOP and checks race.
THEOREM NeverAhead == Spec => []CountNeverAhead
<1>1. RegistryInv => CountNeverAhead
  BY DEF RegistryInv
<1> QED
  BY InitRegistry, StepRegistry, <1>1, PTL DEF Spec

-----------------------------------------------------------------------------
(* Types.  NetType is about the wires and their two ends, RegType about what *)
(* the server keeps; beside TypeOK both hold the types of the variables that *)
(* no property is about.  accept finds a free descriptor because every open  *)
(* one belongs to another connection, and none to the one it accepts.        *)

\* The names a client may send to.
Names == {<<>>} \cup {NameOf[d] : d \in Conn}

Chunks == [cmd : Cmds \ {"none"}, to : Names, by : Conn]

NetType ==
    /\ client \in [Conn -> {"off", "connected", "chatting", "gone"}]
    /\ lines \in 0 .. MaxLines
    /\ up \in [Conn -> Seq(Chunks)]
    /\ \A c \in Conn : \A n \in 1 .. Len(up[c]) : up[c][n].by = c
    /\ \E S : down \in [Conn -> Seq(S)]
    /\ \A c \in Conn : Len(down[c]) <= SocketCap
    /\ \A c \in Conn : client[c] = "gone" => down[c] = <<>>

Labels == {"off", "start", "lock", "recv", "check", "act", "send", "reply", "stop",
           "clear", "done"}
Rests == {"idle", "lock", "send", "read", "close", "clear"}

RegType ==
    /\ backlog \in Seq(Conn)
    /\ fds \in [Fd -> Conn \cup {NoConn}]
    /\ active \in [Slot -> BOOLEAN]
    /\ sock \in [Slot -> Fd]
    /\ lock \in [Slot -> BOOLEAN]
    /\ num_clients \in Int
    /\ main \in {"accept", "lock", "scan", "name"}
    /\ new_fd \in Fd
    /\ i \in 0 .. MAX_CLIENTS
    /\ main = "name" => i \in Slot /\ ~active[i]
    /\ guest \in Conn \cup {NoConn}
    /\ hpc \in [Conn -> Labels]
    /\ hidx \in [Conn -> 0 .. MAX_CLIENTS]
    /\ \A c \in Conn : hpc[c] \notin {"off", "start", "done"} => hidx[c] \in Slot
    /\ hbuf \in [Conn -> Chunks \cup {Nothing}]
    /\ check \in [Slot -> [Rounds -> Rests]]
    /\ owner \in [Slot -> Conn \cup {NoConn}]
    /\ struck \in SUBSET Conn

\* Every open descriptor belongs to a connection of its own, which has been
\* accepted; a connection waits in the backlog once.
Arrivals ==
    /\ fds[0] = NoConn
    /\ \A f, g \in Fd : fds[f] = fds[g] /\ fds[f] # NoConn => f = g
    /\ \A n \in 1 .. Len(backlog) : \A f \in Fd : fds[f] # backlog[n]
    /\ \A m, n \in 1 .. Len(backlog) : backlog[m] = backlog[n] => m = n
    /\ \A c \in Conn : client[c] = "off" =>
           /\ \A n \in 1 .. Len(backlog) : backlog[n] # c
           /\ \A f \in Fd : fds[f] # c

TypeInv == NetType /\ RegType /\ Arrivals

-----------------------------------------------------------------------------

LEMMA TypesImplied == TypeInv => TypeOK
<1> SUFFICES ASSUME TypeInv PROVE TypeOK
  OBVIOUS
<1>1. \A c \in Conn : \A n \in 1 .. Len(up[c]) : up[c][n].cmd \in Cmds \ {"none"}
  <2> TAKE c \in Conn
  <2> TAKE n \in 1 .. Len(up[c])
  <2>1. up[c] \in Seq(Chunks)
    BY DEF TypeInv, NetType
  <2>2. up[c][n] \in Chunks
    BY <2>1
  <2> QED
    BY <2>2 DEF Chunks
<1>2. \A c \in Conn : hbuf[c].cmd \in Cmds
  BY DEF TypeInv, RegType, Chunks, Nothing, Chunk, Cmds
<1> QED
  BY <1>1, <1>2 DEF TypeInv, NetType, RegType, TypeOK, Labels, Rests

LEMMA FdRange == Fd = 0 .. Cardinality(Conn) /\ Cardinality(Conn) \in Nat /\ 0 \in Fd
BY ChatAssumption, FS_CardinalityType DEF Fd

LEMMA SlotRange == IsFiniteSet(Slot) /\ \A s \in Slot : s \in Nat /\ s \in 0 .. MAX_CLIENTS
BY ChatAssumption, FS_Interval DEF Slot

LEMMA InitTypes == Init => TypeInv
<1> SUFFICES ASSUME Init PROVE TypeInv
  OBVIOUS
<1>1. NetType
  <2>1. down \in [Conn -> Seq({})] /\ up \in [Conn -> Seq(Chunks)]
    BY DEF Init
  <2> QED
    BY <2>1, ChatAssumption DEF Init, NetType
<1>2. RegType
  BY ChatAssumption, FdRange DEF Init, RegType, Labels, Rests, Slot
<1>3. Arrivals
  BY FdRange, ChatAssumption DEF Init, Arrivals
<1> QED
  BY <1>1, <1>2, <1>3 DEF TypeInv

\* There is a descriptor that is not open when a new connection comes.
LEMMA FreeFd ==
    ASSUME TypeInv, backlog # <<>>
    PROVE  \E f \in Fd \ {0} : fds[f] = NoConn
<1> DEFINE N == Cardinality(Conn)
           Others == Conn \ {Head(backlog)}
<1>1. Head(backlog) \in Conn /\ 1 \in 1 .. Len(backlog) /\ Head(backlog) = backlog[1]
  BY DEF TypeInv, RegType
<1>2. IsFiniteSet(Others) /\ Cardinality(Others) = N - 1 /\ N \in Nat
  BY <1>1, ChatAssumption, FS_RemoveElement, FS_CardinalityType
<1>3. IsFiniteSet(1 .. N) /\ Cardinality(1 .. N) = N
  <2>1. N > 0
    BY <1>1, <1>2, ChatAssumption, FS_EmptySet
  <2> QED
    BY <1>2, <2>1, FS_Interval
<1> SUFFICES ASSUME \A f \in Fd \ {0} : fds[f] # NoConn
             PROVE  FALSE
  OBVIOUS
<1>4. \A f \in 1 .. N : f \in Fd \ {0}
  BY <1>2 DEF Fd
<1> DEFINE F == [f \in 1 .. N |-> fds[f]]
<1>5. F \in [1 .. N -> Others]
  BY <1>1, <1>4 DEF TypeInv, RegType, Arrivals
<1>6. \E f, g \in 1 .. N : f # g /\ F[f] = F[g]
  <2>1. Cardinality(Others) < Cardinality(1 .. N)
    BY <1>2, <1>3
  <2> HIDE DEF F, Others, N
  <2> QED
    BY <1>2, <1>3, <1>5, <2>1, FS_PigeonHole
<1> QED
  BY <1>4, <1>6 DEF TypeInv, Arrivals

LEMMA LeastNumber ==
    ASSUME NEW S, S \subseteq Nat, S # {}
    PROVE  \E l \in S : \A k \in S : l <= k
<1>1. PICK l \in S : \A k \in S : <<k, l>> \notin OpToRel(<, Nat)
  BY NatLessThanWellFounded, WFMin
<1>2. \A k \in S : ~(k < l)
  BY <1>1 DEF OpToRel
<1> QED
  BY <1>2

\* accept returns one of them.
LEMMA AcceptedFd ==
    ASSUME TypeInv, Accept
    PROVE  new_fd' \in Fd \ {0} /\ fds[new_fd'] = NoConn
<1> DEFINE S == {f \in Fd \ {0} : fds[f] = NoConn}
<1>1. backlog # <<>>
  BY DEF Accept
<1>2. S # {}
  BY <1>1, FreeFd
<1>3. S \subseteq Nat
  BY FdRange
<1>4. \E l \in S : \A k \in S : l <= k
  <2> HIDE DEF S
  <2> QED
    BY <1>2, <1>3, LeastNumber
<1>5. \E f \in Fd \ {0} : /\ fds[f] = NoConn
                          /\ \A g \in Fd \ {0} : fds[g] = NoConn => f <= g
  BY <1>4
<1> QED
  BY <1>5 DEF Accept

\* What the thread does with the command it has read.
LEMMA CheckLeads ==
    ASSUME NEW c, HCheck(c), hpc \in [Conn -> Labels], c \in Conn
    PROVE  \/ ~active[hidx[c]] /\ Exit(c)
           \/ /\ active[hidx[c]] /\ UNCHANGED <<hidx, hname>>
              /\ \/ /\ Goto(c, "act") /\ hbuf' = hbuf
                    /\ hbuf[c].cmd \in {"2ALL", "2ONE", "LIST"}
                 \/ /\ \E l \in {"stop", "lock"} : Goto(c, l)
                    /\ hbuf' = [hbuf EXCEPT ![c] = Nothing]
<1> DEFINE l == CASE hbuf[c].cmd = "STOP" -> "stop"
                  [] hbuf[c].cmd \in {"2ALL", "2ONE", "LIST"} -> "act"
                  [] OTHER -> "lock"
<1>1. \/ l = "act" /\ hbuf[c].cmd \in {"2ALL", "2ONE", "LIST"}
      \/ l \in {"stop", "lock"}
  <2>1. hbuf[c].cmd = "STOP" => l = "stop"
    OBVIOUS
  <2>2. hbuf[c].cmd \in {"2ALL", "2ONE", "LIST"} => l = "act"
    OBVIOUS
  <2>3. hbuf[c].cmd # "STOP" /\ hbuf[c].cmd \notin {"2ALL", "2ONE", "LIST"} => l = "lock"
    OBVIOUS
  <2> HIDE DEF l
  <2> QED
    BY <2>1, <2>2, <2>3
<1>2. active[hidx[c]] =>
          /\ Goto(c, l) /\ UNCHANGED <<hidx, hname>>
          /\ hbuf' = IF hpc'[c] = "act" THEN hbuf ELSE [hbuf EXCEPT ![c] = Nothing]
  BY Zenon DEF HCheck
<1> HIDE DEF l
<1>3. Goto(c, l) => hpc'[c] = l
  BY DEF Goto
<1>4. ~active[hidx[c]] => Exit(c)
  BY Zenon DEF HCheck
<1> QED
  BY <1>1, <1>2, <1>3, <1>4

LEMMA ReadNet ==
    ASSUME TypeInv, NEW f \in Fd, NEW k, Read(f, k)
    PROVE  /\ NetType' /\ UNCHANGED <<client, backlog, down>>
           /\ fds[f] \in Conn /\ Head(up[fds[f]]) \in Chunks
           /\ Head(up[fds[f]]).by = fds[f]
<1> DEFINE d == fds[f]
           s == up[d]
<1>1. /\ d \in Conn /\ k \in 1 .. Len(s)
      /\ up' = [up EXCEPT ![d] = SubSeq(s, k + 1, Len(s))]
      /\ UNCHANGED <<client, lines, backlog, down>>
  BY DEF Read, TypeInv, RegType
<1>2. s \in Seq(Chunks) /\ \A n \in 1 .. Len(s) : s[n].by = d
  BY <1>1 DEF TypeInv, NetType
<1>3. \A c \in Conn : c # d => up'[c] = up[c]
  BY <1>1 DEF TypeInv, NetType
<1>4. up'[d] = SubSeq(s, k + 1, Len(s))
  BY <1>1 DEF TypeInv, NetType
<1> HIDE DEF s
<1>5. /\ SubSeq(s, k + 1, Len(s)) \in Seq(Chunks)
      /\ \A n \in 1 .. Len(SubSeq(s, k + 1, Len(s))) :
             SubSeq(s, k + 1, Len(s))[n].by = d
  <2>1. Len(s) \in Nat /\ k \in Nat /\ 1 <= k /\ k <= Len(s)
    BY <1>1, <1>2
  <2>2. Len(SubSeq(s, k + 1, Len(s))) = Len(s) - k
    BY <1>2, <2>1
  <2>3. \A n \in 1 .. Len(s) - k : SubSeq(s, k + 1, Len(s))[n] = s[k + n] /\ k + n \in 1 .. Len(s)
    BY <1>2, <2>1
  <2> QED
    BY <1>2, <2>1, <2>2, <2>3
<1>6. NetType'
  <2>1. up' \in [Conn -> Seq(Chunks)]
    BY <1>1, <1>5 DEF TypeInv, NetType
  <2>2. \A c \in Conn : \A n \in 1 .. Len(up'[c]) : up'[c][n].by = c
    BY <1>3, <1>4, <1>5 DEF TypeInv, NetType
  <2> QED
    BY <1>1, <2>1, <2>2 DEF TypeInv, NetType
<1>7. Head(s) \in Chunks /\ Head(s).by = d
  BY <1>1, <1>2
<1> QED
  BY <1>1, <1>6, <1>7 DEF s

LEMMA DeliverNet ==
    ASSUME TypeInv, NEW T \in SUBSET Slot, NEW m, Deliver(T, m)
    PROVE  NetType' /\ UNCHANGED <<client, backlog, up>>
<1> DEFINE H == [c \in Conn |-> Cardinality({s \in T : fds[sock[s]] = c})]
<1>1. \A c \in Conn : H[c] \in Nat
  <2> TAKE c \in Conn
  <2>1. {s \in T : fds[sock[s]] = c} \in SUBSET Slot
    OBVIOUS
  <2> QED
    BY <2>1, SlotRange, FS_Subset, FS_CardinalityType
<1>2. /\ \A c \in Conn : client[c] # "gone" => Len(down[c]) + H[c] <= SocketCap
      /\ down' = [c \in Conn |-> IF client[c] = "gone" THEN down[c]
                                 ELSE down[c] \o [n \in 1 .. H[c] |-> m]]
      /\ UNCHANGED <<client, lines, backlog, up>>
  BY DEF Deliver
<1> HIDE DEF H
<1>3. PICK S : down \in [Conn -> Seq(S)]
  BY DEF TypeInv, NetType
<1> DEFINE R == S \cup {m}
<1>4. ASSUME NEW c \in Conn
      PROVE  /\ down'[c] \in Seq(R) /\ Len(down'[c]) <= SocketCap
             /\ client[c] = "gone" => down'[c] = <<>>
  <2>1. down[c] \in Seq(R) /\ Len(down[c]) \in Nat
    BY <1>3
  <2> DEFINE e == [n \in 1 .. H[c] |-> m]
  <2>2. e \in Seq(R) /\ Len(e) = H[c] /\ H[c] \in Nat
    BY <1>1
  <2>3. CASE client[c] = "gone"
    BY <1>2, <2>1, <2>3 DEF TypeInv, NetType
  <2>4. CASE client[c] # "gone"
    <3>1. down'[c] = down[c] \o e
      BY <1>2, <2>4
    <3> HIDE DEF e, R
    <3>2. down[c] \o e \in Seq(R) /\ Len(down[c] \o e) = Len(down[c]) + Len(e)
      BY <2>1, <2>2
    <3> QED
      BY <1>2, <2>2, <2>4, <3>1, <3>2
  <2> QED
    BY <2>3, <2>4
<1>5. down' \in [Conn -> Seq(R)]
  BY <1>2, <1>4
<1> QED
  BY <1>2, <1>4, <1>5 DEF TypeInv, NetType

LEMMA SameNet == TypeInv /\ UNCHANGED net => NetType' /\ UNCHANGED <<client, backlog>>
BY DEF TypeInv, NetType, net

\* No new connection, and no descriptor opened.
LEMMA SameArrivals ==
    ASSUME TypeInv, UNCHANGED <<client, backlog>>,
           \A f \in Fd : fds'[f] \in {fds[f], NoConn}
    PROVE  Arrivals'
<1>1. fds'[0] = NoConn /\ NoConn \notin Conn
  BY ChatAssumption, FdRange DEF TypeInv, Arrivals
<1>2. \A f, g \in Fd : fds'[f] = fds'[g] /\ fds'[f] # NoConn => f = g
  BY DEF TypeInv, Arrivals
<1>3. \A c \in Conn, f \in Fd : fds[f] # c => fds'[f] # c
  BY <1>1
<1>4. \A n \in 1 .. Len(backlog) : backlog[n] \in Conn
  BY DEF TypeInv, RegType
<1> QED
  BY <1>1, <1>2, <1>3, <1>4 DEF TypeInv, Arrivals

\* What the client knows of the server does not concern the types.
LEMMA SameReg ==
    ASSUME TypeInv,
           UNCHANGED <<fds, active, sock, lock, num_clients, main, new_fd, i, guest,
                       hpc, hidx, hbuf, check, owner, struck>>,
           backlog' \in Seq(Conn)
    PROVE  RegType'
BY DEF TypeInv, RegType

LEMMA SendNet ==
    ASSUME TypeInv, NEW c \in Conn, NEW m \in Chunks, m.by = c
    PROVE  /\ [up EXCEPT ![c] = Append(@, m)] \in [Conn -> Seq(Chunks)]
           /\ \A d \in Conn : \A n \in 1 .. Len([up EXCEPT ![c] = Append(@, m)][d]) :
                  [up EXCEPT ![c] = Append(@, m)][d][n].by = d
<1> DEFINE s == up[c]
           t == Append(s, m)
           new == [up EXCEPT ![c] = t]
<1>1. s \in Seq(Chunks) /\ \A n \in 1 .. Len(s) : s[n].by = c
  BY DEF TypeInv, NetType
<1>2. up \in [Conn -> Seq(Chunks)]
  BY DEF TypeInv, NetType
<1> HIDE DEF s
<1>3. t \in Seq(Chunks) /\ \A n \in 1 .. Len(t) : t[n].by = c
  BY <1>1
<1> HIDE DEF t
<1>4. /\ new \in [Conn -> Seq(Chunks)]
      /\ new[c] = t /\ \A d \in Conn : d # c => new[d] = up[d]
  BY <1>2, <1>3
<1> HIDE DEF new
<1>5. \A d \in Conn : \A n \in 1 .. Len(new[d]) : new[d][n].by = d
  <2> TAKE d \in Conn
  <2>1. d = c \/ new[d] = up[d]
    BY <1>4
  <2> QED
    BY <1>3, <1>4, <2>1 DEF TypeInv, NetType
<1> QED
  BY <1>4, <1>5 DEF new, t, s

LEMMA ClientTypes ==
    ASSUME TypeInv, NEW c \in Conn, Client(c)
    PROVE  TypeInv'
<1>1. UNCHANGED <<fds, active, sock, lock, num_clients, main, new_fd, i, guest,
                  hpc, hidx, hbuf, check, owner, struck>>
  BY DEF Client, registry, acceptor, handlers
<1>2. \A cmd \in Cmds \ {"none"}, to \in Names : Chunk(cmd, to, c) \in Chunks /\ Chunk(cmd, to, c).by = c
  BY DEF Chunk, Chunks
<1>3. /\ <<>> \in Names /\ \A d \in Conn : NameOf[d] \in Names
      /\ {"2ALL", "2ONE", "LIST", "STOP", "ALIVE_response", "NAME"} \subseteq Cmds \ {"none"}
  BY DEF Names, Cmds
<1>4. client' \in [Conn -> {"off", "connected", "chatting", "gone"}]
  BY DEF Client, Connect, SendName, SendLine, Receive, Interrupt, Crash, Close,
         TypeInv, NetType
<1>5. lines' \in 0 .. MaxLines
  <2>1. SendLine(c) => lines < MaxLines /\ lines' = lines + 1
    BY DEF SendLine
  <2>2. Connect(c) \/ SendName(c) => lines' = lines
    BY DEF Connect, SendName
  <2>3. Receive(c) \/ Interrupt(c) \/ Crash(c) => lines' = lines
    BY DEF Receive, Interrupt, Crash
  <2> QED
    BY <2>1, <2>2, <2>3, ChatAssumption DEF Client, TypeInv, NetType
<1>6. /\ up' \in [Conn -> Seq(Chunks)]
      /\ \A d \in Conn : \A n \in 1 .. Len(up'[d]) : up'[d][n].by = d
  <2>1. CASE up' = up
    BY <2>1 DEF TypeInv, NetType
  <2>2. CASE \E m \in Chunks : m.by = c /\ up' = [up EXCEPT ![c] = Append(@, m)]
    BY <2>2, SendNet
  <2>3. Connect(c) \/ Crash(c) => up' = up
    BY DEF Connect, Crash
  <2>4. SendName(c) => <2>2!1
    BY <1>2, <1>3 DEF SendName
  <2>5. SendLine(c) => <2>2!1
    BY <1>2, <1>3 DEF SendLine
  <2>6. Receive(c) => up' = up \/ <2>2!1
    BY <1>2, <1>3 DEF Receive
  <2>7. Interrupt(c) => <2>2!1
    BY <1>2, <1>3 DEF Interrupt
  <2> QED
    BY <2>1, <2>2, <2>3, <2>4, <2>5, <2>6, <2>7 DEF Client
<1>7. /\ \E S : down' \in [Conn -> Seq(S)]
      /\ \A d \in Conn : Len(down'[d]) <= SocketCap
      /\ \A d \in Conn : client'[d] = "gone" => down'[d] = <<>>
  <2>1. CASE UNCHANGED down /\ \A d \in Conn : client'[d] = "gone" => client[d] = "gone"
    BY <2>1 DEF TypeInv, NetType
  <2>2. CASE Close(c)
    <3>1. PICK S : down \in [Conn -> Seq(S)]
      BY DEF TypeInv, NetType
    <3>2. <<>> \in Seq(S) /\ Len(<<>>) <= SocketCap
      BY ChatAssumption
    <3>3. down' \in [Conn -> Seq(S)]
      BY <2>2, <3>1, <3>2 DEF Close
    <3>4. \A d \in Conn : d # c => client'[d] = client[d] /\ down'[d] = down[d]
      BY <2>2, <3>1 DEF Close, TypeInv, NetType
    <3>5. down'[c] = <<>>
      BY <2>2, <3>1 DEF Close
    <3>6. \A d \in Conn : Len(down'[d]) <= SocketCap
      BY <3>2, <3>4, <3>5 DEF TypeInv, NetType
    <3>7. \A d \in Conn : client'[d] = "gone" => down'[d] = <<>>
      BY <3>4, <3>5 DEF TypeInv, NetType
    <3> QED
      BY <3>3, <3>6, <3>7
  <2>3. CASE Receive(c)
    <3>1. PICK k \in 1 .. Len(down[c]) :
              down' = [down EXCEPT ![c] = SubSeq(@, k + 1, Len(@))]
      BY <2>3 DEF Receive
    <3>2. PICK S : down \in [Conn -> Seq(S)]
      BY DEF TypeInv, NetType
    <3> DEFINE s == down[c]
               t == SubSeq(s, k + 1, Len(s))
    <3>3. s \in Seq(S) /\ k \in 1 .. Len(s)
      BY <3>1, <3>2
    <3> HIDE DEF s
    <3>4. t \in Seq(S) /\ Len(t) = Len(s) - k
      BY <3>3
    <3> HIDE DEF t
    <3>5. /\ down'[c] = t /\ \A d \in Conn : d # c => down'[d] = down[d]
          /\ down' \in [Conn -> Seq(S)]
      BY <3>1, <3>2, <3>4 DEF s, t
    <3>6. Len(s) <= SocketCap /\ Len(s) \in Nat
      BY <3>3 DEF TypeInv, NetType, s
    <3>7. client' = client /\ client[c] = "chatting"
      BY <2>3 DEF Receive
    <3>8. \A d \in Conn : Len(down'[d]) <= SocketCap
      <4>1. Len(t) <= SocketCap
        BY <3>3, <3>4, <3>6, ChatAssumption
      <4> QED
        BY <3>5, <4>1 DEF TypeInv, NetType
    <3>9. \A d \in Conn : client'[d] = "gone" => down'[d] = <<>>
      BY <3>5, <3>7 DEF TypeInv, NetType
    <3> QED
      BY <3>5, <3>8, <3>9
  <2> QED
    BY <2>1, <2>2, <2>3
       DEF Client, Connect, SendName, SendLine, Interrupt, Crash, TypeInv, NetType
<1>8. NetType'
  BY <1>4, <1>5, <1>6, <1>7 DEF NetType
<1>9. CASE Connect(c)
  <2>1. /\ backlog' = Append(backlog, c) /\ client[c] = "off"
        /\ client' = [client EXCEPT ![c] = "connected"]
    BY <1>9 DEF Connect
  <2>2. backlog \in Seq(Conn)
    BY DEF TypeInv, RegType
  <2>3. /\ backlog' \in Seq(Conn) /\ Len(backlog') = Len(backlog) + 1 /\ Len(backlog) \in Nat
        /\ backlog'[Len(backlog) + 1] = c
        /\ \A n \in 1 .. Len(backlog) : backlog'[n] = backlog[n]
    BY <2>1, <2>2
  <2>4. \A n \in 1 .. Len(backlog') : n \in 1 .. Len(backlog) \/ n = Len(backlog) + 1
    BY <2>3
  <2>5. \A d \in Conn : client'[d] = "off" => d # c /\ client[d] = "off"
    BY <2>1 DEF TypeInv, NetType
  <2>6. Arrivals'
    BY <1>1, <2>1, <2>3, <2>4, <2>5 DEF TypeInv, Arrivals
  <2> QED
    BY <1>1, <1>8, <2>3, <2>6, SameReg DEF TypeInv
<1>10. CASE SendName(c) \/ SendLine(c) \/ Receive(c) \/ Interrupt(c) \/ Crash(c)
  <2>1. /\ backlog' = backlog
        /\ \A d \in Conn : client'[d] = "off" => client[d] = "off"
    BY <1>10 DEF SendName, SendLine, Receive, Interrupt, Crash, Close, TypeInv, NetType
  <2>2. Arrivals'
    BY <1>1, <2>1 DEF TypeInv, Arrivals
  <2>3. backlog' \in Seq(Conn)
    BY <2>1 DEF TypeInv, RegType
  <2> QED
    BY <1>1, <1>8, <2>2, <2>3, SameReg DEF TypeInv
<1> QED
  BY <1>9, <1>10 DEF Client

LEMMA AcceptTypes ==
    ASSUME TypeInv, Accept, check' = check, struck' = struck
    PROVE  TypeInv'
<1>1. /\ backlog # <<>> /\ guest' = Head(backlog) /\ backlog' = Tail(backlog)
      /\ fds' = [fds EXCEPT ![new_fd'] = guest'] /\ main' = "lock"
      /\ UNCHANGED <<client, lines, up, down, active, sock, num_clients, lock, i,
                     owner, hpc, hidx, hbuf>>
  BY DEF Accept, registry, handlers
<1>2. new_fd' \in Fd \ {0} /\ fds[new_fd'] = NoConn
  BY AcceptedFd
<1>3. backlog \in Seq(Conn)
  BY DEF TypeInv, RegType
<1>4. /\ guest' \in Conn /\ guest' = backlog[1] /\ 1 \in 1 .. Len(backlog)
      /\ backlog' \in Seq(Conn) /\ Len(backlog') = Len(backlog) - 1
      /\ \A n \in 1 .. Len(backlog') :
             backlog'[n] = backlog[n + 1] /\ n + 1 \in 1 .. Len(backlog)
  BY <1>1, <1>3
<1>5. /\ fds' \in [Fd -> Conn \cup {NoConn}] /\ fds'[new_fd'] = guest'
      /\ \A f \in Fd : f # new_fd' => fds'[f] = fds[f]
  BY <1>1, <1>2, <1>4 DEF TypeInv, RegType
<1>6. NetType'
  BY <1>1 DEF TypeInv, NetType
<1>7. RegType'
  BY <1>1, <1>2, <1>4, <1>5 DEF TypeInv, RegType
<1>8. Arrivals'
  <2>1. fds'[0] = NoConn
    BY <1>2, <1>5, FdRange DEF TypeInv, Arrivals
  <2>2. \A f \in Fd : fds[f] # guest'
    BY <1>4 DEF TypeInv, Arrivals
  <2>3. \A f, g \in Fd : fds'[f] = fds'[g] /\ fds'[f] # NoConn => f = g
    BY <1>5, <2>2 DEF TypeInv, Arrivals
  <2>4. \A n \in 1 .. Len(backlog') : backlog'[n] # guest'
    BY <1>3, <1>4 DEF TypeInv, Arrivals
  <2>5. \A n \in 1 .. Len(backlog') : \A f \in Fd : fds'[f] # backlog'[n]
    BY <1>4, <1>5, <2>4 DEF TypeInv, Arrivals
  <2>6. \A m, n \in 1 .. Len(backlog') : backlog'[m] = backlog'[n] => m = n
    BY <1>3, <1>4 DEF TypeInv, Arrivals
  <2>7. client[guest'] # "off"
    BY <1>4 DEF TypeInv, Arrivals
  <2> QED
    BY <1>1, <1>4, <1>5, <2>1, <2>3, <2>5, <2>6, <2>7 DEF TypeInv, Arrivals
<1> QED
  BY <1>6, <1>7, <1>8 DEF TypeInv

LEMMA CloseFdTypes ==
    ASSUME TypeInv, NEW f \in Fd, CloseFd(f)
    PROVE  /\ fds' \in [Fd -> Conn \cup {NoConn}] /\ fds'[f] = NoConn
           /\ \A g \in Fd : g # f => fds'[g] = fds[g]
BY DEF CloseFd, TypeInv, RegType

LEMMA MainTypes == TypeInv /\ Main => TypeInv'
<1> SUFFICES ASSUME TypeInv, Main PROVE TypeInv'
  OBVIOUS
<1>1. check' = check /\ struck' = struck
  BY DEF Main
<1>2. CASE Accept
  BY <1>1, <1>2, AcceptTypes
<1>3. CASE Refuse
  <2>1. new_fd \in Fd /\ CloseFd(new_fd)
    BY <1>3 DEF Refuse, TypeInv, RegType
  <2>2. NetType' /\ UNCHANGED <<client, backlog>>
    BY <1>3, SameNet DEF Refuse
  <2>3. Arrivals'
    BY <2>1, <2>2, CloseFdTypes, SameArrivals
  <2>4. RegType'
    BY <1>1, <1>3, <2>1, <2>2, CloseFdTypes DEF Refuse, registry, handlers, TypeInv, RegType
  <2> QED
    BY <2>2, <2>3, <2>4 DEF TypeInv
<1>4. CASE Admit
  <2>1. NetType' /\ UNCHANGED <<client, backlog, fds>>
    BY <1>4, SameNet DEF Admit
  <2>2. Arrivals'
    BY <2>1, SameArrivals
  <2>3. RegType'
    BY <1>1, <1>4, <2>1, ChatAssumption DEF Admit, registry, handlers, TypeInv, RegType
  <2> QED
    BY <2>1, <2>2, <2>3 DEF TypeInv
<1>5. CASE Scan
  <2>1. NetType' /\ UNCHANGED <<client, backlog, fds>>
    BY <1>5, SameNet DEF Scan
  <2>2. Arrivals'
    BY <2>1, SameArrivals
  <2>3. i' \in 0 .. MAX_CLIENTS
    BY <1>5, ChatAssumption DEF Scan, TypeInv, RegType
  <2>4. sock' \in [Slot -> Fd] /\ main' \in {"accept", "scan", "name"}
    BY <1>5 DEF Scan, TypeInv, RegType
  <2>5. main' = "name" => i' \in Slot /\ ~active'[i']
    BY <1>5, ChatAssumption DEF Scan, TypeInv, RegType, Slot
  <2>6. RegType'
    BY <1>1, <1>5, <2>1, <2>3, <2>4, <2>5 DEF Scan, handlers, TypeInv, RegType
  <2> QED
    BY <2>1, <2>2, <2>6 DEF TypeInv
<1>6. CASE RecvName
  <2>1. /\ i \in Slot /\ guest \in Conn \cup {NoConn}
        /\ active' = [active EXCEPT ![i] = TRUE]
        /\ lock' = [lock EXCEPT ![i] = FALSE]
        /\ num_clients' = num_clients + 1
        /\ owner' = [owner EXCEPT ![i] = guest]
        /\ hpc' = [hpc EXCEPT ![guest] = "start"]
        /\ main' = "accept"
        /\ UNCHANGED <<fds, sock, new_fd, i, guest, hidx, hbuf>>
    BY <1>6 DEF RecvName, TypeInv, RegType
  <2>2. NetType' /\ UNCHANGED <<client, backlog>>
    <3>1. CASE UNCHANGED net
      BY <3>1, SameNet
    <3>2. CASE \E k \in 1 .. SocketCap : Read(new_fd, k)
      BY <3>2, ReadNet DEF TypeInv, RegType
    <3> QED
      BY <1>6, <3>1, <3>2 DEF RecvName
  <2>3. Arrivals'
    BY <2>1, <2>2, SameArrivals
  <2>4. hpc' \in [Conn -> Labels] /\ \A c \in Conn : hpc'[c] \in {hpc[c], "start"}
    BY <2>1 DEF TypeInv, RegType, Labels
  <2>5. /\ active' \in [Slot -> BOOLEAN] /\ lock' \in [Slot -> BOOLEAN]
        /\ owner' \in [Slot -> Conn \cup {NoConn}] /\ num_clients' \in Int
    BY <2>1 DEF TypeInv, RegType
  <2>6. \A c \in Conn : hpc'[c] \notin {"off", "start", "done"} => hidx'[c] \in Slot
    BY <2>1, <2>4 DEF TypeInv, RegType
  <2>7. RegType'
    BY <1>1, <2>1, <2>2, <2>4, <2>5, <2>6 DEF TypeInv, RegType
  <2> QED
    BY <2>2, <2>3, <2>7 DEF TypeInv
<1> QED
  BY <1>2, <1>3, <1>4, <1>5, <1>6 DEF Main

\* A thread leaves what main alone writes as it is; it may close a descriptor
\* and clear a slot.
LEMMA ThreadTypes ==
    ASSUME TypeInv, NetType', UNCHANGED <<client, backlog>>,
           UNCHANGED <<sock, main, new_fd, i, guest, owner>>,
           fds' \in [Fd -> Conn \cup {NoConn}],
           \A f \in Fd : fds'[f] \in {fds[f], NoConn},
           active' \in [Slot -> BOOLEAN], num_clients' \in Int,
           \A s \in Slot : active'[s] => active[s],
           lock' \in [Slot -> BOOLEAN],
           hpc' \in [Conn -> Labels], hidx' \in [Conn -> 0 .. MAX_CLIENTS],
           \A c \in Conn : hpc'[c] \notin {"off", "start", "done"} => hidx'[c] \in Slot,
           hbuf' \in [Conn -> Chunks \cup {Nothing}],
           check' \in [Slot -> [Rounds -> Rests]],
           struck' \in SUBSET Conn
    PROVE  TypeInv'
<1>1. Arrivals'
  BY SameArrivals
<1>2. RegType'
  BY DEF TypeInv, RegType
<1> QED
  BY <1>1, <1>2 DEF TypeInv

\* The thread of c moves to l and keeps its slot.
LEMMA GotoTypes ==
    ASSUME TypeInv, NEW c \in Conn, hpc[c] \notin {"off", "start", "done"},
           NEW l \in Labels, Goto(c, l), hidx' = hidx
    PROVE  /\ hpc' \in [Conn -> Labels] /\ hidx' \in [Conn -> 0 .. MAX_CLIENTS]
           /\ \A d \in Conn : hpc'[d] \notin {"off", "start", "done"} => hidx'[d] \in Slot
BY DEF Goto, TypeInv, RegType

LEMMA ExitTypes ==
    ASSUME TypeInv, NEW c \in Conn, Exit(c)
    PROVE  /\ hpc' \in [Conn -> Labels] /\ hidx' \in [Conn -> 0 .. MAX_CLIENTS]
           /\ \A d \in Conn : hpc'[d] \notin {"off", "start", "done"} => hidx'[d] \in Slot
           /\ hbuf' \in [Conn -> Chunks \cup {Nothing}]
BY ChatAssumption DEF Exit, Goto, TypeInv, RegType, Labels

LEMMA UnregisterTypes ==
    ASSUME TypeInv, NEW s \in Slot, Unregister(s)
    PROVE  /\ active' \in [Slot -> BOOLEAN] /\ num_clients' \in Int
           /\ \A t \in Slot : active'[t] => active[t]
           /\ sock' = sock
BY DEF Unregister, TypeInv, RegType

LEMMA HandlerTypes ==
    ASSUME TypeInv, NEW c \in Conn, Handler(c)
    PROVE  TypeInv'
<1> DEFINE s == hidx[c]
<1>1. /\ UNCHANGED <<main, new_fd, i, guest, owner, check>>
      /\ fds \in [Fd -> Conn \cup {NoConn}] /\ active \in [Slot -> BOOLEAN]
      /\ lock \in [Slot -> BOOLEAN] /\ num_clients \in Int
      /\ hpc \in [Conn -> Labels] /\ hidx \in [Conn -> 0 .. MAX_CLIENTS]
      /\ hbuf \in [Conn -> Chunks \cup {Nothing}] /\ sock \in [Slot -> Fd]
      /\ check' \in [Slot -> [Rounds -> Rests]] /\ struck \in SUBSET Conn
      /\ hpc[c] \notin {"off", "start", "done"} => s \in Slot /\ sock[s] \in Fd
  BY DEF Handler, acceptor, TypeInv, RegType
<1>2. CASE HStart(c)
  <2>1. NetType' /\ UNCHANGED <<client, backlog>>
    <3>1. CASE UNCHANGED net
      BY <3>1, SameNet
    <3>2. CASE \E f \in Fd, k \in 1 .. SocketCap : Read(f, k)
      BY <3>2, ReadNet
    <3> QED
      BY <1>2, <3>1, <3>2 DEF HStart
  <2>2. CASE i \in Slot /\ hidx' = [hidx EXCEPT ![c] = i] /\ Goto(c, "lock") /\ UNCHANGED hbuf
    <3>1. /\ hpc' \in [Conn -> Labels] /\ hidx' \in [Conn -> 0 .. MAX_CLIENTS]
          /\ \A d \in Conn : hpc'[d] \notin {"off", "start", "done"} => hidx'[d] \in Slot
      BY <1>1, <2>2, SlotRange DEF Goto, Labels, TypeInv, RegType
    <3> QED
      BY <1>1, <1>2, <2>1, <2>2, <3>1, ThreadTypes DEF HStart, registry
  <2>3. CASE Exit(c)
    BY <1>1, <1>2, <2>1, <2>3, ExitTypes, ThreadTypes DEF HStart, registry
  <2> QED
    BY <1>2, <2>2, <2>3 DEF HStart
<1>3. CASE HLock(c)
  <2>1. NetType' /\ UNCHANGED <<client, backlog>>
    BY <1>3, SameNet DEF HLock
  <2>2. Goto(c, "recv") /\ hidx' = hidx /\ hpc[c] = "lock"
    BY <1>3 DEF HLock
  <2>3. "recv" \in Labels
    BY DEF Labels
  <2>4. /\ hpc' \in [Conn -> Labels] /\ hidx' \in [Conn -> 0 .. MAX_CLIENTS]
        /\ \A d \in Conn : hpc'[d] \notin {"off", "start", "done"} => hidx'[d] \in Slot
    BY <2>2, <2>3, GotoTypes
  <2> QED
    BY <1>1, <1>3, <2>1, <2>2, <2>4, ThreadTypes DEF HLock, registry
<1>4. CASE HRecv(c)
  <2>1. Goto(c, "check") /\ hidx' = hidx /\ hpc[c] = "recv" /\ "check" \in Labels
    BY <1>4 DEF HRecv, Labels
  <2>2. /\ hpc' \in [Conn -> Labels] /\ hidx' \in [Conn -> 0 .. MAX_CLIENTS]
        /\ \A d \in Conn : hpc'[d] \notin {"off", "start", "done"} => hidx'[d] \in Slot
    BY <2>1, GotoTypes
  <2>3. /\ NetType' /\ UNCHANGED <<client, backlog>>
        /\ hbuf' \in [Conn -> Chunks \cup {Nothing}]
    <3>1. CASE hbuf' = [hbuf EXCEPT ![c] = Nothing] /\ UNCHANGED net
      BY <1>1, <3>1, SameNet
    <3>2. CASE \E k \in 1 .. SocketCap :
                   /\ Read(sock[s], k)
                   /\ hbuf' = [hbuf EXCEPT ![c] = Head(up[fds[sock[s]]])]
      BY <1>1, <2>1, <3>2, ReadNet
    <3> QED
      BY <1>4, <3>1, <3>2 DEF HRecv
  <2> QED
    BY <1>1, <1>4, <2>1, <2>2, <2>3, ThreadTypes DEF HRecv, registry
<1>5. CASE HCheck(c)
  <2>1. /\ NetType' /\ hpc[c] = "check"
        /\ UNCHANGED <<client, backlog, fds, active, num_clients, sock, lock, struck>>
    BY <1>5, SameNet DEF HCheck, registry
  <2>2. CASE Exit(c)
    BY <1>1, <2>1, <2>2, ExitTypes, ThreadTypes
  <2>3. CASE /\ \E l \in {"act", "stop", "lock"} : Goto(c, l)
             /\ hidx' = hidx
             /\ hbuf' \in {hbuf, [hbuf EXCEPT ![c] = Nothing]}
    <3>1. /\ hpc' \in [Conn -> Labels] /\ hidx' \in [Conn -> 0 .. MAX_CLIENTS]
          /\ \A d \in Conn : hpc'[d] \notin {"off", "start", "done"} => hidx'[d] \in Slot
      BY <1>1, <2>1, <2>3, GotoTypes DEF Labels
    <3>2. hbuf' \in [Conn -> Chunks \cup {Nothing}]
      BY <1>1, <2>3
    <3> QED
      BY <1>1, <2>1, <3>1, <3>2, ThreadTypes
  <2> QED
    BY <1>1, <1>5, <2>2, <2>3, CheckLeads
<1>6. CASE HAct(c)
  <2>1. NetType' /\ UNCHANGED <<client, backlog>>
    BY <1>6, SameNet DEF HAct
  <2>2. /\ hpc[c] = "act" /\ hidx' = hidx
        /\ \E l \in {"send", "reply"} : Goto(c, l)
    BY <1>6 DEF HAct
  <2>3. /\ hpc' \in [Conn -> Labels] /\ hidx' \in [Conn -> 0 .. MAX_CLIENTS]
        /\ \A d \in Conn : hpc'[d] \notin {"off", "start", "done"} => hidx'[d] \in Slot
    BY <2>2, GotoTypes DEF Labels
  <2> QED
    BY <1>1, <1>6, <2>1, <2>2, <2>3, ThreadTypes DEF HAct, registry
<1>7. CASE HSend(c)
  <2>1. /\ Goto(c, "lock") /\ hidx' = hidx /\ hpc[c] \in {"send", "reply"}
        /\ "lock" \in Labels /\ hbuf' = [hbuf EXCEPT ![c] = Nothing]
    BY <1>7 DEF HSend, Labels
  <2>2. /\ hpc' \in [Conn -> Labels] /\ hidx' \in [Conn -> 0 .. MAX_CLIENTS]
        /\ \A d \in Conn : hpc'[d] \notin {"off", "start", "done"} => hidx'[d] \in Slot
    BY <2>1, GotoTypes
  <2>3. \E T \in SUBSET Slot : \E m : Deliver(T, m)
    <3>1. /\ {t \in Slot : active[t]} \ Named(hname[c]) \in SUBSET Slot
          /\ First(Named(hbuf[c].to)) \in SUBSET Slot
          /\ {hidx[c]} \in SUBSET Slot
      BY <1>1, <2>1 DEF Named, First
    <3> QED
      BY <1>7, <3>1 DEF HSend
  <2>4. NetType' /\ UNCHANGED <<client, backlog>>
    BY <2>3, DeliverNet
  <2>5. hbuf' \in [Conn -> Chunks \cup {Nothing}]
    BY <1>1, <2>1
  <2> QED
    BY <1>1, <1>7, <2>1, <2>2, <2>4, <2>5, ThreadTypes DEF HSend, registry
<1>8. CASE HStop(c)
  <2>1. NetType' /\ UNCHANGED <<client, backlog>>
    BY <1>8, SameNet DEF HStop
  <2>2. /\ Goto(c, "clear") /\ hidx' = hidx /\ hpc[c] = "stop" /\ "clear" \in Labels
        /\ CloseFd(sock[s]) /\ sock[s] \in Fd
        /\ struck' = struck \cup ({fds[sock[s]]} \ {owner[s], NoConn})
    BY <1>1, <1>8 DEF HStop, CloseSlot, Labels
  <2>3. /\ hpc' \in [Conn -> Labels] /\ hidx' \in [Conn -> 0 .. MAX_CLIENTS]
        /\ \A d \in Conn : hpc'[d] \notin {"off", "start", "done"} => hidx'[d] \in Slot
    BY <2>2, GotoTypes
  <2>4. /\ fds' \in [Fd -> Conn \cup {NoConn}]
        /\ \A f \in Fd : fds'[f] \in {fds[f], NoConn}
    BY <2>2, CloseFdTypes
  <2>5. struck' \in SUBSET Conn
    BY <1>1, <2>2
  <2> QED
    BY <1>1, <1>8, <2>1, <2>2, <2>3, <2>4, <2>5, ThreadTypes DEF HStop, registry
<1>9. CASE HClear(c)
  <2>1. NetType' /\ UNCHANGED <<client, backlog>>
    BY <1>9, SameNet DEF HClear
  <2>2. s \in Slot /\ Unregister(s) /\ Exit(c)
    BY <1>1, <1>9 DEF HClear
  <2> QED
    BY <1>1, <1>9, <2>1, <2>2, ExitTypes, UnregisterTypes, ThreadTypes DEF HClear
<1> QED
  BY <1>2, <1>3, <1>4, <1>5, <1>6, <1>7, <1>8, <1>9 DEF Handler

LEMMA CheckerTypes == TypeInv /\ Checker => TypeInv'
<1> SUFFICES ASSUME TypeInv, Checker PROVE TypeInv'
  OBVIOUS
<1>1. /\ UNCHANGED <<main, new_fd, i, guest, owner, hpc, hidx, hbuf>>
      /\ fds \in [Fd -> Conn \cup {NoConn}] /\ active \in [Slot -> BOOLEAN]
      /\ lock \in [Slot -> BOOLEAN] /\ num_clients \in Int
      /\ hpc \in [Conn -> Labels] /\ hidx \in [Conn -> 0 .. MAX_CLIENTS]
      /\ hbuf \in [Conn -> Chunks \cup {Nothing}] /\ sock \in [Slot -> Fd]
      /\ check \in [Slot -> [Rounds -> Rests]] /\ struck \in SUBSET Conn
      /\ \A c \in Conn : hpc'[c] \notin {"off", "start", "done"} => hidx'[c] \in Slot
  BY DEF Checker, acceptor, handlers, TypeInv, RegType
<1>2. CASE AliveRound
  <2>1. NetType' /\ UNCHANGED <<client, backlog>>
    BY <1>2, SameNet DEF AliveRound
  <2>2. check' \in [Slot -> [Rounds -> Rests]]
    BY <1>1, <1>2 DEF AliveRound, Rests
  <2> QED
    BY <1>1, <1>2, <2>1, <2>2, ThreadTypes DEF AliveRound, registry
<1>3. ASSUME NEW s \in Slot, NEW k \in Rounds, Check(s, k)
      PROVE  TypeInv'
  <2>1. ASSUME NEW l \in Rests, Step(s, k, l)
        PROVE  check' \in [Slot -> [Rounds -> Rests]]
    BY <1>1, <2>1 DEF Step
  <2>2. {"send", "read", "idle", "close", "clear"} \subseteq Rests /\ sock[s] \in Fd
    BY <1>1 DEF Rests
  <2>3. CASE CSend(s, k)
    <3>1. {s} \in SUBSET Slot /\ Deliver({s}, Alive)
      BY <2>3 DEF CSend
    <3>2. NetType' /\ UNCHANGED <<client, backlog>>
      BY <3>1, DeliverNet
    <3>3. check' \in [Slot -> [Rounds -> Rests]]
      BY <2>1, <2>2, <2>3 DEF CSend
    <3> QED
      BY <1>1, <2>3, <3>2, <3>3, ThreadTypes DEF CSend, registry
  <2>4. CASE CLock(s, k)
    <3>1. NetType' /\ UNCHANGED <<client, backlog>>
      BY <2>4, SameNet DEF CLock
    <3>2. check' \in [Slot -> [Rounds -> Rests]]
      BY <2>1, <2>2, <2>4 DEF CLock
    <3> QED
      BY <1>1, <2>4, <3>1, <3>2, ThreadTypes DEF CLock, registry
  <2>5. CASE CRead(s, k)
    <3>1. NetType' /\ UNCHANGED <<client, backlog>>
      <4>1. CASE UNCHANGED net
        BY <4>1, SameNet
      <4>2. CASE \E n \in 1 .. SocketCap : Read(sock[s], n)
        BY <2>2, <4>2, ReadNet
      <4> QED
        BY <2>5, <4>1, <4>2 DEF CRead
    <3>2. check' \in [Slot -> [Rounds -> Rests]]
      BY <2>1, <2>2, <2>5 DEF CRead
    <3> QED
      BY <1>1, <2>5, <3>1, <3>2, ThreadTypes DEF CRead, registry
  <2>6. CASE CClose(s, k)
    <3>1. NetType' /\ UNCHANGED <<client, backlog>>
      BY <2>6, SameNet DEF CClose
    <3>2. /\ check' \in [Slot -> [Rounds -> Rests]] /\ CloseFd(sock[s])
          /\ struck' = struck \cup ({fds[sock[s]]} \ {owner[s], NoConn})
      BY <2>1, <2>2, <2>6 DEF CClose, CloseSlot
    <3>3. /\ fds' \in [Fd -> Conn \cup {NoConn}]
          /\ \A f \in Fd : fds'[f] \in {fds[f], NoConn}
      BY <1>1, <2>2, <3>2, CloseFdTypes
    <3>4. struck' \in SUBSET Conn
      BY <1>1, <2>2, <3>2
    <3> QED
      BY <1>1, <2>6, <3>1, <3>2, <3>3, <3>4, ThreadTypes DEF CClose, registry
  <2>7. CASE CClear(s, k)
    <3>1. NetType' /\ UNCHANGED <<client, backlog>>
      BY <2>7, SameNet DEF CClear
    <3>2. check' \in [Slot -> [Rounds -> Rests]] /\ Unregister(s)
      BY <2>1, <2>2, <2>7 DEF CClear
    <3> QED
      BY <1>1, <2>7, <3>1, <3>2, UnregisterTypes, ThreadTypes DEF CClear
  <2> QED
    BY <1>3, <2>3, <2>4, <2>5, <2>6, <2>7 DEF Check
<1> QED
  BY <1>2, <1>3 DEF Checker

LEMMA StepTypes == TypeInv /\ [Next]_vars => TypeInv'
<1> SUFFICES ASSUME TypeInv, [Next]_vars PROVE TypeInv'
  OBVIOUS
<1>1. CASE Server
  BY <1>1, MainTypes, HandlerTypes, CheckerTypes DEF Server
<1>2. ASSUME NEW c \in Conn, Client(c)
      PROVE  TypeInv'
  BY <1>2, ClientTypes
<1>3. CASE UNCHANGED vars
  <2>1. UNCHANGED <<net, fds, active, sock, num_clients, lock, main, new_fd, i, guest,
                    owner, hpc, hidx, hbuf, check, struck>>
    BY <1>3 DEF vars, registry, acceptor, handlers
  <2>2. NetType' /\ UNCHANGED <<client, backlog>>
    BY <2>1, SameNet
  <2>3. RegType' /\ Arrivals'
    BY <2>1, <2>2, SameArrivals DEF TypeInv, RegType
  <2> QED
    BY <2>2, <2>3 DEF TypeInv
<1> QED
  BY <1>1, <1>2, <1>3 DEF Next

\* Whatever the threads do to each other every variable stays in its range: main
\* always finds a descriptor for a connection it accepts and a slot it registers,
\* and a client is never sent more than its socket takes.
THEOREM TypeCorrect == Spec => []TypeOK
BY InitTypes, StepTypes, TypesImplied, PTL DEF Spec

-----------------------------------------------------------------------------
(* Slots and sockets under every interleaving.  A connection gets one slot:  *)
(* until it is registered it has no thread, no slot and no other descriptor  *)
(* than main's new_fd (Guests, Registered).  A slot is Closed between the    *)
(* close of its socket and its clearing.  The only step that can take a      *)
(* registered slot's descriptor from it, or main's from the connection it is *)
(* about to register, is the close by a thread at work on another slot.      *)

Newcomers == {c \in Conn : hpc[c] = "off" /\ \A s \in Slot : owner[s] # c}

\* A connection is registered once: those not yet registered have no thread
\* and no slot, and no connection owns two.
Guests ==
    /\ \A s, t \in Slot : owner[s] = owner[t] /\ owner[s] # NoConn => s = t
    /\ \A c \in Conn : client[c] = "off" => c \in Newcomers
    /\ \A n \in 1 .. Len(backlog) : backlog[n] \in Newcomers
    /\ main # "accept" =>
           /\ guest \in Newcomers
           /\ client[guest] # "off"
           /\ \A n \in 1 .. Len(backlog) : backlog[n] # guest

\* No accept comes between, so nobody else has main's descriptor meanwhile.
Owners ==
    /\ \A s \in Slot : active[s] => owner[s] \in Conn
    /\ main # "accept" => \/ fds[new_fd] = guest
                          \/ fds[new_fd] = NoConn /\ guest \in struck
    /\ main = "name" => sock[i] = new_fd

SlotInv == TypeInv /\ Guests /\ Owners /\ SlotOwnsDescriptor

Closed == {s \in Slot : \/ \E c \in Conn : hpc[c] = "clear" /\ hidx[c] = s
                        \/ \E k \in Rounds : check[s][k] = "clear"}

LEMMA InitSlots == Init => SlotInv
<1> SUFFICES ASSUME Init PROVE SlotInv
  OBVIOUS
<1>1. Newcomers = Conn
  BY ChatAssumption DEF Init, Newcomers
<1>2. Guests
  BY <1>1 DEF Init, Guests
<1>3. Owners /\ SlotOwnsDescriptor
  BY DEF Init, Owners, SlotOwnsDescriptor
<1> QED
  BY <1>2, <1>3, InitTypes DEF SlotInv

\* Who has a slot stays as it is.
LEMMA SameGuests ==
    ASSUME Guests, UNCHANGED <<client, backlog, owner, guest>>,
           main' # "accept" => main # "accept",
           \A c \in Conn : hpc[c] = "off" => hpc'[c] = "off"
    PROVE  Guests'
<1>1. \A c \in Newcomers : c \in Newcomers'
  BY DEF Newcomers
<1> QED
  BY <1>1 DEF Guests

LEMMA ClientGuests ==
    ASSUME TypeInv, Guests, NEW c \in Conn, Client(c)
    PROVE  Guests'
<1>1. UNCHANGED <<main, guest, hpc, owner>>
  BY DEF Client, acceptor, handlers
<1>2. Newcomers' = Newcomers
  BY <1>1 DEF Newcomers
<1>3. \A d \in Conn : client'[d] = "off" => client[d] = "off"
  BY DEF Client, Connect, SendName, SendLine, Receive, Interrupt, Crash, Close,
         TypeInv, NetType
<1>4. CASE backlog' = backlog
  BY <1>1, <1>2, <1>3, <1>4 DEF Guests, Newcomers
<1>5. CASE Connect(c)
  <2>1. backlog' = Append(backlog, c) /\ client[c] = "off"
    BY <1>5 DEF Connect
  <2>2. backlog \in Seq(Conn)
    BY DEF TypeInv, RegType
  <2>3. \A n \in 1 .. Len(backlog') :
            backlog'[n] = c \/ \E m \in 1 .. Len(backlog) : backlog'[n] = backlog[m]
    BY <2>1, <2>2
  <2> QED
    BY <1>1, <1>2, <1>3, <2>1, <2>3 DEF Guests, Newcomers
<1>6. SendName(c) \/ SendLine(c) \/ Receive(c) \/ Interrupt(c) \/ Crash(c) => backlog' = backlog
  BY DEF SendName, SendLine, Receive, Interrupt, Crash
<1> QED
  BY <1>4, <1>5, <1>6 DEF Client

LEMMA AcceptGuests ==
    ASSUME TypeInv, Guests, Accept
    PROVE  Guests'
<1>1. /\ backlog # <<>> /\ guest' = Head(backlog) /\ backlog' = Tail(backlog)
      /\ main' = "lock" /\ UNCHANGED <<client, owner, hpc>>
  BY DEF Accept, handlers
<1>2. backlog \in Seq(Conn)
  BY DEF TypeInv, RegType
<1>3. /\ guest' = backlog[1] /\ 1 \in 1 .. Len(backlog)
      /\ \A n \in 1 .. Len(backlog') :
             backlog'[n] = backlog[n + 1] /\ n + 1 \in 1 .. Len(backlog) /\ n + 1 # 1
  BY <1>1, <1>2
<1>4. Newcomers' = Newcomers
  BY <1>1 DEF Newcomers
<1>5. /\ \A n \in 1 .. Len(backlog) : client[backlog[n]] # "off"
      /\ \A m, n \in 1 .. Len(backlog) : backlog[m] = backlog[n] => m = n
  <2>1. \A n \in 1 .. Len(backlog) : backlog[n] \in Conn
    BY <1>2
  <2> QED
    BY <2>1 DEF TypeInv, Arrivals
<1>6. /\ guest' \in Newcomers' /\ client'[guest'] # "off"
      /\ \A n \in 1 .. Len(backlog') : backlog'[n] \in Newcomers'
  BY <1>1, <1>3, <1>4, <1>5 DEF Guests
<1>7. \A n \in 1 .. Len(backlog') : backlog'[n] # guest'
  BY <1>3, <1>5
<1> QED
  BY <1>1, <1>4, <1>6, <1>7 DEF Guests

\* The step that registers the guest.
LEMMA RecvNameGuests ==
    ASSUME TypeInv, Guests, RecvName
    PROVE  /\ Guests'
           /\ guest \in Newcomers /\ guest \in Conn /\ guest # NoConn
           /\ UNCHANGED <<client, backlog>>
<1>1. /\ main = "name" /\ main' = "accept" /\ i \in Slot
      /\ owner' = [owner EXCEPT ![i] = guest]
      /\ hpc' = [hpc EXCEPT ![guest] = "start"] /\ guest' = guest
  BY DEF RecvName, TypeInv, RegType
<1>2. UNCHANGED <<client, backlog>>
  <2>1. CASE UNCHANGED net
    BY <2>1 DEF net
  <2>2. CASE \E k \in 1 .. SocketCap : Read(new_fd, k)
    BY <2>2 DEF Read
  <2> QED
    BY <2>1, <2>2 DEF RecvName
<1>3. /\ guest \in Newcomers /\ guest \in Conn /\ guest # NoConn
      /\ \A s \in Slot : owner[s] # guest
  BY <1>1, ChatAssumption DEF Guests, Newcomers
<1>4. /\ owner'[i] = guest /\ hpc'[guest] = "start"
      /\ \A s \in Slot : s # i => owner'[s] = owner[s]
      /\ \A c \in Conn : c # guest => hpc'[c] = hpc[c]
  BY <1>1, <1>3 DEF TypeInv, RegType
<1>5. \A c \in Newcomers : c # guest => c \in Newcomers'
  BY <1>1, <1>3, <1>4 DEF Newcomers
<1>6. \A s, t \in Slot : owner'[s] = owner'[t] /\ owner'[s] # NoConn => s = t
  BY <1>3, <1>4 DEF Guests
<1>7. /\ \A c \in Conn : client'[c] = "off" => c \in Newcomers'
      /\ \A n \in 1 .. Len(backlog') : backlog'[n] \in Newcomers'
  BY <1>1, <1>2, <1>5 DEF Guests
<1> QED
  BY <1>1, <1>2, <1>3, <1>6, <1>7 DEF Guests

LEMMA MainGuests ==
    ASSUME TypeInv, Guests, Main
    PROVE  Guests'
<1>1. CASE Accept
  BY <1>1, AcceptGuests
<1>2. CASE Refuse \/ Admit \/ Scan
  <2>1. UNCHANGED <<client, backlog, owner, guest, hpc>> /\ main # "accept"
    BY <1>2 DEF Refuse, Admit, Scan, net, handlers
  <2> QED
    BY <2>1, SameGuests
<1>3. CASE RecvName
  BY <1>3, RecvNameGuests
<1> QED
  BY <1>1, <1>2, <1>3 DEF Main

LEMMA MainSlots ==
    ASSUME SlotInv, Main
    PROVE  SlotInv'
<1>1. TypeInv' /\ Guests' /\ UNCHANGED <<check, struck>>
  BY MainTypes, MainGuests DEF SlotInv, Main
<1>2. /\ fds \in [Fd -> Conn \cup {NoConn}] /\ sock \in [Slot -> Fd]
      /\ new_fd \in Fd /\ active \in [Slot -> BOOLEAN]
      /\ \A s \in Slot : active[s] => owner[s] \in Conn /\ owner[s] # NoConn
  BY ChatAssumption DEF SlotInv, TypeInv, RegType, Owners
<1>3. CASE Accept
  <2>1. /\ fds' = [fds EXCEPT ![new_fd'] = guest'] /\ main' = "lock"
        /\ UNCHANGED <<active, sock, owner, hpc, hidx>>
    BY <1>3 DEF Accept, registry, handlers
  <2>2. new_fd' \in Fd /\ fds[new_fd'] = NoConn
    BY <1>3, AcceptedFd DEF SlotInv
  <2>3. fds'[new_fd'] = guest' /\ \A f \in Fd : f # new_fd' => fds'[f] = fds[f]
    BY <1>2, <2>1, <2>2
  <2>4. Owners'
    BY <1>2, <2>1, <2>3 DEF Owners
  <2>5. \A s \in Slot : active[s] /\ fds[sock[s]] = owner[s] => fds'[sock[s]] = owner[s]
    BY <1>2, <2>2, <2>3
  <2>6. SlotOwnsDescriptor'
    BY <1>1, <2>1, <2>5 DEF SlotInv, SlotOwnsDescriptor
  <2> QED
    BY <1>1, <2>4, <2>6 DEF SlotInv
<1>4. CASE Refuse
  <2>1. /\ main = "lock" /\ main' = "accept" /\ CloseFd(new_fd)
        /\ UNCHANGED <<active, sock, owner, hpc, hidx>>
    BY <1>4 DEF Refuse, registry, handlers
  <2>2. fds'[new_fd] = NoConn /\ \A f \in Fd : f # new_fd => fds'[f] = fds[f]
    BY <1>2, <2>1, CloseFdTypes DEF SlotInv
  <2>3. \A s \in Slot : owner[s] # guest
    BY <2>1 DEF SlotInv, Guests, Newcomers
  <2>4. \A s \in Slot : active[s] /\ fds[sock[s]] = owner[s] => fds'[sock[s]] = owner[s]
    BY <1>2, <2>1, <2>2, <2>3 DEF SlotInv, Owners
  <2>5. SlotOwnsDescriptor'
    BY <1>1, <2>1, <2>4 DEF SlotInv, SlotOwnsDescriptor
  <2> QED
    BY <1>1, <1>2, <2>1, <2>5 DEF SlotInv, Owners
<1>5. CASE Admit
  <2>1. /\ main = "lock" /\ main' = "scan"
        /\ UNCHANGED <<fds, active, sock, owner, hpc, hidx, new_fd, guest>>
    BY <1>5 DEF Admit, registry, handlers
  <2> QED
    BY <1>1, <2>1 DEF SlotInv, Owners, SlotOwnsDescriptor
<1>6. CASE Scan
  <2>1. /\ main = "scan" /\ UNCHANGED <<fds, active, owner, hpc, hidx, new_fd, guest>>
        /\ main' # "name" => sock' = sock
        /\ main' = "name" => /\ i \in Slot /\ ~active[i] /\ i' = i
                             /\ sock' = [sock EXCEPT ![i] = new_fd]
    BY <1>6, ChatAssumption DEF Scan, handlers, SlotInv, TypeInv, RegType, Slot
  <2>2. \A s \in Slot : active[s] => sock'[s] = sock[s]
    BY <1>2, <2>1
  <2>3. Owners'
    <3>1. main' = "name" => sock'[i'] = new_fd'
      BY <1>2, <2>1
    <3> QED
      BY <1>1, <2>1, <3>1 DEF SlotInv, Owners
  <2>4. SlotOwnsDescriptor'
    BY <1>1, <2>1, <2>2 DEF SlotInv, SlotOwnsDescriptor
  <2> QED
    BY <1>1, <2>3, <2>4 DEF SlotInv
<1>7. CASE RecvName
  <2>1. /\ main = "name" /\ main' = "accept" /\ i \in Slot
        /\ active' = [active EXCEPT ![i] = TRUE]
        /\ owner' = [owner EXCEPT ![i] = guest]
        /\ hpc' = [hpc EXCEPT ![guest] = "start"]
        /\ UNCHANGED <<fds, sock, hidx>>
    BY <1>7 DEF RecvName, SlotInv, TypeInv, RegType
  <2>2. guest \in Conn /\ hpc[guest] = "off"
    BY <1>7, RecvNameGuests DEF SlotInv, Newcomers
  <2>3. /\ active'[i] /\ owner'[i] = guest
        /\ \A s \in Slot : s # i => active'[s] = active[s] /\ owner'[s] = owner[s]
        /\ \A c \in Conn : hpc[c] = "clear" => hpc'[c] = "clear"
    BY <2>1, <2>2 DEF SlotInv, TypeInv, RegType
  <2>4. fds[sock[i]] = guest \/ guest \in struck
    BY <2>1 DEF SlotInv, Owners
  <2>5. SlotOwnsDescriptor'
    BY <1>1, <2>1, <2>3, <2>4 DEF SlotInv, SlotOwnsDescriptor
  <2>6. Owners'
    BY <1>2, <2>1, <2>2, <2>3 DEF Owners
  <2> QED
    BY <1>1, <2>5, <2>6 DEF SlotInv
<1> QED
  BY <1>3, <1>4, <1>5, <1>6, <1>7 DEF Main

-----------------------------------------------------------------------------
(* What the step of a thread does to the slots. *)

Moves == Closed' = Closed /\ UNCHANGED <<fds, active, struck>>

Closes(s) == /\ CloseSlot(s)
             /\ s \in Closed' /\ Closed \subseteq Closed'
             /\ active' = active

Clears(s) == /\ ~active'[s] /\ \A t \in Slot : active'[t] => active[t]
             /\ Closed \subseteq Closed' \cup {s}
             /\ UNCHANGED <<fds, struck>>

\* A thread that closes the socket of its slot takes the descriptor from the
\* connection main is registering, or from another slot's owner, only if it
\* strikes that connection.
LEMMA ThreadSlots ==
    ASSUME SlotInv, TypeInv', Guests',
           UNCHANGED <<sock, owner, main, new_fd, i, guest>>,
           Moves \/ \E s \in Slot : Closes(s) \/ Clears(s)
    PROVE  SlotInv'
<1>1. /\ fds \in [Fd -> Conn \cup {NoConn}] /\ sock \in [Slot -> Fd] /\ new_fd \in Fd
      /\ \A s \in Slot : active[s] => owner[s] \in Conn /\ owner[s] # NoConn
      /\ \A s \in Slot : active[s] =>
             fds[sock[s]] = owner[s] \/ s \in Closed \/ owner[s] \in struck
  BY ChatAssumption DEF SlotInv, TypeInv, RegType, Owners, SlotOwnsDescriptor, Closed
<1> SUFFICES /\ Owners'
             /\ \A s \in Slot : active'[s] =>
                    fds'[sock[s]] = owner[s] \/ s \in Closed' \/ owner[s] \in struck'
  BY DEF SlotInv, SlotOwnsDescriptor, Closed
<1>2. CASE Moves
  BY <1>1, <1>2 DEF Moves, SlotInv, Owners
<1>3. ASSUME NEW s \in Slot, Clears(s)
      PROVE  /\ Owners'
             /\ \A t \in Slot : active'[t] =>
                    fds'[sock[t]] = owner[t] \/ t \in Closed' \/ owner[t] \in struck'
  BY <1>1, <1>3 DEF Clears, SlotInv, Owners
<1>4. ASSUME NEW s \in Slot, Closes(s)
      PROVE  /\ Owners'
             /\ \A t \in Slot : active'[t] =>
                    fds'[sock[t]] = owner[t] \/ t \in Closed' \/ owner[t] \in struck'
  <2>1. /\ sock[s] \in Fd /\ CloseFd(sock[s])
        /\ struck' = struck \cup ({fds[sock[s]]} \ {owner[s], NoConn})
        /\ s \in Closed' /\ Closed \subseteq Closed' /\ active' = active
    BY <1>1, <1>4 DEF Closes, CloseSlot
  <2>2. fds'[sock[s]] = NoConn /\ \A f \in Fd : f # sock[s] => fds'[f] = fds[f]
    BY <2>1, CloseFdTypes DEF SlotInv
  <2>3. \A c \in Conn : fds[sock[s]] = c /\ owner[s] # c => c \in struck'
    BY <2>1, ChatAssumption
  <2>4. Owners'
    <3>1. main # "accept" => guest \in Conn /\ owner[s] # guest
      BY DEF SlotInv, Guests, Newcomers
    <3>2. main # "accept" => \/ fds'[new_fd] = guest
                             \/ fds'[new_fd] = NoConn /\ guest \in struck'
      BY <1>1, <2>1, <2>2, <2>3, <3>1 DEF SlotInv, Owners
    <3> QED
      BY <1>1, <2>1, <3>2 DEF SlotInv, Owners
  <2>5. ASSUME NEW t \in Slot, active[t], t # s, fds[sock[t]] = owner[t]
        PROVE  fds'[sock[t]] = owner[t] \/ owner[t] \in struck'
    <3>1. owner[t] \in Conn /\ owner[s] # owner[t]
      BY <1>1, <2>5 DEF SlotInv, Guests
    <3> QED
      BY <1>1, <2>2, <2>3, <2>5, <3>1
  <2> QED
    BY <1>1, <2>1, <2>4, <2>5
<1> QED
  BY <1>2, <1>3, <1>4

\* The thread of c leaves the other handlers alone.
LEMMA HandlerSteps ==
    ASSUME TypeInv, NEW c \in Conn, Handler(c)
    PROVE  /\ \A d \in Conn : d # c => hpc'[d] = hpc[d] /\ hidx'[d] = hidx[d]
           /\ hpc[c] \notin {"off", "done"} /\ hpc'[c] \notin {"off", "start"}
           /\ \/ HStop(c) /\ hpc[c] = "stop" /\ hpc'[c] = "clear" /\ hidx' = hidx
              \/ HClear(c) /\ hpc[c] = "clear" /\ hpc'[c] = "done"
              \/ /\ hpc[c] # "clear" /\ hpc'[c] # "clear"
                 /\ UNCHANGED <<client, backlog, fds, active, sock, struck>>
                 /\ \/ hpc'[c] = "done"
                    \/ hidx'[c] = (IF hpc[c] = "start" THEN i ELSE hidx[c])
<1>1. hpc \in [Conn -> Labels] /\ hidx \in [Conn -> 0 .. MAX_CLIENTS]
  BY DEF TypeInv, RegType
<1>2. \A l : Goto(c, l) => hpc'[c] = l /\ \A d \in Conn : d # c => hpc'[d] = hpc[d]
  BY <1>1 DEF Goto
<1>3. Exit(c) => /\ hpc'[c] = "done"
                 /\ \A d \in Conn : d # c => hpc'[d] = hpc[d] /\ hidx'[d] = hidx[d]
  BY <1>1, <1>2 DEF Exit
<1>4. CASE HStart(c)
  <2>1. hpc[c] = "start" /\ UNCHANGED <<client, backlog, fds, active, sock, struck>>
    BY <1>4 DEF HStart, Read, net, registry
  <2>2. CASE hidx' = [hidx EXCEPT ![c] = i] /\ Goto(c, "lock")
    <3>1. hidx'[c] = i /\ \A d \in Conn : d # c => hidx'[d] = hidx[d]
      BY <1>1, <2>2
    <3> QED
      BY <1>2, <2>1, <2>2, <3>1
  <2>3. CASE Exit(c)
    BY <1>3, <2>1, <2>3
  <2> QED
    BY <1>4, <2>2, <2>3 DEF HStart
<1>5. CASE HLock(c)
  <2>1. /\ hpc[c] = "lock" /\ Goto(c, "recv") /\ hidx' = hidx
        /\ UNCHANGED <<client, backlog, fds, active, sock, struck>>
    BY <1>5 DEF HLock, net, registry
  <2> QED
    BY <1>2, <2>1
<1>6. CASE HRecv(c)
  <2>1. /\ hpc[c] = "recv" /\ Goto(c, "check") /\ hidx' = hidx
        /\ UNCHANGED <<client, backlog, fds, active, sock, struck>>
    BY <1>6 DEF HRecv, Read, net, registry
  <2> QED
    BY <1>2, <2>1
<1>7. CASE HCheck(c)
  <2>1. hpc[c] = "check" /\ UNCHANGED <<client, backlog, fds, active, sock, struck>>
    BY <1>7 DEF HCheck, net, registry
  <2>2. CASE Exit(c)
    BY <1>3, <2>1, <2>2
  <2>3. CASE hidx' = hidx /\ \E l \in {"act", "stop", "lock"} : Goto(c, l)
    BY <1>2, <2>1, <2>3
  <2> QED
    BY <1>1, <1>7, <2>2, <2>3, CheckLeads
<1>8. CASE HAct(c)
  <2>1. /\ hpc[c] = "act" /\ hidx' = hidx
        /\ UNCHANGED <<client, backlog, fds, active, sock, struck>>
        /\ \E l \in {"send", "reply"} : Goto(c, l)
    BY <1>8 DEF HAct, net, registry
  <2> QED
    BY <1>2, <2>1
<1>9. CASE HSend(c)
  <2>1. /\ hpc[c] \in {"send", "reply"} /\ Goto(c, "lock") /\ hidx' = hidx
        /\ UNCHANGED <<client, backlog, fds, active, sock, struck>>
    BY <1>9 DEF HSend, Deliver, registry
  <2> QED
    BY <1>2, <2>1
<1>10. CASE HStop(c)
  <2>1. hpc[c] = "stop" /\ Goto(c, "clear") /\ hidx' = hidx
    BY <1>10 DEF HStop
  <2> QED
    BY <1>2, <1>10, <2>1
<1>11. CASE HClear(c)
  <2>1. hpc[c] = "clear" /\ Exit(c)
    BY <1>11 DEF HClear
  <2> QED
    BY <1>3, <1>11, <2>1
<1> QED
  BY <1>4, <1>5, <1>6, <1>7, <1>8, <1>9, <1>10, <1>11 DEF Handler

LEMMA HandlerEffect ==
    ASSUME TypeInv, NEW c \in Conn, Handler(c)
    PROVE  Moves \/ \E s \in Slot : Closes(s) \/ Clears(s)
<1> DEFINE s == hidx[c]
<1>1. /\ \A d \in Conn : d # c => hpc'[d] = hpc[d] /\ hidx'[d] = hidx[d]
      /\ check' = check /\ active \in [Slot -> BOOLEAN]
      /\ hpc[c] \in {"stop", "clear"} => s \in Slot
  BY HandlerSteps DEF Handler, TypeInv, RegType
<1>2. CASE HStop(c) /\ hpc[c] = "stop" /\ hpc'[c] = "clear" /\ hidx' = hidx
  <2>1. \A t \in Slot : (\E d \in Conn : hpc'[d] = "clear" /\ hidx'[d] = t)
           <=> (t = s \/ \E d \in Conn : hpc[d] = "clear" /\ hidx[d] = t)
    BY <1>1, <1>2
  <2>2. s \in Closed' /\ Closed \subseteq Closed'
    BY <1>1, <1>2, <2>1 DEF Closed
  <2>3. CloseSlot(s) /\ active' = active
    BY <1>2 DEF HStop, registry
  <2> QED
    BY <1>1, <1>2, <2>2, <2>3 DEF Closes
<1>3. CASE HClear(c) /\ hpc[c] = "clear" /\ hpc'[c] = "done"
  <2>1. \A t \in Slot : (\E d \in Conn : hpc[d] = "clear" /\ hidx[d] = t)
            => t = s \/ \E d \in Conn : hpc'[d] = "clear" /\ hidx'[d] = t
    BY <1>1, <1>3
  <2>2. Closed \subseteq Closed' \cup {s}
    BY <1>1, <2>1 DEF Closed
  <2>3. /\ ~active'[s] /\ \A t \in Slot : active'[t] => active[t]
        /\ UNCHANGED <<fds, struck>>
    BY <1>1, <1>3 DEF HClear, Unregister
  <2> QED
    BY <1>1, <1>3, <2>2, <2>3 DEF Clears
<1>4. CASE hpc[c] # "clear" /\ hpc'[c] # "clear" /\ UNCHANGED <<fds, active, struck>>
  <2>1. \A t \in Slot : (\E d \in Conn : hpc'[d] = "clear" /\ hidx'[d] = t)
                    <=> (\E d \in Conn : hpc[d] = "clear" /\ hidx[d] = t)
    BY <1>1, <1>4
  <2>2. Closed' = Closed
    BY <1>1, <2>1 DEF Closed
  <2> QED
    BY <1>4, <2>2 DEF Moves
<1> QED
  BY <1>2, <1>3, <1>4, HandlerSteps

\* What a round of alive_checker starts.
LEMMA RoundStarts ==
    ASSUME TypeInv, AliveRound
    PROVE  \A s \in Slot, k \in Rounds :
               \/ check'[s][k] = check[s][k]
               \/ active[s] /\ check[s][k] = "idle" /\ check'[s][k] = "lock"
<1> SUFFICES ASSUME NEW s \in Slot, NEW k \in Rounds
             PROVE  \/ check'[s][k] = check[s][k]
                    \/ active[s] /\ check[s][k] = "idle" /\ check'[s][k] = "lock"
  OBVIOUS
<1> DEFINE free == CHOOSE n \in Rounds : check[s][n] = "idle"
<1>1. check \in [Slot -> [Rounds -> Rests]]
  BY DEF TypeInv, RegType
<1>2. active[s] => check'[s] = [check[s] EXCEPT ![free] = "lock"]
  BY DEF AliveRound
<1>3. ~active[s] => check'[s] = check[s]
  BY DEF AliveRound
<1>4. active[s] => free \in Rounds /\ check[s][free] = "idle"
  BY DEF AliveRound
<1> HIDE DEF free
<1> QED
  BY <1>1, <1>2, <1>3, <1>4

\* A check leaves the handlers and the other checks alone.
LEMMA CheckerEffect ==
    ASSUME TypeInv, Checker
    PROVE  Moves \/ \E s \in Slot : Closes(s) \/ Clears(s)
<1>1. /\ check \in [Slot -> [Rounds -> Rests]] /\ active \in [Slot -> BOOLEAN]
      /\ UNCHANGED <<hpc, hidx>>
  BY DEF Checker, handlers, TypeInv, RegType
<1>2. CASE /\ UNCHANGED <<fds, active, struck>>
           /\ \A t \in Slot, n \in Rounds : check'[t][n] = "clear" <=> check[t][n] = "clear"
  <2>1. Closed' = Closed
    BY <1>1, <1>2 DEF Closed
  <2> QED
    BY <1>2, <2>1 DEF Moves
<1>3. CASE AliveRound
  <2>1. UNCHANGED <<fds, active, struck>>
    BY <1>3 DEF AliveRound, registry
  <2>2. \A t \in Slot, n \in Rounds : check'[t][n] = "clear" <=> check[t][n] = "clear"
    BY <1>3, RoundStarts
  <2> QED
    BY <1>2, <2>1, <2>2
<1>4. ASSUME NEW s \in Slot, NEW k \in Rounds, Check(s, k)
      PROVE  Moves \/ \E t \in Slot : Closes(t) \/ Clears(t)
  <2>1. \A l : Step(s, k, l) =>
            /\ check'[s][k] = l
            /\ \A t \in Slot, n \in Rounds : t # s \/ n # k => check'[t][n] = check[t][n]
    BY <1>1 DEF Step
  <2>2. CASE CLock(s, k) \/ CSend(s, k) \/ CRead(s, k)
    <3>1. /\ UNCHANGED <<fds, active, struck>> /\ check[s][k] # "clear"
          /\ \E l \in {"send", "read", "idle", "close"} : Step(s, k, l)
      BY <2>2 DEF CLock, CSend, CRead, registry
    <3>2. \A t \in Slot, n \in Rounds : check'[t][n] = "clear" <=> check[t][n] = "clear"
      <4>1. check'[s][k] # "clear"
        BY <2>1, <3>1
      <4> QED
        BY <2>1, <3>1, <4>1
    <3> QED
      BY <1>2, <3>1, <3>2
  <2>3. CASE CClose(s, k)
    <3>1. check[s][k] = "close" /\ CloseSlot(s) /\ Step(s, k, "clear") /\ active' = active
      BY <2>3 DEF CClose, registry
    <3>2. s \in Closed' /\ Closed \subseteq Closed'
      BY <1>1, <2>1, <3>1 DEF Closed
    <3> QED
      BY <3>1, <3>2 DEF Closes
  <2>4. CASE CClear(s, k)
    <3>1. Unregister(s) /\ Step(s, k, "idle") /\ UNCHANGED <<fds, struck>>
      BY <2>4 DEF CClear
    <3>2. Closed \subseteq Closed' \cup {s}
      BY <1>1, <2>1, <3>1 DEF Closed
    <3>3. ~active'[s] /\ \A t \in Slot : active'[t] => active[t]
      BY <1>1, <3>1 DEF Unregister
    <3> QED
      BY <3>1, <3>2, <3>3 DEF Clears
  <2> QED
    BY <1>4, <2>2, <2>3, <2>4 DEF Check
<1> QED
  BY <1>3, <1>4 DEF Checker

\* No thread is at work for a connection that is not registered.
LEMMA HandlerGuests ==
    ASSUME TypeInv, Guests, NEW c \in Conn, Handler(c)
    PROVE  Guests' /\ UNCHANGED <<client, backlog, sock>>
<1>1. UNCHANGED <<client, backlog, sock>>
  <2>1. HStop(c) => UNCHANGED <<client, backlog, sock>>
    BY DEF HStop, net, registry
  <2>2. HClear(c) => UNCHANGED <<client, backlog, sock>>
    BY DEF HClear, Unregister, net
  <2> QED
    BY <2>1, <2>2, HandlerSteps
<1>2. \A d \in Conn : hpc[d] = "off" => hpc'[d] = "off"
  BY HandlerSteps
<1>3. UNCHANGED <<main, owner, guest>>
  BY DEF Handler, acceptor
<1> QED
  BY <1>1, <1>2, <1>3, SameGuests

LEMMA CheckerGuests ==
    ASSUME Guests, Checker
    PROVE  Guests' /\ UNCHANGED <<client, backlog, sock>>
<1>1. UNCHANGED <<main, owner, guest, hpc>>
  BY DEF Checker, acceptor, handlers
<1>2. AliveRound => UNCHANGED <<client, backlog, sock>>
  BY DEF AliveRound, net, registry
<1>3. ASSUME NEW s \in Slot, NEW k \in Rounds, Check(s, k)
      PROVE  UNCHANGED <<client, backlog, sock>>
  <2>1. CLock(s, k) \/ CClose(s, k) => UNCHANGED <<client, backlog, sock>>
    BY DEF CLock, CClose, net, registry
  <2>2. CSend(s, k) => UNCHANGED <<client, backlog, sock>>
    BY DEF CSend, Deliver, registry
  <2>3. CRead(s, k) => UNCHANGED <<client, backlog, sock>>
    BY DEF CRead, Read, net, registry
  <2>4. CClear(s, k) => UNCHANGED <<client, backlog, sock>>
    BY DEF CClear, Unregister, net
  <2> QED
    BY <1>3, <2>1, <2>2, <2>3, <2>4 DEF Check
<1>4. UNCHANGED <<client, backlog, sock>>
  BY <1>2, <1>3 DEF Checker
<1> QED
  BY <1>1, <1>4, SameGuests

LEMMA StepSlots == SlotInv /\ [Next]_vars => SlotInv'
<1> SUFFICES ASSUME SlotInv, [Next]_vars PROVE SlotInv'
  OBVIOUS
<1>1. TypeInv /\ Guests
  BY DEF SlotInv
<1>2. CASE Main
  BY <1>2, MainSlots
<1>3. ASSUME NEW c \in Conn, Handler(c)
      PROVE  SlotInv'
  <2>1. TypeInv' /\ Guests' /\ sock' = sock
    BY <1>1, <1>3, HandlerTypes, HandlerGuests
  <2>2. UNCHANGED <<owner, main, new_fd, i, guest>>
    BY <1>3 DEF Handler, acceptor
  <2>3. Moves \/ \E s \in Slot : Closes(s) \/ Clears(s)
    BY <1>1, <1>3, HandlerEffect
  <2> QED
    BY <2>1, <2>2, <2>3, ThreadSlots
<1>4. CASE Checker
  <2>1. TypeInv' /\ Guests' /\ sock' = sock
    BY <1>1, <1>4, CheckerTypes, CheckerGuests
  <2>2. UNCHANGED <<owner, main, new_fd, i, guest>>
    BY <1>4 DEF Checker, acceptor
  <2>3. Moves \/ \E s \in Slot : Closes(s) \/ Clears(s)
    BY <1>1, <1>4, CheckerEffect
  <2> QED
    BY <2>1, <2>2, <2>3, ThreadSlots
<1>5. CASE (\E c \in Conn : Client(c)) \/ UNCHANGED vars
  <2>1. UNCHANGED <<fds, active, sock, main, new_fd, i, guest, hpc, hidx, check, owner,
                    struck>>
    BY <1>5 DEF Client, vars, registry, acceptor, handlers
  <2>2. Guests'
    BY <1>1, <1>5, <2>1, ClientGuests, SameGuests DEF vars, net
  <2>3. TypeInv'
    BY <1>1, StepTypes
  <2> QED
    BY <2>1, <2>2, <2>3 DEF SlotInv, Owners, SlotOwnsDescriptor
<1> QED
  BY <1>2, <1>3, <1>4, <1>5 DEF Next, Server

\* Whatever the order of the threads, a registered slot's descriptor is that of
\* the connection registered in it, or was closed by a thread that has yet to
\* clear this slot, or else by a thread at work on a slot not its own: neither
\* accept nor the registration of another connection, nor main's refusal of one,
\* takes a descriptor from a slot, however late the threads of gone clients are.
THEOREM SocketsKeepOwners == Spec => []SlotOwnsDescriptor
<1>1. SlotInv => SlotOwnsDescriptor
  BY DEF SlotInv
<1> QED
  BY InitSlots, StepSlots, <1>1, PTL DEF Spec

-----------------------------------------------------------------------------
(* Slots and sockets under CalmSpec.  A slot is Busy while it is registered  *)
(* or a thread still works on it, Closed between the close of its socket and *)
(* its clearing.  The socket of a busy slot is that of the slot's owner or   *)
(* closed, and is no other busy slot's; main registers a connection only in  *)
(* a slot that is not busy.                                                  *)

Busy == {s \in Slot : \/ active[s]
                      \/ \E c \in Conn : hpc[c] = "start" /\ i = s
                      \/ \E c \in Conn : /\ hpc[c] \notin {"off", "start", "done"}
                                         /\ hidx[c] = s
                      \/ \E k \in Rounds : check[s][k] # "idle"}

Sockets ==
    /\ \A s \in Busy : owner[s] \in Conn /\ fds[sock[s]] \in {owner[s], NoConn}
    /\ \A s \in Slot : active[s] /\ s \notin Closed => fds[sock[s]] = owner[s]
    /\ \A s \in Closed : fds[sock[s]] = NoConn
    /\ \A s, t \in Busy : sock[s] = sock[t] => s = t

\* The connection main is about to register, and the slot it has found for it.
Incoming ==
    /\ main # "accept" =>
           /\ fds[new_fd] = guest
           /\ \A s \in Busy : sock[s] # new_fd
           /\ \A c \in Conn : hpc[c] # "start"
    /\ main \in {"scan", "name"} => \A s \in Busy : active[s]
    /\ main = "name" => sock[i] = new_fd

\* A thread works on the slot its connection owns.
Serving ==
    \A c \in Conn :
        /\ hpc[c] = "start" => i \in Slot /\ owner[i] = c
        /\ hpc[c] \notin {"off", "start", "done"} => owner[hidx[c]] = c

OwnInv == TypeInv /\ Sockets /\ Incoming /\ Serving /\ Guests

-----------------------------------------------------------------------------

LEMMA InitOwn == Init => OwnInv
<1> SUFFICES ASSUME Init PROVE OwnInv
  OBVIOUS
<1>1. Busy = {} /\ Closed = {}
  BY DEF Init, Busy, Closed
<1>2. Newcomers = Conn
  BY ChatAssumption DEF Init, Newcomers
<1> QED
  BY <1>1, <1>2, InitTypes DEF Init, OwnInv, Sockets, Incoming, Serving, Guests

\* Nothing moves on the server.
LEMMA SameOwn ==
    ASSUME OwnInv, TypeInv', client' = client, backlog' = backlog,
           UNCHANGED <<fds, active, sock, main, new_fd, i, guest, hpc, hidx, check, owner>>
    PROVE  OwnInv'
<1>1. Busy' = Busy /\ Closed' = Closed /\ Newcomers' = Newcomers
  BY DEF Busy, Closed, Newcomers
<1> QED
  BY <1>1 DEF OwnInv, Sockets, Incoming, Serving, Guests

LEMMA ClientOwn ==
    ASSUME OwnInv, NEW c \in Conn, Client(c)
    PROVE  OwnInv'
<1>1. /\ UNCHANGED <<fds, active, sock, main, new_fd, i, guest, hpc, hidx, check, owner>>
      /\ TypeInv'
  BY ClientTypes DEF Client, registry, acceptor, handlers, OwnInv
<1>2. Busy' = Busy /\ Closed' = Closed /\ Newcomers' = Newcomers
  BY <1>1 DEF Busy, Closed, Newcomers
<1>3. Sockets' /\ Incoming' /\ Serving'
  BY <1>1, <1>2 DEF OwnInv, Sockets, Incoming, Serving
<1>4. Guests'
  BY ClientGuests DEF OwnInv
<1> QED
  BY <1>1, <1>3, <1>4 DEF OwnInv

\* When main goes on to a new connection, every thread still at work serves a
\* registered slot whose socket is open.
LEMMA QuietSlots ==
    ASSUME OwnInv, Quiet
    PROVE  /\ Closed = {}
           /\ \A s \in Busy : active[s] /\ fds[sock[s]] = owner[s] /\ owner[s] \in Conn
           /\ \A c \in Conn : hpc[c] # "start"
<1>1. \A c \in Conn : hpc[c] # "start"
  BY DEF Quiet
<1>2. \A c \in Conn : hpc[c] \notin {"off", "start", "done"} => Served(hidx[c])
  BY DEF Quiet
<1>3. \A s \in Slot, k \in Rounds : check[s][k] # "idle" => Served(s)
  BY DEF Quiet
<1>4. Closed = {}
  BY <1>2, <1>3 DEF Closed, Served, OwnInv, Sockets
<1>5. \A s \in Busy : active[s]
  BY <1>1, <1>2, <1>3 DEF Busy, Served
<1> QED
  BY <1>1, <1>4, <1>5 DEF OwnInv, Sockets, Busy

\* The busy slots stay the same, and so do their sockets.
LEMMA SameSockets ==
    ASSUME Sockets, UNCHANGED <<active, owner>>, Busy' = Busy, Closed' = Closed,
           \A s \in Busy : sock'[s] = sock[s] /\ fds'[sock'[s]] = fds[sock[s]]
    PROVE  Sockets'
<1>1. \A s \in Slot : active[s] \/ s \in Closed => s \in Busy
  BY DEF Busy, Closed
<1>2. \A s \in Closed : s \in Slot
  BY DEF Closed
<1>3. \A s \in Busy' : owner'[s] \in Conn /\ fds'[sock'[s]] \in {owner'[s], NoConn}
  BY DEF Sockets
<1>4. \A s \in Slot : active'[s] /\ s \notin Closed' => fds'[sock'[s]] = owner'[s]
  BY <1>1 DEF Sockets
<1>5. \A s \in Closed' : fds'[sock'[s]] = NoConn
  BY <1>1, <1>2 DEF Sockets
<1>6. \A s, t \in Busy' : sock'[s] = sock'[t] => s = t
  BY DEF Sockets
<1> QED
  BY <1>3, <1>4, <1>5, <1>6 DEF Sockets

LEMMA AcceptOwn ==
    ASSUME OwnInv, TypeInv', Guests', Accept, check' = check, Quiet
    PROVE  OwnInv'
<1>1. /\ fds' = [fds EXCEPT ![new_fd'] = guest'] /\ main' = "lock"
      /\ UNCHANGED <<client, active, sock, i, owner, hpc, hidx, check>>
  BY DEF Accept, registry, handlers
<1>2. new_fd' \in Fd \ {0} /\ fds[new_fd'] = NoConn
  BY AcceptedFd DEF OwnInv
<1>3. fds \in [Fd -> Conn \cup {NoConn}] /\ sock \in [Slot -> Fd]
  BY DEF OwnInv, TypeInv, RegType
<1>5. fds'[new_fd'] = guest' /\ \A f \in Fd : f # new_fd' => fds'[f] = fds[f]
  BY <1>1, <1>2, <1>3
<1>6. Busy' = Busy /\ Closed' = Closed /\ Newcomers' = Newcomers
  BY <1>1 DEF Busy, Closed, Newcomers
<1>7. \A s \in Busy : s \in Slot /\ sock[s] \in Fd /\ sock[s] # new_fd'
  BY <1>2, <1>3, QuietSlots, ChatAssumption DEF Busy
<1>8. Sockets'
  <2>1. \A s \in Slot : active[s] => s \in Busy
    BY DEF Busy
  <2>2. \A s \in Busy : fds'[sock[s]] = fds[sock[s]]
    BY <1>5, <1>7
  <2> QED
    BY <1>1, <1>6, <1>7, <2>1, <2>2, QuietSlots DEF OwnInv, Sockets
<1>9. Incoming'
  BY <1>1, <1>5, <1>6, <1>7, QuietSlots DEF Incoming
<1>10. Serving'
  BY <1>1 DEF OwnInv, Serving
<1> QED
  BY <1>8, <1>9, <1>10 DEF OwnInv

LEMMA RefuseOwn ==
    ASSUME OwnInv, TypeInv', Refuse, check' = check
    PROVE  OwnInv'
<1>1. /\ main = "lock" /\ main' = "accept" /\ CloseFd(new_fd) /\ new_fd \in Fd
      /\ UNCHANGED <<client, backlog, active, sock, i, owner, hpc, hidx, guest, check>>
  BY DEF Refuse, net, registry, handlers, OwnInv, TypeInv, RegType
<1>2. fds'[new_fd] = NoConn /\ \A f \in Fd : f # new_fd => fds'[f] = fds[f]
  BY <1>1, CloseFdTypes DEF OwnInv
<1>3. Busy' = Busy /\ Closed' = Closed /\ Newcomers' = Newcomers
  BY <1>1 DEF Busy, Closed, Newcomers
<1>4. \A s \in Busy : s \in Slot /\ fds'[sock[s]] = fds[sock[s]]
  BY <1>1, <1>2 DEF OwnInv, Incoming, TypeInv, RegType, Busy
<1>5. \A s \in Slot : active[s] \/ s \in Closed => s \in Busy
  BY DEF Busy, Closed
<1>6. Sockets'
  BY <1>1, <1>3, <1>4, <1>5, SameSockets DEF OwnInv
<1> QED
  BY <1>1, <1>3, <1>6 DEF OwnInv, Incoming, Serving, Guests

LEMMA AdmitOwn ==
    ASSUME OwnInv, TypeInv', Admit, check' = check, Quiet
    PROVE  OwnInv'
<1>1. /\ main = "lock" /\ main' = "scan"
      /\ UNCHANGED <<client, backlog, fds, active, sock, owner, hpc, hidx, new_fd, guest, check>>
  BY DEF Admit, net, registry, handlers
<1>2. \A c \in Conn : hpc[c] # "start"
  BY QuietSlots
<1>3. Busy' = Busy /\ Closed' = Closed /\ Newcomers' = Newcomers
  BY <1>1, <1>2 DEF Busy, Closed, Newcomers
<1>4. Sockets' /\ Guests'
  BY <1>1, <1>3 DEF OwnInv, Sockets, Guests
<1>5. Incoming' /\ Serving'
  BY <1>1, <1>2, <1>3, QuietSlots DEF OwnInv, Incoming, Serving
<1> QED
  BY <1>4, <1>5 DEF OwnInv

LEMMA ScanOwn ==
    ASSUME OwnInv, TypeInv', Scan, check' = check
    PROVE  OwnInv'
<1>1. /\ main = "scan" /\ main' \in {"accept", "scan", "name"}
      /\ UNCHANGED <<client, backlog, fds, active, owner, hpc, hidx, new_fd, guest, check>>
      /\ main' # "name" => sock' = sock
      /\ main' = "name" => i \in Slot /\ ~active[i] /\ i' = i /\ sock' = [sock EXCEPT ![i] = new_fd]
  BY ChatAssumption DEF Scan, net, handlers, OwnInv, TypeInv, RegType, Slot
<1>2. \A c \in Conn : hpc[c] # "start"
  BY <1>1 DEF OwnInv, Incoming
<1>3. Busy' = Busy /\ Closed' = Closed /\ Newcomers' = Newcomers
  BY <1>1, <1>2 DEF Busy, Closed, Newcomers
<1>4. \A s \in Busy : active[s] /\ s \in Slot
  BY <1>1 DEF OwnInv, Incoming, Busy
<1>5. \A s \in Slot : active[s] \/ s \in Closed => s \in Busy
  BY DEF Busy, Closed
<1>6. \A s \in Busy : sock'[s] = sock[s]
  BY <1>1, <1>4 DEF OwnInv, TypeInv, RegType
<1>7. Sockets'
  BY <1>1, <1>3, <1>5, <1>6, SameSockets DEF OwnInv
<1>8. Incoming'
  <2>1. main' = "name" => sock'[i'] = new_fd'
    BY <1>1 DEF OwnInv, TypeInv, RegType
  <2> QED
    BY <1>1, <1>2, <1>3, <1>4, <1>6, <2>1 DEF OwnInv, Incoming
<1>9. Serving'
  BY <1>1, <1>2 DEF OwnInv, Serving
<1>10. Guests'
  BY <1>1, <1>3 DEF OwnInv, Guests
<1> QED
  BY <1>7, <1>8, <1>9, <1>10 DEF OwnInv

LEMMA RecvNameOwn ==
    ASSUME OwnInv, TypeInv', Guests', RecvName, check' = check
    PROVE  OwnInv'
<1>1. /\ main = "name" /\ main' = "accept" /\ i \in Slot /\ ~active[i]
      /\ active' = [active EXCEPT ![i] = TRUE]
      /\ owner' = [owner EXCEPT ![i] = guest]
      /\ hpc' = [hpc EXCEPT ![guest] = "start"]
      /\ UNCHANGED <<fds, sock, new_fd, i, guest, hidx, check>>
  BY DEF RecvName, OwnInv, TypeInv, RegType
<1>3. /\ guest \in Newcomers /\ guest \in Conn /\ hpc[guest] = "off" /\ guest # NoConn
      /\ \A s \in Slot : owner[s] # guest
      /\ sock[i] = new_fd /\ fds[new_fd] = guest
      /\ \A c \in Conn : hpc[c] # "start"
      /\ \A s \in Busy : s \in Slot /\ active[s] /\ sock[s] # new_fd /\ s # i
  BY <1>1, ChatAssumption DEF OwnInv, Incoming, Guests, Newcomers, Busy
<1>4. /\ active'[i] /\ owner'[i] = guest /\ hpc'[guest] = "start"
      /\ \A s \in Slot : s # i => active'[s] = active[s] /\ owner'[s] = owner[s]
      /\ \A c \in Conn : c # guest => hpc'[c] = hpc[c]
  BY <1>1, <1>3 DEF OwnInv, TypeInv, RegType
<1>5. Busy' \subseteq Busy \cup {i} /\ Busy \subseteq Busy'
  <2>1. Busy' \subseteq Busy \cup {i}
    BY <1>1, <1>4 DEF Busy
  <2>2. Busy \subseteq Busy'
    BY <1>3, <1>4 DEF Busy
  <2> QED
    BY <2>1, <2>2
<1>6. Closed' = Closed
  <2>1. \A c \in Conn : hpc'[c] = "clear" <=> hpc[c] = "clear"
    BY <1>3, <1>4
  <2> QED
    BY <1>1, <2>1 DEF Closed
<1>7. i \notin Closed
  BY <1>3 DEF Closed, Busy
<1>8. Sockets'
  BY <1>1, <1>3, <1>4, <1>5, <1>6, <1>7 DEF OwnInv, Sockets
<1>9. Incoming' /\ Serving'
  <2>1. \A c \in Conn : hpc[c] \notin {"off", "start", "done"} => hidx[c] # i
    BY <1>3 DEF Busy, OwnInv, TypeInv, RegType
  <2>2. \A c \in Conn : hpc[c] \notin {"off", "start", "done"} => hidx[c] \in Slot
    BY DEF OwnInv, TypeInv, RegType
  <2>3. Serving'
    BY <1>1, <1>3, <1>4, <2>1, <2>2 DEF OwnInv, Serving
  <2> QED
    BY <1>1, <2>3 DEF Incoming
<1> QED
  BY <1>8, <1>9 DEF OwnInv

LEMMA MainOwn ==
    ASSUME OwnInv, Main, Calm
    PROVE  OwnInv'
<1>1. TypeInv' /\ Guests' /\ check' = check
  BY MainTypes, MainGuests DEF OwnInv, Main
<1>2. CASE Accept
  <2>1. Quiet
    BY <1>2 DEF Accept, Calm
  <2> QED
    BY <1>1, <1>2, <2>1, AcceptOwn
<1>3. CASE Admit
  <2>1. Quiet
    BY <1>3 DEF Admit, Calm
  <2> QED
    BY <1>1, <1>3, <2>1, AdmitOwn
<1> QED
  BY <1>1, <1>2, <1>3, RefuseOwn, ScanOwn, RecvNameOwn DEF Main

Working(c) == hpc[c] \notin {"off", "start", "done"}

\* A step of a thread leaves main and the slots' owners alone.  It keeps the slot
\* it works on, and starts nothing on a slot that is not busy; a socket it closes
\* is that of a slot it goes on to clear, and a slot is cleared before it is left.
LEMMA ThreadOwn ==
    ASSUME OwnInv, TypeInv',
           UNCHANGED <<client, backlog, sock, owner, main, new_fd, i, guest>>,
           \A c \in Conn : /\ hpc'[c] = "off" <=> hpc[c] = "off"
                           /\ hpc'[c] = "start" => hpc[c] = "start",
           \A c \in Conn : Working(c)' => \/ hpc[c] = "start" /\ hidx'[c] = i
                                          \/ Working(c) /\ hidx'[c] = hidx[c],
           \A s \in Slot : active'[s] => active[s],
           main \in {"scan", "name"} => active' = active,
           \A s \in Slot, k \in Rounds : check'[s][k] # "idle" => s \in Busy,
           \A s \in Busy : \/ fds'[sock[s]] = fds[sock[s]]
                           \/ s \in Closed' /\ fds'[sock[s]] = NoConn,
           main # "accept" => fds'[new_fd] = fds[new_fd],
           \A s \in Closed' : s \in Closed \/ fds'[sock[s]] = NoConn,
           \A s \in Closed : s \in Closed' \/ ~active'[s]
    PROVE  OwnInv'
<1>1. \A s \in Slot : active[s] \/ s \in Closed => s \in Busy
  BY DEF Busy, Closed
<1>2. Busy' \subseteq Busy
  <2> SUFFICES ASSUME NEW s \in Busy' PROVE s \in Busy
    OBVIOUS
  <2>1. s \in Slot
    BY DEF Busy
  <2>2. CASE active'[s] \/ \E k \in Rounds : check'[s][k] # "idle"
    BY <1>1, <2>1, <2>2
  <2>3. CASE \E c \in Conn : hpc'[c] = "start" /\ i' = s
    BY <2>1, <2>3 DEF Busy
  <2>4. CASE \E c \in Conn : Working(c)' /\ hidx'[c] = s
    BY <2>1, <2>4 DEF Busy, Working
  <2> QED
    BY <2>2, <2>3, <2>4 DEF Busy, Working
<1>3. Closed \subseteq Slot /\ Closed' \subseteq Slot /\ Busy \subseteq Slot
  BY DEF Closed, Busy
<1>4. Sockets'
  <2>1. \A s \in Busy' : owner'[s] \in Conn /\ fds'[sock'[s]] \in {owner'[s], NoConn}
    BY <1>2 DEF OwnInv, Sockets
  <2>2. \A s \in Slot : active'[s] /\ s \notin Closed' => fds'[sock'[s]] = owner'[s]
    BY <1>1 DEF OwnInv, Sockets
  <2>3. \A s \in Closed' : fds'[sock'[s]] = NoConn
    BY <1>1, <1>3 DEF OwnInv, Sockets
  <2>4. \A s, t \in Busy' : sock'[s] = sock'[t] => s = t
    BY <1>2 DEF OwnInv, Sockets
  <2> QED
    BY <2>1, <2>2, <2>3, <2>4 DEF Sockets
<1>5. Incoming'
  BY <1>2, <1>3 DEF OwnInv, Incoming
<1>6. Serving'
  <2>1. \A c \in Conn : Working(c)' => owner'[hidx'[c]] = c
    BY DEF OwnInv, Serving, Working
  <2>2. \A c \in Conn : hpc'[c] = "start" => i' \in Slot /\ owner'[i'] = c
    BY DEF OwnInv, Serving
  <2> QED
    BY <2>1, <2>2 DEF Serving, Working
<1>7. Newcomers' = Newcomers
  BY DEF Newcomers
<1>8. Guests'
  BY <1>7 DEF OwnInv, Guests
<1> QED
  BY <1>4, <1>5, <1>6, <1>8 DEF OwnInv

\* The thread of c moves without closing a socket or clearing a slot.
LEMMA HandlerMoves ==
    ASSUME OwnInv, TypeInv', NEW c \in Conn,
           UNCHANGED <<client, backlog, fds, active, sock, owner, main, new_fd, i,
                       guest, check>>,
           hpc[c] \notin {"off", "clear", "done"},
           hpc'[c] \notin {"off", "start", "clear"},
           \A d \in Conn : d # c => hpc'[d] = hpc[d] /\ hidx'[d] = hidx[d],
           hpc'[c] = "done" \/ hidx'[c] = (IF hpc[c] = "start" THEN i ELSE hidx[c])
    PROVE  OwnInv'
<1>1. Closed' = Closed
  <2>1. \A s \in Slot : (\E d \in Conn : hpc'[d] = "clear" /\ hidx'[d] = s)
                    <=> (\E d \in Conn : hpc[d] = "clear" /\ hidx[d] = s)
    OBVIOUS
  <2> QED
    BY <2>1 DEF Closed
<1>2. \A s \in Slot, k \in Rounds : check'[s][k] # "idle" => s \in Busy
  BY DEF Busy
<1>3. \A d \in Conn : Working(d)' => \/ hpc[d] = "start" /\ hidx'[d] = i
                                     \/ Working(d) /\ hidx'[d] = hidx[d]
  BY DEF Working
<1>4. \A d \in Conn : /\ hpc'[d] = "off" <=> hpc[d] = "off"
                      /\ hpc'[d] = "start" => hpc[d] = "start"
  OBVIOUS
<1> QED
  BY <1>1, <1>2, <1>3, <1>4, ThreadOwn

LEMMA HandlerOwn ==
    ASSUME OwnInv, NEW c \in Conn, Handler(c)
    PROVE  OwnInv'
<1> DEFINE s == hidx[c]
<1>1. /\ TypeInv' /\ UNCHANGED <<main, new_fd, i, guest, owner, check>>
      /\ hpc \in [Conn -> Labels] /\ hidx \in [Conn -> 0 .. MAX_CLIENTS]
      /\ active \in [Slot -> BOOLEAN] /\ sock \in [Slot -> Fd]
      /\ hpc[c] \notin {"off", "start", "done"} => s \in Slot /\ s \in Busy
  BY HandlerTypes DEF Handler, acceptor, OwnInv, TypeInv, RegType, Busy
<1>2. \A d \in Conn : d # c => hpc'[d] = hpc[d] /\ hidx'[d] = hidx[d]
  BY HandlerSteps DEF OwnInv
<1>3. CASE /\ hpc[c] \notin {"off", "clear", "done"}
           /\ hpc'[c] \notin {"off", "start", "clear"}
           /\ UNCHANGED <<client, backlog, fds, active, sock, struck>>
           /\ hpc'[c] = "done" \/ hidx'[c] = (IF hpc[c] = "start" THEN i ELSE hidx[c])
  BY <1>1, <1>2, <1>3, HandlerMoves
<1>4. CASE HStop(c) /\ hpc[c] = "stop" /\ hpc'[c] = "clear" /\ hidx' = hidx
  <2>1. CloseFd(sock[s]) /\ UNCHANGED <<client, backlog, active, sock>>
    BY <1>4 DEF HStop, CloseSlot, net, registry
  <2>3. s \in Slot /\ s \in Busy /\ sock[s] \in Fd
    BY <1>1, <1>4
  <2>4. fds'[sock[s]] = NoConn /\ \A f \in Fd : f # sock[s] => fds'[f] = fds[f]
    BY <2>1, <2>3, CloseFdTypes DEF OwnInv
  <2>5. s \in Closed' /\ Closed \subseteq Closed' /\ Closed' \subseteq Closed \cup {s}
    <3>1. \A t \in Slot : (\E d \in Conn : hpc'[d] = "clear" /\ hidx'[d] = t)
             <=> (t = s \/ \E d \in Conn : hpc[d] = "clear" /\ hidx[d] = t)
      BY <1>2, <1>4
    <3> QED
      BY <1>1, <2>3, <3>1 DEF Closed
  <2>6. \A t \in Busy : \/ fds'[sock[t]] = fds[sock[t]]
                        \/ t \in Closed' /\ fds'[sock[t]] = NoConn
    <3>1. \A t \in Busy : sock[t] \in Fd /\ (sock[t] = sock[s] => t = s)
      BY <1>1, <2>3 DEF OwnInv, Sockets, Busy
    <3> QED
      BY <2>4, <2>5, <3>1
  <2>7. main # "accept" => fds'[new_fd] = fds[new_fd]
    BY <2>3, <2>4 DEF OwnInv, Incoming, TypeInv, RegType
  <2>8. \A t \in Slot, k \in Rounds : check'[t][k] # "idle" => t \in Busy
    BY <1>1 DEF Busy
  <2>9. \A d \in Conn : Working(d)' => Working(d) /\ hidx'[d] = hidx[d]
    BY <1>2, <1>4 DEF Working
  <2>10. \A d \in Conn : /\ hpc'[d] = "off" <=> hpc[d] = "off"
                         /\ hpc'[d] = "start" => hpc[d] = "start"
    BY <1>2, <1>4
  <2>11. \A t \in Closed' : t \in Closed \/ fds'[sock[t]] = NoConn
    BY <2>4, <2>5
  <2> QED
    BY <1>1, <2>1, <2>5, <2>6, <2>7, <2>8, <2>9, <2>10, <2>11, ThreadOwn
<1>5. CASE HClear(c) /\ hpc[c] = "clear" /\ hpc'[c] = "done"
  <2>1. Unregister(s) /\ UNCHANGED <<client, backlog, fds, sock>>
    BY <1>5 DEF HClear, Unregister, net
  <2>2. /\ s \in Slot /\ main \notin {"scan", "name"}
        /\ ~active'[s] /\ \A t \in Slot : active'[t] => active[t]
    BY <1>1, <1>5, <2>1 DEF Unregister, MutexFree
  <2>3. Closed' \subseteq Closed /\ Closed \subseteq Closed' \cup {s}
    <3>1. \A t \in Slot : /\ (\E d \in Conn : hpc'[d] = "clear" /\ hidx'[d] = t)
                                => \E d \in Conn : hpc[d] = "clear" /\ hidx[d] = t
                          /\ (\E d \in Conn : hpc[d] = "clear" /\ hidx[d] = t)
                                => t = s \/ \E d \in Conn : hpc'[d] = "clear" /\ hidx'[d] = t
      BY <1>2, <1>5
    <3> QED
      BY <1>1, <3>1 DEF Closed
  <2>4. \A t \in Slot, k \in Rounds : check'[t][k] # "idle" => t \in Busy
    BY <1>1 DEF Busy
  <2>5. \A d \in Conn : Working(d)' => Working(d) /\ hidx'[d] = hidx[d]
    BY <1>2, <1>5 DEF Working
  <2>6. \A d \in Conn : /\ hpc'[d] = "off" <=> hpc[d] = "off"
                        /\ hpc'[d] = "start" => hpc[d] = "start"
    BY <1>2, <1>5
  <2> QED
    BY <1>1, <2>1, <2>2, <2>3, <2>4, <2>5, <2>6, ThreadOwn
<1> QED
  BY <1>3, <1>4, <1>5, HandlerSteps DEF OwnInv

LEMMA CheckerOwn ==
    ASSUME OwnInv, Checker
    PROVE  OwnInv'
<1>1. /\ TypeInv' /\ UNCHANGED <<main, new_fd, i, guest, owner, hpc, hidx>>
      /\ check \in [Slot -> [Rounds -> Rests]]
      /\ active \in [Slot -> BOOLEAN] /\ sock \in [Slot -> Fd]
  BY CheckerTypes DEF Checker, acceptor, handlers, OwnInv, TypeInv, RegType
<1>2. /\ \A c \in Conn : Working(c)' => Working(c) /\ hidx'[c] = hidx[c]
      /\ \A c \in Conn : hpc'[c] = hpc[c]
  BY <1>1 DEF Working
<1>3. \A t \in Slot, n \in Rounds : check[t][n] # "idle" => t \in Busy
  BY DEF Busy
<1>4. CASE AliveRound
  <2>1. UNCHANGED <<client, backlog, fds, active, sock>>
    BY <1>4 DEF AliveRound, net, registry
  <2>2. \A s \in Slot, k \in Rounds :
               \/ check'[s][k] = check[s][k]
               \/ active[s] /\ check[s][k] = "idle" /\ check'[s][k] = "lock"
    BY <1>4, RoundStarts DEF OwnInv
  <2>3. Closed' = Closed
    <3>1. \A s \in Slot, k \in Rounds : check'[s][k] = "clear" <=> check[s][k] = "clear"
      BY <2>2
    <3> QED
      BY <1>1, <3>1 DEF Closed
  <2>4. \A s \in Slot, k \in Rounds : check'[s][k] # "idle" => s \in Busy
    BY <2>2 DEF Busy
  <2> QED
    BY <1>1, <1>2, <2>1, <2>3, <2>4, ThreadOwn
<1>5. ASSUME NEW s \in Slot, NEW k \in Rounds, Check(s, k)
      PROVE  OwnInv'
  <2>1. \A l : Step(s, k, l) =>
            /\ check'[s][k] = l
            /\ \A t \in Slot, n \in Rounds : t # s \/ n # k => check'[t][n] = check[t][n]
    BY <1>1 DEF Step
  <2>2. CASE /\ \E l \in {"send", "read", "idle", "close"} : Step(s, k, l)
             /\ check[s][k] \in {"lock", "send", "read"}
             /\ UNCHANGED <<client, backlog, fds, active, sock>>
    <3>1. /\ check'[s][k] # "clear"
          /\ \A t \in Slot, n \in Rounds : t # s \/ n # k => check'[t][n] = check[t][n]
      BY <2>1, <2>2
    <3>2. \A t \in Slot, n \in Rounds : check'[t][n] = "clear" <=> check[t][n] = "clear"
      BY <2>2, <3>1
    <3>3. Closed' = Closed
      BY <1>1, <3>2 DEF Closed
    <3>4. \A t \in Slot, n \in Rounds : check'[t][n] # "idle" => t \in Busy
      BY <1>3, <2>2, <3>1
    <3> QED
      BY <1>1, <1>2, <2>2, <3>3, <3>4, ThreadOwn
  <2>3. CASE CLock(s, k)
    BY <2>2, <2>3 DEF CLock, net, registry
  <2>4. CASE CSend(s, k)
    BY <2>2, <2>4 DEF CSend, Deliver, registry
  <2>5. CASE CRead(s, k)
    BY <2>2, <2>5 DEF CRead, Read, net, registry
  <2>6. CASE CClose(s, k)
    <3>1. /\ check[s][k] = "close" /\ CloseFd(sock[s]) /\ Step(s, k, "clear")
          /\ UNCHANGED <<client, backlog, active, sock>>
      BY <2>6 DEF CClose, CloseSlot, net, registry
    <3>2. s \in Busy /\ sock[s] \in Fd
      BY <1>1, <1>3, <3>1
    <3>3. fds'[sock[s]] = NoConn /\ \A f \in Fd : f # sock[s] => fds'[f] = fds[f]
      BY <3>1, <3>2, CloseFdTypes DEF OwnInv
    <3>4. /\ check'[s][k] = "clear"
          /\ \A t \in Slot, n \in Rounds : t # s \/ n # k => check'[t][n] = check[t][n]
      BY <2>1, <3>1
    <3>5. s \in Closed' /\ Closed \subseteq Closed' /\ Closed' \subseteq Closed \cup {s}
      BY <1>1, <3>1, <3>4 DEF Closed
    <3>6. \A t \in Busy : \/ fds'[sock[t]] = fds[sock[t]]
                          \/ t \in Closed' /\ fds'[sock[t]] = NoConn
      <4>1. \A t \in Busy : sock[t] \in Fd /\ (sock[t] = sock[s] => t = s)
        BY <1>1, <3>2 DEF OwnInv, Sockets, Busy
      <4> QED
        BY <3>3, <3>5, <4>1
    <3>7. main # "accept" => fds'[new_fd] = fds[new_fd]
      BY <3>2, <3>3 DEF OwnInv, Incoming, TypeInv, RegType
    <3>8. \A t \in Slot, n \in Rounds : check'[t][n] # "idle" => t \in Busy
      BY <1>3, <3>2, <3>4
    <3>9. \A t \in Closed' : t \in Closed \/ fds'[sock[t]] = NoConn
      BY <3>3, <3>5
    <3> QED
      BY <1>1, <1>2, <3>1, <3>5, <3>6, <3>7, <3>8, <3>9, ThreadOwn
  <2>7. CASE CClear(s, k)
    <3>1. /\ check[s][k] = "clear" /\ Unregister(s) /\ Step(s, k, "idle")
          /\ UNCHANGED <<client, backlog, fds, sock>>
      BY <2>7 DEF CClear, Unregister, net
    <3>2. /\ main \notin {"scan", "name"}
          /\ ~active'[s] /\ \A t \in Slot : active'[t] => active[t]
      BY <1>1, <3>1 DEF Unregister, MutexFree
    <3>3. /\ check'[s][k] = "idle"
          /\ \A t \in Slot, n \in Rounds : t # s \/ n # k => check'[t][n] = check[t][n]
      BY <2>1, <3>1
    <3>4. Closed' \subseteq Closed /\ Closed \subseteq Closed' \cup {s}
      BY <1>1, <3>1, <3>3 DEF Closed
    <3>5. \A t \in Slot, n \in Rounds : check'[t][n] # "idle" => t \in Busy
      BY <1>3, <3>3
    <3> QED
      BY <1>1, <1>2, <3>1, <3>2, <3>4, <3>5, ThreadOwn
  <2> QED
    BY <1>5, <2>3, <2>4, <2>5, <2>6, <2>7 DEF Check
<1> QED
  BY <1>4, <1>5 DEF Checker

LEMMA StepOwn == OwnInv /\ [Next /\ Calm]_vars => OwnInv'
<1> SUFFICES ASSUME OwnInv, [Next /\ Calm]_vars PROVE OwnInv'
  OBVIOUS
<1>1. CASE Server /\ Calm
  BY <1>1, MainOwn, HandlerOwn, CheckerOwn DEF Server
<1>2. ASSUME NEW c \in Conn, Client(c)
      PROVE  OwnInv'
  BY <1>2, ClientOwn
<1>3. CASE UNCHANGED vars
  <2>1. UNCHANGED <<client, backlog, fds, active, sock, main, new_fd, i, guest, hpc,
                    hidx, check, owner>>
    BY <1>3 DEF vars, net, registry, acceptor, handlers
  <2>2. TypeInv'
    BY <1>3, StepTypes DEF OwnInv
  <2> QED
    BY <2>1, <2>2, SameOwn
<1> QED
  BY <1>1, <1>2, <1>3 DEF Next

-----------------------------------------------------------------------------
(* recv_mutex under CalmSpec.  A handler that reads holds the mutex of its   *)
(* slot, and so does a check from before its send.  main initialises a mutex *)
(* that may be held only when it registers a connection in the slot: that    *)
(* slot is not busy, so no thread reads it.                                  *)

Awaits == {"send", "read"}

Readers ==
    /\ \A c \in Conn : hpc[c] = "recv" => lock[hidx[c]]
    /\ \A s \in Slot, k \in Rounds : check[s][k] \in Awaits => lock[s]
    /\ \A c \in Conn, k \in Rounds : hpc[c] = "recv" => check[hidx[c]][k] \notin Awaits
    /\ \A s \in Slot : \A k, n \in Rounds :
           check[s][k] \in Awaits /\ check[s][n] \in Awaits => k = n

LEMMA FewerReaders ==
    ASSUME Readers,
           \A c \in Conn : hpc'[c] = "recv" =>
               hpc[c] = "recv" /\ hidx'[c] = hidx[c] /\ lock'[hidx[c]] = lock[hidx[c]],
           \A s \in Slot, k \in Rounds : check'[s][k] \in Awaits =>
               check[s][k] \in Awaits /\ lock'[s] = lock[s],
           hidx \in [Conn -> 0 .. MAX_CLIENTS],
           \A c \in Conn : hpc[c] = "recv" => hidx[c] \in Slot
    PROVE  Readers'
<1>1. \A c \in Conn : hpc'[c] = "recv" => lock'[hidx'[c]]
  BY DEF Readers
<1>2. \A s \in Slot, k \in Rounds : check'[s][k] \in Awaits => lock'[s]
  BY DEF Readers
<1>3. \A c \in Conn, k \in Rounds : hpc'[c] = "recv" => check'[hidx'[c]][k] \notin Awaits
  BY DEF Readers
<1>4. \A s \in Slot : \A k, n \in Rounds :
           check'[s][k] \in Awaits /\ check'[s][n] \in Awaits => k = n
  BY DEF Readers
<1> QED
  BY <1>1, <1>2, <1>3, <1>4 DEF Readers

LEMMA MainReaders ==
    ASSUME OwnInv, Readers, Main
    PROVE  Readers'
<1>1. /\ hidx \in [Conn -> 0 .. MAX_CLIENTS] /\ lock \in [Slot -> BOOLEAN]
      /\ hpc \in [Conn -> Labels] /\ check' = check
      /\ \A c \in Conn : hpc[c] = "recv" => hidx[c] \in Slot
  BY DEF OwnInv, TypeInv, RegType, Main
<1>2. CASE UNCHANGED <<hpc, hidx, lock>>
  BY <1>1, <1>2, FewerReaders
<1>3. CASE RecvName
  <2>1. /\ main = "name" /\ i \in Slot /\ ~active[i] /\ hidx' = hidx
        /\ lock' = [lock EXCEPT ![i] = FALSE] /\ hpc' = [hpc EXCEPT ![guest] = "start"]
    BY <1>3 DEF RecvName, OwnInv, TypeInv, RegType
  <2>2. i \notin Busy
    BY <2>1 DEF OwnInv, Incoming
  <2>3. /\ \A c \in Conn : hpc[c] = "recv" => hidx[c] # i
        /\ \A k \in Rounds : check[i][k] \notin Awaits
    BY <2>1, <2>2 DEF Busy, Awaits
  <2>4. \A c \in Conn : hpc'[c] = "recv" =>
               hpc[c] = "recv" /\ hidx'[c] = hidx[c] /\ lock'[hidx[c]] = lock[hidx[c]]
    BY <1>1, <2>1, <2>3
  <2>5. \A s \in Slot, k \in Rounds : check'[s][k] \in Awaits =>
               check[s][k] \in Awaits /\ lock'[s] = lock[s]
    BY <1>1, <2>1, <2>3
  <2> QED
    BY <1>1, <2>4, <2>5, FewerReaders
<1> QED
  BY <1>2, <1>3 DEF Main, Accept, Refuse, Admit, Scan, handlers

LEMMA HandlerReaders ==
    ASSUME OwnInv, Readers, NEW c \in Conn, Handler(c)
    PROVE  Readers'
<1> DEFINE s == hidx[c]
<1>1. /\ hidx \in [Conn -> 0 .. MAX_CLIENTS] /\ lock \in [Slot -> BOOLEAN]
      /\ hpc \in [Conn -> Labels] /\ check' = check
      /\ \A d \in Conn : hpc[d] = "recv" => hidx[d] \in Slot
      /\ \A d \in Conn : hpc[d] = "recv" => owner[hidx[d]] = d
      /\ hpc[c] = "lock" => s \in Slot
  BY DEF OwnInv, TypeInv, RegType, Serving, Handler
<1>2. CASE HLock(c)
  <2>1. /\ hpc[c] = "lock" /\ ~lock[s] /\ s \in Slot /\ hidx' = hidx
        /\ lock' = [lock EXCEPT ![s] = TRUE] /\ hpc' = [hpc EXCEPT ![c] = "recv"]
    BY <1>1, <1>2 DEF HLock, Goto
  <2>2. /\ lock'[s] /\ \A t \in Slot : lock[t] => lock'[t]
    BY <1>1, <2>1
  <2>3. /\ \A d \in Conn : hpc'[d] = "recv" => d = c \/ hpc[d] = "recv"
        /\ \A k \in Rounds : check[s][k] \notin Awaits
    BY <1>1, <2>1 DEF Readers
  <2>4. /\ \A d \in Conn : hpc'[d] = "recv" => lock'[hidx'[d]]
        /\ \A d \in Conn, k \in Rounds : hpc'[d] = "recv" => check'[hidx'[d]][k] \notin Awaits
    BY <1>1, <2>1, <2>2, <2>3 DEF Readers
  <2>5. \A t \in Slot, k \in Rounds : check'[t][k] \in Awaits => lock'[t]
    BY <1>1, <2>2 DEF Readers
  <2>6. \A t \in Slot : \A k, n \in Rounds :
           check'[t][k] \in Awaits /\ check'[t][n] \in Awaits => k = n
    BY <1>1 DEF Readers
  <2> QED
    BY <2>4, <2>5, <2>6 DEF Readers
<1>3. CASE HRecv(c)
  <2>1. /\ hpc[c] = "recv" /\ s \in Slot /\ hidx' = hidx
        /\ lock' = [lock EXCEPT ![s] = FALSE] /\ hpc' = [hpc EXCEPT ![c] = "check"]
    BY <1>1, <1>3 DEF HRecv, Goto
  <2>2. \A d \in Conn : hpc'[d] = "recv" => hpc[d] = "recv" /\ d # c /\ hidx[d] # s
    BY <1>1, <2>1
  <2>3. \A k \in Rounds : check[s][k] \notin Awaits
    BY <2>1 DEF Readers
  <2>4. \A t \in Slot : t # s => lock'[t] = lock[t]
    BY <1>1, <2>1
  <2> QED
    BY <1>1, <2>1, <2>2, <2>3, <2>4, FewerReaders
<1>4. CASE ~HLock(c) /\ ~HRecv(c)
  <2>1. lock' = lock
    BY <1>4, Zenon DEF Handler, HStart, HCheck, HAct, HSend, HStop, HClear
  <2>2. \A d \in Conn : d # c => hpc'[d] = hpc[d] /\ hidx'[d] = hidx[d]
    BY HandlerSteps DEF OwnInv
  <2>3. hpc'[c] # "recv"
    <3>1. CASE Exit(c) \/ \E l \in {"lock", "act", "send", "reply", "stop", "clear"} : Goto(c, l)
      BY <1>1, <3>1 DEF Exit, Goto
    <3>2. CASE HCheck(c)
      BY <1>1, <3>1, <3>2, CheckLeads
    <3>3. CASE HStart(c) \/ HAct(c) \/ HSend(c) \/ HStop(c) \/ HClear(c)
      BY <3>1, <3>3 DEF HStart, HAct, HSend, HStop, HClear
    <3> QED
      BY <1>4, <3>2, <3>3 DEF Handler
  <2> QED
    BY <1>1, <2>1, <2>2, <2>3, FewerReaders
<1> QED
  BY <1>2, <1>3, <1>4

LEMMA CheckerReaders ==
    ASSUME OwnInv, Readers, Checker
    PROVE  Readers'
<1>1. /\ hidx \in [Conn -> 0 .. MAX_CLIENTS] /\ lock \in [Slot -> BOOLEAN]
      /\ check \in [Slot -> [Rounds -> Rests]]
      /\ hpc' = hpc /\ hidx' = hidx
      /\ \A d \in Conn : hpc[d] = "recv" => hidx[d] \in Slot
  BY DEF OwnInv, TypeInv, RegType, Checker, handlers
<1>2. CASE AliveRound
  <2>1. lock' = lock
    BY <1>2 DEF AliveRound
  <2>2. \A s \in Slot, k \in Rounds : check'[s][k] \in Awaits => check[s][k] \in Awaits
    BY <1>2, RoundStarts DEF OwnInv, Awaits
  <2> QED
    BY <1>1, <2>1, <2>2, FewerReaders
<1>3. ASSUME NEW s \in Slot, NEW k \in Rounds, Check(s, k)
      PROVE  Readers'
  <2>1. \A l : Step(s, k, l) =>
            /\ check'[s][k] = l
            /\ \A t \in Slot, n \in Rounds : t # s \/ n # k => check'[t][n] = check[t][n]
    BY <1>1 DEF Step
  <2>2. CASE CLock(s, k)
    <3>1. ~lock[s] /\ lock' = [lock EXCEPT ![s] = TRUE] /\ Step(s, k, "send")
      BY <2>2 DEF CLock
    <3>2. /\ \A t \in Slot, n \in Rounds : t # s \/ n # k => check'[t][n] = check[t][n]
          /\ \A n \in Rounds : check[s][n] \notin Awaits
          /\ \A c \in Conn : hpc[c] = "recv" => hidx[c] # s
      BY <2>1, <3>1 DEF Readers
    <3>3. \A c \in Conn : hpc'[c] = "recv" => lock'[hidx'[c]]
      BY <1>1, <3>1 DEF Readers
    <3>4. \A t \in Slot, n \in Rounds : check'[t][n] \in Awaits => lock'[t]
      BY <1>1, <3>1, <3>2 DEF Readers
    <3>5. \A c \in Conn, n \in Rounds : hpc'[c] = "recv" => check'[hidx'[c]][n] \notin Awaits
      BY <1>1, <3>2 DEF Readers
    <3>6. \A t \in Slot : \A m, n \in Rounds :
               check'[t][m] \in Awaits /\ check'[t][n] \in Awaits => m = n
      <4>1. \A n \in Rounds : check'[s][n] \in Awaits => n = k
        BY <3>2
      <4> QED
        BY <3>2, <4>1 DEF Readers
    <3> QED
      BY <3>3, <3>4, <3>5, <3>6 DEF Readers
  <2>3. CASE CSend(s, k)
    <3>1. check[s][k] \in Awaits /\ lock' = lock /\ Step(s, k, "read")
      BY <2>3 DEF CSend, Awaits
    <3>2. \A t \in Slot, n \in Rounds : check'[t][n] \in Awaits => check[t][n] \in Awaits
      BY <2>1, <3>1
    <3> QED
      BY <1>1, <3>1, <3>2, FewerReaders
  <2>4. CASE CRead(s, k)
    <3>1. /\ check[s][k] \in Awaits /\ lock' = [lock EXCEPT ![s] = FALSE]
          /\ Step(s, k, "idle") \/ Step(s, k, "close")
      BY <2>4 DEF CRead, Awaits
    <3>2. /\ check'[s][k] \notin Awaits
          /\ \A t \in Slot, n \in Rounds : t # s \/ n # k => check'[t][n] = check[t][n]
      BY <2>1, <3>1 DEF Awaits
    <3>3. \A c \in Conn : hpc[c] = "recv" => hidx[c] # s
      BY <3>1 DEF Readers
    <3>4. \A t \in Slot, n \in Rounds : check'[t][n] \in Awaits => check[t][n] \in Awaits /\ t # s
      BY <3>1, <3>2 DEF Readers
    <3>5. \A t \in Slot : t # s => lock'[t] = lock[t]
      BY <1>1, <3>1
    <3> QED
      BY <1>1, <3>3, <3>4, <3>5, FewerReaders
  <2>5. CASE CClose(s, k) \/ CClear(s, k)
    <3>1. lock' = lock /\ (Step(s, k, "clear") \/ Step(s, k, "idle"))
      BY <2>5 DEF CClose, CClear
    <3>2. \A t \in Slot, n \in Rounds : check'[t][n] \in Awaits => check[t][n] \in Awaits
      BY <2>1, <3>1 DEF Awaits
    <3> QED
      BY <1>1, <3>1, <3>2, FewerReaders
  <2> QED
    BY <1>3, <2>2, <2>3, <2>4, <2>5 DEF Check
<1> QED
  BY <1>2, <1>3 DEF Checker

LEMMA StepReaders == OwnInv /\ Readers /\ [Next /\ Calm]_vars => Readers'
<1> SUFFICES ASSUME OwnInv, Readers, [Next /\ Calm]_vars PROVE Readers'
  OBVIOUS
<1>1. CASE Server
  BY <1>1, MainReaders, HandlerReaders, CheckerReaders DEF Server
<1>2. CASE UNCHANGED <<lock, hpc, hidx, check>>
  BY <1>2, FewerReaders DEF OwnInv, TypeInv, RegType
<1>3. ASSUME NEW c \in Conn, Client(c)
      PROVE  Readers'
  BY <1>2, <1>3 DEF Client, handlers
<1> QED
  BY <1>1, <1>2, <1>3 DEF Next, vars, handlers

LEMMA AtMostOne ==
    ASSUME NEW S, \A x, y \in S : x = y
    PROVE  Cardinality(S) \in {0, 1} /\ (S = {} => Cardinality(S) = 0)
<1>1. CASE S = {}
  BY <1>1, FS_EmptySet
<1>2. ASSUME NEW x \in S
      PROVE  Cardinality(S) = 1
  <2>1. S = {x}
    BY <1>2
  <2> QED
    BY <2>1, FS_Singleton
<1> QED
  BY <1>1, <1>2

LEMMA ReadersAlone == OwnInv /\ Readers => OneReader
<1> SUFFICES ASSUME OwnInv, Readers, NEW s \in Slot
             PROVE  Cardinality({c \in Conn : hpc[c] = "recv" /\ hidx[c] = s})
                      + Cardinality({k \in Rounds : check[s][k] = "read"}) <= 1
  BY DEF OneReader
<1> DEFINE H == {c \in Conn : hpc[c] = "recv" /\ hidx[c] = s}
           K == {k \in Rounds : check[s][k] = "read"}
<1>1. \A c, d \in H : c = d
  BY DEF OwnInv, Serving
<1>2. \A k, n \in K : k = n
  BY DEF Readers, Awaits
<1>3. H = {} \/ K = {}
  BY DEF Readers, Awaits
<1> HIDE DEF H, K
<1>4. /\ Cardinality(H) \in {0, 1} /\ (H = {} => Cardinality(H) = 0)
      /\ Cardinality(K) \in {0, 1} /\ (K = {} => Cardinality(K) = 0)
  BY <1>1, <1>2, AtMostOne
<1>5. Cardinality(H) + Cardinality(K) <= 1
  BY <1>3, <1>4
<1> QED
  BY <1>5 DEF H, K

\* The handler of a slot and its checks never read its socket at once, although
\* main sets the mutex of a slot up anew for every user: the slot it does that
\* for is one no thread works on.
THEOREM ReadersTakeTurns == CalmSpec => []OneReader
<1>1. Init => OwnInv /\ Readers
  BY InitOwn DEF Init, Readers, Awaits
<1>2. OwnInv /\ Readers /\ [Next /\ Calm]_vars => (OwnInv /\ Readers)'
  BY StepOwn, StepReaders
<1> QED
  BY <1>1, <1>2, ReadersAlone, PTL DEF CalmSpec

-----------------------------------------------------------------------------
(* The names of texts under CalmSpec.  A handler keeps the name its slot had  *)
(* when it started; the slot keeps that name as long as the handler works.    *)

NamesKept ==
    /\ \E S : name \in [Slot -> S] /\ hname \in [Conn -> S] /\ label \in [Conn -> S]
    /\ \A c \in Conn : hpc[c] = "start" => name[i] = label[c]
    /\ \A c \in Conn : hpc[c] \notin {"off", "start", "done"} =>
           hname[c] = label[c] /\ name[hidx[c]] = label[c]

\* Only a registered connection has sent texts, and each bears its name.
TextsSigned ==
    /\ \A c \in Conn : hbuf[c].by \in {c, NoConn}
    /\ \A d \in Conn : \A n \in 1 .. Len(down[d]) :
           down[d][n].by # NoConn =>
               /\ down[d][n].by \in Conn /\ hpc[down[d][n].by] # "off"
               /\ down[d][n].from = label[down[d][n].by]
               /\ down[d][n].kind = "2ALL" => down[d][n].by # d

\* The slots of T whose socket is that of d.
Hit(T, d) == {s \in T : fds[sock[s]] = d}

LEMMA DeliverTexts ==
    ASSUME TypeInv, NEW T \in SUBSET Slot, NEW msg, Deliver(T, msg)
    PROVE  \A d \in Conn : \A n \in 1 .. Len(down'[d]) :
               \/ \E m \in 1 .. Len(down[d]) : down'[d][n] = down[d][m]
               \/ down'[d][n] = msg /\ Hit(T, d) # {}
<1> TAKE d \in Conn
<1> TAKE n \in 1 .. Len(down'[d])
<1> DEFINE hit == {s \in T : fds[sock[s]] = d}
           h == Cardinality(hit)
           e == [k \in 1 .. h |-> msg]
<1>1. h \in Nat /\ (hit = {} => h = 0)
  <2>1. hit \in SUBSET Slot
    OBVIOUS
  <2> QED
    BY <2>1, SlotRange, FS_Subset, FS_CardinalityType, FS_EmptySet
<1>2. down'[d] = IF client[d] = "gone" THEN down[d] ELSE down[d] \o e
  BY DEF Deliver
<1>3. PICK S : down \in [Conn -> Seq(S)]
  BY DEF TypeInv, NetType
<1>4. down[d] \in Seq(S)
  BY <1>3
<1> HIDE DEF h
<1>5. e \in Seq({msg}) /\ Len(e) = h /\ \A k \in 1 .. h : e[k] = msg
  BY <1>1
<1>6. CASE client[d] = "gone"
  BY <1>2, <1>6
<1>7. CASE client[d] # "gone"
  <2> HIDE DEF e, hit
  <2>1. /\ Len(down[d] \o e) = Len(down[d]) + h
        /\ \A k \in 1 .. Len(down[d]) : (down[d] \o e)[k] = down[d][k]
        /\ \A k \in 1 .. Len(down[d]) + h : k > Len(down[d]) =>
               (down[d] \o e)[k] = e[k - Len(down[d])]
    BY <1>1, <1>4, <1>5
  <2>2. down'[d] = down[d] \o e /\ Len(down[d]) \in Nat /\ n \in 1 .. Len(down[d]) + h
    BY <1>2, <1>4, <1>7, <2>1
  <2>3. CASE n \in 1 .. Len(down[d])
    BY <2>1, <2>2, <2>3
  <2>4. CASE n > Len(down[d])
    <3>1. n - Len(down[d]) \in 1 .. h /\ h # 0
      BY <1>1, <2>2, <2>4
    <3>2. down'[d][n] = msg
      BY <1>5, <2>1, <2>2, <2>4, <3>1
    <3>3. hit # {}
      BY <1>1, <3>1
    <3> QED
      BY <3>2, <3>3 DEF hit, Hit
  <2> QED
    BY <2>2, <2>3, <2>4
<1> QED
  BY <1>6, <1>7

\* A text on its way is an old one, the server's own or one a registered
\* connection sends now.
LEMMA NewTexts ==
    ASSUME TextsSigned,
           \A c \in Conn : hbuf'[c].by \in {c, NoConn},
           \A c \in Conn : hpc[c] # "off" => hpc'[c] # "off" /\ label'[c] = label[c],
           \A d \in Conn : \A n \in 1 .. Len(down'[d]) :
               \/ \E m \in 1 .. Len(down[d]) : down'[d][n] = down[d][m]
               \/ down'[d][n].by = NoConn
               \/ /\ down'[d][n].by \in Conn /\ hpc[down'[d][n].by] # "off"
                  /\ down'[d][n].from = label[down'[d][n].by]
                  /\ down'[d][n].kind = "2ALL" => down'[d][n].by # d
    PROVE  TextsSigned'
<1>1. ASSUME NEW d \in Conn, NEW n \in 1 .. Len(down'[d]), down'[d][n].by # NoConn
      PROVE  /\ down'[d][n].by \in Conn /\ hpc'[down'[d][n].by] # "off"
             /\ down'[d][n].from = label'[down'[d][n].by]
             /\ down'[d][n].kind = "2ALL" => down'[d][n].by # d
  <2>1. /\ down'[d][n].by \in Conn /\ hpc[down'[d][n].by] # "off"
        /\ down'[d][n].from = label[down'[d][n].by]
        /\ down'[d][n].kind = "2ALL" => down'[d][n].by # d
    BY <1>1 DEF TextsSigned
  <2> QED
    BY <2>1
<1> QED
  BY <1>1 DEF TextsSigned

\* The texts are those on their way before.
LEMMA SameTexts ==
    ASSUME TextsSigned, UNCHANGED down,
           \A c \in Conn : hbuf'[c].by \in {c, NoConn},
           \A c \in Conn : hpc[c] # "off" => hpc'[c] # "off" /\ label'[c] = label[c]
    PROVE  TextsSigned'
BY NewTexts

LEMMA ClientNames ==
    ASSUME TypeInv, NamesKept, TextsSigned, NEW c \in Conn, Client(c)
    PROVE  NamesKept' /\ TextsSigned'
<1>1. UNCHANGED <<name, hname, label, hpc, hidx, hbuf, i>>
  BY DEF Client, registry, acceptor, handlers
<1>2. NamesKept'
  BY <1>1 DEF NamesKept
<1>3. PICK S : down \in [Conn -> Seq(S)]
  BY DEF TypeInv, NetType
<1>4. CASE down' = down
  BY <1>1, <1>2, <1>4, SameTexts DEF TextsSigned
<1>5. CASE down' = [down EXCEPT ![c] = <<>>]
  <2>1. ASSUME NEW d \in Conn, NEW n \in 1 .. Len(down'[d])
        PROVE  \E m \in 1 .. Len(down[d]) : down'[d][n] = down[d][m]
    BY <1>3, <1>5, <2>1
  <2> QED
    BY <1>1, <1>2, <2>1, NewTexts DEF TextsSigned
<1>6. CASE \E k \in 1 .. Len(down[c]) :
               down' = [down EXCEPT ![c] = SubSeq(@, k + 1, Len(@))]
  <2>1. PICK k \in 1 .. Len(down[c]) : down' = [down EXCEPT ![c] = SubSeq(@, k + 1, Len(@))]
    BY <1>6
  <2>2. ASSUME NEW d \in Conn, NEW n \in 1 .. Len(down'[d])
        PROVE  \E m \in 1 .. Len(down[d]) : down'[d][n] = down[d][m]
    <3>1. CASE d # c
      BY <1>3, <2>1, <2>2, <3>1
    <3>2. CASE d = c
      <4> DEFINE s == down[c]
      <4>1. s \in Seq(S) /\ k \in 1 .. Len(s) /\ down'[c] = SubSeq(s, k + 1, Len(s))
        BY <1>3, <2>1
      <4> HIDE DEF s
      <4>2. Len(s) \in Nat /\ k \in Nat /\ 1 <= k /\ k <= Len(s)
        BY <4>1
      <4>3. /\ Len(SubSeq(s, k + 1, Len(s))) = Len(s) - k
            /\ \A m \in 1 .. Len(s) - k :
                   SubSeq(s, k + 1, Len(s))[m] = s[k + m] /\ k + m \in 1 .. Len(s)
        BY <4>1, <4>2
      <4>4. n \in 1 .. Len(s) - k
        BY <2>2, <3>2, <4>1, <4>3
      <4>5. down'[c][n] = s[k + n] /\ k + n \in 1 .. Len(s)
        BY <4>1, <4>3, <4>4
      <4> QED
        BY <3>2, <4>5 DEF s
    <3> QED
      BY <3>1, <3>2
  <2> QED
    BY <1>1, <1>2, <2>2, NewTexts DEF TextsSigned
<1> QED
  BY <1>4, <1>5, <1>6 DEF Client, Connect, SendName, SendLine, Receive, Interrupt, Crash, Close

LEMMA MainNames ==
    ASSUME OwnInv, NamesKept, TextsSigned, Main, Calm
    PROVE  NamesKept' /\ TextsSigned'
<1>1. CASE /\ UNCHANGED <<name, label, hpc, hidx, hname, hbuf, down>>
           /\ i' = i \/ \A c \in Conn : hpc[c] # "start"
  <2>1. NamesKept'
    BY <1>1 DEF NamesKept
  <2> QED
    BY <1>1, <2>1, SameTexts DEF TextsSigned
<1>2. CASE Accept \/ Refuse
  BY <1>1, <1>2 DEF Accept, Refuse, net, registry, handlers
<1>3. CASE Admit
  <2>1. Quiet
    BY <1>3 DEF Admit, Calm
  <2> QED
    BY <1>1, <1>3, <2>1, QuietSlots DEF Admit, net, registry, handlers
<1>4. CASE Scan
  BY <1>1, <1>4 DEF Scan, net, handlers, OwnInv, Incoming
<1>5. CASE RecvName
  <2>1. /\ main = "name" /\ i \in Slot /\ ~active[i] /\ i' = i
        /\ \E x : name' = [name EXCEPT ![i] = x]
        /\ label' = [label EXCEPT ![guest] = name'[i]]
        /\ hpc' = [hpc EXCEPT ![guest] = "start"]
        /\ UNCHANGED <<hidx, hname, hbuf, down>>
    <3>1. UNCHANGED down /\ \E x : name' = [name EXCEPT ![i] = x]
      <4>1. CASE UNCHANGED <<net, name>>
        <5>1. name' = [name EXCEPT ![i] = name[i]]
          BY <4>1 DEF NamesKept
        <5> QED
          BY <4>1, <5>1 DEF net
      <4>2. CASE UNCHANGED down /\ \E k : name' = [name EXCEPT ![i] = Overwrite(@, FlattenSeq(
                                                [n \in 1 .. k |-> Text(up[fds[new_fd]][n])]))]
        BY <4>2
      <4> QED
        BY <1>5, <4>1, <4>2 DEF RecvName, Read
    <3> QED
      BY <1>5, <3>1 DEF RecvName, OwnInv, TypeInv, RegType
  <2>2. PICK x : name' = [name EXCEPT ![i] = x]
    BY <2>1
  <2>3. PICK S : name \in [Slot -> S] /\ hname \in [Conn -> S] /\ label \in [Conn -> S]
    BY DEF NamesKept
  <2>4. /\ guest \in Conn /\ hpc[guest] = "off" /\ hpc \in [Conn -> Labels]
        /\ i \notin Busy /\ \A c \in Conn : hpc[c] # "start"
    BY <2>1 DEF OwnInv, TypeInv, RegType, Incoming, Guests, Newcomers
  <2>5. \A c \in Conn : hpc[c] \notin {"off", "start", "done"} => hidx[c] \in Slot /\ hidx[c] # i
    BY <2>1, <2>4 DEF Busy, OwnInv, TypeInv, RegType
  <2>6. /\ name'[i] = x /\ \A s \in Slot : s # i => name'[s] = name[s]
        /\ label'[guest] = x /\ \A c \in Conn : c # guest => label'[c] = label[c]
        /\ hpc'[guest] = "start" /\ \A c \in Conn : c # guest => hpc'[c] = hpc[c]
    BY <2>1, <2>2, <2>3, <2>4
  <2>7. /\ name' \in [Slot -> S \cup {x}] /\ hname' \in [Conn -> S \cup {x}]
        /\ label' \in [Conn -> S \cup {x}]
    BY <2>1, <2>2, <2>3, <2>6
  <2>8. \A c \in Conn : hpc'[c] = "start" => name'[i'] = label'[c]
    BY <2>1, <2>4, <2>6
  <2>9. \A c \in Conn : hpc'[c] \notin {"off", "start", "done"} =>
           hname'[c] = label'[c] /\ name'[hidx'[c]] = label'[c]
    BY <2>1, <2>4, <2>5, <2>6 DEF NamesKept
  <2>10. NamesKept'
    BY <2>7, <2>8, <2>9 DEF NamesKept
  <2>11. TextsSigned'
    BY <2>1, <2>4, <2>6, SameTexts DEF TextsSigned
  <2> QED
    BY <2>10, <2>11
<1> QED
  BY <1>2, <1>3, <1>4, <1>5 DEF Main

LEMMA HandlerKeepsNames ==
    ASSUME OwnInv, NamesKept, NEW c \in Conn, Handler(c)
    PROVE  NamesKept'
<1>1. PICK S : name \in [Slot -> S] /\ hname \in [Conn -> S] /\ label \in [Conn -> S]
  BY DEF NamesKept
<1>2. /\ hpc \in [Conn -> Labels] /\ hidx \in [Conn -> 0 .. MAX_CLIENTS]
      /\ i' = i /\ label' = label
  BY DEF OwnInv, TypeInv, RegType, Handler, acceptor
<1>3. name' = name
  BY Zenon DEF Handler, HStart, HLock, HRecv, HCheck, HAct, HSend, HStop, HClear,
               Unregister, registry
<1>4. CASE Exit(c)
  <2>1. /\ hpc' = [hpc EXCEPT ![c] = "done"] /\ hidx' = [hidx EXCEPT ![c] = 0]
        /\ hname' = [hname EXCEPT ![c] = <<>>]
    BY <1>4 DEF Exit, Goto
  <2>2. \E R : name' \in [Slot -> R] /\ hname' \in [Conn -> R] /\ label' \in [Conn -> R]
    <3>1. /\ name' \in [Slot -> S \cup {<<>>}] /\ hname' \in [Conn -> S \cup {<<>>}]
          /\ label' \in [Conn -> S \cup {<<>>}]
      BY <1>1, <1>2, <1>3, <2>1
    <3> QED
      BY <3>1
  <2>3. hpc'[c] = "done" /\ \A d \in Conn : d # c =>
            hpc'[d] = hpc[d] /\ hidx'[d] = hidx[d] /\ hname'[d] = hname[d]
    BY <1>1, <1>2, <2>1
  <2> QED
    BY <1>2, <1>3, <2>2, <2>3 DEF NamesKept
<1>5. CASE /\ UNCHANGED <<hidx, hname>> /\ hpc[c] \notin {"off", "start", "done"}
           /\ \E l \in Labels \ {"start"} : Goto(c, l)
  <2>1. hpc'[c] # "start" /\ \A d \in Conn : d # c => hpc'[d] = hpc[d]
    BY <1>2, <1>5 DEF Goto
  <2> QED
    BY <1>1, <1>2, <1>3, <1>5, <2>1 DEF NamesKept
<1>6. CASE HStart(c)
  <2>1. CASE /\ hpc[c] = "start" /\ i \in Slot /\ Goto(c, "lock")
             /\ hidx' = [hidx EXCEPT ![c] = i]
             /\ hname' = [hname EXCEPT ![c] = name[i]]
    <3>1. name' \in [Slot -> S] /\ hname' \in [Conn -> S] /\ label' \in [Conn -> S]
      BY <1>1, <1>2, <1>3, <2>1
    <3>2. /\ hpc'[c] = "lock" /\ hidx'[c] = i /\ hname'[c] = name[i]
          /\ \A d \in Conn : d # c =>
                hpc'[d] = hpc[d] /\ hidx'[d] = hidx[d] /\ hname'[d] = hname[d]
      BY <1>1, <1>2, <2>1 DEF Goto
    <3> QED
      BY <1>2, <1>3, <2>1, <3>1, <3>2 DEF NamesKept
  <2> QED
    BY <1>4, <1>6, <2>1 DEF HStart
<1>7. CASE HCheck(c)
  <2>1. hpc[c] = "check"
    BY <1>7 DEF HCheck
  <2>2. {"act", "stop", "lock"} \subseteq Labels \ {"start"}
    BY DEF Labels
  <2> QED
    BY <1>2, <1>4, <1>5, <1>7, <2>1, <2>2, CheckLeads
<1>8. CASE HLock(c) \/ HRecv(c) \/ HSend(c) \/ HStop(c)
  BY <1>5, <1>8 DEF HLock, HRecv, HSend, HStop, Labels
<1>9. CASE HAct(c)
  <2>1. /\ hpc[c] = "act" /\ UNCHANGED <<hidx, hname>>
        /\ \E l \in {"send", "reply"} : Goto(c, l)
    BY <1>9 DEF HAct
  <2> QED
    BY <1>5, <2>1 DEF Labels
<1>10. CASE HClear(c)
  BY <1>4, <1>10 DEF HClear
<1> QED
  BY <1>6, <1>7, <1>8, <1>9, <1>10 DEF Handler

LEMMA HandlerSigns ==
    ASSUME OwnInv, NamesKept, TextsSigned, NEW c \in Conn, Handler(c)
    PROVE  TextsSigned'
<1>1. /\ hpc \in [Conn -> Labels] /\ hbuf \in [Conn -> Chunks \cup {Nothing}]
      /\ sock \in [Slot -> Fd]
      /\ label' = label /\ Nothing.by = NoConn
      /\ hpc[c] \notin {"off", "start", "done"} =>
             hidx[c] \in Slot /\ hidx[c] \in Busy /\ owner[hidx[c]] = c
  BY DEF OwnInv, TypeInv, RegType, Handler, acceptor, Busy, Serving, Nothing, Chunk
<1>2. CASE Exit(c) /\ UNCHANGED down /\ hpc[c] # "off"
  <2>1. /\ \A d \in Conn : hpc[d] # "off" => hpc'[d] # "off"
        /\ \A d \in Conn : hbuf'[d].by \in {d, NoConn}
    BY <1>1, <1>2 DEF Exit, Goto, TextsSigned
  <2> QED
    BY <1>1, <1>2, <2>1, SameTexts
<1>3. CASE /\ UNCHANGED down /\ \E l \in Labels \ {"off"} : Goto(c, l)
           /\ \E b : hbuf' = [hbuf EXCEPT ![c] = b] /\ b.by \in {c, NoConn}
  <2>1. /\ \A d \in Conn : hpc[d] # "off" => hpc'[d] # "off"
        /\ \A d \in Conn : hbuf'[d].by \in {d, NoConn}
    BY <1>1, <1>3 DEF Goto, TextsSigned
  <2> QED
    BY <1>1, <1>3, <2>1, SameTexts
<1>4. hbuf = [hbuf EXCEPT ![c] = hbuf[c]] /\ hbuf[c].by \in {c, NoConn}
  BY <1>1 DEF TextsSigned
<1>5. CASE HStart(c)
  <2>1. UNCHANGED down /\ hpc[c] # "off" /\ "lock" \in Labels \ {"off"}
    BY <1>5 DEF HStart, Read, net, Labels
  <2>2. Exit(c) \/ (Goto(c, "lock") /\ UNCHANGED hbuf)
    BY <1>5 DEF HStart
  <2> QED
    BY <1>2, <1>3, <1>4, <2>1, <2>2
<1>6. CASE HLock(c)
  <2>1. UNCHANGED down /\ Goto(c, "recv") /\ UNCHANGED hbuf /\ "recv" \in Labels \ {"off"}
    BY <1>6 DEF HLock, net, Labels
  <2> QED
    BY <1>3, <1>4, <2>1
<1>7. CASE HStop(c)
  <2>1. UNCHANGED down /\ Goto(c, "clear") /\ UNCHANGED hbuf /\ "clear" \in Labels \ {"off"}
    BY <1>7 DEF HStop, net, Labels
  <2> QED
    BY <1>3, <1>4, <2>1
<1>8. CASE HRecv(c)
  <2> DEFINE f == sock[hidx[c]]
  <2>1. hpc[c] = "recv" /\ Goto(c, "check") /\ "check" \in Labels \ {"off"}
    BY <1>8 DEF HRecv, Labels
  <2>2. f \in Fd /\ fds[f] \in {c, NoConn}
    BY <1>1, <2>1 DEF OwnInv, Sockets
  <2>3. CASE UNCHANGED net /\ hbuf' = [hbuf EXCEPT ![c] = Nothing]
    BY <1>1, <1>3, <2>1, <2>3 DEF net
  <2>4. CASE \E k \in 1 .. SocketCap :
                 Read(f, k) /\ hbuf' = [hbuf EXCEPT ![c] = Head(up[fds[f]])]
    <3>1. UNCHANGED down /\ Head(up[fds[f]]).by = fds[f]
      BY <2>2, <2>4, ReadNet DEF OwnInv
    <3> QED
      BY <1>3, <2>1, <2>2, <2>4, <3>1
  <2> QED
    BY <1>8, <2>3, <2>4 DEF HRecv
<1>9. CASE HCheck(c)
  <2>1. UNCHANGED down /\ hpc[c] # "off" /\ {"act", "stop", "lock"} \subseteq Labels \ {"off"}
    BY <1>9 DEF HCheck, net, Labels
  <2> QED
    BY <1>1, <1>2, <1>3, <1>4, <1>9, <2>1, CheckLeads
<1>10. CASE HAct(c)
  <2>1. UNCHANGED <<down, hbuf>> /\ \E l \in {"send", "reply"} : Goto(c, l)
    BY <1>10 DEF HAct, net
  <2> QED
    BY <1>3, <1>4, <2>1 DEF Labels
<1>11. CASE HSend(c)
  <2>1. /\ hpc[c] \in {"send", "reply"} /\ Goto(c, "lock")
        /\ hbuf' = [hbuf EXCEPT ![c] = Nothing]
    BY <1>11 DEF HSend
  <2>2. /\ \A d \in Conn : hpc[d] # "off" => hpc'[d] # "off"
        /\ \A d \in Conn : hbuf'[d].by \in {d, NoConn}
        /\ hname[c] = label[c]
    BY <1>1, <2>1 DEF Goto, TextsSigned, NamesKept
  <2>3. CASE /\ hbuf[c].cmd = "2ALL"
             /\ Deliver({s \in Slot : active[s]} \ Named(hname[c]),
                        Line("2ALL", hname[c], hbuf[c].by))
    <3>1. PICK T, msg :
              /\ T \in SUBSET Slot
              /\ T = {s \in Slot : active[s]} \ Named(hname[c])
              /\ msg = Line("2ALL", hname[c], hbuf[c].by)
              /\ Deliver(T, msg)
      BY <2>3
    <3>2. msg.by = hbuf[c].by /\ msg.from = label[c] /\ msg.by \in {c, NoConn}
      BY <1>4, <2>2, <3>1 DEF Line
    <3>3. Hit(T, c) = {}
      <4> SUFFICES ASSUME NEW s \in T, fds[sock[s]] = c PROVE FALSE
        BY DEF Hit
      <4>1. s \in Slot /\ active[s] /\ name[s] # hname[c] /\ s \in Busy
        BY <3>1 DEF Named, Busy
      <4>2. owner[s] = c /\ c # NoConn
        BY <4>1, ChatAssumption DEF OwnInv, Sockets
      <4>3. s = hidx[c]
        BY <1>1, <2>1, <4>1, <4>2 DEF OwnInv, Guests
      <4> QED
        BY <2>1, <4>1, <4>3 DEF NamesKept
    <3>4. \A d \in Conn : \A n \in 1 .. Len(down'[d]) :
              \/ \E m \in 1 .. Len(down[d]) : down'[d][n] = down[d][m]
              \/ down'[d][n] = msg /\ Hit(T, d) # {}
      <4>1. TypeInv /\ T \in SUBSET Slot /\ Deliver(T, msg)
        BY <3>1 DEF OwnInv
      <4> QED
        BY <4>1, DeliverTexts, Zenon
    <3>5. \A d \in Conn : \A n \in 1 .. Len(down'[d]) :
              \/ \E m \in 1 .. Len(down[d]) : down'[d][n] = down[d][m]
              \/ down'[d][n].by = NoConn
              \/ /\ down'[d][n].by \in Conn /\ hpc[down'[d][n].by] # "off"
                 /\ down'[d][n].from = label[down'[d][n].by]
                 /\ down'[d][n].kind = "2ALL" => down'[d][n].by # d
      BY <2>1, <3>2, <3>3, <3>4
    <3> QED
      BY <1>1, <2>2, <3>5, NewTexts
  <2>4. ASSUME NEW T \in SUBSET Slot, NEW msg, Deliver(T, msg),
               \/ msg.by = NoConn
               \/ msg.by = c /\ msg.from = label[c] /\ msg.kind # "2ALL"
        PROVE  TextsSigned'
    <3>1. \A d \in Conn : \A n \in 1 .. Len(down'[d]) :
              \/ \E m \in 1 .. Len(down[d]) : down'[d][n] = down[d][m]
              \/ down'[d][n] = msg
      <4>1. TypeInv /\ T \in SUBSET Slot /\ Deliver(T, msg)
        BY <2>4 DEF OwnInv
      <4>2. \A d \in Conn : \A n \in 1 .. Len(down'[d]) :
                \/ \E m \in 1 .. Len(down[d]) : down'[d][n] = down[d][m]
                \/ down'[d][n] = msg /\ Hit(T, d) # {}
        BY <4>1, DeliverTexts, Zenon
      <4> QED
        BY <4>2
    <3>2. \A d \in Conn : \A n \in 1 .. Len(down'[d]) :
              \/ \E m \in 1 .. Len(down[d]) : down'[d][n] = down[d][m]
              \/ down'[d][n].by = NoConn
              \/ /\ down'[d][n].by \in Conn /\ hpc[down'[d][n].by] # "off"
                 /\ down'[d][n].from = label[down'[d][n].by]
                 /\ down'[d][n].kind = "2ALL" => down'[d][n].by # d
      BY <2>1, <2>4, <3>1
    <3> QED
      BY <1>1, <2>2, <3>2, NewTexts
  <2>5. CASE Deliver(First(Named(hbuf[c].to)), Line("2ONE", hname[c], hbuf[c].by))
    <3>1. First(Named(hbuf[c].to)) \in SUBSET Slot
      BY DEF First, Named
    <3>2. /\ Line("2ONE", hname[c], hbuf[c].by).by \in {c, NoConn}
          /\ Line("2ONE", hname[c], hbuf[c].by).from = label[c]
          /\ Line("2ONE", hname[c], hbuf[c].by).kind # "2ALL"
      BY <1>4, <2>2 DEF Line
    <3> QED
      BY <2>4, <2>5, <3>1, <3>2
  <2>6. CASE Deliver({hidx[c]}, Line("LIST", <<>>, NoConn))
    <3> DEFINE T == {hidx[c]}
    <3>1. T \in SUBSET Slot /\ Line("LIST", <<>>, NoConn).by = NoConn
      BY <1>1, <2>1 DEF Line
    <3>2. Deliver(T, Line("LIST", <<>>, NoConn))
      BY <2>6
    <3> HIDE DEF T
    <3> QED
      BY <2>4, <3>1, <3>2
  <2> QED
    BY <1>11, <2>3, <2>5, <2>6 DEF HSend
<1>12. CASE HClear(c)
  BY <1>2, <1>12 DEF HClear, net
<1> QED
  BY <1>5, <1>6, <1>7, <1>8, <1>9, <1>10, <1>11, <1>12 DEF Handler

LEMMA CheckerNames ==
    ASSUME OwnInv, NamesKept, TextsSigned, Checker
    PROVE  NamesKept' /\ TextsSigned'
<1>1. UNCHANGED <<label, hname, hpc, hidx, hbuf, i>>
  BY DEF Checker, acceptor, handlers
<1>2. name' = name
  BY DEF Checker, AliveRound, Check, CLock, CSend, CRead, CClose, CClear, Unregister,
         registry
<1>3. NamesKept'
  BY <1>1, <1>2 DEF NamesKept
<1>4. CASE down' = down
  BY <1>1, <1>3, <1>4, SameTexts DEF TextsSigned
<1>5. CASE \E s \in Slot : Deliver({s}, Alive)
  <2>1. \E T \in SUBSET Slot : Deliver(T, Alive)
    BY <1>5
  <2>2. PICK T, msg : T \in SUBSET Slot /\ Deliver(T, msg) /\ msg.by = NoConn
    BY <2>1 DEF Alive, Line
  <2>3. \A d \in Conn : \A n \in 1 .. Len(down'[d]) :
             \/ \E m \in 1 .. Len(down[d]) : down'[d][n] = down[d][m]
             \/ down'[d][n].by = NoConn
    <3>1. TypeInv /\ T \in SUBSET Slot /\ Deliver(T, msg)
      BY <2>2 DEF OwnInv
    <3>2. \A d \in Conn : \A n \in 1 .. Len(down'[d]) :
               \/ \E m \in 1 .. Len(down[d]) : down'[d][n] = down[d][m]
               \/ down'[d][n] = msg /\ Hit(T, d) # {}
      BY <3>1, DeliverTexts, Zenon
    <3> QED
      BY <2>2, <3>2
  <2> QED
    BY <1>1, <1>3, <2>3, NewTexts DEF TextsSigned
<1>6. ASSUME NEW s \in Slot, NEW k \in Rounds, Check(s, k)
      PROVE  down' = down \/ \E t \in Slot : Deliver({t}, Alive)
  BY <1>6 DEF Check, CLock, CSend, CRead, CClose, CClear, Read, net
<1> QED
  BY <1>4, <1>5, <1>6 DEF Checker, AliveRound, net

LEMMA StepNames ==
    OwnInv /\ NamesKept /\ TextsSigned /\ [Next /\ Calm]_vars => NamesKept' /\ TextsSigned'
<1> SUFFICES ASSUME OwnInv, NamesKept, TextsSigned, [Next /\ Calm]_vars
             PROVE  NamesKept' /\ TextsSigned'
  OBVIOUS
<1>1. CASE Server /\ Calm
  BY <1>1, MainNames, HandlerKeepsNames, HandlerSigns, CheckerNames DEF Server
<1>2. ASSUME NEW c \in Conn, Client(c)
      PROVE  NamesKept' /\ TextsSigned'
  BY <1>2, ClientNames DEF OwnInv
<1>3. CASE UNCHANGED vars
  <2>1. UNCHANGED <<name, label, hname, hpc, hidx, hbuf, i, down>>
    BY <1>3 DEF vars, net, registry, acceptor, handlers
  <2> QED
    BY <2>1, SameTexts DEF NamesKept, TextsSigned
<1> QED
  BY <1>1, <1>2, <1>3 DEF Next

\* A text never reaches a client under another name than its sender was
\* registered by, and no sender gets its own text back, although the handler
\* finds the sender's slot by an index it shares with main and the receivers by
\* comparing names: a handler's slot keeps owner and name while it works.
THEOREM TextsBearTheirSender == CalmSpec => []Authentic
<1>1. Init => OwnInv /\ NamesKept /\ TextsSigned
  <2> SUFFICES ASSUME Init PROVE NamesKept /\ TextsSigned
    BY InitOwn
  <2>1. name \in [Slot -> {<<>>}] /\ hname \in [Conn -> {<<>>}] /\ label \in [Conn -> {<<>>}]
    BY DEF Init
  <2>2. \A d \in Conn : 1 .. Len(down[d]) = {}
    BY DEF Init
  <2> QED
    BY <2>1, <2>2 DEF Init, NamesKept, TextsSigned, Nothing, Chunk
<1>2. /\ OwnInv /\ NamesKept /\ TextsSigned
      /\ [Next /\ Calm]_vars
      => (OwnInv /\ NamesKept /\ TextsSigned)'
  BY StepOwn, StepNames
<1>3. TextsSigned => Authentic
  BY DEF TextsSigned, Authentic
<1> QED
  BY <1>1, <1>2, <1>3, PTL DEF CalmSpec
=============================================================================
