------------------------- MODULE PrintQueueRefines -------------------------
(***************************************************************************)
(* PrintQueue, with the printers started first, implements TaskQueue: for  *)
(* any number of processes and slots and any kills, the ring is a bounded  *)
(* FIFO queue of tasks.  What the proof adds to RingInv and SlotInv is     *)
(* where the indices stand and what the slots between them hold (Filled).  *)
(* The steps are proved queue steps for any order of the start, but for    *)
(* the one reset of the indices that an early client can suffer from.      *)
(***************************************************************************)
EXTENDS PrintQueueProofs, SequenceTheorems

\* No printer moves out before main has set the indices.
Unset == main \in {"init_slots", "init_used", "init_indices"} => out = 0

\* Nobody is at work, and nothing ordered, before the printers are forked.
Ordered ==
    main \in {"init_slots", "init_used", "init_indices", "fork"} =>
        full = 0 /\ \A p \in Proc : pc[p] = "off"

\* The slot of the k-th task of the queue, the one after the last is in.
Place(k) == (out + k - 1) % BUFFER_SIZE

\* The slots the queue consists of hold orders, and so does the slot a client
\* is about to step over; a printer that steps over a slot has copied it.
Filled ==
    /\ in = Place(Occupied + 1)
    /\ \A k \in 1 .. Occupied : tasks[Place(k)] \in Task
    /\ \A c \in Clients : pc[c] = "step_in" => tasks[in] \in Task
    /\ \A p \in Printers :
           /\ pc[p] = "step_out" => task[p] = tasks[out]
           /\ pc[p] \in {"post_used", "post_empty", "print"} => task[p] \in Task

\* What holds at every step whatever the order of the start.
Safe == TypeOK /\ RingInv /\ SlotInv

QueueInv == Safe /\ Unset /\ Filled

-----------------------------------------------------------------------------
(* The ring and its indices *)

LEMMA Wrap ==
    ASSUME NEW x \in Slot, NEW n \in 0 .. BUFFER_SIZE
    PROVE  (x + n) % BUFFER_SIZE = IF x + n < BUFFER_SIZE THEN x + n
                                   ELSE x + n - BUFFER_SIZE
BY PrintAssumption DEF Slot

LEMMA PlaceIs ==
    ASSUME TypeOK, NEW k \in 1 .. BUFFER_SIZE + 1
    PROVE  /\ Place(k) = IF out + k - 1 < BUFFER_SIZE THEN out + k - 1
                         ELSE out + k - 1 - BUFFER_SIZE
           /\ Place(k) \in Slot
<1>1. out \in Slot /\ k - 1 \in 0 .. BUFFER_SIZE /\ out + k - 1 = out + (k - 1)
  BY PrintAssumption DEF TypeOK, Slot
<1>2. Place(k) = IF out + (k - 1) < BUFFER_SIZE THEN out + (k - 1)
                 ELSE out + (k - 1) - BUFFER_SIZE
  BY <1>1, Wrap DEF Place
<1> QED
  BY <1>1, <1>2, PrintAssumption DEF Slot

\* As many tasks as slots at most; one less while a client has a slot reserved,
\* and one at least while a printer has claimed it.
LEMMA OccupiedBounds ==
    ASSUME TypeOK, SlotInv
    PROVE  /\ Occupied \in 0 .. BUFFER_SIZE
           /\ Occupied = full + Posting + Claimed
           /\ \A c \in Clients :
                  pc[c] \in {"used", "fill", "step_in"} => Occupied < BUFFER_SIZE
           /\ \A p \in Printers :
                  pc[p] \in {"used", "copy", "step_out"} => Occupied > 0
<1>1. Occupied = full + Posting + Claimed /\ Occupied \in Nat
  BY CountsType DEF Occupied, Posting, Claimed, TypeOK
<1>2. ASSUME main = "init_slots"
      PROVE  Occupied = 0
  <2>1. /\ At(Clients, {"post_used", "post_full"}) = {}
        /\ At(Printers, {"used", "copy", "step_out"}) = {}
    BY <1>2 DEF SlotInv, Early, At
  <2>2. Posting = 0 /\ Claimed = 0
    BY <2>1, FS_EmptySet DEF Posting, Claimed
  <2> QED
    BY <1>1, <1>2, <2>2 DEF SlotInv, Early
<1>3. ASSUME main # "init_slots"
      PROVE  empty + Reserved + Occupied + Returning = BUFFER_SIZE
  BY <1>3 DEF SlotInv, SlotAccounting, Reserved, Returning
<1>4. ASSUME NEW c \in Clients, pc[c] \in {"used", "fill", "step_in"}
      PROVE  Reserved > 0 /\ main # "init_slots"
  <2>1. c \in At(Clients, {"used", "fill", "step_in"})
    BY <1>4 DEF At
  <2>2. Reserved # 0
    BY <2>1, AtFinite, FS_EmptySet DEF Reserved
  <2> QED
    BY <1>4, <2>2, CountsType DEF SlotInv, Early
<1>5. ASSUME NEW p \in Printers, pc[p] \in {"used", "copy", "step_out"}
      PROVE  Claimed > 0
  <2>1. p \in At(Printers, {"used", "copy", "step_out"})
    BY <1>5 DEF At
  <2>2. Claimed # 0
    BY <2>1, AtFinite, FS_EmptySet DEF Claimed
  <2> QED
    BY <2>2, CountsType
<1> QED
  BY <1>1, <1>2, <1>3, <1>4, <1>5, CountsType, PrintAssumption DEF TypeOK

\* The queue is a sequence of orders.
LEMMA BacklogIs ==
    ASSUME QueueInv
    PROVE  /\ Backlog \in Seq(Task)
           /\ Len(Backlog) = Occupied
           /\ \A k \in 1 .. Occupied : Backlog[k] = tasks[Place(k)]
BY OccupiedBounds DEF QueueInv, Safe, Filled, Backlog, Place

-----------------------------------------------------------------------------
(* Steps that are invisible in the queue *)

LEMMA InitQueue == Init => Unset /\ Ordered /\ Filled /\ Queue!Init
<1> SUFFICES ASSUME Init PROVE Unset /\ Ordered /\ Filled /\ Queue!Init
  OBVIOUS
<1>1. Unset /\ Ordered
  BY DEF Init, Unset, Ordered
<1>2. Occupied = 0
  <2>1. /\ At(Clients, {"post_used", "post_full"}) = {}
        /\ At(Printers, {"used", "copy", "step_out"}) = {}
    BY <1>1 DEF Init, Ordered, At, Proc
  <2>2. full = 0
    BY DEF Init
  <2> QED
    BY <2>1, <2>2, FS_EmptySet DEF Occupied
<1>3. \A p \in Proc : pc[p] = "off"
  BY DEF Init
<1>4. Place(1) = 0
  <2>1. 0 % BUFFER_SIZE = 0 /\ 0 + 1 - 1 = 0
    BY PrintAssumption
  <2> QED
    BY <2>1 DEF Init, Place
<1>5. Filled
  BY <1>2, <1>3, <1>4 DEF Init, Filled, Proc
<1>6. Backlog = <<>>
  BY <1>2 DEF Backlog
<1>7. Holding = [p \in Printers |-> NoTask]
  BY <1>3 DEF Holding, Proc
<1> QED
  BY <1>1, <1>5, <1>6, <1>7 DEF Queue!Init

\* The numbers change, but not the ring, nor what a printer holds.
LEMMA SameQueue ==
    ASSUME QueueInv, Occupied' = Occupied, UNCHANGED <<tasks, in, out, task>>,
           \A c \in Clients : pc'[c] = "step_in" => pc[c] = "step_in",
           \A p \in Printers :
               /\ pc'[p] = "step_out" => pc[p] = "step_out"
               /\ pc'[p] \in {"post_used", "post_empty", "print"} <=>
                      pc[p] \in {"post_used", "post_empty", "print"}
    PROVE  Filled' /\ UNCHANGED Queue!vars
<1>1. Filled'
  BY DEF QueueInv, Filled, Place
<1>2. Backlog' = Backlog
  BY DEF Backlog
<1>3. Holding' = Holding
  BY DEF Holding
<1> QED
  BY <1>1, <1>2, <1>3 DEF Queue!vars

\* What main does leaves the queue as it is, unless its reset of the indices
\* comes when a client has moved in.
LEMMA MainQueue ==
    ASSUME QueueInv, Main, main = "init_indices" => in = 0
    PROVE  Filled' /\ UNCHANGED Queue!vars
<1>1. UNCHANGED <<tasks, in, out, task>>
  BY DEF Main, InitSlots, InitUsed, InitIndices, ForkPrinters, PrintersGone, sems,
         ring, QueueInv, Unset
<1>2. full' = full
  BY DEF Main, InitSlots, InitUsed, InitIndices, ForkPrinters, PrintersGone, sems,
         QueueInv, Safe, SlotInv, Early
<1>3. \A c \in Clients : pc'[c] = pc[c]
  BY PrintAssumption
     DEF Main, InitSlots, InitUsed, InitIndices, ForkPrinters, PrintersGone, Proc
<1>4. \A p \in Printers : pc'[p] = pc[p] \/ (pc[p] = "off" /\ pc'[p] = "full")
  BY DEF Main, InitSlots, InitUsed, InitIndices, ForkPrinters, PrintersGone, Proc,
         QueueInv, Safe, SlotInv, Early
<1>5. Occupied' = Occupied
  <2>1. /\ At(Clients, {"post_used", "post_full"})' = At(Clients, {"post_used", "post_full"})
        /\ At(Printers, {"used", "copy", "step_out"})'
               = At(Printers, {"used", "copy", "step_out"})
    BY <1>3, <1>4 DEF At
  <2> QED
    BY <1>2, <2>1 DEF Occupied
<1> QED
  BY <1>1, <1>3, <1>4, <1>5, SameQueue

\* What the head counts make of the length of the queue.
LEMMA ClientOccupied ==
    ASSUME TypeOK, full' \in Nat, NEW c \in Clients, NEW at, Goto(c, at)
    PROVE  Occupied' = Occupied + (full' - full)
                       + One(at \in {"post_used", "post_full"})
                       - One(pc[c] \in {"post_used", "post_full"})
<1>1. Occupied = full + Posting + Claimed /\ Occupied' = full' + Posting' + Claimed'
  BY DEF Occupied, Posting, Claimed
<1>2. /\ full \in Nat /\ Posting \in Nat /\ Claimed \in Nat
      /\ \A b : One(b) \in {0, 1}
  BY CountsType DEF One, TypeOK
<1>3. /\ Claimed' = Claimed
      /\ Posting' = Posting + One(at \in {"post_used", "post_full"})
                            - One(pc[c] \in {"post_used", "post_full"})
  BY ClientMoved
<1> QED
  BY <1>1, <1>2, <1>3

LEMMA PrinterOccupied ==
    ASSUME TypeOK, full' \in Nat, NEW p \in Printers, NEW at, Goto(p, at)
    PROVE  Occupied' = Occupied + (full' - full)
                       + One(at \in {"used", "copy", "step_out"})
                       - One(pc[p] \in {"used", "copy", "step_out"})
<1>1. Occupied = full + Posting + Claimed /\ Occupied' = full' + Posting' + Claimed'
  BY DEF Occupied, Posting, Claimed
<1>2. /\ full \in Nat /\ Posting \in Nat /\ Claimed \in Nat
      /\ \A b : One(b) \in {0, 1}
  BY CountsType DEF One, TypeOK
<1>3. /\ Posting' = Posting
      /\ Claimed' = Claimed + One(at \in {"used", "copy", "step_out"})
                            - One(pc[p] \in {"used", "copy", "step_out"})
  BY PrinterMoved
<1> QED
  BY <1>1, <1>2, <1>3

LEMMA ClientUnseen ==
    ASSUME QueueInv, TypeOK', NEW c \in Clients,
           \/ ForkClient(c) \/ WaitEmpty(c) \/ WaitUsed(c, "fill")
           \/ PostUsed(c, "post_full") \/ PostFull(c)
    PROVE  Filled' /\ UNCHANGED Queue!vars
<1>1. PICK at \in {"empty", "used", "fill", "post_full"} : Goto(c, at)
  BY DEF ForkClient, WaitEmpty, WaitUsed, PostUsed, PostFull
<1>2. TypeOK /\ full \in Nat /\ full' \in Nat /\ Occupied \in Nat
  BY OccupiedBounds DEF QueueInv, Safe, TypeOK
<1>3. \A q \in Proc : q # c => pc'[q] = pc[q]
  BY <1>1, <1>2 DEF Goto, TypeOK
<1>4. pc'[c] = at
  BY <1>1, <1>2 DEF Goto, TypeOK, Proc
<1>5. Occupied' = Occupied + (full' - full)
                  + One(at \in {"post_used", "post_full"})
                  - One(pc[c] \in {"post_used", "post_full"})
  BY <1>1, <1>2, ClientOccupied
<1>6. Occupied' = Occupied
  <2>1. CASE PostFull(c)
    <3>1. at = "empty" /\ pc[c] = "post_full" /\ full' = full + 1
      BY <1>2, <1>4, <2>1 DEF PostFull, Calls, Goto, TypeOK, Proc
    <3> QED
      BY <1>2, <1>5, <3>1 DEF One
  <2>2. CASE PostUsed(c, "post_full")
    <3>1. at = "post_full" /\ pc[c] = "post_used" /\ full' = full
      BY <1>2, <1>4, <2>2 DEF PostUsed, Calls, Goto, TypeOK, Proc
    <3> QED
      BY <1>2, <1>5, <3>1 DEF One
  <2>3. CASE ForkClient(c) \/ WaitEmpty(c) \/ WaitUsed(c, "fill")
    <3>1. /\ at \in {"empty", "used", "fill"} /\ full' = full
          /\ pc[c] \in {"off", "empty", "used"}
      BY <1>2, <1>4, <2>3
         DEF ForkClient, WaitEmpty, WaitUsed, Calls, Goto, TypeOK, Proc, sems
    <3> QED
      BY <1>2, <1>5, <3>1 DEF One
  <2> QED
    BY <2>1, <2>2, <2>3
<1>7. UNCHANGED <<tasks, in, out, task>>
  BY DEF ForkClient, WaitEmpty, WaitUsed, PostUsed, PostFull, ring
<1>8. \A d \in Clients : pc'[d] = "step_in" => pc[d] = "step_in"
  BY <1>3, <1>4 DEF Proc
<1>9. \A p \in Printers : pc'[p] = pc[p]
  BY <1>3, PrintAssumption DEF Proc
<1> QED
  BY <1>6, <1>7, <1>8, <1>9, SameQueue

LEMMA PrinterUnseen ==
    ASSUME QueueInv, TypeOK', NEW p \in Printers,
           \/ WaitFull(p) \/ WaitUsed(p, "copy")
           \/ PostUsed(p, "post_empty") \/ PostEmpty(p)
    PROVE  Filled' /\ UNCHANGED Queue!vars
<1>1. PICK at \in {"used", "copy", "post_empty", "print"} : Goto(p, at)
  BY DEF WaitFull, WaitUsed, PostUsed, PostEmpty
<1>2. TypeOK /\ full \in Nat /\ full' \in Nat /\ Occupied \in Nat
  BY OccupiedBounds DEF QueueInv, Safe, TypeOK
<1>3. \A q \in Proc : q # p => pc'[q] = pc[q]
  BY <1>1, <1>2 DEF Goto, TypeOK
<1>4. pc'[p] = at
  BY <1>1, <1>2 DEF Goto, TypeOK, Proc
<1>5. Occupied' = Occupied + (full' - full)
                  + One(at \in {"used", "copy", "step_out"})
                  - One(pc[p] \in {"used", "copy", "step_out"})
  BY <1>1, <1>2, PrinterOccupied
<1>6. Occupied' = Occupied
  <2>1. CASE WaitFull(p)
    <3>1. at = "used" /\ pc[p] = "full" /\ full' = full - 1
      BY <1>2, <1>4, <2>1 DEF WaitFull, Calls, Goto, TypeOK, Proc
    <3> QED
      BY <1>2, <1>5, <3>1 DEF One
  <2>2. CASE WaitUsed(p, "copy")
    <3>1. at = "copy" /\ pc[p] = "used" /\ full' = full
      BY <1>2, <1>4, <2>2 DEF WaitUsed, Calls, Goto, TypeOK, Proc
    <3> QED
      BY <1>2, <1>5, <3>1 DEF One
  <2>3. CASE PostUsed(p, "post_empty") \/ PostEmpty(p)
    <3>1. /\ at \in {"post_empty", "print"} /\ full' = full
          /\ pc[p] \in {"post_used", "post_empty"}
      BY <1>2, <1>4, <2>3 DEF PostUsed, PostEmpty, Calls, Goto, TypeOK, Proc
    <3> QED
      BY <1>2, <1>5, <3>1 DEF One
  <2> QED
    BY <2>1, <2>2, <2>3
<1>7. UNCHANGED <<tasks, in, out, task>>
  BY DEF WaitFull, WaitUsed, PostUsed, PostEmpty, ring
<1>8. \A c \in Clients : pc'[c] = pc[c]
  BY <1>3, PrintAssumption DEF Proc
<1>9. /\ pc'[p] # "step_out"
      /\ pc'[p] \in {"post_used", "post_empty", "print"} <=>
             pc[p] \in {"post_used", "post_empty", "print"}
  BY <1>4 DEF WaitFull, WaitUsed, PostUsed, PostEmpty, Calls, Goto, TypeOK, Proc
<1>10. \A q \in Printers :
           /\ pc'[q] = "step_out" => pc[q] = "step_out"
           /\ pc'[q] \in {"post_used", "post_empty", "print"} <=>
                  pc[q] \in {"post_used", "post_empty", "print"}
  BY <1>3, <1>9 DEF Proc
<1> QED
  BY <1>6, <1>7, <1>8, <1>10, SameQueue

-----------------------------------------------------------------------------
(* Steps on the ring *)

\* Only the process in the guarded section is where the ring is touched.
LEMMA AloneInRing ==
    ASSUME RingInv, NEW p \in Proc, InRing(p)
    PROVE  \A q \in Proc : q # p => pc[q] \notin {"fill", "step_in", "copy", "step_out"}
BY DEF RingInv, RingExclusive, InRing

\* The random text goes to the slot after the queue.
LEMMA FillQueue ==
    ASSUME QueueInv, TypeOK', NEW c \in Clients, Fill(c)
    PROVE  Filled' /\ UNCHANGED Queue!vars
<1>1. PICK t \in Task : tasks' = [tasks EXCEPT ![in] = t]
  BY DEF Fill
<1>2. /\ TypeOK /\ full' = full /\ full' \in Nat /\ pc[c] = "fill"
      /\ Goto(c, "step_in") /\ UNCHANGED <<in, out, task>>
  BY DEF Fill, QueueInv, Safe, Calls, sems, TypeOK
<1>3. Occupied \in 0 .. BUFFER_SIZE /\ Occupied < BUFFER_SIZE
  BY <1>2, OccupiedBounds DEF QueueInv, Safe
<1>4. Occupied' = Occupied
  <2>1. Occupied' = Occupied + (full' - full) + One("step_in" \in {"post_used", "post_full"})
                    - One(pc[c] \in {"post_used", "post_full"})
    BY <1>2, ClientOccupied
  <2> QED
    BY <1>2, <1>3, <2>1 DEF One, TypeOK
<1>5. /\ pc'[c] = "step_in"
      /\ \A q \in Proc : q # c => pc'[q] = pc[q]
  BY <1>2 DEF Goto, TypeOK, Proc
<1>6. \A p \in Printers : p # c /\ pc[p] # "step_out"
  BY <1>2, AloneInRing, PrintAssumption DEF QueueInv, Safe, InRing, Proc
<1>7. in \in Slot /\ in = Place(Occupied + 1)
  BY DEF QueueInv, Filled, Safe, TypeOK
<1>8. tasks'[in] = t /\ \A x \in Slot : x # in => tasks'[x] = tasks[x]
  BY <1>1, <1>2, <1>7 DEF TypeOK
<1>9. \A k \in 1 .. Occupied : Place(k) \in Slot /\ Place(k) # in
  <2> SUFFICES ASSUME NEW k \in 1 .. Occupied PROVE Place(k) \in Slot /\ Place(k) # in
    OBVIOUS
  <2>1. k \in 1 .. BUFFER_SIZE + 1 /\ Occupied + 1 \in 1 .. BUFFER_SIZE + 1
    BY <1>3, PrintAssumption
  <2>2. out \in Slot
    BY <1>2 DEF TypeOK
  <2> QED
    BY <1>2, <1>3, <1>7, <2>1, <2>2, PlaceIs, PrintAssumption DEF Slot
<1>10. \A k : Place(k)' = Place(k)
  BY <1>2 DEF Place
<1>11. Filled'
  <2>1. in' = Place(Occupied + 1)'
    BY <1>2, <1>4, <1>7, <1>10
  <2>2. \A k \in 1 .. Occupied : tasks'[Place(k)] = tasks[Place(k)]
    BY <1>8, <1>9
  <2>3. \A k \in 1 .. Occupied' : tasks'[Place(k)'] \in Task
    BY <1>4, <1>10, <2>2 DEF QueueInv, Filled
  <2>4. \A d \in Clients : pc'[d] = "step_in" => tasks'[in'] \in Task
    BY <1>2, <1>8
  <2>5. \A p \in Printers :
            /\ pc'[p] = "step_out" => task'[p] = tasks'[out']
            /\ pc'[p] \in {"post_used", "post_empty", "print"} => task'[p] \in Task
    BY <1>2, <1>5, <1>6 DEF QueueInv, Filled, Proc
  <2> QED
    BY <1>4, <2>1, <2>3, <2>4, <2>5 DEF Filled, Place
<1>12. Backlog' = Backlog
  <2>1. \A k \in 1 .. Occupied : tasks'[Place(k)'] = tasks[Place(k)]
    BY <1>8, <1>9, <1>10
  <2> QED
    BY <1>4, <2>1 DEF Backlog, Place
<1>13. Holding' = Holding
  BY <1>2, <1>5, <1>6 DEF Holding, Proc
<1> QED
  BY <1>11, <1>12, <1>13 DEF Queue!vars

\* Stepping over the slot puts it into the queue: the queue ends there.
LEMMA StepInQueue ==
    ASSUME QueueInv, TypeOK', NEW c \in Clients, StepIn(c)
    PROVE  Filled' /\ \E t \in Task : Queue!Put(t)
<1>1. /\ TypeOK /\ full' = full /\ full' \in Nat /\ pc[c] = "step_in"
      /\ Goto(c, "post_used") /\ UNCHANGED <<tasks, out, task>>
      /\ in' = (in + 1) % BUFFER_SIZE /\ out \in Slot /\ in \in Slot
  BY DEF StepIn, QueueInv, Safe, Calls, sems, TypeOK
<1>2. Occupied \in 0 .. BUFFER_SIZE /\ Occupied < BUFFER_SIZE
  BY <1>1, OccupiedBounds DEF QueueInv, Safe
<1>3. Occupied' = Occupied + 1
  <2>1. Occupied' = Occupied + (full' - full) + One("post_used" \in {"post_used", "post_full"})
                    - One(pc[c] \in {"post_used", "post_full"})
    BY <1>1, ClientOccupied
  <2> QED
    BY <1>1, <1>2, <2>1 DEF One, TypeOK
<1>4. /\ pc'[c] = "post_used"
      /\ \A q \in Proc : q # c => pc'[q] = pc[q]
  BY <1>1 DEF Goto, TypeOK, Proc
<1>5. \A p \in Printers : p # c /\ pc'[p] = pc[p]
  BY <1>4, PrintAssumption DEF Proc
<1>6. \A d \in Clients : pc'[d] # "step_in"
  BY <1>1, <1>4, AloneInRing DEF QueueInv, Safe, InRing, Proc
<1>7. in = Place(Occupied + 1) /\ tasks[in] \in Task
  BY <1>1 DEF QueueInv, Filled
<1>8. \A k : Place(k)' = Place(k)
  BY <1>1 DEF Place
<1>9. in' = Place(Occupied + 2)
  <2>1. in' = IF in + 1 < BUFFER_SIZE THEN in + 1 ELSE in + 1 - BUFFER_SIZE
    BY <1>1, Wrap, PrintAssumption
  <2>2. Occupied + 1 \in 1 .. BUFFER_SIZE + 1 /\ Occupied + 2 \in 1 .. BUFFER_SIZE + 1
    BY <1>2, PrintAssumption
  <2> QED
    BY <1>1, <1>2, <1>7, <2>1, <2>2, PlaceIs, PrintAssumption DEF Slot
<1>10. \A k \in 1 .. Occupied + 1 : tasks[Place(k)] \in Task
  <2>1. \A k \in 1 .. Occupied + 1 : k \in 1 .. Occupied \/ k = Occupied + 1
    BY <1>2
  <2> QED
    BY <1>7, <2>1 DEF QueueInv, Filled
<1>11. Filled'
  <2>1. in' = Place(Occupied + 1)'
    <3>1. Occupied' + 1 = Occupied + 2
      BY <1>2, <1>3
    <3> QED
      BY <1>1, <1>9, <3>1 DEF Place
  <2>2. \A k \in 1 .. Occupied' : tasks'[Place(k)'] \in Task
    BY <1>1, <1>3, <1>8, <1>10
  <2>3. \A p \in Printers :
            /\ pc'[p] = "step_out" => task'[p] = tasks'[out']
            /\ pc'[p] \in {"post_used", "post_empty", "print"} => task'[p] \in Task
    BY <1>1, <1>5 DEF QueueInv, Filled
  <2> QED
    BY <1>6, <2>1, <2>2, <2>3 DEF Filled, Place
<1>12. Backlog' = Append(Backlog, tasks[in])
  <2> DEFINE t == tasks[in]
             new == [k \in 1 .. Occupied + 1 |-> tasks[Place(k)]]
  <2>1. Backlog' = new
    BY <1>1, <1>3 DEF Backlog, Place
  <2>2. new \in Seq(Task) /\ Len(new) = Occupied + 1
    BY <1>2, <1>10
  <2>3. /\ Backlog \in Seq(Task) /\ Len(Backlog) = Occupied
        /\ \A k \in 1 .. Occupied : Backlog[k] = tasks[Place(k)]
    BY BacklogIs
  <2>4. t \in Task /\ new[Occupied + 1] = t
    BY <1>2, <1>7
  <2>5. \A k \in 1 .. Occupied : new[k] = Backlog[k]
    BY <1>2, <2>3
  <2> HIDE DEF t, new
  <2>6. new = Append(Backlog, t)
    <3>1. /\ Append(Backlog, t) \in Seq(Task) /\ Len(Append(Backlog, t)) = Occupied + 1
          /\ Append(Backlog, t)[Occupied + 1] = t
          /\ \A k \in 1 .. Occupied : Append(Backlog, t)[k] = Backlog[k]
      BY <1>2, <2>3, <2>4
    <3>2. \A k \in 1 .. Occupied + 1 : new[k] = Append(Backlog, t)[k]
      BY <1>2, <2>4, <2>5, <3>1
    <3> QED
      BY <2>2, <3>1, <3>2, SeqEqual
  <2> QED
    BY <2>1, <2>6 DEF t
<1>13. Holding' = Holding
  BY <1>1, <1>5 DEF Holding
<1>14. Len(Backlog) < BUFFER_SIZE
  BY <1>2, BacklogIs
<1>15. Queue!Put(tasks[in])
  BY <1>12, <1>13, <1>14 DEF Queue!Put
<1> QED
  BY <1>7, <1>11, <1>15

\* A printer copies the oldest task.
LEMMA CopyQueue ==
    ASSUME QueueInv, TypeOK', NEW p \in Printers, Copy(p)
    PROVE  Filled' /\ UNCHANGED Queue!vars
<1>1. /\ TypeOK /\ full' = full /\ full' \in Nat /\ pc[p] = "copy"
      /\ Goto(p, "step_out") /\ UNCHANGED <<tasks, in, out>>
      /\ task' = [task EXCEPT ![p] = tasks[out]]
  BY DEF Copy, QueueInv, Safe, Calls, sems, ring, TypeOK
<1>2. Occupied \in Nat
  BY <1>1, OccupiedBounds DEF QueueInv, Safe
<1>3. Occupied' = Occupied
  <2>1. Occupied' = Occupied + (full' - full) + One("step_out" \in {"used", "copy", "step_out"})
                    - One(pc[p] \in {"used", "copy", "step_out"})
    BY <1>1, PrinterOccupied
  <2> QED
    BY <1>1, <1>2, <2>1 DEF One, TypeOK
<1>4. /\ pc'[p] = "step_out"
      /\ \A q \in Proc : q # p => pc'[q] = pc[q]
  BY <1>1 DEF Goto, TypeOK, Proc
<1>5. \A c \in Clients : pc'[c] = pc[c]
  BY <1>4, PrintAssumption DEF Proc
<1>6. task'[p] = tasks[out] /\ \A q \in Printers : q # p => task'[q] = task[q]
  BY <1>1 DEF TypeOK
<1>7. Filled'
  BY <1>1, <1>3, <1>4, <1>5, <1>6 DEF QueueInv, Filled, Place, Proc
<1>8. Backlog' = Backlog
  BY <1>1, <1>3 DEF Backlog
<1>9. Holding' = Holding
  BY <1>1, <1>4, <1>6 DEF Holding, Proc
<1> QED
  BY <1>7, <1>8, <1>9 DEF Queue!vars

\* Stepping over the slot takes the oldest task, which the printer has copied.
LEMMA StepOutQueue ==
    ASSUME QueueInv, TypeOK', NEW p \in Printers, StepOut(p)
    PROVE  Filled' /\ Queue!Take(p)
<1>1. /\ TypeOK /\ full' = full /\ full' \in Nat /\ pc[p] = "step_out"
      /\ Goto(p, "post_used") /\ UNCHANGED <<tasks, in, task>>
      /\ out' = (out + 1) % BUFFER_SIZE /\ out \in Slot
  BY DEF StepOut, QueueInv, Safe, Calls, sems, TypeOK
<1>2. Occupied \in 0 .. BUFFER_SIZE /\ Occupied > 0
  BY <1>1, OccupiedBounds DEF QueueInv, Safe
<1>3. Occupied' = Occupied - 1
  <2>1. Occupied' = Occupied + (full' - full) + One("post_used" \in {"used", "copy", "step_out"})
                    - One(pc[p] \in {"used", "copy", "step_out"})
    BY <1>1, PrinterOccupied
  <2> QED
    BY <1>1, <1>2, <2>1 DEF One, TypeOK
<1>4. /\ pc'[p] = "post_used"
      /\ \A q \in Proc : q # p => pc'[q] = pc[q]
  BY <1>1 DEF Goto, TypeOK, Proc
<1>5. \A q \in Printers : pc'[q] # "step_out"
  BY <1>1, <1>4, AloneInRing DEF QueueInv, Safe, InRing, Proc
<1>6. \A c \in Clients : pc'[c] = pc[c] /\ pc[c] # "step_in"
  BY <1>1, <1>4, AloneInRing, PrintAssumption DEF QueueInv, Safe, InRing, Proc
\* The k-th place is now what was the next one.
<1>7. \A k \in 1 .. Occupied : Place(k)' = Place(k + 1)
  <2> SUFFICES ASSUME NEW k \in 1 .. Occupied PROVE Place(k)' = Place(k + 1)
    OBVIOUS
  <2>1. out' = IF out + 1 < BUFFER_SIZE THEN out + 1 ELSE out + 1 - BUFFER_SIZE
    BY <1>1, Wrap, PrintAssumption
  <2>2. out' \in Slot /\ k - 1 \in 0 .. BUFFER_SIZE /\ k + 1 \in 1 .. BUFFER_SIZE + 1
    BY <1>1, <1>2, <2>1, PrintAssumption DEF Slot
  <2>3. (out' + (k - 1)) % BUFFER_SIZE =
            IF out' + (k - 1) < BUFFER_SIZE THEN out' + (k - 1)
            ELSE out' + (k - 1) - BUFFER_SIZE
    BY <2>2, Wrap
  <2>4. out' + k - 1 = out' + (k - 1)
    BY <2>2 DEF Slot
  <2>5. Place(k)' = (out' + (k - 1)) % BUFFER_SIZE
    BY <2>4 DEF Place
  <2>6. Place(k + 1) = IF out + (k + 1) - 1 < BUFFER_SIZE THEN out + (k + 1) - 1
                       ELSE out + (k + 1) - 1 - BUFFER_SIZE
    BY <1>1, <2>2, PlaceIs
  <2> QED
    BY <1>1, <1>2, <2>1, <2>2, <2>3, <2>5, <2>6, PrintAssumption DEF Slot
<1>8. Place(1) = out
  <2>1. 1 \in 1 .. BUFFER_SIZE + 1
    BY PrintAssumption
  <2>2. Place(1) = IF out + 1 - 1 < BUFFER_SIZE THEN out + 1 - 1
                   ELSE out + 1 - 1 - BUFFER_SIZE
    BY <1>1, <2>1, PlaceIs
  <2>3. out + 1 - 1 = out /\ out < BUFFER_SIZE
    BY <1>1, PrintAssumption DEF Slot
  <2> QED
    BY <2>2, <2>3
<1>9. tasks[out] \in Task /\ task[p] = tasks[out]
  <2>1. 1 \in 1 .. Occupied
    BY <1>2
  <2> QED
    BY <1>1, <1>8, <2>1 DEF QueueInv, Filled
<1>10. Filled'
  <2>1. in' = Place(Occupied + 1)'
    <3>1. Occupied' + 1 = Occupied /\ Occupied \in 1 .. Occupied
      BY <1>2, <1>3
    <3>2. in = Place(Occupied + 1)
      BY DEF QueueInv, Filled
    <3>3. (out' + Occupied - 1) % BUFFER_SIZE = Place(Occupied + 1)
      BY <1>7, <3>1 DEF Place
    <3> QED
      BY <1>1, <3>1, <3>2, <3>3 DEF Place
  <2>2. \A k \in 1 .. Occupied' : tasks'[Place(k)'] \in Task
    <3>1. \A k \in 1 .. Occupied' : k \in 1 .. Occupied /\ k + 1 \in 1 .. Occupied
      BY <1>2, <1>3
    <3> QED
      BY <1>1, <1>7, <3>1 DEF QueueInv, Filled
  <2>3. \A q \in Printers :
            pc'[q] \in {"post_used", "post_empty", "print"} => task'[q] \in Task
    BY <1>1, <1>4, <1>9 DEF QueueInv, Filled, Proc
  <2> QED
    BY <1>5, <1>6, <2>1, <2>2, <2>3 DEF Filled, Place
<1>11. /\ Backlog \in Seq(Task) /\ Len(Backlog) = Occupied /\ Backlog # <<>>
       /\ \A k \in 1 .. Occupied : Backlog[k] = tasks[Place(k)]
  BY <1>2, BacklogIs
<1>12. Head(Backlog) = task[p]
  BY <1>2, <1>8, <1>9, <1>11
<1>13. Backlog' = Tail(Backlog)
  <2> DEFINE new == [k \in 1 .. Occupied - 1 |-> tasks[Place(k + 1)]]
  <2>1. Backlog' = new
    <3>1. \A k \in 1 .. Occupied - 1 : tasks'[Place(k)'] = tasks[Place(k + 1)]
      BY <1>1, <1>2, <1>7
    <3> QED
      BY <1>3, <3>1 DEF Backlog, Place
  <2>2. \A k \in 1 .. Occupied - 1 : k + 1 \in 1 .. Occupied
    BY <1>2
  <2>3. new \in Seq(Task) /\ Len(new) = Occupied - 1
    BY <1>2, <2>2 DEF QueueInv, Filled
  <2>4. \A k \in 1 .. Occupied - 1 : new[k] = Backlog[k + 1]
    BY <1>11, <2>2
  <2> HIDE DEF new
  <2>5. /\ Tail(Backlog) \in Seq(Task) /\ Len(Tail(Backlog)) = Occupied - 1
        /\ \A k \in 1 .. Occupied - 1 : Tail(Backlog)[k] = Backlog[k + 1]
    BY <1>2, <1>11
  <2>6. new = Tail(Backlog)
    BY <2>3, <2>4, <2>5, SeqEqual
  <2> QED
    BY <2>1, <2>6
<1>14. Holding[p] = NoTask
  BY <1>1 DEF Holding
<1>15. Holding' = [Holding EXCEPT ![p] = Head(Backlog)]
  BY <1>1, <1>4, <1>12 DEF Holding, Proc
<1>16. Queue!Take(p)
  BY <1>11, <1>13, <1>14, <1>15 DEF Queue!Take
<1> QED
  BY <1>10, <1>16

\* A printer that has printed holds nothing.
LEMMA PrintQueueStep ==
    ASSUME QueueInv, TypeOK', NEW p \in Printers, PrintTask(p)
    PROVE  Filled' /\ Queue!Finish(p)
<1>1. /\ TypeOK /\ full' = full /\ full' \in Nat /\ pc[p] = "print"
      /\ Goto(p, "full") /\ UNCHANGED <<tasks, in, out, task>>
  BY DEF PrintTask, QueueInv, Safe, Calls, sems, ring, TypeOK
<1>2. Occupied \in Nat
  BY <1>1, OccupiedBounds DEF QueueInv, Safe
<1>3. Occupied' = Occupied
  <2>1. Occupied' = Occupied + (full' - full) + One("full" \in {"used", "copy", "step_out"})
                    - One(pc[p] \in {"used", "copy", "step_out"})
    BY <1>1, PrinterOccupied
  <2> QED
    BY <1>1, <1>2, <2>1 DEF One, TypeOK
<1>4. /\ pc'[p] = "full"
      /\ \A q \in Proc : q # p => pc'[q] = pc[q]
  BY <1>1 DEF Goto, TypeOK, Proc
<1>5. \A c \in Clients : pc'[c] = pc[c]
  BY <1>4, PrintAssumption DEF Proc
<1>6. Filled'
  BY <1>1, <1>3, <1>4, <1>5 DEF QueueInv, Filled, Place, Proc
<1>7. Backlog' = Backlog
  BY <1>1, <1>3 DEF Backlog
<1>8. Holding[p] # NoTask
  BY <1>1, PrintAssumption DEF QueueInv, Filled, Holding
<1>9. Holding' = [Holding EXCEPT ![p] = NoTask]
  BY <1>1, <1>4 DEF Holding, Proc
<1> QED
  BY <1>6, <1>7, <1>8, <1>9 DEF Queue!Finish

-----------------------------------------------------------------------------
(* The refinement *)

\* Every step of the program is a step of the queue or leaves it as it is.
LEMMA StepQueue ==
    ASSUME QueueInv, TypeOK', [Next]_vars,
           InitIndices => in = 0
    PROVE  Filled' /\ [Queue!Next]_Queue!vars
<1>1. CASE UNCHANGED vars
  <2>1. Occupied' = Occupied /\ UNCHANGED <<tasks, in, out, task, pc>>
    BY <1>1 DEF vars, sems, ring, Occupied, At
  <2> QED
    BY <2>1, SameQueue
<1>2. CASE Main
  <2>1. main = "init_indices" => in = 0
    BY <1>2 DEF Main, InitSlots, InitUsed, ForkPrinters, PrintersGone
  <2> QED
    BY <1>2, <2>1, MainQueue
<1>3. ASSUME NEW c \in Clients, ForkClient(c) \/ ClientLoop(c)
      PROVE  Filled' /\ [Queue!Next]_Queue!vars
  <2>1. CASE \/ ForkClient(c) \/ WaitEmpty(c) \/ WaitUsed(c, "fill")
             \/ PostUsed(c, "post_full") \/ PostFull(c)
    BY <2>1, ClientUnseen
  <2>2. CASE Fill(c)
    BY <2>2, FillQueue
  <2>3. CASE StepIn(c)
    BY <2>3, StepInQueue DEF Queue!Next
  <2> QED
    BY <1>3, <2>1, <2>2, <2>3 DEF ClientLoop
<1>4. ASSUME NEW p \in Printers, PrinterLoop(p)
      PROVE  Filled' /\ [Queue!Next]_Queue!vars
  <2>1. CASE \/ WaitFull(p) \/ WaitUsed(p, "copy")
             \/ PostUsed(p, "post_empty") \/ PostEmpty(p)
    BY <2>1, PrinterUnseen
  <2>2. CASE Copy(p)
    BY <2>2, CopyQueue
  <2>3. CASE StepOut(p)
    BY <2>3, StepOutQueue DEF Queue!Next
  <2>4. CASE PrintTask(p)
    BY <2>4, PrintQueueStep DEF Queue!Next
  <2> QED
    BY <1>4, <2>1, <2>2, <2>3, <2>4 DEF PrinterLoop
<1>5. CASE (\E c \in Clients : Strand(c) \/ Wake(c)) \/ \E p \in Proc : Kill(p)
  <2>1. Occupied' = Occupied /\ UNCHANGED <<tasks, in, out, task, pc>>
    BY <1>5 DEF Strand, Wake, Kill, sems, ring, Occupied, At
  <2> QED
    BY <2>1, SameQueue
<1> QED
  BY <1>1, <1>2, <1>3, <1>4, <1>5 DEF Next

\* out moves only with a printer, and those come last.
LEMMA StepUnset == Safe /\ Unset /\ [Next]_vars => Unset'
<1> SUFFICES ASSUME Safe, Unset, [Next]_vars,
                    main' \in {"init_slots", "init_used", "init_indices"}
             PROVE  out' = 0
  BY DEF Unset
<1>1. CASE Main \/ UNCHANGED vars
  BY <1>1 DEF Main, InitSlots, InitUsed, InitIndices, ForkPrinters, PrintersGone,
              vars, ring, Unset
<1>2. ASSUME NEW c \in Clients, ForkClient(c) \/ ClientLoop(c) \/ Strand(c) \/ Wake(c)
      PROVE  out' = 0
  BY <1>2 DEF ForkClient, ClientLoop, Strand, Wake, WaitEmpty, WaitUsed, Fill,
              StepIn, PostUsed, PostFull, ring, Unset
<1>3. ASSUME NEW p \in Printers, PrinterLoop(p)
      PROVE  FALSE
  <2>1. main' = main /\ pc[p] # "off"
    BY <1>3 DEF PrinterLoop, WaitFull, WaitUsed, Copy, StepOut, PostUsed, PostEmpty,
                PrintTask, Calls
  <2> QED
    BY <2>1 DEF Safe, SlotInv, Early
<1>4. ASSUME NEW p \in Proc, Kill(p)
      PROVE  out' = 0
  BY <1>4 DEF Kill, ring, Unset
<1> QED
  BY <1>1, <1>2, <1>3, <1>4 DEF Next

\* A client is forked only when the printers are waiting, and until then
\* nobody else has anything to call.
LEMMA StepOrdered == Safe /\ Ordered /\ [Next /\ PrintersFirst]_vars => Ordered'
<1> SUFFICES ASSUME Safe, Ordered, [Next /\ PrintersFirst]_vars,
                    main' \in {"init_slots", "init_used", "init_indices", "fork"}
             PROVE  full' = 0 /\ \A p \in Proc : pc'[p] = "off"
  BY DEF Ordered
<1>1. CASE Main
  BY <1>1 DEF Main, InitSlots, InitUsed, InitIndices, ForkPrinters, PrintersGone,
              sems, Ordered
<1>2. CASE UNCHANGED vars
  BY <1>2 DEF vars, sems, Ordered
<1>3. CASE Next /\ PrintersFirst /\ ~Main
  <2>1. main' = main
    BY <1>3 DEF Next, ClientLoop, PrinterLoop, ForkClient, Strand, Wake, WaitEmpty,
           WaitUsed, Fill, StepIn, PostUsed, PostFull, WaitFull, Copy, StepOut,
           PostEmpty, PrintTask, Kill
  <2>2. full = 0 /\ main # "wait" /\ \A p \in Proc : pc[p] = "off"
    BY <2>1 DEF Ordered
  <2>3. ASSUME NEW c \in Clients, ForkClient(c)
        PROVE  FALSE
    BY <1>3, <2>2, <2>3 DEF ForkClient, Goto, PrintersFirst, Safe, TypeOK, Proc
  <2>4. ASSUME NEW c \in Clients, ClientLoop(c) \/ Strand(c)
        PROVE  FALSE
    BY <2>2, <2>4 DEF ClientLoop, Strand, WaitEmpty, WaitUsed, Fill, StepIn,
                      PostUsed, PostFull, Calls, Proc
  <2>5. ASSUME NEW p \in Printers, PrinterLoop(p)
        PROVE  FALSE
    BY <2>2, <2>5 DEF PrinterLoop, WaitFull, WaitUsed, Copy, StepOut, PostUsed,
                      PostEmpty, PrintTask, Calls, Proc
  <2> QED
    BY <1>3, <2>2, <2>3, <2>4, <2>5 DEF Next, Wake, Kill, sems
<1> QED
  BY <1>1, <1>2, <1>3

\* In that order main finds the ring as empty as it makes it.
LEMMA NoHarm == QueueInv /\ Ordered /\ InitIndices => in = 0
<1> SUFFICES ASSUME QueueInv, Ordered, InitIndices PROVE in = 0
  OBVIOUS
<1>1. /\ At(Clients, {"post_used", "post_full"}) = {}
      /\ At(Printers, {"used", "copy", "step_out"}) = {}
      /\ full = 0
  BY DEF InitIndices, Ordered, At, Proc
<1>2. Occupied = 0
  BY <1>1, FS_EmptySet DEF Occupied
<1>3. 0 % BUFFER_SIZE = 0 /\ 0 + 1 - 1 = 0
  BY PrintAssumption
<1> QED
  BY <1>2, <1>3 DEF QueueInv, Filled, Place, Unset, InitIndices

LEMMA StepSafe == Safe /\ [Next]_vars => Safe'
BY StepType, StepRing, StepSlots DEF Safe

\* With the printers started first the ring is a bounded FIFO queue: no task is
\* overwritten before it is taken, taken twice, or taken out of order, for any
\* number of processes, any size of the ring and any kills.
THEOREM RingIsQueue == OrderedSpec => ImplementsQueue
<1> DEFINE Inv == QueueInv /\ Ordered
           Step == Next /\ PrintersFirst
<1>1. Init => Inv /\ Queue!Init
  BY InitType, InitRing, InitSlotInv, InitQueue DEF QueueInv, Safe
<1>2. Inv /\ [Step]_vars => Inv' /\ [Queue!Next]_Queue!vars
  <2> SUFFICES ASSUME Inv, [Step]_vars
               PROVE  Inv' /\ [Queue!Next]_Queue!vars
    OBVIOUS
  <2>1. Safe /\ Unset /\ QueueInv /\ Ordered /\ [Next]_vars
    BY DEF QueueInv
  <2>2. Safe' /\ TypeOK' /\ Unset' /\ Ordered'
    BY <2>1, StepSafe, StepUnset, StepOrdered DEF Safe
  <2>3. InitIndices => in = 0
    BY <2>1, NoHarm
  <2>4. Filled' /\ [Queue!Next]_Queue!vars
    BY <2>1, <2>2, <2>3, StepQueue
  <2> QED
    BY <2>2, <2>4 DEF QueueInv
<1> QED
  BY <1>1, <1>2, PTL DEF OrderedSpec, ImplementsQueue, Queue!Spec
=============================================================================
