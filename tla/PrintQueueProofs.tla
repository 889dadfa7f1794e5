-------------------------- MODULE PrintQueueProofs --------------------------
(***************************************************************************)
(* The safety of PrintQueue for any number of clients, printers and slots, *)
(* any start order and any kills: types, exclusion from the ring (RingInv) *)
(* and the accounting of slots (SlotInv).                                  *)
(***************************************************************************)
EXTENDS PrintQueue, FiniteSetTheorems, TLAPS

-----------------------------------------------------------------------------
(* Types *)

\* Printers exist only from the fork on, and print.. labels belong to them.
LEMMA InitType == Init => TypeOK
BY PrintAssumption
   DEF Init, TypeOK, MainPC, ClientPC, PrinterPC, Slot, Proc

\* The index after the last slot is the first.
LEMMA NextSlot ==
    ASSUME NEW x \in Slot
    PROVE  (x + 1) % BUFFER_SIZE \in Slot
BY PrintAssumption DEF Slot

LEMMA MainType == TypeOK /\ Main => TypeOK'
BY PrintAssumption
   DEF TypeOK, Main, InitSlots, InitUsed, InitIndices, ForkPrinters, PrintersGone,
       sems, ring, MainPC, ClientPC, PrinterPC, Slot, Proc

LEMMA ClientType ==
    ASSUME TypeOK, NEW c \in Clients,
           ForkClient(c) \/ ClientLoop(c) \/ Strand(c) \/ Wake(c)
    PROVE  TypeOK'
<1> USE PrintAssumption DEF TypeOK, Calls, Goto, sems, ring, Proc
<1>1. CASE ForkClient(c)
  BY <1>1 DEF ForkClient, ClientPC
<1>2. CASE WaitEmpty(c)
  BY <1>2 DEF WaitEmpty, ClientPC
<1>3. CASE WaitUsed(c, "fill")
  BY <1>3 DEF WaitUsed, ClientPC
<1>4. CASE Fill(c)
  BY <1>4 DEF Fill, ClientPC
<1>5. CASE StepIn(c)
  BY <1>5, NextSlot DEF StepIn, ClientPC
<1>6. CASE PostUsed(c, "post_full")
  BY <1>6 DEF PostUsed, ClientPC
<1>7. CASE PostFull(c)
  BY <1>7 DEF PostFull, ClientPC
<1>8. CASE Strand(c) \/ Wake(c)
  BY <1>8 DEF Strand, Wake
<1> QED
  BY <1>1, <1>2, <1>3, <1>4, <1>5, <1>6, <1>7, <1>8 DEF ClientLoop

LEMMA PrinterType ==
    ASSUME TypeOK, NEW p \in Printers, PrinterLoop(p)
    PROVE  TypeOK'
<1> USE PrintAssumption DEF TypeOK, Calls, Goto, sems, ring, Proc
<1>1. CASE WaitFull(p)
  BY <1>1 DEF WaitFull, PrinterPC
<1>2. CASE WaitUsed(p, "copy")
  BY <1>2 DEF WaitUsed, PrinterPC
<1>3. CASE Copy(p)
  BY <1>3 DEF Copy, PrinterPC
<1>4. CASE StepOut(p)
  BY <1>4, NextSlot DEF StepOut, PrinterPC
<1>5. CASE PostUsed(p, "post_empty")
  BY <1>5 DEF PostUsed, PrinterPC
<1>6. CASE PostEmpty(p)
  BY <1>6 DEF PostEmpty, PrinterPC
<1>7. CASE PrintTask(p)
  BY <1>7 DEF PrintTask, PrinterPC
<1> QED
  BY <1>1, <1>2, <1>3, <1>4, <1>5, <1>6, <1>7 DEF PrinterLoop

LEMMA StepType == TypeOK /\ [Next]_vars => TypeOK'
<1> SUFFICES ASSUME TypeOK, [Next]_vars PROVE TypeOK'
  OBVIOUS
<1>1. CASE Main
  BY <1>1, MainType
<1>2. ASSUME NEW c \in Clients, ForkClient(c) \/ ClientLoop(c) \/ Strand(c) \/ Wake(c)
      PROVE  TypeOK'
  BY <1>2, ClientType
<1>3. ASSUME NEW p \in Printers, PrinterLoop(p)
      PROVE  TypeOK'
  BY <1>3, PrinterType
<1>4. ASSUME NEW p \in Proc, Kill(p)
      PROVE  TypeOK'
  BY <1>4 DEF Kill, TypeOK, sems, ring, Proc
<1>5. CASE UNCHANGED vars
  BY <1>5 DEF TypeOK, vars
<1> QED
  BY <1>1, <1>2, <1>3, <1>4, <1>5 DEF Next

\* Every variable stays in its range: the semaphores never go negative and the
\* indices never leave the ring, in whatever order the programs start.
THEOREM TypeCorrect == Spec => []TypeOK
BY InitType, StepType, PTL DEF Spec

-----------------------------------------------------------------------------
(* Exclusion from the ring *)

\* used is the right to be in the ring: it is 1 only while nobody is there, and
\* before sem_init gives it out nobody gets there.
RingInv ==
    /\ RingExclusive
    /\ used <= 1
    /\ \A p \in Proc : InRing(p) => used = 0
    /\ main \in {"init_slots", "init_used"} =>
           used = 0 /\ \A p \in Proc : ~InRing(p)

LEMMA InitRing == Init => RingInv
BY DEF Init, RingInv, RingExclusive, InRing

\* A step that leaves used alone and brings nobody new into the ring.
LEMMA SameRing ==
    ASSUME RingInv, used' = used,
           \A p \in Proc : InRing(p)' => InRing(p),
           main' \in {"init_slots", "init_used"} =>
               main \in {"init_slots", "init_used"}
    PROVE  RingInv'
BY DEF RingInv, RingExclusive

LEMMA MainRing == TypeOK /\ RingInv /\ Main => RingInv'
<1> SUFFICES ASSUME TypeOK, RingInv, Main PROVE RingInv'
  OBVIOUS
<1>1. CASE InitUsed
  BY <1>1 DEF InitUsed, RingInv, RingExclusive, InRing
<1>2. CASE ForkPrinters
  <2>1. /\ used' = used /\ main' = "wait"
        /\ \A p \in Proc : InRing(p)' => InRing(p)
    BY <1>2 DEF ForkPrinters, InRing, sems
  <2> QED
    BY <2>1, SameRing
<1>3. CASE InitSlots \/ InitIndices \/ PrintersGone
  <2>1. /\ used' = used
        /\ pc' = pc
        /\ main' \notin {"init_slots", "init_used"} \/ main = "init_slots"
    BY <1>3 DEF InitSlots, InitIndices, PrintersGone, sems
  <2> QED
    BY <2>1, SameRing DEF InRing
<1> QED
  BY <1>1, <1>2, <1>3 DEF Main

\* Both programs enter by WaitUsed and leave by PostUsed.
LEMMA EnterRing ==
    ASSUME TypeOK, RingInv, NEW p \in Proc, NEW next, WaitUsed(p, next)
    PROVE  RingInv'
<1>1. used = 1 /\ used' = 0 /\ main' = main
  BY DEF WaitUsed, RingInv, TypeOK
<1>2. \A q \in Proc : ~InRing(q)
  BY <1>1 DEF RingInv
<1>3. \A q \in Proc : q # p => ~InRing(q)'
  BY <1>2 DEF WaitUsed, Goto, TypeOK, InRing
<1>4. main \notin {"init_slots", "init_used"}
  BY <1>1 DEF RingInv
<1> QED
  BY <1>1, <1>3, <1>4 DEF RingInv, RingExclusive

LEMMA LeaveRing ==
    ASSUME TypeOK, RingInv, NEW p \in Proc,
           NEW next \in {"post_full", "post_empty"}, PostUsed(p, next)
    PROVE  RingInv'
<1>1. InRing(p)
  BY DEF PostUsed, Calls, InRing
<1>2. used' = 1 /\ main' = main /\ main \notin {"init_slots", "init_used"}
  BY <1>1 DEF PostUsed, RingInv, TypeOK
<1>3. \A q \in Proc : ~InRing(q)'
  BY <1>1 DEF PostUsed, Goto, TypeOK, InRing, RingInv, RingExclusive
<1> QED
  BY <1>2, <1>3 DEF RingInv, RingExclusive

LEMMA ClientRing ==
    ASSUME TypeOK, RingInv, NEW c \in Clients,
           ForkClient(c) \/ ClientLoop(c) \/ Strand(c) \/ Wake(c)
    PROVE  RingInv'
<1>1. CASE WaitUsed(c, "fill")
  BY <1>1, EnterRing DEF Proc
<1>2. CASE PostUsed(c, "post_full")
  BY <1>2, LeaveRing DEF Proc
<1>3. CASE Strand(c) \/ Wake(c)
  BY <1>3, SameRing DEF Strand, Wake, sems, InRing
<1>4. CASE ForkClient(c) \/ WaitEmpty(c) \/ Fill(c) \/ StepIn(c) \/ PostFull(c)
  <2>1. used' = used /\ main' = main
    BY <1>4 DEF ForkClient, WaitEmpty, Fill, StepIn, PostFull, sems
  <2>2. \A q \in Proc : InRing(q)' => InRing(q)
    BY <1>4 DEF ForkClient, WaitEmpty, Fill, StepIn, PostFull, Calls, Goto,
                TypeOK, InRing
  <2> QED
    BY <2>1, <2>2, SameRing
<1> QED
  BY <1>1, <1>2, <1>3, <1>4 DEF ClientLoop

LEMMA PrinterRing ==
    ASSUME TypeOK, RingInv, NEW p \in Printers, PrinterLoop(p)
    PROVE  RingInv'
<1>1. CASE WaitUsed(p, "copy")
  BY <1>1, EnterRing DEF Proc
<1>2. CASE PostUsed(p, "post_empty")
  BY <1>2, LeaveRing DEF Proc
<1>3. CASE WaitFull(p) \/ Copy(p) \/ StepOut(p) \/ PostEmpty(p) \/ PrintTask(p)
  <2>1. used' = used /\ main' = main
    BY <1>3 DEF WaitFull, Copy, StepOut, PostEmpty, PrintTask, sems
  <2>2. \A q \in Proc : InRing(q)' => InRing(q)
    BY <1>3 DEF WaitFull, Copy, StepOut, PostEmpty, PrintTask, Calls, Goto,
                TypeOK, InRing
  <2> QED
    BY <2>1, <2>2, SameRing
<1> QED
  BY <1>1, <1>2, <1>3 DEF PrinterLoop

LEMMA StepRing == TypeOK /\ RingInv /\ [Next]_vars => RingInv'
<1> SUFFICES ASSUME TypeOK, RingInv, [Next]_vars PROVE RingInv'
  OBVIOUS
<1>1. CASE Main
  BY <1>1, MainRing
<1>2. ASSUME NEW c \in Clients, ForkClient(c) \/ ClientLoop(c) \/ Strand(c) \/ Wake(c)
      PROVE  RingInv'
  BY <1>2, ClientRing
<1>3. ASSUME NEW p \in Printers, PrinterLoop(p)
      PROVE  RingInv'
  BY <1>3, PrinterRing
<1>4. CASE (\E p \in Proc : Kill(p)) \/ UNCHANGED vars
  <2>1. used' = used /\ main' = main /\ pc' = pc
    BY <1>4 DEF Kill, vars, sems
  <2> QED
    BY <2>1, SameRing DEF InRing
<1> QED
  BY <1>1, <1>2, <1>3, <1>4 DEF Next

\* At most one process is in the guarded section, for any number of processes,
\* any start order and any kills.
THEOREM Exclusion == Spec => []RingExclusive
<1>1. RingInv => RingExclusive
  BY DEF RingInv
<1> QED
  BY InitType, StepType, InitRing, StepRing, <1>1, PTL DEF Spec

-----------------------------------------------------------------------------
(* The accounting of slots *)

Reserved == Cardinality(At(Clients, {"used", "fill", "step_in"}))
Posting == Cardinality(At(Clients, {"post_used", "post_full"}))
Claimed == Cardinality(At(Printers, {"used", "copy", "step_out"}))
Returning == Cardinality(At(Printers, {"post_used", "post_empty"}))

\* Nobody holds a slot before there are slots, and no printer before the fork.
Early ==
    /\ main = "init_slots" =>
           /\ empty = 0 /\ full = 0
           /\ \A c \in Clients : pc[c] \in {"off", "empty"}
    /\ main \in {"init_slots", "init_used", "init_indices", "fork"} =>
           \A p \in Printers : pc[p] = "off"

SlotInv == SlotAccounting /\ Early

\* 1 if the process is where it counts, else 0.
One(b) == IF b THEN 1 ELSE 0

LEMMA AtFinite ==
    ASSUME NEW S \in {Clients, Printers}, NEW pcs
    PROVE  /\ IsFiniteSet(At(S, pcs))
           /\ Cardinality(At(S, pcs)) \in Nat
<1>1. At(S, pcs) \in SUBSET S /\ IsFiniteSet(S)
  BY PrintAssumption DEF At
<1> QED
  BY <1>1, FS_Subset, FS_CardinalityType

\* One process that moves changes one head count by at most one.
LEMMA Moved ==
    ASSUME TypeOK, NEW S \in {Clients, Printers}, NEW pcs,
           NEW p \in S, NEW at, Goto(p, at)
    PROVE  Cardinality(At(S, pcs)') =
               Cardinality(At(S, pcs)) + One(at \in pcs) - One(pc[p] \in pcs)
<1> DEFINE T == At(S, pcs)
<1>1. IsFiniteSet(T) /\ Cardinality(T) \in Nat
  BY AtFinite
<1>2. p \in T <=> pc[p] \in pcs
  BY DEF At
<1>3. CASE at \in pcs
  <2>1. At(S, pcs)' = T \cup {p}
    BY <1>3 DEF Goto, TypeOK, At, Proc
  <2>2. Cardinality(T \cup {p}) = IF p \in T THEN Cardinality(T) ELSE Cardinality(T) + 1
    BY <1>1, FS_AddElement
  <2> QED
    BY <1>1, <1>2, <1>3, <2>1, <2>2 DEF One
<1>4. CASE at \notin pcs
  <2>1. At(S, pcs)' = T \ {p}
    BY <1>4 DEF Goto, TypeOK, At, Proc
  <2>2. Cardinality(T \ {p}) = IF p \in T THEN Cardinality(T) - 1 ELSE Cardinality(T)
    BY <1>1, FS_RemoveElement
  <2> QED
    BY <1>1, <1>2, <1>4, <2>1, <2>2 DEF One
<1> QED
  BY <1>3, <1>4

LEMMA CountsType ==
    Reserved \in Nat /\ Posting \in Nat /\ Claimed \in Nat /\ Returning \in Nat
BY AtFinite DEF Reserved, Posting, Claimed, Returning

LEMMA ClientMoved ==
    ASSUME TypeOK, NEW c \in Clients, NEW at, Goto(c, at)
    PROVE  /\ Reserved' = Reserved + One(at \in {"used", "fill", "step_in"})
                                   - One(pc[c] \in {"used", "fill", "step_in"})
           /\ Posting' = Posting + One(at \in {"post_used", "post_full"})
                                 - One(pc[c] \in {"post_used", "post_full"})
           /\ Claimed' = Claimed
           /\ Returning' = Returning
<1>1. \A p \in Printers : pc'[p] = pc[p]
  BY PrintAssumption DEF Goto, TypeOK, Proc
<1>2. \A pcs : At(Printers, pcs)' = At(Printers, pcs)
  BY <1>1 DEF At
<1>3. Claimed' = Claimed /\ Returning' = Returning
  BY <1>2 DEF Claimed, Returning
<1>4. Reserved' = Reserved + One(at \in {"used", "fill", "step_in"})
                           - One(pc[c] \in {"used", "fill", "step_in"})
  BY Moved DEF Reserved
<1>5. Posting' = Posting + One(at \in {"post_used", "post_full"})
                         - One(pc[c] \in {"post_used", "post_full"})
  BY Moved DEF Posting
<1> QED
  BY <1>3, <1>4, <1>5

LEMMA PrinterMoved ==
    ASSUME TypeOK, NEW p \in Printers, NEW at, Goto(p, at)
    PROVE  /\ Claimed' = Claimed + One(at \in {"used", "copy", "step_out"})
                                 - One(pc[p] \in {"used", "copy", "step_out"})
           /\ Returning' = Returning + One(at \in {"post_used", "post_empty"})
                                     - One(pc[p] \in {"post_used", "post_empty"})
           /\ Reserved' = Reserved
           /\ Posting' = Posting
<1>1. \A c \in Clients : pc'[c] = pc[c]
  BY PrintAssumption DEF Goto, TypeOK, Proc
<1>2. \A pcs : At(Clients, pcs)' = At(Clients, pcs)
  BY <1>1 DEF At
<1>3. Reserved' = Reserved /\ Posting' = Posting
  BY <1>2 DEF Reserved, Posting
<1>4. Claimed' = Claimed + One(at \in {"used", "copy", "step_out"})
                         - One(pc[p] \in {"used", "copy", "step_out"})
  BY Moved DEF Claimed
<1>5. Returning' = Returning + One(at \in {"post_used", "post_empty"})
                             - One(pc[p] \in {"post_used", "post_empty"})
  BY Moved DEF Returning
<1> QED
  BY <1>3, <1>4, <1>5

\* What one step takes from one of these numbers it gives to another.
LEMMA Balanced ==
    ASSUME SlotInv, Early', main' = main,
           empty' + Reserved' + (full' + Posting' + Claimed') + Returning'
           = empty + Reserved + (full + Posting + Claimed) + Returning
    PROVE  SlotInv'
BY DEF SlotInv, SlotAccounting, Occupied, Reserved, Posting, Claimed, Returning

LEMMA InitSlotInv == Init => SlotInv
BY PrintAssumption DEF Init, SlotInv, SlotAccounting, Early, Proc

\* A step that moves nobody and no slot.
LEMMA SameSlots ==
    ASSUME SlotInv, empty' = empty, full' = full, pc' = pc,
           main' \in {"init_slots", "init_used", "init_indices", "fork"} =>
               main \in {"init_slots", "init_used", "init_indices", "fork"},
           main' = "init_slots" <=> main = "init_slots"
    PROVE  SlotInv'
<1>1. \A S, pcs : At(S, pcs)' = At(S, pcs)
  BY DEF At
<1>2. SlotAccounting'
  BY <1>1 DEF SlotInv, SlotAccounting, Occupied
<1> QED
  BY <1>2 DEF SlotInv, Early

LEMMA MainSlots == TypeOK /\ SlotInv /\ Main => SlotInv'
<1> SUFFICES ASSUME TypeOK, SlotInv, Main PROVE SlotInv'
  OBVIOUS
<1>1. CASE InitSlots
  <2>1. /\ At(Clients, {"used", "fill", "step_in"})' = {}
        /\ At(Clients, {"post_used", "post_full"})' = {}
    BY <1>1 DEF InitSlots, SlotInv, Early, At
  <2>2. /\ At(Printers, {"used", "copy", "step_out"})' = {}
        /\ At(Printers, {"post_used", "post_empty"})' = {}
    BY <1>1 DEF InitSlots, SlotInv, Early, At
  <2>3. Reserved' = 0 /\ Posting' = 0 /\ Claimed' = 0 /\ Returning' = 0
    BY <2>1, <2>2, FS_EmptySet DEF Reserved, Posting, Claimed, Returning
  <2>4. empty' + Reserved' + (full' + Posting' + Claimed') + Returning' = BUFFER_SIZE
    BY <1>1, <2>3, PrintAssumption DEF InitSlots
  <2>5. SlotAccounting'
    BY <2>4 DEF SlotAccounting, Occupied, Reserved, Posting, Claimed, Returning
  <2>6. Early'
    BY <1>1 DEF InitSlots, SlotInv, Early
  <2> QED
    BY <2>5, <2>6 DEF SlotInv
<1>2. CASE ForkPrinters
  <2>1. \A c \in Clients : pc'[c] = pc[c]
    BY <1>2, PrintAssumption DEF ForkPrinters, TypeOK, Proc
  <2>2. \A pcs : At(Clients, pcs)' = At(Clients, pcs)
    BY <2>1 DEF At
  <2>3. \A p \in Printers : pc[p] = "off" /\ pc'[p] = "full"
    BY <1>2 DEF ForkPrinters, SlotInv, Early, Proc
  <2>4. /\ At(Printers, {"used", "copy", "step_out"}) = {}
        /\ At(Printers, {"used", "copy", "step_out"})' = {}
        /\ At(Printers, {"post_used", "post_empty"}) = {}
        /\ At(Printers, {"post_used", "post_empty"})' = {}
    BY <2>3 DEF At
  <2>5. SlotAccounting'
    BY <1>2, <2>2, <2>4 DEF ForkPrinters, SlotInv, SlotAccounting, Occupied, sems
  <2> QED
    BY <1>2, <2>5 DEF ForkPrinters, SlotInv, Early
<1>3. CASE InitUsed \/ InitIndices \/ PrintersGone
  <2>1. empty' = empty /\ full' = full /\ pc' = pc
    BY <1>3 DEF InitUsed, InitIndices, PrintersGone, sems
  <2>2. /\ main' \in {"init_slots", "init_used", "init_indices", "fork"} =>
               main \in {"init_slots", "init_used", "init_indices", "fork"}
        /\ main' = "init_slots" <=> main = "init_slots"
    BY <1>3 DEF InitUsed, InitIndices, PrintersGone
  <2> QED
    BY <2>1, <2>2, SameSlots
<1> QED
  BY <1>1, <1>2, <1>3 DEF Main

LEMMA ClientEarly ==
    ASSUME TypeOK, SlotInv, NEW c \in Clients, ForkClient(c) \/ ClientLoop(c)
    PROVE  Early' /\ main' = main
<1>1. \A p \in Printers : pc'[p] = pc[p]
  BY PrintAssumption
     DEF ForkClient, ClientLoop, WaitEmpty, WaitUsed, Fill, StepIn, PostUsed,
         PostFull, Goto, TypeOK, Proc
<1> QED
  BY <1>1 DEF SlotInv, Early, ForkClient, ClientLoop, WaitEmpty, WaitUsed, Fill,
              StepIn, PostUsed, PostFull, Calls, Goto, TypeOK, Proc, sems

\* A slot reserved, filled and posted is counted once at every point.
LEMMA ClientSlots ==
    ASSUME TypeOK, SlotInv, NEW c \in Clients,
           ForkClient(c) \/ ClientLoop(c) \/ Strand(c) \/ Wake(c)
    PROVE  SlotInv'
<1> USE CountsType DEF One, Calls, TypeOK, sems
<1>1. CASE Strand(c) \/ Wake(c)
  BY <1>1, SameSlots DEF Strand, Wake
<1>2. CASE ForkClient(c)
  <2>1. /\ Goto(c, "empty")
        /\ pc[c] = "off"
        /\ empty' = empty /\ full' = full
    BY <1>2 DEF ForkClient
  <2>2. /\ Reserved' = Reserved /\ Posting' = Posting
        /\ Claimed' = Claimed /\ Returning' = Returning
    BY <2>1, ClientMoved
  <2>3. Early' /\ main' = main
    BY <1>2, ClientEarly DEF ClientLoop
  <2> QED
    BY <2>1, <2>2, <2>3, Balanced
<1>3. CASE WaitEmpty(c)
  <2>1. Goto(c, "used")
    BY <1>3 DEF WaitEmpty
  <2> QED
    BY <1>3, <2>1, ClientMoved, ClientEarly, Balanced DEF WaitEmpty, ClientLoop
<1>4. CASE WaitUsed(c, "fill")
  <2>1. Goto(c, "fill")
    BY <1>4 DEF WaitUsed
  <2> QED
    BY <1>4, <2>1, ClientMoved, ClientEarly, Balanced DEF WaitUsed, ClientLoop
<1>5. CASE Fill(c)
  <2>1. /\ Goto(c, "step_in")
        /\ pc[c] = "fill"
        /\ empty' = empty /\ full' = full
    BY <1>5 DEF Fill
  <2>2. /\ Reserved' = Reserved /\ Posting' = Posting
        /\ Claimed' = Claimed /\ Returning' = Returning
    BY <2>1, ClientMoved
  <2>3. Early' /\ main' = main
    BY <1>5, ClientEarly DEF ClientLoop
  <2> QED
    BY <2>1, <2>2, <2>3, Balanced
<1>6. CASE StepIn(c)
  <2>1. Goto(c, "post_used")
    BY <1>6 DEF StepIn
  <2> QED
    BY <1>6, <2>1, ClientMoved, ClientEarly, Balanced DEF StepIn, ClientLoop
<1>7. CASE PostUsed(c, "post_full")
  <2>1. Goto(c, "post_full")
    BY <1>7 DEF PostUsed
  <2> QED
    BY <1>7, <2>1, ClientMoved, ClientEarly, Balanced DEF PostUsed, ClientLoop
<1>8. CASE PostFull(c)
  <2>1. Goto(c, "empty")
    BY <1>8 DEF PostFull
  <2> QED
    BY <1>8, <2>1, ClientMoved, ClientEarly, Balanced DEF PostFull, ClientLoop
<1> QED
  BY <1>1, <1>2, <1>3, <1>4, <1>5, <1>6, <1>7, <1>8 DEF ClientLoop

LEMMA PrinterEarly ==
    ASSUME TypeOK, SlotInv, NEW p \in Printers, PrinterLoop(p)
    PROVE  Early' /\ main' = main
<1>1. pc[p] # "off"
  BY DEF PrinterLoop, WaitFull, WaitUsed, Copy, StepOut, PostUsed, PostEmpty,
         PrintTask, Calls
<1>2. main \notin {"init_slots", "init_used", "init_indices", "fork"}
  BY <1>1 DEF SlotInv, Early
<1>3. main' = main
  BY DEF PrinterLoop, WaitFull, WaitUsed, Copy, StepOut, PostUsed, PostEmpty,
         PrintTask
<1> QED
  BY <1>2, <1>3 DEF Early

\* A slot claimed, stepped over and given back is counted once at every point.
LEMMA PrinterSlots ==
    ASSUME TypeOK, SlotInv, NEW p \in Printers, PrinterLoop(p)
    PROVE  SlotInv'
<1> USE CountsType DEF One, Calls, TypeOK, sems
<1>1. CASE WaitFull(p)
  <2>1. Goto(p, "used")
    BY <1>1 DEF WaitFull
  <2> QED
    BY <1>1, <2>1, PrinterMoved, PrinterEarly, Balanced DEF WaitFull
<1>2. CASE WaitUsed(p, "copy")
  <2>1. Goto(p, "copy")
    BY <1>2 DEF WaitUsed
  <2> QED
    BY <1>2, <2>1, PrinterMoved, PrinterEarly, Balanced DEF WaitUsed
<1>3. CASE Copy(p)
  <2>1. Goto(p, "step_out")
    BY <1>3 DEF Copy
  <2> QED
    BY <1>3, <2>1, PrinterMoved, PrinterEarly, Balanced DEF Copy
<1>4. CASE StepOut(p)
  <2>1. Goto(p, "post_used")
    BY <1>4 DEF StepOut
  <2> QED
    BY <1>4, <2>1, PrinterMoved, PrinterEarly, Balanced DEF StepOut
<1>5. CASE PostUsed(p, "post_empty")
  <2>1. Goto(p, "post_empty")
    BY <1>5 DEF PostUsed
  <2> QED
    BY <1>5, <2>1, PrinterMoved, PrinterEarly, Balanced DEF PostUsed
<1>6. CASE PostEmpty(p)
  <2>1. Goto(p, "print")
    BY <1>6 DEF PostEmpty
  <2> QED
    BY <1>6, <2>1, PrinterMoved, PrinterEarly, Balanced DEF PostEmpty
<1>7. CASE PrintTask(p)
  <2>1. Goto(p, "full")
    BY <1>7 DEF PrintTask
  <2> QED
    BY <1>7, <2>1, PrinterMoved, PrinterEarly, Balanced DEF PrintTask
<1> QED
  BY <1>1, <1>2, <1>3, <1>4, <1>5, <1>6, <1>7 DEF PrinterLoop

LEMMA StepSlots == TypeOK /\ SlotInv /\ [Next]_vars => SlotInv'
<1> SUFFICES ASSUME TypeOK, SlotInv, [Next]_vars PROVE SlotInv'
  OBVIOUS
<1>1. CASE Main
  BY <1>1, MainSlots
<1>2. ASSUME NEW c \in Clients, ForkClient(c) \/ ClientLoop(c) \/ Strand(c) \/ Wake(c)
      PROVE  SlotInv'
  BY <1>2, ClientSlots
<1>3. ASSUME NEW p \in Printers, PrinterLoop(p)
      PROVE  SlotInv'
  BY <1>3, PrinterSlots
<1>4. CASE (\E p \in Proc : Kill(p)) \/ UNCHANGED vars
  BY <1>4, SameSlots DEF Kill, vars, sems
<1> QED
  BY <1>1, <1>2, <1>3, <1>4 DEF Next

\* No slot is lost or invented, for any number of processes and any size of the
\* ring, with kills and clients that start too early.
THEOREM NoSlotLost == Spec => []SlotAccounting
<1>1. SlotInv => SlotAccounting
  BY DEF SlotInv
<1> QED
  BY InitType, StepType, InitSlotInv, StepSlots, <1>1, PTL DEF Spec
=============================================================================
