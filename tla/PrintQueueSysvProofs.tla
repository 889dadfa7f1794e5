------------------------ MODULE PrintQueueSysvProofs ------------------------
(***************************************************************************)
(* What PrintQueueProofs shows of the POSIX build holds in both builds of  *)
(* the print server for as long as the semaphores exist.  A step of the    *)
(* System V programs that starts before their removal is a step of         *)
(* PrintQueue, and a removed set is never there again.  As for the queue,  *)
(* it is enough to follow how far in is from where the tasks end: every    *)
(* step keeps that distance, but for main's reset of the indices.          *)
(***************************************************************************)
EXTENDS PrintQueueSysv, PrintQueueRefines

\* The invariants of PrintQueue.  Nothing is claimed once semop fails: the
\* clients then go on whatever state the semaphores and the ring were left in.
GuardInv == ~Removed => Safe

LEMMA InitGuard == AnyInit => GuardInv
BY InitType, InitRing, InitSlotInv DEF AnyInit, SysvInit, GuardInv, Safe

\* api tells which programs were compiled; main of printersv.c never leaves
\* its last line.
LEMMA RemovedForGood == Removed /\ [AnyNext]_allvars => Removed'
<1> SUFFICES ASSUME Removed, [AnyNext]_allvars PROVE Removed'
  OBVIOUS
<1>1. api = "SystemV" /\ main = "exited"
  BY DEF Removed
<1>2. CASE UNCHANGED allvars
  BY <1>1, <1>2 DEF allvars, vars, Removed
<1>3. CASE SysvNext /\ UNCHANGED api
  <2>1. ~SysvMain
    BY <1>1 DEF SysvMain, Main, InitSlots, InitUsed, InitIndices, ForkPrinters,
                PrintersGone
  <2>2. ASSUME NEW c \in Clients, SysvForkClient(c) \/ SysvClientLoop(c)
        PROVE  main' = main
    BY <2>2 DEF SysvForkClient, ForkClient, SysvClientLoop, SemopFails, ClientLoop,
                WaitEmpty, WaitUsed, Fill, StepIn, PostUsed, PostFull
  <2>3. ASSUME NEW p \in Printers, SysvPrinterLoop(p)
        PROVE  main' = main
    BY <2>3 DEF SysvPrinterLoop, PrinterLoop, WaitFull, WaitUsed, Copy, StepOut,
                PostUsed, PostEmpty, PrintTask
  <2>4. ASSUME NEW p \in Proc, Kill(p)
        PROVE  main' = main
    BY <2>4 DEF Kill
  <2>5. main' = main
    BY <1>3, <2>1, <2>2, <2>3, <2>4 DEF SysvNext
  <2> QED
    BY <1>1, <1>3, <2>5 DEF Removed
<1> QED
  BY <1>1, <1>2, <1>3 DEF AnyNext

\* Before the removal the System V programs do nothing the POSIX ones do not.
LEMMA GuardedStep == ~Removed /\ [AnyNext]_allvars => [Next]_vars
<1> SUFFICES ASSUME ~Removed, [AnyNext]_allvars PROVE [Next]_vars
  OBVIOUS
<1>1. CASE UNCHANGED allvars
  BY <1>1 DEF allvars
<1>2. CASE Next
  BY <1>2
<1>3. CASE SysvNext
  BY <1>3 DEF SysvNext, SysvMain, SysvForkClient, SysvClientLoop, SysvPrinterLoop,
              Next
<1> QED
  BY <1>1, <1>2, <1>3 DEF AnyNext

LEMMA StepGuard == GuardInv /\ [AnyNext]_allvars => GuardInv'
<1> SUFFICES ASSUME GuardInv, [AnyNext]_allvars PROVE GuardInv'
  OBVIOUS
<1>1. CASE Removed
  BY <1>1, RemovedForGood DEF GuardInv
<1>2. CASE ~Removed
  <2>1. Safe /\ [Next]_vars
    BY <1>2, GuardedStep DEF GuardInv
  <2> QED
    BY <2>1, StepSafe DEF GuardInv
<1> QED
  BY <1>1, <1>2

LEMMA GuardHolds == AnySpec => []GuardInv
BY InitGuard, StepGuard, PTL DEF AnySpec

\* In both builds, for any number of processes, any size of the ring, any start
\* order and any kills, no slot is lost or invented until semctl removes the set.
THEOREM NoSlotLostWhileGuarded == AnySpec => []AccountedWhileGuarded
<1>1. GuardInv => AccountedWhileGuarded
  BY DEF GuardInv, Safe, SlotInv, AccountedWhileGuarded
<1> QED
  BY GuardHolds, <1>1, PTL

-----------------------------------------------------------------------------
(* What the reset of the indices does to the queue *)

\* The ring is a queue as long as the indices agree with the count, and they do
\* until main sets them.
Setting == {"init_slots", "init_used", "init_indices"}
AgreeInv == /\ Safe /\ Unset
            /\ InStep => Filled
            /\ main \in Setting => InStep

LEMMA InStepIs == Safe => (InStep <=> in = Place(Occupied + 1))
<1> SUFFICES ASSUME Safe PROVE InStep <=> in = Place(Occupied + 1)
  OBVIOUS
<1>1. out + (Occupied + 1) - 1 = out + Occupied
  BY OccupiedBounds DEF Safe, TypeOK, Slot
<1> QED
  BY <1>1 DEF InStep, Place

\* Two numbers that agree when each is stepped once around the ring agreed before.
LEMMA StepBack ==
    ASSUME NEW x \in Slot, NEW y \in Slot,
           (x + 1) % BUFFER_SIZE = (y + 1) % BUFFER_SIZE
    PROVE  x = y
BY PrintAssumption DEF Slot

LEMMA AroundTwice ==
    ASSUME NEW x \in Slot, NEW n \in 0 .. BUFFER_SIZE
    PROVE  /\ (((x + n) % BUFFER_SIZE) + 1) % BUFFER_SIZE = (x + (n + 1)) % BUFFER_SIZE
           /\ (x + n) % BUFFER_SIZE \in Slot
BY PrintAssumption DEF Slot

LEMMA AroundOnce ==
    ASSUME NEW x \in Slot, NEW n \in 1 .. BUFFER_SIZE
    PROVE  (((x + 1) % BUFFER_SIZE) + (n - 1)) % BUFFER_SIZE = (x + n) % BUFFER_SIZE
BY PrintAssumption DEF Slot

\* A client that steps in adds one to the count and to in, and nothing else of
\* what it does touches either.
LEMMA ClientDistance ==
    ASSUME Safe, TypeOK', NEW c \in Clients, ForkClient(c) \/ ClientLoop(c)
    PROVE  \/ UNCHANGED <<in, out>> /\ Occupied' = Occupied
           \/ /\ Occupied' = Occupied + 1 /\ Occupied < BUFFER_SIZE
              /\ out' = out /\ in' = (in + 1) % BUFFER_SIZE
<1>1. TypeOK /\ full \in Nat /\ full' \in Nat /\ Occupied \in Nat
  BY OccupiedBounds DEF Safe, TypeOK
<1>2. ASSUME NEW at, Goto(c, at)
      PROVE  Occupied' = Occupied + (full' - full)
                         + One(at \in {"post_used", "post_full"})
                         - One(pc[c] \in {"post_used", "post_full"})
  BY <1>1, <1>2, ClientOccupied
<1>3. CASE ForkClient(c) \/ WaitEmpty(c) \/ WaitUsed(c, "fill") \/ Fill(c)
  <2>1. PICK at \in {"empty", "used", "fill", "step_in"} : Goto(c, at)
    BY <1>3 DEF ForkClient, WaitEmpty, WaitUsed, Fill
  <2>2. /\ full' = full /\ UNCHANGED <<in, out>>
        /\ pc[c] \in {"off", "empty", "used", "fill"}
    BY <1>3 DEF ForkClient, WaitEmpty, WaitUsed, Fill, Calls, sems, ring
  <2> QED
    BY <1>1, <1>2, <2>1, <2>2 DEF One
<1>4. CASE PostUsed(c, "post_full")
  <2>1. Goto(c, "post_full") /\ pc[c] = "post_used" /\ full' = full
        /\ UNCHANGED <<in, out>>
    BY <1>4 DEF PostUsed, Calls, ring
  <2> QED
    BY <1>1, <1>2, <2>1 DEF One
<1>5. CASE PostFull(c)
  <2>1. Goto(c, "empty") /\ pc[c] = "post_full" /\ full' = full + 1
        /\ UNCHANGED <<in, out>>
    BY <1>5 DEF PostFull, Calls, ring
  <2> QED
    BY <1>1, <1>2, <2>1 DEF One
<1>6. CASE StepIn(c)
  <2>1. Goto(c, "post_used") /\ pc[c] = "step_in" /\ full' = full
        /\ out' = out /\ in' = (in + 1) % BUFFER_SIZE
    BY <1>6 DEF StepIn, Calls, sems
  <2>2. Occupied' = Occupied + 1
    BY <1>1, <1>2, <2>1 DEF One
  <2>3. Occupied < BUFFER_SIZE
    BY <2>1, OccupiedBounds DEF Safe
  <2> QED
    BY <2>1, <2>2, <2>3
<1> QED
  BY <1>3, <1>4, <1>5, <1>6 DEF ClientLoop

LEMMA PrinterDistance ==
    ASSUME Safe, TypeOK', NEW p \in Printers, PrinterLoop(p)
    PROVE  \/ UNCHANGED <<in, out>> /\ Occupied' = Occupied
           \/ /\ Occupied' = Occupied - 1 /\ Occupied > 0
              /\ in' = in /\ out' = (out + 1) % BUFFER_SIZE
<1>1. TypeOK /\ full \in Nat /\ full' \in Nat /\ Occupied \in Nat
  BY OccupiedBounds DEF Safe, TypeOK
<1>2. ASSUME NEW at, Goto(p, at)
      PROVE  Occupied' = Occupied + (full' - full)
                         + One(at \in {"used", "copy", "step_out"})
                         - One(pc[p] \in {"used", "copy", "step_out"})
  BY <1>1, <1>2, PrinterOccupied
<1>3. CASE WaitFull(p)
  <2>1. Goto(p, "used") /\ pc[p] = "full" /\ full' = full - 1 /\ UNCHANGED <<in, out>>
    BY <1>3 DEF WaitFull, Calls, ring
  <2> QED
    BY <1>1, <1>2, <2>1 DEF One
<1>4. CASE WaitUsed(p, "copy") \/ Copy(p)
  <2>1. PICK at \in {"copy", "step_out"} : Goto(p, at)
    BY <1>4 DEF WaitUsed, Copy
  <2>2. full' = full /\ UNCHANGED <<in, out>> /\ pc[p] \in {"used", "copy"}
    BY <1>4 DEF WaitUsed, Copy, Calls, sems, ring
  <2> QED
    BY <1>1, <1>2, <2>1, <2>2 DEF One
<1>5. CASE StepOut(p)
  <2>1. Goto(p, "post_used") /\ pc[p] = "step_out" /\ full' = full
        /\ in' = in /\ out' = (out + 1) % BUFFER_SIZE
    BY <1>5 DEF StepOut, Calls, sems
  <2>2. Occupied' = Occupied - 1
    BY <1>1, <1>2, <2>1 DEF One
  <2>3. Occupied > 0
    BY <2>1, OccupiedBounds DEF Safe
  <2> QED
    BY <2>1, <2>2, <2>3
<1>6. CASE PostUsed(p, "post_empty") \/ PostEmpty(p) \/ PrintTask(p)
  <2>1. PICK at \in {"post_empty", "print", "full"} : Goto(p, at)
    BY <1>6 DEF PostUsed, PostEmpty, PrintTask
  <2>2. /\ full' = full /\ UNCHANGED <<in, out>>
        /\ pc[p] \in {"post_used", "post_empty", "print"}
    BY <1>6 DEF PostUsed, PostEmpty, PrintTask, Calls, sems, ring
  <2> QED
    BY <1>1, <1>2, <2>1, <2>2 DEF One
<1> QED
  BY <1>3, <1>4, <1>5, <1>6 DEF PrinterLoop

\* in stays where it is against the end of the tasks, in the next step as before.
LEMMA KeepsDistance ==
    ASSUME Safe, Safe', [Next]_vars, ~InitIndices
    PROVE  InStep' <=> InStep
<1>1. /\ in \in Slot /\ out \in Slot /\ in' \in Slot /\ out' \in Slot /\ TypeOK'
      /\ Occupied \in 0 .. BUFFER_SIZE /\ BUFFER_SIZE \in Nat \ {0}
  BY OccupiedBounds, PrintAssumption DEF Safe, TypeOK
<1>2. ASSUME UNCHANGED <<in, out>>, Occupied' = Occupied
      PROVE  InStep' <=> InStep
  BY <1>2 DEF InStep
<1>3. CASE Main
  <2>1. UNCHANGED <<in, out, full>>
    BY <1>3 DEF Main, InitSlots, InitUsed, ForkPrinters, PrintersGone, sems, ring,
                Safe, SlotInv, Early
  <2>2. \A c \in Clients : pc'[c] = pc[c]
    BY <1>3, PrintAssumption
       DEF Main, InitSlots, InitUsed, ForkPrinters, PrintersGone, Proc
  <2>3. \A p \in Printers : pc'[p] = pc[p] \/ (pc[p] = "off" /\ pc'[p] = "full")
    BY <1>3 DEF Main, InitSlots, InitUsed, ForkPrinters, PrintersGone, Proc, Safe,
                SlotInv, Early
  <2>4. /\ At(Clients, {"post_used", "post_full"})'
               = At(Clients, {"post_used", "post_full"})
        /\ At(Printers, {"used", "copy", "step_out"})'
               = At(Printers, {"used", "copy", "step_out"})
    BY <2>2, <2>3 DEF At
  <2> QED
    BY <1>2, <2>1, <2>4 DEF Occupied
<1>4. ASSUME NEW c \in Clients, ForkClient(c) \/ ClientLoop(c)
      PROVE  InStep' <=> InStep
  <2>1. CASE UNCHANGED <<in, out>> /\ Occupied' = Occupied
    BY <1>2, <2>1
  <2>2. CASE /\ Occupied' = Occupied + 1 /\ Occupied < BUFFER_SIZE
             /\ out' = out /\ in' = (in + 1) % BUFFER_SIZE
    <3> DEFINE tail == (out + Occupied) % BUFFER_SIZE
    <3>1. (tail + 1) % BUFFER_SIZE = (out + (Occupied + 1)) % BUFFER_SIZE /\ tail \in Slot
      BY <1>1, AroundTwice
    <3>2. (in + 1) % BUFFER_SIZE = (tail + 1) % BUFFER_SIZE => in = tail
      BY <1>1, <3>1, StepBack
    <3>3. InStep' <=> (in + 1) % BUFFER_SIZE = (tail + 1) % BUFFER_SIZE
      BY <2>2, <3>1 DEF InStep
    <3> QED
      BY <3>2, <3>3 DEF InStep
  <2> QED
    BY <1>1, <1>4, <2>1, <2>2, ClientDistance
<1>5. ASSUME NEW p \in Printers, PrinterLoop(p)
      PROVE  InStep' <=> InStep
  <2>1. CASE UNCHANGED <<in, out>> /\ Occupied' = Occupied
    BY <1>2, <2>1
  <2>2. CASE /\ Occupied' = Occupied - 1 /\ Occupied > 0
             /\ in' = in /\ out' = (out + 1) % BUFFER_SIZE
    <3>1. Occupied \in 1 .. BUFFER_SIZE
      BY <1>1, <2>2
    <3>2. (((out + 1) % BUFFER_SIZE) + (Occupied - 1)) % BUFFER_SIZE
              = (out + Occupied) % BUFFER_SIZE
      BY <1>1, <3>1, AroundOnce
    <3> QED
      BY <2>2, <3>2 DEF InStep
  <2> QED
    BY <1>1, <1>5, <2>1, <2>2, PrinterDistance
<1>6. CASE \/ \E c \in Clients : Strand(c) \/ Wake(c)
           \/ \E p \in Proc : Kill(p)
           \/ UNCHANGED vars
  <2>1. UNCHANGED <<in, out, full, pc>>
    BY <1>6 DEF Strand, Wake, Kill, vars, sems, ring
  <2> QED
    BY <1>2, <2>1 DEF Occupied, At
<1> QED
  BY <1>3, <1>4, <1>5, <1>6 DEF Next

\* A reset that finds a client moved in leaves in behind the tasks.
LEMMA ResetBreaks ==
    ASSUME Safe, InStep, Unset, InitIndices, in # 0
    PROVE  ~InStep'
<1>1. out = 0 /\ in' = 0 /\ out' = 0 /\ Occupied \in 0 .. BUFFER_SIZE
  BY OccupiedBounds DEF InitIndices, Unset, Safe
<1>2. Occupied' = Occupied
  BY DEF InitIndices, sems, Occupied, At
<1>3. in = (0 + Occupied) % BUFFER_SIZE
  BY <1>1 DEF InStep
<1> QED
  BY <1>1, <1>2, <1>3 DEF InStep

\* What a step before the removal does to the queue.
LEMMA AgreeStep ==
    ASSUME AgreeInv, [Next]_vars
    PROVE  /\ AgreeInv'
           /\ IF ResetHits THEN ~InStep'
              ELSE /\ InStep' <=> InStep
                   /\ InStep => [Queue!Next]_(Queue!vars)
<1>1. Safe /\ Unset /\ Safe' /\ Unset' /\ TypeOK'
  BY StepSafe, StepUnset DEF AgreeInv, Safe
<1>2. InStep => QueueInv
  BY <1>1 DEF AgreeInv, QueueInv
<1>3. main' \in Setting => main \in Setting /\ ~InitIndices
  <2>1. CASE Main
    BY <2>1 DEF Main, InitSlots, InitUsed, InitIndices, ForkPrinters, PrintersGone,
                Setting
  <2>2. CASE main' = main
    BY <2>2 DEF InitIndices, Setting
  <2>3. Main \/ main' = main
    BY DEF Next, ClientLoop, PrinterLoop, ForkClient, Strand, Wake, WaitEmpty,
           WaitUsed, Fill, StepIn, PostUsed, PostFull, WaitFull, Copy, StepOut,
           PostEmpty, PrintTask, Kill, vars
  <2> QED
    BY <2>1, <2>2, <2>3
<1>4. CASE InitIndices /\ in # 0
  <2>1. InStep /\ ResetHits
    BY <1>4 DEF AgreeInv, InitIndices, Setting, ResetHits
  <2>2. ~InStep'
    BY <1>1, <1>4, <2>1, ResetBreaks
  <2> QED
    BY <1>1, <1>3, <1>4, <2>1, <2>2 DEF AgreeInv
<1>5. CASE ~(InitIndices /\ in # 0)
  <2>1. ~ResetHits
    BY <1>5 DEF ResetHits, Next, Main, InitSlots, InitUsed, ForkPrinters,
           PrintersGone, ClientLoop, PrinterLoop, ForkClient, Strand, Wake,
           WaitEmpty, WaitUsed, Fill, StepIn, PostUsed, PostFull, WaitFull, Copy,
           StepOut, PostEmpty, PrintTask, Kill, vars
  <2>2. InStep => Filled' /\ [Queue!Next]_(Queue!vars)
    BY <1>1, <1>2, <1>5, StepQueue
  <2>3. Filled' => InStep'
    <3>1. (Safe => (InStep <=> in = Place(Occupied + 1)))'
      BY InStepIs, PTL
    <3> QED
      BY <1>1, <3>1 DEF Filled
  <2>4. InStep' <=> InStep
    <3>1. CASE InitIndices
      BY <2>2, <2>3, <3>1 DEF AgreeInv, InitIndices, Setting
    <3>2. CASE ~InitIndices
      BY <1>1, <3>2, KeepsDistance
    <3> QED
      BY <3>1, <3>2
  <2> QED
    BY <1>1, <1>3, <2>1, <2>2, <2>4 DEF AgreeInv
<1> QED
  BY <1>4, <1>5

LEMMA InitAgree == AnyInit => (~Removed => AgreeInv)
<1> SUFFICES ASSUME AnyInit PROVE AgreeInv
  OBVIOUS
<1>1. Init
  BY DEF AnyInit, SysvInit
<1>2. Safe /\ Unset /\ Filled
  BY <1>1, InitType, InitRing, InitSlotInv, InitQueue DEF Safe
<1>3. InStep
  BY <1>2, InStepIs DEF Filled
<1> QED
  BY <1>2, <1>3 DEF AgreeInv

\* In both builds, for any number of processes, any size of the ring, any start
\* order and any kills: until the set is removed the ring is a FIFO queue, which
\* only the reset of the indices under an early client breaks, and for good.
THEOREM QueueUntilReset == AnySpec => QueueUnlessReset
<1> DEFINE Inv == ~Removed => AgreeInv
           Right == ~Removed' =>
               IF ResetHits THEN ~InStep'
               ELSE /\ InStep' = InStep
                    /\ InStep => [Queue!Next]_(Queue!vars)
<1>1. AnyInit => Inv
  BY InitAgree
<1>2. Inv /\ [AnyNext]_allvars => Inv' /\ [Right]_allvars
  <2> SUFFICES ASSUME Inv, [AnyNext]_allvars PROVE Inv' /\ Right
    OBVIOUS
  <2>1. CASE Removed
    BY <2>1, RemovedForGood
  <2>2. CASE ~Removed
    <3>1. AgreeInv /\ [Next]_vars
      BY <2>2, GuardedStep
    <3>2. /\ AgreeInv'
          /\ IF ResetHits THEN ~InStep'
             ELSE /\ InStep' <=> InStep
                  /\ InStep => [Queue!Next]_(Queue!vars)
      BY <3>1, AgreeStep
    <3>3. InStep \in BOOLEAN /\ InStep' \in BOOLEAN
      BY DEF InStep
    <3> QED
      BY <3>2, <3>3
  <2> QED
    BY <2>1, <2>2
<1> QED
  BY <1>1, <1>2, PTL DEF AnySpec, QueueUnlessReset
=============================================================================
