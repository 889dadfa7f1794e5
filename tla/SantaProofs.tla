----------------------------- MODULE SantaProofs -----------------------------
(***************************************************************************)
(* The invariants of Santa for every number of reindeer and of deliveries. *)
(* The inductive invariant adds to them what the barrier rests on: nobody  *)
(* is counted who is not inside it (Counted), and nobody is cancelled      *)
(* while Santa still works (Lifetime).                                     *)
(***************************************************************************)
EXTENDS Santa, FiniteSetTheorems, TLAPS

Inside == At({"waiting", "woken", "gone"})

\* The count never exceeds the reindeer that have come back.
Counted == reindeers_in_queue <= Cardinality(Inside)

\* Cancelling starts after Santa's last delivery.
Lifetime ==
    /\ At({"gone"}) \subseteq cancelled
    /\ cancelled # {} => main # "join"
    /\ main # "join" => santa = "done"
    /\ santa # "done" => delivered_presents < presents_delivery

\* Santa delivers with the mutex and a full queue.
Delivering ==
    santa = "deliver" => /\ mutex = SantaThread
                         /\ reindeers_in_queue = MAX_REINDEERS_IN_QUEUE

BarrierInv == TypeOK /\ SantaSeesFullQueue /\ Counted /\ Lifetime /\ Delivering

-----------------------------------------------------------------------------

LEMMA CountType == MAX_REINDEERS_IN_QUEUE \in Nat \ {0}
BY SantaAssumption, FS_CardinalityType

\* A set of reindeer is finite and no larger than the queue.
LEMMA SetOfReindeer ==
    ASSUME NEW S \in SUBSET Reindeer
    PROVE  /\ IsFiniteSet(S)
           /\ Cardinality(S) \in Nat
           /\ Cardinality(S) <= MAX_REINDEERS_IN_QUEUE
           /\ Cardinality(S) = MAX_REINDEERS_IN_QUEUE => S = Reindeer
BY SantaAssumption, FS_Subset, FS_CardinalityType

LEMMA LargerSet ==
    ASSUME NEW S \in SUBSET Reindeer, NEW T \in SUBSET S
    PROVE  Cardinality(T) <= Cardinality(S)
BY SetOfReindeer, FS_Subset

LEMMA InitBarrier == Init => BarrierInv
<1> SUFFICES ASSUME Init PROVE BarrierInv
  OBVIOUS
<1>1. TypeOK
  BY CountType, SantaAssumption DEF Init, TypeOK, ReindeerPC, SantaPC
<1>2. SantaSeesFullQueue
  BY DEF Init, SantaSeesFullQueue
<1>3. Counted
  BY SetOfReindeer DEF Init, Counted, Inside, At
<1>4. Lifetime /\ Delivering
  BY SantaAssumption DEF Init, Lifetime, Delivering, At
<1> QED
  BY <1>1, <1>2, <1>3, <1>4 DEF BarrierInv

\* A reindeer that comes back is counted, and adds to those inside.
LEMMA ArriveBarrier ==
    ASSUME BarrierInv, NEW r \in Reindeer, Arrive(r)
    PROVE  BarrierInv'
<1> USE DEF BarrierInv, Arrive, ArriveSignalling
<1>1. Inside' = Inside \cup {r} /\ r \notin Inside
  BY DEF TypeOK, ReindeerPC, Inside, At
<1>2. Inside \in SUBSET Reindeer /\ Inside' \in SUBSET Reindeer
  BY DEF Inside, At
<1>3. Cardinality(Inside') = Cardinality(Inside) + 1
  BY <1>1, <1>2, SetOfReindeer, FS_AddElement
<1>4. Counted'
  BY <1>2, <1>3, SetOfReindeer DEF Counted, TypeOK
<1>5. reindeers_in_queue' \in 0 .. MAX_REINDEERS_IN_QUEUE
  BY <1>2, <1>4, SetOfReindeer, CountType DEF Counted, TypeOK
<1>6. TypeOK'
  BY <1>5 DEF TypeOK, ReindeerPC, SantaPC
<1>7. SantaSeesFullQueue'
  BY DEF SantaSeesFullQueue
<1>8. Lifetime'
  BY DEF Lifetime, At, TypeOK
<1>9. Delivering'
  BY SantaAssumption DEF Delivering
<1> QED
  BY <1>4, <1>6, <1>7, <1>8, <1>9

\* A reindeer leaves the barrier only when nobody is counted.
LEMMA RecheckBarrier ==
    ASSUME BarrierInv, NEW r \in Reindeer, Recheck(r)
    PROVE  BarrierInv'
<1> USE DEF BarrierInv, Recheck
<1>1. TypeOK'
  BY DEF TypeOK, ReindeerPC
<1>2. Counted'
  <2>1. Inside \in SUBSET Reindeer /\ Inside' \in SUBSET Reindeer
    BY DEF Inside, At
  <2>2. CASE reindeers_in_queue > 0
    <3>1. Inside' = Inside
      BY <2>2 DEF Inside, At, TypeOK
    <3> QED
      BY <3>1 DEF Counted
  <2>3. CASE ~(reindeers_in_queue > 0)
    BY <2>1, <2>3, SetOfReindeer, CountType DEF Counted, TypeOK
  <2> QED
    BY <2>2, <2>3
<1>3. SantaSeesFullQueue' /\ Delivering'
  BY DEF SantaSeesFullQueue, Delivering
<1>4. Lifetime'
  BY DEF Lifetime, At, TypeOK
<1> QED
  BY <1>1, <1>2, <1>3, <1>4

LEMMA SpuriousWakeBarrier ==
    ASSUME BarrierInv, NEW r \in Reindeer, SpuriousWake(r)
    PROVE  BarrierInv'
<1> USE DEF BarrierInv, SpuriousWake
<1>1. TypeOK'
  BY DEF TypeOK, ReindeerPC
<1>2. Inside' = Inside
  BY DEF Inside, At, TypeOK
<1>3. Counted'
  BY <1>2 DEF Counted
<1>4. SantaSeesFullQueue' /\ Delivering'
  BY DEF SantaSeesFullQueue, Delivering
<1>5. Lifetime'
  BY DEF Lifetime, At, TypeOK
<1> QED
  BY <1>1, <1>3, <1>4, <1>5

\* Only cancelled reindeer go, so Santa is done by then.
LEMMA CancelledBarrier ==
    ASSUME BarrierInv, NEW r \in Reindeer, Cancelled(r)
    PROVE  BarrierInv'
<1> USE DEF BarrierInv, Cancelled
<1>1. TypeOK'
  BY DEF TypeOK, ReindeerPC
<1>2. /\ Inside \in SUBSET Inside'
      /\ Inside' \in SUBSET Reindeer
  BY DEF Inside, At, TypeOK
<1>3. Counted'
  BY <1>2, SetOfReindeer, LargerSet, CountType DEF Counted, TypeOK
<1>4. SantaSeesFullQueue'
  BY DEF SantaSeesFullQueue
<1>5. Lifetime' /\ Delivering'
  BY DEF Lifetime, Delivering, At, TypeOK
<1> QED
  BY <1>1, <1>3, <1>4, <1>5

LEMMA TestBarrier ==
    ASSUME BarrierInv, Test
    PROVE  BarrierInv'
<1> USE DEF BarrierInv, Test
<1>1. TypeOK'
  BY DEF TypeOK, SantaPC
<1>2. Inside' = Inside
  BY DEF Inside, At
<1>3. Counted'
  BY <1>2 DEF Counted
<1>4. SantaSeesFullQueue' /\ Delivering'
  BY CountType DEF SantaSeesFullQueue, Delivering, TypeOK
<1>5. Lifetime'
  BY DEF Lifetime, At
<1> QED
  BY <1>1, <1>3, <1>4, <1>5

LEMMA DeliverBarrier ==
    ASSUME BarrierInv, Deliver
    PROVE  BarrierInv'
<1> USE DEF BarrierInv, Deliver
<1>1. delivered_presents' \in 0 .. presents_delivery
  BY SantaAssumption DEF TypeOK, Lifetime
<1>2. TypeOK'
  BY <1>1, CountType DEF TypeOK, ReindeerPC, SantaPC
<1>3. Counted'
  <2>1. Inside' \in SUBSET Reindeer
    BY DEF Inside, At
  <2> QED
    BY <2>1, SetOfReindeer DEF Counted
<1>4. SantaSeesFullQueue' /\ Delivering'
  BY CountType DEF SantaSeesFullQueue, Delivering
<1>5. Lifetime'
  BY DEF Lifetime, At, TypeOK
<1> QED
  BY <1>2, <1>3, <1>4, <1>5

\* The steps that leave count and reindeer alone.
LEMMA OtherBarrier ==
    ASSUME BarrierInv,
           \/ SantaSpuriousWake \/ JoinSanta \/ Exit \/ UNCHANGED vars
           \/ \E r \in Reindeer : CancelReindeer(r)
    PROVE  BarrierInv'
<1> USE DEF BarrierInv, SantaSpuriousWake, JoinSanta, Exit, CancelReindeer, vars
<1>1. TypeOK'
  BY DEF TypeOK, SantaPC
<1>2. Inside' = Inside
  BY DEF Inside, At
<1>3. Counted'
  BY <1>2 DEF Counted
<1>4. SantaSeesFullQueue' /\ Delivering'
  BY DEF SantaSeesFullQueue, Delivering
<1>5. Lifetime'
  BY DEF Lifetime, At
<1> QED
  BY <1>1, <1>3, <1>4, <1>5

LEMMA StepBarrier == BarrierInv /\ [Next]_vars => BarrierInv'
<1> SUFFICES ASSUME BarrierInv, [Next]_vars PROVE BarrierInv'
  OBVIOUS
<1>1. ASSUME NEW r \in Reindeer,
             \/ Arrive(r) \/ Recheck(r) \/ SpuriousWake(r)
             \/ Cancelled(r) \/ CancelReindeer(r)
      PROVE  BarrierInv'
  BY <1>1, ArriveBarrier, RecheckBarrier, SpuriousWakeBarrier, CancelledBarrier,
     OtherBarrier
<1>2. CASE Test
  BY <1>2, TestBarrier
<1>3. CASE Deliver
  BY <1>3, DeliverBarrier
<1>4. CASE SantaSpuriousWake \/ JoinSanta \/ Exit \/ UNCHANGED vars
  BY <1>4, OtherBarrier
<1> QED
  BY <1>1, <1>2, <1>3, <1>4 DEF Next

-----------------------------------------------------------------------------

THEOREM BarrierInvariant == Spec => []BarrierInv
BY InitBarrier, StepBarrier, PTL DEF Spec

\* Every variable stays in its range, for any number of reindeer: the count
\* never passes MAX_REINDEERS_IN_QUEUE, so the == of line 27 is met.
THEOREM TypeCorrect == Spec => []TypeOK
<1>1. BarrierInv => TypeOK
  BY DEF BarrierInv
<1> QED
  BY <1>1, BarrierInvariant, PTL

\* Santa never sleeps on a full queue: the one signal of line 29 is not lost.
THEOREM NoLostWakeup == Spec => []SantaSeesFullQueue
<1>1. BarrierInv => SantaSeesFullQueue
  BY DEF BarrierInv
<1> QED
  BY <1>1, BarrierInvariant, PTL

\* The toys are delivered only while all reindeer are in the barrier.
THEOREM BarrierComplete == Spec => []DeliversWithAllReindeer
<1>1. ASSUME BarrierInv, santa = "deliver"
      PROVE  At({"waiting", "woken"}) = Reindeer
  <2>1. At({"gone"}) = {}
    BY <1>1 DEF BarrierInv, Lifetime
  <2>2. Inside = At({"waiting", "woken"})
    BY <2>1 DEF Inside, At
  <2>3. Inside \in SUBSET Reindeer
    BY DEF Inside, At
  <2>4. MAX_REINDEERS_IN_QUEUE <= Cardinality(Inside)
    BY <1>1 DEF BarrierInv, Counted, Delivering
  <2>5. Inside = Reindeer
    BY <2>3, <2>4, SetOfReindeer, CountType
  <2> QED
    BY <2>2, <2>5
<1>2. BarrierInv => DeliversWithAllReindeer
  BY <1>1 DEF DeliversWithAllReindeer
<1> QED
  BY <1>2, BarrierInvariant, PTL

-----------------------------------------------------------------------------
(* The count and the sleepers, when a vacation outlasts a wake-up *)

Queued == At({"waiting", "woken"})

\* While anyone is counted, everyone in the queue is; else nobody sleeps.
AllCounted ==
    /\ reindeers_in_queue > 0 => Cardinality(Queued) <= reindeers_in_queue
    /\ reindeers_in_queue = 0 => At({"waiting"}) = {}

LEMMA InitAllCounted == Init => AllCounted
BY DEF Init, AllCounted, At

\* The first to arrive finds the queue empty, the next find it counted.
LEMMA ArriveAllCounted ==
    ASSUME BarrierInv, AllCounted, NEW r \in Reindeer, Arrive(r),
           VacationOutlastsWakeup
    PROVE  AllCounted'
<1> USE DEF Arrive, ArriveSignalling
<1>1. /\ Queued' = Queued \cup {r}
      /\ r \notin Queued
      /\ Queued \in SUBSET Reindeer
  BY DEF BarrierInv, TypeOK, ReindeerPC, Queued, At
<1>2. Cardinality(Queued') = Cardinality(Queued) + 1
  BY <1>1, SetOfReindeer, FS_AddElement
<1>3. CASE reindeers_in_queue = 0
  <2>1. At({"woken"}) = {} /\ At({"waiting"}) = {}
    BY <1>3 DEF VacationOutlastsWakeup, AllCounted
  <2>2. Queued = {}
    BY <2>1 DEF Queued, At
  <2> QED
    BY <1>2, <1>3, <2>2, FS_EmptySet DEF AllCounted
<1>4. CASE reindeers_in_queue > 0
  BY <1>1, <1>2, <1>4, SetOfReindeer, CountType DEF AllCounted, BarrierInv, TypeOK
<1> QED
  BY <1>3, <1>4, CountType DEF BarrierInv, TypeOK

\* Every other step lets the queue shrink or stay, or empties it altogether.
LEMMA OtherAllCounted ==
    ASSUME BarrierInv, AllCounted,
           reindeers_in_queue' = reindeers_in_queue,
           Queued' \subseteq Queued,
           reindeers_in_queue = 0 => At({"waiting"})' \subseteq At({"waiting"})
    PROVE  AllCounted'
<1>1. Queued \in SUBSET Reindeer /\ Queued' \in SUBSET Queued
  BY DEF Queued, At
<1>2. Cardinality(Queued') <= Cardinality(Queued)
  BY <1>1, LargerSet
<1>3. /\ Cardinality(Queued) \in Nat /\ Cardinality(Queued') \in Nat
      /\ reindeers_in_queue \in Nat
  BY <1>1, SetOfReindeer, CountType DEF BarrierInv, TypeOK
<1> QED
  BY <1>2, <1>3 DEF AllCounted

LEMMA StepAllCounted ==
    ASSUME BarrierInv, AllCounted, [Next /\ VacationOutlastsWakeup]_vars
    PROVE  AllCounted'
<1>1. ASSUME NEW r \in Reindeer, Arrive(r), VacationOutlastsWakeup
      PROVE  AllCounted'
  BY <1>1, ArriveAllCounted
<1>2. ASSUME NEW r \in Reindeer, Recheck(r) \/ SpuriousWake(r) \/ Cancelled(r)
      PROVE  AllCounted'
  <2>1. /\ Queued' \subseteq Queued
        /\ reindeers_in_queue' = reindeers_in_queue
    BY <1>2 DEF Recheck, SpuriousWake, Cancelled, Queued, At, BarrierInv, TypeOK
  <2>2. reindeers_in_queue = 0 => At({"waiting"})' \subseteq At({"waiting"})
    BY <1>2 DEF Recheck, SpuriousWake, Cancelled, At, BarrierInv, TypeOK
  <2> QED
    BY <2>1, <2>2, OtherAllCounted
<1>3. CASE Deliver
  BY <1>3 DEF Deliver, AllCounted, At, BarrierInv, TypeOK
<1>4. CASE \/ Test \/ SantaSpuriousWake \/ JoinSanta \/ Exit \/ UNCHANGED vars
           \/ \E r \in Reindeer : CancelReindeer(r)
  <2>1. reindeer' = reindeer /\ reindeers_in_queue' = reindeers_in_queue
    BY <1>4 DEF Test, SantaSpuriousWake, JoinSanta, Exit, CancelReindeer, vars
  <2> QED
    BY <2>1, OtherAllCounted DEF Queued, At
<1> QED
  BY <1>1, <1>2, <1>3, <1>4 DEF Next

\* What line 25 prints is then true of every sleeper: no reindeer sleeps in the
\* queue without being counted.
THEOREM SleepersAreCounted == TimelySpec => []WaitingAreCounted
<1>1. ASSUME BarrierInv, AllCounted
      PROVE  Cardinality(At({"waiting"})) <= reindeers_in_queue
  <2>1. /\ At({"waiting"}) \in SUBSET Queued
        /\ Queued \in SUBSET Reindeer
    BY DEF Queued, At
  <2>2. Cardinality(At({"waiting"})) <= Cardinality(Queued)
    BY <2>1, LargerSet
  <2>3. CASE reindeers_in_queue > 0
    <3>1. /\ Cardinality(Queued) \in Nat
          /\ Cardinality(At({"waiting"})) \in Nat
          /\ reindeers_in_queue \in Nat
      BY <1>1, <2>1, SetOfReindeer, CountType DEF BarrierInv, TypeOK
    <3> QED
      BY <1>1, <2>2, <2>3, <3>1 DEF AllCounted
  <2>4. CASE reindeers_in_queue = 0
    BY <1>1, <2>4, FS_EmptySet DEF AllCounted
  <2> QED
    BY <1>1, <2>3, <2>4, CountType DEF BarrierInv, TypeOK
<1>2. BarrierInv /\ AllCounted => WaitingAreCounted
  BY <1>1 DEF WaitingAreCounted
<1>3. /\ BarrierInv /\ AllCounted
      /\ [Next /\ VacationOutlastsWakeup]_vars
      => BarrierInv' /\ AllCounted'
  BY StepBarrier, StepAllCounted
<1> QED
  BY InitBarrier, InitAllCounted, <1>2, <1>3, PTL DEF TimelySpec
=============================================================================
