------------------------------- MODULE Santa -------------------------------
(***************************************************************************)
(* The Santa Claus monitor of cw10/zad10.c: reindeer threads come back     *)
(* from vacation, count themselves in and wait on a condition variable;    *)
(* the last one wakes Santa, who delivers presents, resets the count and   *)
(* broadcasts.  main joins Santa, cancels the reindeer and exits.  The     *)
(* mutex is held across a step only by Santa while he delivers, and by a   *)
(* reindeer cancelled inside pthread_cond_wait, which never gives it back. *)
(***************************************************************************)
EXTENDS Integers, FiniteSets

CONSTANTS Reindeer,                \* the REINDEERS_NUM threads
          SantaThread,
          Nobody,                  \* the mutex is free
          MAX_REINDEERS_IN_QUEUE,
          presents_delivery

ASSUME SantaAssumption ==
    /\ IsFiniteSet(Reindeer)
    /\ MAX_REINDEERS_IN_QUEUE = Cardinality(Reindeer)
    /\ MAX_REINDEERS_IN_QUEUE > 0
    /\ presents_delivery \in Nat \ {0}
    /\ SantaThread \notin Reindeer
    /\ Nobody \notin Reindeer \cup {SantaThread}

VARIABLES
    reindeers_in_queue,
    mutex,               \* the owner of mutex, or Nobody
    reindeer,            \* where each reindeer thread is
    santa,               \* where Santa is
    delivered_presents,
    cancelled,           \* reindeer main has called pthread_cancel on
    main                 \* where main is

vars == <<reindeers_in_queue, mutex, reindeer, santa, delivered_presents,
          cancelled, main>>

\* "waiting": asleep on the condition variable; "woken": to lock mutex again.
ReindeerPC == {"vacation", "waiting", "woken", "gone"}
SantaPC == {"lock", "waiting", "woken", "deliver", "done"}

Init ==
    /\ reindeers_in_queue = 0
    /\ mutex = Nobody
    /\ reindeer = [r \in Reindeer |-> "vacation"]
    /\ santa = "lock"
    /\ delivered_presents = 0
    /\ cancelled = {}
    /\ main = "join"

-----------------------------------------------------------------------------
(* reindeer_mechanic *)

\* Back from vacation: lock, count, wake Santa if n are there, and wait, since
\* the count is now positive.  Nobody can run in between, the mutex is held.
ArriveSignalling(r, n) ==
    /\ main # "exited"
    /\ reindeer[r] = "vacation"
    /\ mutex = Nobody
    /\ reindeers_in_queue' = reindeers_in_queue + 1
    /\ reindeer' = [reindeer EXCEPT ![r] = "waiting"]
    /\ santa' = IF reindeers_in_queue' = n /\ santa = "waiting"
                THEN "woken" ELSE santa
    /\ UNCHANGED <<mutex, delivered_presents, cancelled, main>>

\* Mutant: the signal comes one reindeer too early.
ArriveSignalsEarly(r) == ArriveSignalling(r, MAX_REINDEERS_IN_QUEUE - 1)

\* Mutant: the signal would come one reindeer too late.
ArriveSignalsLate(r) == ArriveSignalling(r, MAX_REINDEERS_IN_QUEUE + 1)

Arrive(r) == ArriveSignalling(r, MAX_REINDEERS_IN_QUEUE)

\* Mutant: the while around pthread_cond_wait is an if.
RecheckOnce(r) ==
    /\ main # "exited"
    /\ reindeer[r] = "woken"
    /\ mutex = Nobody
    /\ reindeer' = [reindeer EXCEPT ![r] = "vacation"]
    /\ UNCHANGED <<reindeers_in_queue, mutex, santa, delivered_presents,
                   cancelled, main>>

\* pthread_cond_wait returns with the mutex: wait again while anyone is
\* counted, else unlock and go on vacation.
Recheck(r) ==
    /\ main # "exited"
    /\ reindeer[r] = "woken"
    /\ mutex = Nobody
    /\ reindeer' = [reindeer EXCEPT ![r] = IF reindeers_in_queue > 0
                                           THEN "waiting" ELSE "vacation"]
    /\ UNCHANGED <<reindeers_in_queue, mutex, santa, delivered_presents,
                   cancelled, main>>

\* A condition variable may wake its waiters without being signalled.
SpuriousWake(r) ==
    /\ main # "exited"
    /\ reindeer[r] = "waiting"
    /\ reindeer' = [reindeer EXCEPT ![r] = "woken"]
    /\ UNCHANGED <<reindeers_in_queue, mutex, santa, delivered_presents,
                   cancelled, main>>

\* sleep and pthread_cond_wait are cancellation points; a thread cancelled in
\* pthread_cond_wait locks the mutex first, and ends without unlocking it.
Cancelled(r) ==
    /\ main # "exited"
    /\ r \in cancelled
    /\ \/ /\ reindeer[r] = "vacation"
          /\ UNCHANGED mutex
       \/ /\ reindeer[r] \in {"waiting", "woken"}
          /\ mutex = Nobody
          /\ mutex' = r
    /\ reindeer' = [reindeer EXCEPT ![r] = "gone"]
    /\ UNCHANGED <<reindeers_in_queue, santa, delivered_presents, cancelled, main>>

-----------------------------------------------------------------------------
(* santa_mechanic *)

\* Mutant: Santa's while is an if, he delivers once he is woken.
TestOnce ==
    /\ main # "exited"
    /\ santa \in {"lock", "woken"}
    /\ mutex = Nobody
    /\ \/ /\ santa = "lock" /\ reindeers_in_queue < MAX_REINDEERS_IN_QUEUE
          /\ santa' = "waiting"
          /\ UNCHANGED mutex
       \/ /\ santa = "woken" \/ reindeers_in_queue >= MAX_REINDEERS_IN_QUEUE
          /\ santa' = "deliver"
          /\ mutex' = SantaThread
    /\ UNCHANGED <<reindeers_in_queue, reindeer, delivered_presents, cancelled, main>>

\* Lock the mutex, at the top of the loop or inside pthread_cond_wait, and
\* test the queue: wait while it is short, else deliver with the mutex held.
Test ==
    /\ main # "exited"
    /\ santa \in {"lock", "woken"}
    /\ mutex = Nobody
    /\ \/ /\ reindeers_in_queue < MAX_REINDEERS_IN_QUEUE
          /\ santa' = "waiting"
          /\ UNCHANGED mutex
       \/ /\ reindeers_in_queue >= MAX_REINDEERS_IN_QUEUE
          /\ santa' = "deliver"
          /\ mutex' = SantaThread
    /\ UNCHANGED <<reindeers_in_queue, reindeer, delivered_presents, cancelled, main>>

SantaSpuriousWake ==
    /\ main # "exited"
    /\ santa = "waiting"
    /\ santa' = "woken"
    /\ UNCHANGED <<reindeers_in_queue, mutex, reindeer, delivered_presents,
                   cancelled, main>>

\* Mutant: nobody is woken.
DeliverSilently ==
    /\ main # "exited"
    /\ santa = "deliver"
    /\ delivered_presents' = delivered_presents + 1
    /\ reindeers_in_queue' = 0
    /\ mutex' = Nobody
    /\ santa' = IF delivered_presents' < presents_delivery THEN "lock" ELSE "done"
    /\ UNCHANGED <<reindeer, cancelled, main>>

\* The toys are delivered: count them, empty the queue, wake every reindeer.
Deliver ==
    /\ main # "exited"
    /\ santa = "deliver"
    /\ delivered_presents' = delivered_presents + 1
    /\ reindeers_in_queue' = 0
    /\ reindeer' = [r \in Reindeer |-> IF reindeer[r] = "waiting"
                                       THEN "woken" ELSE reindeer[r]]
    /\ mutex' = Nobody
    /\ santa' = IF delivered_presents' < presents_delivery THEN "lock" ELSE "done"
    /\ UNCHANGED <<cancelled, main>>

-----------------------------------------------------------------------------
(* main *)

JoinSanta ==
    /\ main = "join"
    /\ santa = "done"
    /\ main' = "cancel"
    /\ UNCHANGED <<reindeers_in_queue, mutex, reindeer, santa, delivered_presents,
                   cancelled>>

CancelReindeer(r) ==
    /\ main = "cancel"
    /\ r \notin cancelled
    /\ cancelled' = cancelled \cup {r}
    /\ UNCHANGED <<reindeers_in_queue, mutex, reindeer, santa, delivered_presents,
                   main>>

\* The reindeer are not joined: main destroys the mutex and the condition
\* variables and returns, which ends every thread left.
Exit ==
    /\ main = "cancel"
    /\ cancelled = Reindeer
    /\ main' = "exited"
    /\ UNCHANGED <<reindeers_in_queue, mutex, reindeer, santa, delivered_presents,
                   cancelled>>

Next ==
    \/ \E r \in Reindeer : Arrive(r) \/ Recheck(r) \/ SpuriousWake(r)
                           \/ Cancelled(r) \/ CancelReindeer(r)
    \/ Test \/ SantaSpuriousWake \/ Deliver \/ JoinSanta \/ Exit

Spec == Init /\ [][Next]_vars

At(pcs) == {r \in Reindeer : reindeer[r] \in pcs}

\* A vacation lasts at least five seconds, longer than a thread woken by the
\* broadcast takes to lock the mutex: the first reindeer to queue up again
\* finds no wake-up of the last delivery still pending.
VacationOutlastsWakeup ==
    reindeers_in_queue = 0 /\ reindeers_in_queue' > 0 => At({"woken"}) = {}

TimelySpec == Init /\ [][Next /\ VacationOutlastsWakeup]_vars

\* Every thread that can go on does; spurious wake-ups are never promised.
FairTimelySpec ==
    /\ TimelySpec
    /\ \A r \in Reindeer : /\ WF_vars(Arrive(r) /\ VacationOutlastsWakeup)
                           /\ WF_vars(Recheck(r))
                           /\ WF_vars(CancelReindeer(r))
    /\ WF_vars(Test \/ Deliver)
    /\ WF_vars(JoinSanta \/ Exit)

-----------------------------------------------------------------------------
(* Properties *)

\* Every variable stays in its range; the count never passes the number of
\* reindeer, so the test for equality with the maximum is not stepped over.
TypeOK ==
    /\ reindeers_in_queue \in 0 .. MAX_REINDEERS_IN_QUEUE
    /\ mutex \in Reindeer \cup {SantaThread, Nobody}
    /\ reindeer \in [Reindeer -> ReindeerPC]
    /\ santa \in SantaPC
    /\ delivered_presents \in 0 .. presents_delivery
    /\ cancelled \subseteq Reindeer
    /\ main \in {"join", "cancel", "exited"}

\* No lost wake-up: Santa never sleeps on his condition variable while the
\* queue is full, although only the reindeer that fills it signals, and once.
SantaSeesFullQueue ==
    reindeers_in_queue = MAX_REINDEERS_IN_QUEUE => santa # "waiting"

\* Santa delivers only while every reindeer is inside the barrier, whatever
\* spurious wake-ups happened and however the rounds overlapped.
DeliversWithAllReindeer ==
    santa = "deliver" => At({"waiting", "woken"}) = Reindeer

\* What a reindeer prints on arrival, "Renifer: czeka %d reniferow na
\* Mikolaja" (that many reindeer are waiting for Santa): no reindeer sleeps in
\* the queue without being counted in reindeers_in_queue.
WaitingAreCounted ==
    Cardinality(At({"waiting"})) <= reindeers_in_queue

\* All presents are delivered and main ends, even though it cancels threads
\* that may take the mutex with them.
Completion == <>(main = "exited" /\ delivered_presents = presents_delivery)
=============================================================================
