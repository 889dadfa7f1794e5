----------------------------- MODULE TaskQueue -----------------------------
(***************************************************************************)
(* What the shared print buffer of cw8 promises its users: a bounded FIFO  *)
(* queue of tasks between the clients, which put tasks in, and the         *)
(* printers, each of which holds at most one task at a time.  Nothing is   *)
(* said of semaphores, indices or slots; PrintQueue implements this.       *)
(***************************************************************************)
EXTENDS Naturals, Sequences

CONSTANTS Task,      \* the texts a client may order
          Printers,  \* the printer processes
          Capacity,  \* BUFFER_SIZE
          NoTask     \* what an idle printer holds

VARIABLES queue,     \* the tasks ordered and not yet taken, oldest first
          held       \* held[p]: the task printer p took and is printing

vars == <<queue, held>>

Init == /\ queue = <<>>
        /\ held = [p \in Printers |-> NoTask]

\* A client orders a task; the queue never grows past its capacity.
Put(t) == /\ Len(queue) < Capacity
          /\ queue' = Append(queue, t)
          /\ UNCHANGED held

\* An idle printer takes the oldest task, and no other.
Take(p) == /\ queue # <<>>
           /\ held[p] = NoTask
           /\ held' = [held EXCEPT ![p] = Head(queue)]
           /\ queue' = Tail(queue)

\* A printer has printed its task.
Finish(p) == /\ held[p] # NoTask
             /\ held' = [held EXCEPT ![p] = NoTask]
             /\ UNCHANGED queue

Next == \/ \E t \in Task : Put(t)
        \/ \E p \in Printers : Take(p) \/ Finish(p)

Spec == Init /\ [][Next]_vars
=============================================================================
