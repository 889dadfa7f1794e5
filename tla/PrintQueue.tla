----------------------------- MODULE PrintQueue -----------------------------
(***************************************************************************)
(* The print server of cw8 (client.c, printers.c, buffer.h): N client      *)
(* processes and M printer processes share a ring of BUFFER_SIZE tasks in  *)
(* POSIX shared memory, guarded by three semaphores.  The program counter  *)
(* of a process names the call it is about to make.  Processes may be      *)
(* killed between any two steps, and the clients may be started before the *)
(* printers have initialised the semaphores.                               *)
(***************************************************************************)
EXTENDS Integers, FiniteSets, Sequences

CONSTANTS Clients,      \* the children forked by client.c
          Printers,     \* the children forked by printers.c
          Task,         \* the texts a client may order
          NoTask,
          BUFFER_SIZE,
          MaxKills      \* bound: how many processes may be killed

ASSUME PrintAssumption ==
    /\ BUFFER_SIZE \in Nat \ {0}
    /\ MaxKills \in Nat
    /\ IsFiniteSet(Clients)
    /\ IsFiniteSet(Printers)
    /\ Clients \cap Printers = {}
    /\ NoTask \notin Task

Proc == Clients \cup Printers
Slot == 0 .. BUFFER_SIZE - 1

VARIABLES
    main,               \* where main of printers.c is
    empty, full, used,  \* values of the semaphores buffer->empty, full, used
    tasks, in, out,     \* buffer->tasks, buffer->in, buffer->out
    pc,                 \* the next call of each child process
    task,               \* the local task[] of each printer
    dead,               \* processes killed so far; pc says where
    stranded            \* clients asleep in a sem_wait begun before sem_init

sems == <<empty, full, used>>
ring == <<tasks, in, out>>
vars == <<main, empty, full, used, tasks, in, out, pc, task, dead, stranded>>

MainPC == {"init_slots", "init_used", "init_indices", "fork", "wait", "exited"}
ClientPC == {"off", "empty", "used", "fill", "step_in", "post_used", "post_full"}
PrinterPC == {"off", "full", "used", "copy", "step_out",
              "post_used", "post_empty", "print"}

\* ftruncate leaves fresh shared memory zero-filled: semaphores 0, indices 0.
Init ==
    /\ main = "init_slots"
    /\ empty = 0 /\ full = 0 /\ used = 0
    /\ tasks = [s \in Slot |-> NoTask]
    /\ in = 0 /\ out = 0
    /\ pc = [p \in Proc |-> "off"]
    /\ task = [p \in Printers |-> NoTask]
    /\ dead = {}
    /\ stranded = {}

-----------------------------------------------------------------------------
(* main of printers.c *)

\* Mutant: one slot too many.
InitSlotsOneMore ==
    /\ main = "init_slots"
    /\ empty' = BUFFER_SIZE + 1
    /\ full' = 0
    /\ main' = "init_used"
    /\ UNCHANGED <<used, ring, pc, task, dead, stranded>>

InitSlots ==
    /\ main = "init_slots"
    /\ empty' = BUFFER_SIZE
    /\ full' = 0
    /\ main' = "init_used"
    /\ UNCHANGED <<used, ring, pc, task, dead, stranded>>

\* Mutant: used starts at 2.
InitUsedTwice ==
    /\ main = "init_used"
    /\ used' = 2
    /\ main' = "init_indices"
    /\ UNCHANGED <<empty, full, ring, pc, task, dead, stranded>>

InitUsed ==
    /\ main = "init_used"
    /\ used' = 1
    /\ main' = "init_indices"
    /\ UNCHANGED <<empty, full, ring, pc, task, dead, stranded>>

\* The two writes are one step: out is still 0.  If the first comes between the
\* read and the write of in by a client (StepIn) it is lost, as if it had come
\* before any client was there.
InitIndices ==
    /\ main = "init_indices"
    /\ in' = 0
    /\ out' = 0
    /\ main' = "fork"
    /\ UNCHANGED <<sems, tasks, pc, task, dead, stranded>>

ForkPrinters ==
    /\ main = "fork"
    /\ pc' = [p \in Proc |-> IF p \in Printers THEN "full" ELSE pc[p]]
    /\ main' = "wait"
    /\ UNCHANGED <<sems, ring, task, dead, stranded>>

\* The M calls of wait return once every printer is gone; sem_destroy leaves
\* the values alone and main returns.
PrintersGone ==
    /\ main = "wait"
    /\ Printers \subseteq dead
    /\ main' = "exited"
    /\ UNCHANGED <<sems, ring, pc, task, dead, stranded>>

-----------------------------------------------------------------------------
(* The loop of a client *)

\* Process p, alive and not asleep for good, makes the call at.
Calls(p, at) == pc[p] = at /\ p \notin dead /\ p \notin stranded

Goto(p, at) == pc' = [pc EXCEPT ![p] = at]

ForkClient(c) ==
    /\ Calls(c, "off")
    /\ Goto(c, "empty")
    /\ UNCHANGED <<main, sems, ring, task, dead, stranded>>

WaitEmpty(c) ==
    /\ Calls(c, "empty")
    /\ empty > 0
    /\ empty' = empty - 1
    /\ Goto(c, "used")
    /\ UNCHANGED <<main, full, used, ring, task, dead, stranded>>

\* sem_wait(used) is the same call in both programs; next is what p does with
\* the ring once it has it.
WaitUsed(p, next) ==
    /\ Calls(p, "used")
    /\ used > 0
    /\ used' = used - 1
    /\ Goto(p, next)
    /\ UNCHANGED <<main, empty, full, ring, task, dead, stranded>>

\* The random text is copied into the slot in.
Fill(c) ==
    /\ Calls(c, "fill")
    /\ \E t \in Task : tasks' = [tasks EXCEPT ![in] = t]
    /\ Goto(c, "step_in")
    /\ UNCHANGED <<main, sems, in, out, task, dead, stranded>>

\* Mutant: the index is not wrapped.
StepInPastEnd(c) ==
    /\ Calls(c, "step_in")
    /\ in' = in + 1
    /\ Goto(c, "post_used")
    /\ UNCHANGED <<main, sems, tasks, out, task, dead, stranded>>

StepIn(c) ==
    /\ Calls(c, "step_in")
    /\ in' = (in + 1) % BUFFER_SIZE
    /\ Goto(c, "post_used")
    /\ UNCHANGED <<main, sems, tasks, out, task, dead, stranded>>

\* Mutant: used is not posted.
PostUsedForgotten(p, next) ==
    /\ Calls(p, "post_used")
    /\ Goto(p, next)
    /\ UNCHANGED <<main, sems, ring, task, dead, stranded>>

PostUsed(p, next) ==
    /\ Calls(p, "post_used")
    /\ used' = used + 1
    /\ Goto(p, next)
    /\ UNCHANGED <<main, empty, full, ring, task, dead, stranded>>

\* The sleep that follows changes nothing: the client is back at its first wait.
PostFull(c) ==
    /\ Calls(c, "post_full")
    /\ full' = full + 1
    /\ Goto(c, "empty")
    /\ UNCHANGED <<main, empty, used, ring, task, dead, stranded>>

\* A client that reaches a semaphore before sem_init sleeps in the kernel on
\* the value 0; sem_init resets the waiter count without waking it.
Strand(c) ==
    /\ \/ Calls(c, "empty") /\ main = "init_slots"
       \/ Calls(c, "used") /\ main = "init_used"
    /\ stranded' = stranded \cup {c}
    /\ UNCHANGED <<main, sems, ring, pc, task, dead>>

\* Re-initialising a semaphore with waiters is undefined: a later sem_post may
\* or may not wake the sleeper, so nothing obliges this step to happen.
Wake(c) ==
    /\ c \in stranded
    /\ main \notin {"init_slots", "init_used"}
    /\ stranded' = stranded \ {c}
    /\ UNCHANGED <<main, sems, ring, pc, task, dead>>

-----------------------------------------------------------------------------
(* The loop of a printer *)

WaitFull(p) ==
    /\ Calls(p, "full")
    /\ full > 0
    /\ full' = full - 1
    /\ Goto(p, "used")
    /\ UNCHANGED <<main, empty, used, ring, task, dead, stranded>>

Copy(p) ==
    /\ Calls(p, "copy")
    /\ task' = [task EXCEPT ![p] = tasks[out]]
    /\ Goto(p, "step_out")
    /\ UNCHANGED <<main, sems, ring, dead, stranded>>

StepOut(p) ==
    /\ Calls(p, "step_out")
    /\ out' = (out + 1) % BUFFER_SIZE
    /\ Goto(p, "post_used")
    /\ UNCHANGED <<main, sems, tasks, in, task, dead, stranded>>

\* Mutant: the printer does not post empty.
PostEmptyForgotten(p) ==
    /\ Calls(p, "post_empty")
    /\ Goto(p, "print")
    /\ UNCHANGED <<main, sems, ring, task, dead, stranded>>

PostEmpty(p) ==
    /\ Calls(p, "post_empty")
    /\ empty' = empty + 1
    /\ Goto(p, "print")
    /\ UNCHANGED <<main, full, used, ring, task, dead, stranded>>

PrintTask(p) ==
    /\ Calls(p, "print")
    /\ Goto(p, "full")
    /\ UNCHANGED <<main, sems, ring, task, dead, stranded>>

-----------------------------------------------------------------------------
(* The environment kills a process, wherever it is. *)
Kill(p) ==
    /\ pc[p] # "off"
    /\ p \notin dead
    /\ Cardinality(dead) < MaxKills
    /\ dead' = dead \cup {p}
    /\ UNCHANGED <<main, sems, ring, pc, task, stranded>>

Main == InitSlots \/ InitUsed \/ InitIndices \/ ForkPrinters \/ PrintersGone

ClientLoop(c) ==
    \/ WaitEmpty(c) \/ WaitUsed(c, "fill") \/ Fill(c) \/ StepIn(c)
    \/ PostUsed(c, "post_full") \/ PostFull(c)

PrinterLoop(p) ==
    \/ WaitFull(p) \/ WaitUsed(p, "copy") \/ Copy(p) \/ StepOut(p)
    \/ PostUsed(p, "post_empty") \/ PostEmpty(p) \/ PrintTask(p)

Next ==
    \/ Main
    \/ \E c \in Clients : ForkClient(c) \/ ClientLoop(c) \/ Strand(c) \/ Wake(c)
    \/ \E p \in Printers : PrinterLoop(p)
    \/ \E p \in Proc : Kill(p)

Spec == Init /\ [][Next]_vars

\* The order the two programs are meant to be started in: no client is forked
\* before the printers wait for work.  Nothing in the code enforces it.
PrintersFirst ==
    main # "wait" => \A c \in Clients : pc[c] = "off" => pc'[c] = "off"

OrderedSpec == Init /\ [][Next /\ PrintersFirst]_vars

\* The kernel runs every live process; a sem_wait whose semaphore stays
\* positive returns.  Waking a stranded client, forking one and killing are
\* not promised.
FairOrderedSpec ==
    /\ OrderedSpec
    /\ WF_vars(Main)
    /\ \A c \in Clients : WF_vars(ClientLoop(c))
    /\ \A p \in Printers : WF_vars(PrinterLoop(p))

-----------------------------------------------------------------------------
(* Properties *)

\* Every variable stays in its range.
TypeOK ==
    /\ main \in MainPC
    /\ empty \in Nat /\ full \in Nat /\ used \in Nat
    /\ tasks \in [Slot -> Task \cup {NoTask}]
    /\ in \in Slot /\ out \in Slot
    /\ pc \in [Proc -> ClientPC \cup PrinterPC]
    /\ \A c \in Clients : pc[c] \in ClientPC
    /\ \A p \in Printers : pc[p] \in PrinterPC
    /\ task \in [Printers -> Task \cup {NoTask}]
    /\ dead \subseteq Proc
    /\ stranded \subseteq Clients

\* p is between sem_wait(used) and sem_post(used).
InRing(p) == pc[p] \in {"fill", "step_in", "copy", "step_out", "post_used"}

\* At most one client or printer, dead or alive, is inside the section that used
\* guards, whoever is killed.  main itself writes in and out without used: with
\* the printers started first no client is there yet, in other start orders it
\* is in nobody's way only if no client has moved in (QueueUnlessReset).
RingExclusive == \A p, q \in Proc : InRing(p) /\ InRing(q) => p = q

At(S, pcs) == {p \in S : pc[p] \in pcs}

\* Tasks in the ring: those full counts, those a client has stepped over but
\* not posted, and those a printer has claimed but not stepped over.
Occupied == full + Cardinality(At(Clients, {"post_used", "post_full"}))
                 + Cardinality(At(Printers, {"used", "copy", "step_out"}))

\* Every slot is at any time free, reserved by a client, occupied, or being
\* given back by a printer: the five semaphore operations that move a slot
\* between the programs neither lose nor invent one.  A killed process keeps
\* the slot it had, and nothing else.
SlotAccounting ==
    main # "init_slots" =>
        empty + Cardinality(At(Clients, {"used", "fill", "step_in"})) + Occupied
              + Cardinality(At(Printers, {"post_used", "post_empty"}))
        = BUFFER_SIZE

\* The ring read as a queue: the occupied slots from out on, and what each
\* printer holds between stepping out and the end of its printing.
Backlog == [k \in 1 .. Occupied |-> tasks[(out + k - 1) % BUFFER_SIZE]]
Holding == [p \in Printers |->
              IF pc[p] \in {"post_used", "post_empty", "print"}
              THEN task[p] ELSE NoTask]

Queue == INSTANCE TaskQueue
           WITH queue <- Backlog, held <- Holding, Capacity <- BUFFER_SIZE

\* With the printers started first, the ring is a bounded FIFO queue: no task
\* is overwritten before it is taken, taken twice, or taken out of order, even
\* when processes are killed anywhere in their loops.
ImplementsQueue == Queue!Spec

\* A posted task is eventually claimed and brought to a printer, unless a
\* process was killed while it held used, no printer is left, or every slot may
\* have been lost with a process: a kill outside the guarded section costs the
\* queue one slot at most and never stops it.
TasksReachPrinters ==
    full > 0 ~> \/ \E p \in Printers \ dead : pc[p] = "print"
                \/ \E p \in dead : InRing(p)
                \/ Printers \subseteq dead
                \/ Cardinality(dead) >= BUFFER_SIZE

\* While nobody is killed the clients as a whole are never shut out: from the
\* first fork on, again and again some client is about to post its task.
ClientsKeepDelivering ==
    (\E c \in Clients : pc[c] # "off")
        ~> (dead # {} \/ \E c \in Clients : pc[c] = "post_full")
=============================================================================
