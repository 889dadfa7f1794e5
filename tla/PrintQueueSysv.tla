--------------------------- MODULE PrintQueueSysv ---------------------------
(***************************************************************************)
(* Both builds of the print server of cw8: over POSIX semaphores, as in    *)
(* PrintQueue, and over a System V semaphore set (clientv.c, printersv.c). *)
(* The loops are the same.  What differs is the start, where SETVAL wakes  *)
(* the clients that wait, and the end, where IPC_RMID takes the semaphores *)
(* from under the clients: semop fails and nobody looks at its result.     *)
(***************************************************************************)
EXTENDS PrintQueue

VARIABLE api    \* which pair of programs runs

allvars == <<vars, api>>

\* semctl(IPC_RMID) is the last thing main of printersv.c does to the set.
Removed == api = "SystemV" /\ main = "exited"

\* A new set of semaphores is zero, and so is new shared memory.
SysvInit == Init /\ api = "SystemV"

\* SETVAL three times, the indices, the printers, and wait until they are gone.
SysvMain == Main

\* What a client does after a call of sem_op.
AfterSemop == [empty |-> "used", used |-> "fill",
               post_used |-> "post_full", post_full |-> "empty"]

\* A semop on a set that has been removed, or is removed while the client
\* sleeps in it, returns -1: the client goes on as if it had succeeded.
SemopFails(c) ==
    /\ pc[c] \in DOMAIN AfterSemop
    /\ Calls(c, pc[c])
    /\ Goto(c, AfterSemop[pc[c]])
    /\ UNCHANGED <<main, sems, ring, task, dead, stranded>>

\* Mutant: a semop on the removed set blocks for ever.
SysvClientLoopStops(c) ==
    \/ ~Removed /\ ClientLoop(c)
    \/ Removed /\ Fill(c)

SysvClientLoop(c) ==
    \/ ~Removed /\ ClientLoop(c)
    \/ Removed /\ (SemopFails(c) \/ Fill(c) \/ StepIn(c))

\* main waits for the printers before it removes anything.
SysvPrinterLoop(p) == PrinterLoop(p)

\* Clients that were started with the set.  Those started after its removal
\* would make a new one, which nobody sets, and wait: they are left out.
SysvForkClient(c) == ~Removed /\ ForkClient(c)

SysvNext ==
    \/ SysvMain
    \/ \E c \in Clients : SysvForkClient(c) \/ SysvClientLoop(c)
    \/ \E p \in Printers : SysvPrinterLoop(p)
    \/ \E p \in Proc : Kill(p)

AnyInit == SysvInit \/ (Init /\ api = "POSIX")

AnyNext ==
    \/ api = "POSIX" /\ Next /\ UNCHANGED api
    \/ api = "SystemV" /\ SysvNext /\ UNCHANGED api

AnySpec == AnyInit /\ [][AnyNext]_allvars

\* As FairOrderedSpec, without its order: SETVAL wakes who waits.
FairAnySpec ==
    /\ AnySpec
    /\ WF_allvars(api = "SystemV" /\ SysvMain /\ UNCHANGED api)
    /\ \A c \in Clients :
         WF_allvars(api = "SystemV" /\ SysvClientLoop(c) /\ UNCHANGED api)
    /\ \A p \in Printers :
         WF_allvars(api = "SystemV" /\ SysvPrinterLoop(p) /\ UNCHANGED api)

-----------------------------------------------------------------------------
(* Properties *)

\* The indices agree with the number of tasks in the ring.
InStep == in = (out + Occupied) % BUFFER_SIZE

\* main sets the indices after it has given used out: a client that was early
\* may have moved in by then.
ResetHits == main = "init_indices" /\ main' # main /\ in # 0

\* In both builds, in any start order and whoever is killed, nothing but that
\* late reset ever breaks the queue while the semaphores exist.  Until it does
\* every step is one of the FIFO queue of tasks or leaves it as it is; once it
\* has, the indices never agree with the count again.
QueueUnlessReset ==
    [][~Removed' =>
           IF ResetHits THEN ~InStep'
           ELSE /\ InStep' = InStep
                /\ InStep => [Queue!Next]_(Queue!vars)]_allvars

\* As long as the semaphores exist no slot is lost or invented, the reset or
\* not: the semaphores know nothing of the indices.
AccountedWhileGuarded == ~Removed => SlotAccounting

\* With System V semaphores the order in which the two programs are started
\* does no harm to the clients: those that wait for semaphores not yet set are
\* woken by SETVAL, and while nobody is killed some client delivers again and
\* again.  (With POSIX semaphores a client may sleep on, see Strand.)
ClientsSurviveStart ==
    (api = "SystemV" /\ \E c \in Clients : pc[c] # "off")
        ~> (dead # {} \/ \E c \in Clients : pc[c] = "post_full")

\* Clients that outlive the printers and their semaphores are never blocked
\* again, whatever state the semaphores were left in: what they order is lost.
OrphansGoOn ==
    \A c \in Clients :
        Removed /\ pc[c] = "empty" /\ c \notin dead
            ~> pc[c] = "post_full" \/ c \in dead
=============================================================================
