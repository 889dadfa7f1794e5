# Verification of Systemy-Operacyjne-AGH

The repository holds eleven sets of operating-systems programs in C (`cw1` to
`cw11`). Several are concurrent systems whose correctness rests on an order of
steps that no test controls; the rest are small programs with an error path or a
boundary of their own. This project models them in TLA+, checks them with TLC on
small instances, and proves with TLAPS, for every number of processes and every
size, all the safety properties it checks.

## 1. Inventory

| part | state it keeps | operations | what is hard |
|---|---|---|---|
| `cw8` print queue (`client.c`, `printers.c`, `buffer.h`) | shared memory: ring of `BUFFER_SIZE` tasks, `in`, `out`, semaphores `empty`, `full`, `used` | a client puts a task in the ring, a printer takes one and prints it | start order of two programs, processes killed anywhere |
| `cw10` Santa (`zad10.c`) | one mutex, two condition variables, `reindeers_in_queue` | a reindeer queues up and waits, Santa delivers when all are there, `main` cancels the reindeer | lost and spurious wake-ups, a barrier that is reused, cancellation inside `pthread_cond_wait` |
| `cw11` TCP chat (`server.c`, `client.c`) | array `clients[]`, `num_clients`, `clients_mutex`, one `recv_mutex` per slot, sockets | register a client, 2ALL, 2ONE, LIST, STOP, the check every ten seconds | one handler and several checks per slot, descriptor and slot reuse, run-together chunks, dead clients |
| `cw7` chat over POSIX queues (`server.c`, `client.c`, `messeage.h`) | the server's array `clients`, one bounded queue per process, `flag` on both sides, a pipe in each client | INIT/IDENTIFIER, MESSAGE, STOP, Ctrl+C | blocking sends, EINTR, interruption before the identifier is known, clients that die |
| `cw9` game of life (`life.c`, `grid.c`) | two grids, three pointers to them, `n` threads | compute a generation, draw, signal the threads, swap | swap while threads compute, lost signals, cells without a thread |
| `cw5` catcher (`zadanie2`) | `workType`, `requestsNumber` | serve a request carried by SIGUSR1, answer its sender | handler against main loop, signals that do not queue |
| `cw3` reversed copy (`zad1.c`), directory flipper (`flipper.c`) | position in the file, `bytesLeft`; the directory stream | copy a file backwards by bytes and by blocks; flip every `.txt` | last block, end of the loop, files that do not open |
| `cw2` Collatz library | none | steps to 1, or -1 | overflow, end of the budget |
| `cw6` integrals (`zadanie1`, `zadanie2`) | pipes, FIFOs, `temp` | compute parts in children and add them up; ask over FIFOs | dead children, opens that wait for each other |
| `cw8`, System V variant (`clientv.c`, `printersv.c`) | as the POSIX one, semaphores in a set | as the POSIX one | a set removed under its users |
| `cw7`, System V variant | as the POSIX one | as the POSIX one | its first message is refused |
| `cw1`, `cw4`, `cw5/zadanie1` | none shared | print, fork, raise | nothing |

The parts are separate programs; no part calls another. Inside a part:

- `cw8`: clients and printers share nothing but the memory segment. `empty`
  carries free slots from printers to clients, `full` carries tasks the other
  way, `used` excludes them from the ring.
- `cw10`: reindeer signal Santa through `condition_for_santa`, Santa answers
  through `condition_for_reindeers`; `main` joins Santa only.
- `cw11`: `main` registers, one handler per registration reads and acts,
  `alive_checker` starts a `check_alive` thread per active slot. A slot's
  handler and its checks read the same socket; either may free the slot.
- `cw7`: a client's parent sends to the server, its child reads what comes back
  and hands the identifier to the parent over the pipe.
- `cw9`: `main` and the threads share the two grids and the pointers; `main`
  wakes threads by SIGUSR1 and allows them half a second, which nothing checks.
- `cw5`: senders reach the catcher by a queued value on a signal that is kept
  once, and end by the signal that answers.
- `cw6`: parent and children by one pipe each; `sender.c` and `integral.c` by
  two FIFOs whose opens are rendezvous.

What makes each part correct:

- `cw8`: the ring is a bounded FIFO queue; no slot is lost or invented; two
  processes are never in the ring; tasks get printed; a kill costs what the
  killed process held and no more.
- `cw10`: Santa never sleeps on a full queue; he delivers only with every
  reindeer in the barrier; who waits is counted; the program ends.
- `cw11`: `num_clients` never exceeds the registrations; a slot refers to its
  own connection; its socket has one reader at a time; texts carry their
  sender's name; the slots of clients that are gone are freed.
- `cw7`: a client owns the slot it names; only the owner gives a slot up; all
  clients see one conversation; who wants to leave can.
- `cw9`: from a drawing at which all threads wait, the next one is the next
  generation; a thread that waits is always woken again.
- `cw5`: no request is served twice; one that finds the catcher asleep is
  served; senders are answered.
- `cw3`: both copies are reversals; of a directory it is known what was flipped.
- `cw2`: the answer is the least number of steps. `cw6`: a dead child costs its
  own part and no other; asker and integrator do not wait for each other for
  ever.
- System V `cw8`: while the semaphores exist, what holds for the POSIX variant;
  clients that come first are not lost; clients that stay last are not blocked.
  In both builds only `main`'s setting of the indices may break the queue.

The hazards of every part, with the properties that cover them, are listed by
source line under `hazards` in `PROJECT.json`.

## 2. Modules

| module | what it is | checked through | proved in |
|---|---|---|---|
| `TaskQueue` | abstract bounded queue: `Put`, `Take`, `Finish` | `PrintQueue` | `PrintQueueRefines` |
| `PrintQueue` | `cw8`, POSIX | `MCPrintQueue` | `PrintQueueProofs` |
| `Santa` | `cw10` | `MCSanta` | `SantaProofs` |
| `ChatServer` | `cw11` | `MCChatServer` | `ChatServerProofs` |
| `MqChat` | `cw7`, POSIX | `MCMqChat` | `MqChatProofs` |
| `PrintQueueSysv` | `cw8`, both builds, over `PrintQueue` | `MCPrintQueueSysv` | `PrintQueueSysvProofs` |
| `Life` | `cw9` | `MCLife` | `LifeProofs` |
| `Catcher` | `cw5/zadanie2` | `MCExercises` | `ExercisesProofs` |
| `ReverseCopy`, `Flipper` | `cw3` | `MCExercises` | `ExercisesProofs` |
| `Collatz` | `cw2` | `MCExercises` | `ExercisesProofs` |
| `Integrals` | `cw6/zadanie1` | `MCExercises` | `ExercisesProofs` |
| `Fifo` | `cw6/zadanie2` | `MCExercises` | |

An `MC...` module only names values for the constants of the module it extends;
`MCExercises` also puts six small programs side by side, one of which runs in a
behaviour, and names their properties. Definitions that begin with the comment
"Mutant:" are faults put in beside a definition, one per property; no
specification uses them. Substituting one for its original must break the
property, which shows that the property depends on that piece of code.

### PrintQueue

`pc[p]` is the next call of client or printer `p`; every semaphore operation and
every access to shared memory is a step: `WaitEmpty`, `WaitUsed`, `Fill` (build
the task and `strcpy`), `StepIn` (`in = (in + 1) % BUFFER_SIZE`), `PostUsed`,
`PostFull` for a client, `WaitFull`, `WaitUsed`, `Copy`, `StepOut`, `PostUsed`,
`PostEmpty`, `PrintTask` for a printer. `main` of `printers.c` is `InitSlots`,
`InitUsed`, `InitIndices`, `ForkPrinters`, `PrintersGone`; `InitSlots` sets
`empty` and `full` together, since no client can tell the two apart.

Memory starts zeroed (`ftruncate` of a new object), so a client forked early
waits on a semaphore of value 0. When `sem_init` then sets it to `BUFFER_SIZE`
the client stays asleep on the futex although the value is positive: `Strand`
and `Wake` are that sleep and its end. `Kill` stops a process for good wherever
it is.

`TaskQueue` is what the pair of programs promises: a queue of at most
`BUFFER_SIZE` tasks and what each printer is printing. The refinement mapping
reads the queue off the ring: the slots from `out` on that are `Occupied`, and
the task a printer holds from `StepOut` to the end of its printing. `StepIn`
implements `Put`, `StepOut` implements `Take`, `PrintTask` implements `Finish`,
every other step stutters.

### Santa

The mutex is held across a step only by Santa while he delivers (he sleeps
holding it) and by a cancelled reindeer, so `Arrive`, `Recheck` and `Test` are
whole critical sections. `Arrive` is lines 23 to 33: count, signal if the count
has reached the maximum, wait. A thread in `pthread_cond_wait` is `"waiting"`
until a signal, a broadcast or a spurious wake-up makes it `"woken"`, and then
competes for the mutex. `Cancelled` follows POSIX: a thread cancelled in
`pthread_cond_wait` locks the mutex again before it ends, and there is no
cleanup handler to unlock it. POSIX also lets `printf` be a cancellation point;
a reindeer cancelled there would die with the mutex just the same, after Santa
is done, and is left out.

### ChatServer

State of the server: `active`, `sock`, `name` and `lock` are the fields of
`clients[s]`, `fds` the descriptor table (`Accept` takes the lowest free one),
`main`, `i`, `new_fd` the local variables of `main`, and `hpc`, `hidx`, `hname`,
`hbuf` those of a handler; `check[s][k]` is the k-th check of slot `s`. State of
the network: `up` and `down`, the chunks on their way, and `reset`, whether a
dead client has answered a segment with RST, after which `send` may raise
SIGPIPE (`killed`). A `recv` takes one chunk or several that ran together, and
only the command at the start is looked at, as in the code.

What is deliberately kept: the handler's argument is the address of `main`'s `i`
(`HStart` reads `i` when it runs, not when it was created), `RecvName` writes
over the old name without terminating it, the socket is closed before and
outside the section that clears the slot, and the last decrement of
`num_clients` may be a second one for the same slot. `setsockopt` of the
one-second timeout is folded into `Read`/`Empty`: a `recv` may come back
empty-handed at any time nothing is there.

Three places block with something held. A text is sent under `clients_mutex`
(`HAct` takes it, `HSend` gives it back, and is disabled while a receiver's
buffer is full), a list is written under it and sent after it is given back
(`"reply"`), and a check sends ALIVE with `recv_mutex` held (`CLock`, `CSend`).
The sends of one text are one step. A handler that finds `i` one past the array
(`HStart`) reads what lies behind `clients`: it sets a timeout and reads on a
descriptor of any number, which may swallow a chunk, finds no active slot there
and ends, unless the access kills the server.

`owner`, `label` and `struck` are history variables: who was last given the
slot, the name a connection was registered by, and the connections a thread
closed that was at work on a slot of somebody else.

`SlotOwnsDescriptor` delimits the damage of the close that comes before the slot
is cleared. Between the two, `accept` may give the descriptor to a newer
connection, so that a second thread at work on the old slot, which closes it
once more, closes the newer one's socket; its slot then refers to a closed
descriptor, or to the next connection that gets it. The property says that this
is the only way for a registered slot to lose its connection other than by the
thread about to clear it.

### MqChat

`srv` is where the server is; `Dispatch` is the `switch`, `Register`, `Relay`
and `Deregister` its cases. `Relay` sends to one client at a time, because each
`mq_send` may block. A client is `pc[c]` (the parent: `Connect`, `SendInit`,
`Fork`, `ReadId`, `Test`, `Type`, `SendStop`, `Unlink`) and `child[c]`
(`ChildTest`, `ChildReceive`). `Interrupt` clears `flag` in both. `server.c`
defines `_XOPEN_SOURCE`, which makes `signal` the System V one: `mq_receive` and
`mq_send` fail with EINTR, and neither result is looked at in the loop;
`ServerInterrupt` is every place that can happen. The same `signal` resets the
handler, so a second Ctrl+C kills the server: `ServerKilled`. `client.c` does
not define it, so its calls are restarted.

`log`, `got` and `joined` are history: the messages the server took, those each
child printed, and where in `log` a client joined.

Left out: `mq_open` failing for lack of resources, end of file on the client's
standard input (the loop at `client.c:130` would send empty words for ever) and
a client that finds no server yet. A search in a full array runs on behind it.
The model has one word there that holds -1 (`Past`), which is given away like a
slot: its client is told that identifier, may leave by it, and gets no messages,
since the relay stays within the array. Whose word it was is not followed, and
with that word taken too the search ends with the memory and the server. A STOP
with an identifier that was never set may name a slot, that word, or some other
place (`Unset`), where nothing happens or the server fails.

### PrintQueueSysv

Adds a variable `api`, which of the two builds runs, to `PrintQueue`. The System
V loops make the same calls in the same order, so `ClientLoop`, `PrinterLoop`
and `Main` are those of `PrintQueue`. `SETVAL` wakes sleepers, so there is no
`Strand`.

`main` sets the indices after it has given `used` out, so a client that came
early may have moved `in` before it is set back to 0 (`ResetHits`).
`QueueUnlessReset` says exactly what that does: until then every step of either
build is one of `TaskQueue` or a stutter, and `in` agrees with the number of
tasks (`InStep`); after it they never agree again. That the reset breaks the
queue is what the code does, so it is part of the property and not excluded.

When the last printer is gone `main` removes the set (`Removed`); from then on,
and for a client asleep in it, `semop` returns an error that `sem_op` drops:
`SemopFails` goes on as if it had succeeded. What the ring then holds is not
guarded by anything, and no property speaks of it but that clients go on
(`OrphansGoOn`). Clients started after the removal would create a new set, all
zero, and wait in it; they are left out (`SysvForkClient`).

### Life

A thread computes a cell in two steps, `Compute` (read the neighbours, one by
one in the code, and look up where to write) and `Store`. As built (no
optimisation) the address on the left of the assignment is evaluated before
`is_alive` is called, and the pointers are read through memory every time, so a
thread that is late stores into the grid that was the background when it began
the cell (`dst`). Reads of several neighbours are one step: a difference shows
only while another thread writes the same grid, in rounds `Generations` makes no
claim about. `SwapForeground` and `SwapBackground` are the two halves of the
swap between which both pointers name one grid. `drawn` is a history variable:
the grid drawn last, as long as `main` has met every thread in `pause` at the
drawing, at its signal and at the swap; otherwise it is `NotDrawn`.
`Generations` therefore says that a round that goes as intended is right
whatever went before it. `Covered` are the cells some thread has: `30 * 30 / n`
is cut off before `ceil` sees it, and the cells beyond `n * cells_per_thread`
are never computed.

### The small programs

- `Catcher`: `pending` holds at most one sender, as SIGUSR1 does. `Handle`
  interrupts `main` anywhere; `info->si_status` lies over the queued value, so
  it is the sender's request. `rushed` and `dropped` are history: a request came
  while the catcher was not asleep, a signal met one that was pending. Before
  `Install` the signal kills the catcher, whose PID has been printed already.
- `ReverseCopy`: a file is a sequence, `position` its indicator. The loop over
  the blocks does not end, as in the code, and so the streams are never closed;
  the property speaks of what was written to the stream.
- `Flipper`: the walk over a directory, `Received` what becomes of one file. It
  takes the loop of `reverse_copy` as reversal, which `ReverseCopy` checks.
- `Collatz`: integers of `Bits` bits that wrap, as those of an unoptimised build
  do; `exact` remembers that none has.
- `Integrals`: the parent's `temp` keeps the number of the last turn when a read
  returns nothing. It is not initialised: `Garbage`. A part of the integral is
  the number of the child that computed it.
- `Fifo`: an open of a FIFO is a step of both ends at once (`OpenInput`,
  `OpenOutput`); a FIFO that is missing makes the integrator's open fail, which
  it does not notice. The loop over the steps may not end if the limits are
  reversed (`Compute`): then the steps are negative, and rounding may put the
  first one beyond the end of a part.

## 3. Runs

| run | instance | states | question |
|---|---|---|---|
| `print_ordered` | 2 clients, 2 printers, ring of 2, 2 kills | 245 thousand | refinement of `TaskQueue`, types, `RingExclusive`, `SlotAccounting`, `TasksReachPrinters`, `ClientsKeepDelivering` |
| `print_any_order` | both builds, 2 clients, 2 printers, ring of 2, 1 task, 2 kills, any start order | 295 thousand | `QueueUnlessReset`, `AccountedWhileGuarded`, `ClientsSurviveStart`, `OrphansGoOn` |
| `santa` | 4 reindeer, 2 deliveries, vacations outlast wake-ups | 6 thousand | types, `SantaSeesFullQueue`, `DeliversWithAllReindeer`, `WaitingAreCounted`, `Completion` |
| `santa_reuse` | the same, without that assumption | - | `WaitingAreCounted` is violated |
| `chat_open` | 2 clients, 2 slots, 1 check at a time | 781 thousand | types, `CountNeverAhead`, `SlotOwnsDescriptor` |
| `chat_calm` | 2 clients, 1 slot, 2 checks at a time | 311 thousand | `OneReader`, `SlotsAreFreed` |
| `chat_texts` | 3 clients, 2 slots, names of two lengths, 1 line | 1.4 million | `Authentic` |
| `mq_open` | 2 clients, 2 slots, queues of 2, 1 line, 1 crash | 658 thousand | types, `LeavingEnds` |
| `mq_patient` | 2 clients, 1 slot, queues of 2, 3 lines, 1 crash | 2.1 million | `OwnSlot`, `SameConversation`, `LeavesItself` |
| `mq_early` | 2 clients, 2 slots, nothing typed | - | `LeavesItself` is violated |
| `life` | 3 by 3 cells, 1 or 2 threads | 799 thousand | types, `Generations`, `EveryThreadGoesOn` |
| `exercises` | 3 senders; files of up to 5 bytes, blocks of 2; integers of 7 bits, up to 17 steps; 3 children; 3 directory entries | 143 thousand | `ServedOnce`, `SleeperServes`, `SendersAreAnswered`; `CopiedSoFar`, `SecondCopyComplete`; `Convergence`; `OwnPartOnly`, `ParentEnds`; `FlippedUpTo`; `Answered` |

Why the bounds are enough to be interesting:

- a ring of two slots is full, empty and wraps; two clients can overtake each
  other, and so can two printers; two kills can take both slots;
- four reindeer and two deliveries let reindeer of one round meet those of the
  next (the counterexample of `santa_reuse` needs two rounds);
- in `chat_open` two slots let one be closed while a newer connection takes its
  descriptor and another slot, and a socket holds two chunks, so that they run
  together; the handler that finds `i` past the array needs a third connection
  to a full server, which no run has and the theorems include;
- in `chat_calm` one slot for two connections forces slot and descriptor reuse;
  two checks at a time are a check that is late by ten seconds and the next one;
  two slots and three clients under names of different length let a slot be
  handed on while another client talks;
- queues of two messages are filled by an identifier and one text, so every
  blocking send blocks in some state; three lines give an order to preserve; two
  clients and one slot fill the array, so that one is given the word behind it,
  while two slots (`mq_open`) let one relay pass two; that several clients get
  one order is proved for every number of slots (`OneConversation`);
- nine cells divide among one thread and not among two, so one cell has no
  thread, and a round of births and a round of deaths are among the patterns;
- three senders are one being served, one pending and one whose signal is
  dropped; five bytes are two blocks and a short one, four are whole blocks,
  none is the empty file; seven bits hold orbits of sixteen steps and overflow
  others; a dead child stands first, between and last among three.

`MaxKills`, `MaxLines`, `MaxCrashes`, `Rounds`, `SocketCap`, `MaxThreads`,
`MaxLength` and `MaxIter` are the bounds of the models; every one is a constant,
marked as a bound where it is declared. `CHECK_DEADLOCK FALSE` is set for every
run but `life`, whose program has no end, because the other systems may stop:
all printers killed, `main` returned, the users silent.

### Assumptions that are part of a specification

Five specifications restrict the environment. None of the restrictions is
enforced by the code; each is what the code relies on, and what happens without
it is recorded.

- `OrderedSpec` (`PrintQueue`): no client is forked before the printers wait for
  work. Without it a client can step over slots that `in = 0` then takes back,
  and the queue is not FIFO: `QueueUnlessReset` in `print_any_order` says what
  is left. Clients and printers exclude each other and slots are accounted for
  regardless; `main` sets the indices without asking for `used`.
- `TimelySpec` (`Santa`): the first reindeer of a round queues up only when no
  wake-up of the last delivery is pending; a vacation lasts five seconds or
  more. Without it: `santa_reuse`.
- `CalmSpec` (`ChatServer`): a client is admitted only when the threads of
  clients that left are through. This leaves out four windows of the code: the
  close before the slot is cleared (`server.c:116`), the handler that reads
  `main`'s `i` late (`server.c:71`), a `recv_mutex` set up anew under its holder
  (`server.c:216`) and a handler that finds out late that its slot was freed
  (`server.c:85`). With them `OneReader` and `Authentic` fail, and so does
  `SlotsAreFreed`: a handler that reads `i` while `main` waits for the name of
  the next client takes that name off the new socket, finds the slot not yet
  active and ends, and `main` waits for ever with `clients_mutex` held.
  `TypeOK`, `CountNeverAhead` and `SlotOwnsDescriptor` do without it.
- `PatientSpec` (`MqChat`): nobody presses Ctrl+C in a client that does not know
  its identifier yet. Without it: `mq_early`.
- `FairAnySpec` (`PrintQueueSysv`): clients of the System V build are started
  while its semaphores exist. Later ones wait in a set of their own.

`LeavingEnds` and `Generations` carry their assumptions in the formula: that
nobody presses Ctrl+C too early, and that every thread was waiting when `main`
came by.

### Fairness

The kernel runs every process and thread that can run, which is weak fairness of
each process's own steps. Strong fairness is assumed in two places only: for a
check that waits for `recv_mutex`, which the handler gives back and takes again
every second, and for the parent process of a client of `MqChat`, whose
`mq_send` to the server's queue is enabled and disabled by other senders (Linux
serves senders blocked on a queue in order of arrival); none of its other steps
can be disabled by others. Pending signals are delivered (`Catcher`). The
children of `Integrals` end one way or the other, which presumes a step their
loop makes progress with; both programs of `Fifo` run once they are started. In
`PrintQueueSysv` only the System V build is fair, since its liveness is what the
run asks about; POSIX fairness is in `print_ordered`. How long `main` of `Life`
sleeps is not related to how far the threads get.

No fairness is assumed of users, of kills and crashes, of spurious wake-ups, of
the wake-up of a stranded client, or of the start of `integral.c`.

## 4. Findings

- `santa_reuse`: `zad10.c:25` prints how many reindeer wait for Santa. A
  reindeer woken by a delivery that locks the mutex only after another one has
  queued up for the next round goes back to sleep without being counted. The
  count then stays positive until a delivery, and the delivery needs that
  reindeer: unless it was the last one the program never ends.
- `mq_early`: `server.c:95` prints that a client has left. A client interrupted
  before it read its identifier sends STOP with an uninitialised one, and the
  server frees the slot of another client.

## 5. Proofs

Every safety property the runs check, invariants and action properties alike,
and the refinement of `TaskQueue` are theorems, for every value of the constants
under the named assumption of their module. The assumptions are
`SantaAssumption`, `PrintAssumption`, `ChatAssumption`, `MqAssumption`,
`LifeAssumption` and `ExercisesAssumption`: sets of processes are finite where
something is counted, sizes are positive, names of nothing are no names of
something. TLC evaluates each on its run. The bounds of the models are constants
too, so a theorem holds for each of their values.

Each proof first finds an inductive invariant, which was checked by TLC on the
instances of section 3 before it was proved, and has one step per action.

- `SantaProofs`. `BarrierInv` joins to the types and `SantaSeesFullQueue`: the
  count never exceeds the reindeer that have come back (`Counted`), nobody is
  cancelled before Santa's last delivery (`Lifetime`), and Santa delivers with
  the mutex and a full queue (`Delivering`). `Counted` is what keeps the count
  from stepping over its maximum, since the reindeer that arrives was not
  inside; that in turn is what makes the last arrival signal (`NoLostWakeup`),
  and a full count then means that everybody is inside (`BarrierComplete`).
  `SleepersAreCounted` is about `TimelySpec`. `WaitingAreCounted` is not
  inductive: a sleeper may be woken and wait again. `AllCounted` also counts the
  woken ones, and says that nobody sleeps while the count is zero.
- `PrintQueueProofs`. `TypeCorrect` comes first and is used by the others.
  `Exclusion` needs `RingInv`: `used` is at most 1, it is 0 while somebody is in
  the ring, and nobody is in the ring before `sem_init` gives it out.
  `NoSlotLost` needs that nobody holds a slot before there are slots and no
  printer runs before the fork (`Early`), and lemmas on how one process that
  moves changes the number of processes at a place.
- `PrintQueueRefines`. `RingIsQueue`: under `OrderedSpec` every behaviour of
  `PrintQueue` is one of `TaskQueue`. `QueueInv` adds to the invariants above
  that `in` stands `Occupied` slots after `out`, that the slots between hold
  orders, and that a printer has copied the slot it steps over (`Filled`).
  Exclusion makes `StepIn` append and `StepOut` remove: nobody else moves an
  index meanwhile. Slot accounting keeps the slot a client fills outside the
  queue.
- `PrintQueueSysvProofs`. As long as the semaphores exist a step of the System V
  build is a step of `PrintQueue`, and they are never there again once removed:
  so `NoSlotLost` carries over, with `Removed` as its only exception.
  `QueueUntilReset` follows the distance of `in` from the end of the tasks:
  every step of a client, a printer or `main` keeps it (`KeepsDistance`), but
  for the reset that finds `in` moved (`ResetBreaks`). While it is 0 the steps
  are those of the queue, by the lemmas of `PrintQueueRefines`, which need no
  order of start for that; once it is not, it never is again.
- `ChatServerProofs`. Without any assumption on the environment: `NeverAhead`,
  `TypeCorrect` and `SocketsKeepOwners`. For the first the strengthening is that
  the slot `main` is about to activate is not active (`Claim`), which lasts
  because other threads only ever clear slots, and because `main` holds
  `clients_mutex` from the test to the assignment. For the second it is that
  every open descriptor belongs to a connection of its own (`Arrivals`), so that
  a descriptor is free for the next one. For the third, `SlotInv`: a connection
  is registered once (`Guests`), and the one `main` is registering has the new
  descriptor unless it was struck already (`Owners`). A step of a handler or a
  check moves on, closes a socket or clears a slot (`HandlerEffect`,
  `CheckerEffect`), and each of the three is treated once. Under `CalmSpec`:
  `OwnInv`. A slot is `Busy` while it is registered or a thread works on it. The
  socket of a busy slot is its owner's or closed, no two busy slots have one
  socket (`Sockets`), the connection that comes in has a socket no busy slot has
  (`Incoming`), a thread works on the slot its connection owns (`Serving`), and
  a connection is registered once (`Guests`). With it, `ReadersTakeTurns`,
  because the slot whose mutex `main` sets up anew is not busy, so nobody reads
  there (`Readers`); and `TextsBearTheirSender`, because slot and handler keep
  the name a connection was registered by (`NamesKept`) and every text sent
  bears it (`TextsSigned`).
- `MqChatProofs`. `TypeCorrect` needs no assumption. The word behind the array
  is an entry like the others in all of this but the conversation. Under
  `PatientSpec`, `SlotsInv`: an identifier on its way to a client, in its queue
  or its pipe, is a slot of that client (`Told`); a STOP in the server's queue
  is the only one of its sender, whose slot is still its own (`Goodbyes`); and
  the STOP the server has handled finds its slot empty when an interrupted
  `mq_receive` makes it handle it once more (`LastGoodbye`). That gives
  `SlotsAreOwned` and `ClientsLeaveThemselves`. `OneConversation` adds that a
  MESSAGE comes before its sender's STOP (`Lasting`), that who is registered is
  new (`Newcomers`), and where in `log` clients join (`History`).
  `ConversationInv` speaks of the conversation only while the server runs
  (`sflag`): after that nothing more is handed round.
- `LifeProofs`. `TypeInv`: no thread leaves its share of the grid, because the
  division is cut off before `ceil`. `RoundInv`: in a round with `drawn #
  NotDrawn` the cells between a thread's `Start` and `at` hold the next
  generation, the value it is about to store is right and goes to the
  background, and the foreground is the grid drawn. From this
  `RoundsDrawGenerations`.
- `ExercisesProofs`. Each theorem is about one of the small programs, which
  `MCExercises` puts side by side. `NoRequestTwice`: a sender with a pending
  signal is suspended, and without a rush the catcher sleeps with nothing to do
  (`CatcherInv`). `CopiesReversed`: `Back(m)`, the file read backwards down to
  `m`, is what both copies hold; a block that is reversed and appended extends
  it. `LeastSteps`: no member of the orbit that has been passed is 1.
  `OwnPartsOnly`: once the parent reads no child runs, and `temp` is a part
  already added or what it was at the start. `AllFlippedButOne`: at most one
  file of those walked over is not flipped, and it ended the walk.

Three limits of the prover shape these proofs. It cannot instantiate an
induction theorem, so what would be an induction is an argument by the least
number for which something fails (`LeastNumber`): that recursive functions are
what their equations say (the orbit of `Collatz`, `Keep` of `MqChat`), and that
a free descriptor and a free slot have a least one. It knows no definition of
`SelectSeq`, so `SameConversation` is stated with `Keep`, which `MqChat`
defines. And its SMT backend does not read CASE: what `HCheck` does is taken
apart once (`CheckLeads`).

In `santa` the safety invariants are checked together with the liveness under
`TimelySpec`; that `TypeOK`, `SantaSeesFullQueue` and `DeliversWithAllReindeer`
need no such assumption is what the theorems say.

Model-checked only: liveness (`TasksReachPrinters`, `ClientsKeepDelivering`,
`ClientsSurviveStart`, `OrphansGoOn`, `Completion`, `SlotsAreFreed`,
`LeavingEnds`, `EveryThreadGoesOn`, `SleeperServes`, `SendersAreAnswered`,
`SecondCopyComplete`, `ParentEnds`, `Answered`), which the prover does not
reach. `Fifo` has no theorem, since all that is asked of it is liveness.

## 6. Plan

In place: the models of every part but those of section 7, and proofs of all the
safety properties the runs check.

What could be proved beyond that:

1. that `ChatServer` under `CalmSpec` and `MqChat` under `PatientSpec` implement
   one abstract chat (join, say, leave), from `OwnInv` and `NamesKept`, and from
   `SlotsInv` and `ConversationInv`.

## 7. Not modelled

Whole parts: the System V chat of `cw7` (`msgsnd` takes the first eight bytes of
a message as its type, which `INIT = 0` and `client_id = -1` make negative, so
the first call at `clientv.c:52` is refused and the client exits; `serverv.c`
uses `mqd_t` without its header, and the makefile builds neither); `cw1`, `cw4`
and `cw5/zadanie1`, a fork, an exec, a raise and some lines printed, with
nothing shared; `cw2/collatzlib/client.c` beyond what it passes to the library.

In the modelled parts: what is printed, the contents of tasks and texts,
failures of the calls that set up memory, queues and threads (the programs
exit), memory ordering weaker than sequential consistency in `cw11`, where
`active` and `name` are read without a lock, reads and writes of `cw3` that fail
in the middle of a file, the sums of `cw6`, the order in which bytes reach a
disk, and a second start of a server or of the printers on what an earlier one
left behind.
