---------------------------- MODULE MCExercises ----------------------------
(***************************************************************************)
(* The small programs of cw2, cw3, cw5 and cw6 in one run: `which` picks   *)
(* one, which runs alone; the variables of the others keep a fixed value.  *)
(***************************************************************************)
EXTENDS Integers, Sequences, FiniteSets

CONSTANTS Senders,                          \* of Catcher
          Byte, BlockSize, MaxLength,       \* of ReverseCopy
          Bits, MaxIter,                    \* of Collatz
          n,                                \* of Integrals
          Name, Txt                         \* of Flipper

\* What the six programs need; the bounds of the two inputs are ours.
ASSUME ExercisesAssumption ==
    /\ IsFiniteSet(Senders)
    /\ BlockSize \in Nat \ {0} /\ MaxLength \in Nat
    /\ Bits \in Nat \ {0} /\ MaxIter \in Nat
    /\ n \in Nat
    /\ Txt \subseteq Name

VARIABLES
    which,
    catcher, workType, requestsNumber, pending, sender, request, served, dropped, rushed,
    copier, giver, position, i, bytesLeft, receiver, receiver2,
    number, max_iter, x, iter, result, exact,
    parent, turn, child, temp, res,
    walk, todo, unreadable, unwritable, same, before, output,
    fifos, asker, integrator, reversed, limits, got, answer

C == INSTANCE Catcher
R == INSTANCE ReverseCopy
Z == INSTANCE Collatz
I == INSTANCE Integrals WITH i <- turn
P == INSTANCE Flipper WITH Contents <- UNION {[1 .. k -> Byte] : k \in 0 .. 2}
F == INSTANCE Fifo

catching == <<catcher, workType, requestsNumber, pending, sender, request, served,
              dropped, rushed>>
copying == <<copier, giver, position, i, bytesLeft, receiver, receiver2>>
iterating == <<number, max_iter, x, iter, result, exact>>
integrating == <<parent, turn, child, temp, res>>
flipping == <<walk, todo, unreadable, unwritable, same, before, output>>
piping == <<fifos, asker, integrator, reversed, limits, got, answer>>
vars == <<which, catching, copying, iterating, integrating, flipping, piping>>

CatcherOff == /\ catcher = "off" /\ workType = 4 /\ requestsNumber = 0 /\ pending = {}
              /\ sender = [s \in Senders |-> "off"] /\ request = [s \in Senders |-> 4]
              /\ served = 0 /\ dropped = {} /\ rushed = FALSE
CopyOff == /\ copier = "off" /\ giver = <<>> /\ position = 0 /\ i = -1
           /\ bytesLeft = 0 /\ receiver = <<>> /\ receiver2 = <<>>
CollatzOff == /\ number = 0 /\ max_iter = 0 /\ x = 0 /\ iter = 0
              /\ result = 0 /\ exact = FALSE
IntegralsOff == parent = "off" /\ turn = 0 /\ child = <<>> /\ temp = 0 /\ res = <<>>
FlipperOff == /\ walk = "off" /\ todo = {} /\ unreadable = {} /\ unwritable = {}
              /\ same = TRUE /\ before = <<>> /\ output = <<>>
FifoOff == /\ fifos = {} /\ asker = "off" /\ integrator = "off" /\ reversed = FALSE
           /\ limits = <<>> /\ got = <<>> /\ answer = <<>>

Init ==
    /\ IF which = "catcher" THEN C!Init ELSE CatcherOff
    /\ IF which = "copy" THEN R!Init ELSE CopyOff
    /\ IF which = "collatz" THEN Z!Init ELSE CollatzOff
    /\ IF which = "integrals" THEN I!Init ELSE IntegralsOff
    /\ IF which = "flipper" THEN P!Init ELSE FlipperOff
    /\ IF which = "fifo" THEN F!Init ELSE FifoOff

AnyInit ==
    /\ which \in {"catcher", "copy", "collatz", "integrals", "flipper", "fifo"}
    /\ Init

Catch(A) ==
    /\ which = "catcher" /\ A
    /\ UNCHANGED <<which, copying, iterating, integrating, flipping, piping>>
Copy == which = "copy" /\ R!Next
        /\ UNCHANGED <<which, catching, iterating, integrating, flipping, piping>>
Collatz_ == which = "collatz" /\ Z!Next
            /\ UNCHANGED <<which, catching, copying, integrating, flipping, piping>>
Integrate(A) ==
    /\ which = "integrals" /\ A
    /\ UNCHANGED <<which, catching, copying, iterating, flipping, piping>>
FlipAll == which = "flipper" /\ P!Next
           /\ UNCHANGED <<which, catching, copying, iterating, integrating, piping>>
Pipe(A) ==
    /\ which = "fifo" /\ A
    /\ UNCHANGED <<which, catching, copying, iterating, integrating, flipping>>

Next ==
    \/ Catch(C!Next) \/ Copy \/ Collatz_ \/ Integrate(I!Next) \/ FlipAll \/ Pipe(F!Next)

\* The fairness of each program's own specification.
Fairness ==
    /\ WF_vars(Catch(C!Main)) /\ WF_vars(Catch(C!Deliver))
    /\ WF_vars(Copy)
    /\ WF_vars(Integrate(I!Parent))
    /\ \A c \in 1 .. n : WF_vars(Integrate(I!Compute(c) \/ I!Die(c)))
    /\ WF_vars(Pipe(F!Asker)) /\ WF_vars(Pipe(F!Integrator)) /\ WF_vars(Pipe(F!Both))

Spec == AnyInit /\ [][Next]_vars /\ Fairness

-----------------------------------------------------------------------------
(* Properties: those of the six modules, each of its own program. *)

\* catcher.c serves no request twice; and as long as no sender has found it at
\* work, it has served, or is about to, all it noted.
ServedOnce == which = "catcher" => C!ServedOnce

\* catcher.c begins a request that found it asleep.
SleeperServes == which = "catcher" => C!SleeperServes

\* catcher.c answers every sender whose signal it got, unless it ends.
SendersAreAnswered == which = "catcher" => C!SendersAreAnswered

\* zad1.c: both copies are reversed as far as they have come.
CopiedSoFar == which = "copy" => R!CopiedSoFar

\* zad1.c: the copy in blocks becomes complete, and stays so for ever.
SecondCopyComplete == which = "copy" => R!SecondCopyComplete

\* collatz.c: the answer is the least number of steps, or -1, short of overflow.
Convergence == which = "collatz" => Z!Convergence

\* integrals.c: a dead child costs no part of the sum but its own.
OwnPartOnly == which = "integrals" => I!OwnPartOnly

\* integrals.c: the parent ends, whatever becomes of its children.
ParentEnds == which = "integrals" => I!ParentEnds

\* flipper.c: a return of 0 means everything is flipped, a 1 all but one so far.
FlippedUpTo == which = "flipper" => P!FlippedUpTo

\* sender.c and integral.c of cw6: the result arrives, if both FIFOs were there and
\* the loop over the steps ends.
Answered == which = "fifo" => F!Answered
=============================================================================
