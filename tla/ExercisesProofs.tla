-------------------------- MODULE ExercisesProofs --------------------------
(***************************************************************************)
(* The safety of the small programs of cw2, cw3, cw5 and cw6 for any       *)
(* number of senders, length of a file and of a block, number of children  *)
(* and directory.                                                          *)
(***************************************************************************)
EXTENDS MCExercises, FiniteSetTheorems, SequenceTheorems, WellFoundedInduction, TLAPS

\* Each program runs alone.
LEMMA Alone ==
    ASSUME [Next]_vars
    PROVE  /\ which' = which
           /\ which = "catcher" => C!Next \/ UNCHANGED catching
           /\ which = "copy" => R!Next \/ UNCHANGED copying
           /\ which = "collatz" => Z!Next \/ UNCHANGED iterating
           /\ which = "integrals" => I!Next \/ UNCHANGED integrating
           /\ which = "flipper" => P!Next \/ UNCHANGED flipping
BY Zenon DEF Next, vars, Catch, Copy, Collatz_, Integrate, FlipAll, Pipe

-----------------------------------------------------------------------------
(* integrals.c *)

\* Once the parent reads nobody runs any more, and temp is a part added already
\* or what it was at the start.
Added(v, k) == v = I!Garbage \/ \E j \in 1 .. k : v = res[j]

IntegralsInv ==
    /\ turn \in Int /\ child \in [1 .. n -> {"unborn", "running", "wrote", "dead"}]
    /\ res \in Seq(Int) /\ temp \in Int
    /\ Added(temp, Len(res))
    /\ parent = "fork" => res = <<>>
    /\ parent = "read" => turn = Len(res) + 1
    /\ parent # "fork" => \A c \in 1 .. n : child[c] # "running"
    /\ \A k \in 1 .. Len(res) :
          IF child[k] = "wrote" THEN res[k] = k ELSE Added(res[k], k - 1)

LEMMA InitIntegrals == which = "integrals" /\ Init => IntegralsInv
<1> SUFFICES ASSUME which = "integrals", I!Init PROVE IntegralsInv
  BY DEF Init
<1> QED
  BY DEF I!Init, I!Children, I!Garbage, IntegralsInv, Added

LEMMA StepIntegrals ==
    ASSUME IntegralsInv, I!Next \/ UNCHANGED integrating
    PROVE  IntegralsInv'
<1>1. CASE UNCHANGED integrating
  BY <1>1 DEF integrating, IntegralsInv, Added
<1>2. CASE I!Fork
  <2>1. res = <<>> /\ parent = "fork" /\ UNCHANGED <<parent, temp, res>>
    BY <1>2 DEF I!Fork, IntegralsInv
  <2>2. PICK c \in {"running", "dead"} : child' = [child EXCEPT ![turn] = c]
    BY <1>2 DEF I!Fork
  <2>3. child' \in [1 .. n -> {"unborn", "running", "wrote", "dead"}]
    BY <2>2 DEF IntegralsInv
  <2>4. turn' \in Int
    BY <1>2 DEF I!Fork, IntegralsInv
  <2> QED
    BY <2>1, <2>3, <2>4 DEF IntegralsInv, Added
<1>3. ASSUME NEW c \in 1 .. n, I!Compute(c) \/ I!Die(c)
      PROVE  IntegralsInv'
  <2>1. parent = "fork" /\ res = <<>> /\ UNCHANGED <<parent, turn, temp, res>>
    BY <1>3 DEF IntegralsInv, I!Compute, I!Die
  <2>2. child' \in [1 .. n -> {"unborn", "running", "wrote", "dead"}]
    BY <1>3 DEF I!Compute, I!Die, IntegralsInv
  <2> QED
    BY <2>1, <2>2 DEF IntegralsInv, Added
<1>4. CASE I!Wait
  BY <1>4 DEF I!Wait, I!Children, IntegralsInv, Added
<1>5. CASE I!Read
  <2>1. /\ turn = Len(res) + 1 /\ turn' = turn + 1 /\ UNCHANGED <<parent, child>>
        /\ parent = "read"
        /\ temp' = IF child[turn] = "wrote" THEN turn ELSE temp
        /\ res' = Append(res, temp')
    BY <1>5 DEF I!Read, IntegralsInv
  <2>2. temp' \in Int /\ res' \in Seq(Int) /\ Len(res') = Len(res) + 1
    BY <2>1 DEF IntegralsInv
  <2>3. /\ \A j \in 1 .. Len(res) : res'[j] = res[j]
        /\ res'[turn] = temp'
    BY <2>1, <2>2 DEF IntegralsInv
  <2>4. Added(temp, Len(res))' /\ (child[turn] # "wrote" => Added(temp, Len(res)))
    BY <2>1, <2>2, <2>3 DEF IntegralsInv, Added
  <2>5. ASSUME NEW k \in 1 .. Len(res')
        PROVE  (IF child[k] = "wrote" THEN res[k] = k ELSE Added(res[k], k - 1))'
    <3>1. CASE k \in 1 .. Len(res)
      BY <2>1, <2>3, <3>1 DEF IntegralsInv, Added
    <3>2. CASE k = turn
      BY <2>1, <2>3, <2>4, <3>2 DEF IntegralsInv, Added
    <3> QED
      BY <2>1, <2>2, <2>5, <3>1, <3>2 DEF IntegralsInv
  <2> QED
    BY <2>1, <2>2, <2>4, <2>5 DEF IntegralsInv
<1>6. CASE I!PrintSum
  BY <1>6 DEF I!PrintSum, IntegralsInv, Added
<1> QED
  BY <1>1, <1>2, <1>3, <1>4, <1>5, <1>6 DEF I!Next, I!Parent, I!Children

\* For any number of children and whatever becomes of them: a child that dies
\* costs its own part of the sum and no other.
THEOREM OwnPartsOnly == Spec => []OwnPartOnly
<1> DEFINE Inv == which = "integrals" => IntegralsInv
<1>1. AnyInit => Inv
  BY InitIntegrals DEF AnyInit
<1>2. Inv /\ [Next]_vars => Inv'
  BY Alone, StepIntegrals
<1>3. Inv => OwnPartOnly
  BY DEF OwnPartOnly, I!OwnPartOnly, IntegralsInv, Added
<1> HIDE DEF Inv
<1> QED
  BY <1>1, <1>2, <1>3, PTL DEF Spec

-----------------------------------------------------------------------------
(* catcher.c *)

CatcherType ==
    /\ catcher \in {"start", "switch", "work", "ending", "to_pause", "asleep",
                    "killed", "exited"}
    /\ workType \in C!Work \cup {C!Nothing}
    /\ requestsNumber \in Int /\ served \in Int
    /\ pending \subseteq Senders
    /\ sender \in [Senders -> {"off", "suspended", "ended"}]
    /\ request \in [Senders -> C!Work \cup {C!Nothing}]
    /\ rushed \in BOOLEAN

\* A sender that has been answered has no signal pending; and unless a request
\* came while the catcher was busy, it goes to sleep with nothing to do.
CatcherInv ==
    /\ CatcherType
    /\ \A s \in pending : sender[s] = "suspended"
    /\ ~rushed /\ catcher \in {"start", "to_pause", "asleep"} => workType = C!Nothing
    /\ C!ServedOnce

\* FiniteSets reaches Catcher through EXTENDS, and so by another name.
LEMMA SameCardinality == \A S : C!Cardinality(S) = Cardinality(S)
BY DEF C!Cardinality, Cardinality, C!IsFiniteSet, IsFiniteSet

EmptySenders == {s \in Senders : sender[s] = "ended" /\ request[s] = C!Nothing}

LEMMA EmptyCount ==
    /\ C!Empty = Cardinality(EmptySenders)
    /\ C!Empty' = Cardinality(EmptySenders')
    /\ IsFiniteSet(EmptySenders)
    /\ C!Empty \in Nat
<1>1. IsFiniteSet(EmptySenders)
  BY ExercisesAssumption, FS_Subset DEF EmptySenders
<1>2. C!Empty = Cardinality(EmptySenders) /\ C!Empty' = Cardinality(EmptySenders')
  BY SameCardinality DEF C!Empty, EmptySenders
<1> QED
  BY <1>1, <1>2, FS_CardinalityType

\* A step of main: work begun is work no longer wanted.
LEMMA StepMain ==
    ASSUME CatcherInv, C!Main
    PROVE  CatcherInv'
<1>1. UNCHANGED <<requestsNumber, rushed, pending, sender, request, dropped>>
  BY DEF C!Main, C!Install, C!Switch, C!WorkDone, C!EndProgram, C!Pause, C!theirs
<1>2. C!Empty' = C!Empty /\ C!Empty \in Nat
  BY <1>1, EmptyCount DEF C!Empty, C!Nothing
<1>3. CatcherType'
  BY <1>1 DEF CatcherInv, CatcherType, C!Main, C!Install, C!Switch, C!WorkDone,
     C!EndProgram, C!Pause, C!Goes, C!Work, C!Nothing
<1>4. ~rushed' /\ catcher' \in {"start", "to_pause", "asleep"} => workType' = C!Nothing
  BY <1>1 DEF CatcherInv, CatcherType, C!Main, C!Install, C!Switch, C!WorkDone,
     C!EndProgram, C!Pause, C!Goes, C!Work, C!Nothing
<1>5. served' + C!Wanted' = served + C!Wanted /\ served \in Int /\ requestsNumber \in Int
  BY DEF CatcherInv, CatcherType, C!Main, C!Install, C!Switch, C!WorkDone,
     C!EndProgram, C!Pause, C!Goes, C!Work, C!Nothing, C!Wanted, C!Due
<1>6. C!ServedOnce'
  BY <1>1, <1>2, <1>5 DEF CatcherInv, C!ServedOnce
<1> QED
  BY <1>1, <1>3, <1>4, <1>6 DEF CatcherInv, C!Nothing

\* The handler: what is noted is counted, and an answered sender sends no more.
LEMMA StepHandle ==
    ASSUME CatcherInv, NEW s \in Senders, C!Handle(s)
    PROVE  CatcherInv'
<1>1. /\ s \in pending /\ pending' = {} /\ requestsNumber' = requestsNumber + 1
      /\ workType' = request[s]
      /\ catcher' = IF catcher = "asleep" THEN "switch" ELSE catcher
      /\ rushed' = (rushed \/ catcher # "asleep")
      /\ sender' = [sender EXCEPT ![s] = "ended"]
      /\ UNCHANGED <<served, request>>
      /\ sender[s] = "suspended" /\ catcher # "start"
  BY DEF CatcherInv, C!Handle, C!Note
<1>2. CatcherType'
  BY <1>1 DEF CatcherInv, CatcherType
<1>3. (C!Wanted = 0 \/ C!Wanted = 1) /\ (C!Wanted' = 0 \/ C!Wanted' = 1)
  BY DEF C!Wanted
<1>4. served + C!Wanted' <= requestsNumber + 1
  <2>1. served + C!Wanted <= requestsNumber /\ served \in Int /\ requestsNumber \in Int
    BY DEF CatcherInv, CatcherType, C!ServedOnce
  <2> QED
    BY <1>3, <2>1
<1>5. CASE rushed'
  BY <1>1, <1>2, <1>4, <1>5 DEF CatcherInv, C!ServedOnce
<1>6. CASE ~rushed'
  <2>1. ~rushed /\ catcher = "asleep" /\ catcher' = "switch" /\ workType = C!Nothing
    BY <1>1, <1>6 DEF CatcherInv
  <2>2. served + C!Empty = requestsNumber
    BY <2>1, EmptyCount
       DEF CatcherInv, CatcherType, C!ServedOnce, C!Wanted, C!Due, C!Work, C!Nothing
  <2>3. CASE request[s] = C!Nothing
    <3>1. EmptySenders' = EmptySenders \cup {s} /\ s \notin EmptySenders
      BY <1>1, <2>3 DEF EmptySenders, CatcherInv, CatcherType, C!Nothing
    <3>2. C!Empty' = C!Empty + 1
      BY <3>1, EmptyCount, FS_AddElement
    <3>3. C!Wanted' = 0
      BY <1>1, <2>3 DEF C!Wanted, C!Due, C!Work, C!Nothing
    <3> QED
      BY <1>1, <1>2, <1>4, <2>1, <2>2, <3>2, <3>3, EmptyCount
         DEF CatcherInv, CatcherType, C!ServedOnce
  <2>4. CASE request[s] # C!Nothing
    <3>1. EmptySenders' = EmptySenders
      BY <1>1, <2>4 DEF EmptySenders, CatcherInv, CatcherType, C!Nothing
    <3>2. C!Empty' = C!Empty
      BY <3>1, EmptyCount
    <3>3. C!Wanted' = 1
      BY <1>1, <2>1, <2>4 DEF CatcherInv, CatcherType, C!Wanted, C!Due, C!Work, C!Nothing
    <3> QED
      BY <1>1, <1>2, <1>4, <2>1, <2>2, <3>2, <3>3, EmptyCount
         DEF CatcherInv, CatcherType, C!ServedOnce
  <2> QED
    BY <2>3, <2>4
<1> QED
  BY <1>5, <1>6

\* A sender, or a signal that ends the catcher: nothing is noted or begun.
LEMMA StepSignal ==
    ASSUME CatcherInv, C!DefaultAction \/ \E s \in Senders : C!Send(s)
    PROVE  CatcherInv'
<1>1. UNCHANGED <<requestsNumber, rushed, served, workType, request>>
  BY DEF C!DefaultAction, C!Send, C!ours
<1>2. EmptySenders' = EmptySenders
  BY <1>1 DEF EmptySenders, CatcherInv, CatcherType, C!DefaultAction, C!Send, C!Nothing
<1>3. C!Empty' = C!Empty
  BY <1>2, EmptyCount
<1>4. CatcherType'
  BY <1>1 DEF CatcherInv, CatcherType, C!DefaultAction, C!Send, C!ours, C!Goes, C!Work,
     C!Nothing
<1>5. \A s \in pending' : sender'[s] = "suspended"
  BY DEF CatcherInv, CatcherType, C!DefaultAction, C!Send
<1>6. catcher' = catcher \/ (catcher' = "killed" /\ catcher = "start")
  BY DEF C!DefaultAction, C!Send, C!ours, C!Goes
<1>7. C!Wanted' = C!Wanted
  BY <1>1, <1>6 DEF C!Wanted, C!Due, C!Work
<1> QED
  BY <1>1, <1>3, <1>4, <1>5, <1>6, <1>7 DEF CatcherInv, C!ServedOnce, C!Nothing

LEMMA InitCatcher == which = "catcher" /\ Init => CatcherInv
<1> SUFFICES ASSUME which = "catcher", C!Init PROVE CatcherInv
  BY DEF Init
<1>1. EmptySenders = {}
  BY DEF C!Init, EmptySenders
<1>2. C!Empty = 0
  BY <1>1, EmptyCount, FS_EmptySet
<1>3. CatcherType
  <2>1. rushed \in BOOLEAN
    BY Zenon DEF C!Init
  <2>2. requestsNumber \in Int /\ served \in Int
    BY DEF C!Init
  <2>3. workType \in C!Work \cup {C!Nothing} /\ request \in [Senders -> C!Work \cup {C!Nothing}]
    BY DEF C!Init, C!Work
  <2>4. pending \subseteq Senders /\ sender \in [Senders -> {"off", "suspended", "ended"}]
    BY DEF C!Init
  <2> QED
    BY <2>1, <2>2, <2>3, <2>4 DEF C!Init, CatcherType
<1>4. C!Wanted = 0
  BY DEF C!Init, C!Wanted, C!Due, C!Work, C!Nothing
<1> QED
  BY <1>2, <1>3, <1>4 DEF C!Init, CatcherInv, C!ServedOnce

LEMMA StepCatcher ==
    ASSUME CatcherInv, C!Next \/ UNCHANGED catching
    PROVE  CatcherInv'
<1>1. CASE UNCHANGED catching
  BY <1>1 DEF catching, CatcherInv, CatcherType, C!ServedOnce, C!Wanted, C!Due, C!Work,
     C!Nothing, C!Empty
<1>2. CASE C!Next
  BY <1>2, StepMain, StepHandle, StepSignal DEF C!Next, C!Deliver
<1> QED
  BY <1>1, <1>2

\* For any number of senders and wherever the handler interrupts main, no
\* request is served twice; and while each found the catcher asleep, none is lost.
THEOREM NoRequestTwice == Spec => []ServedOnce
<1> DEFINE Inv == which = "catcher" => CatcherInv
<1>1. AnyInit => Inv
  BY InitCatcher DEF AnyInit
<1>2. Inv /\ [Next]_vars => Inv'
  BY Alone, StepCatcher
<1>3. Inv => ServedOnce
  BY DEF ServedOnce, CatcherInv
<1> HIDE DEF Inv
<1> QED
  BY <1>1, <1>2, <1>3, PTL DEF Spec

-----------------------------------------------------------------------------
(* flipper.c *)

Good(f) == output[f] = P!Flipped(before[f])

LEMMA SameFile ==
    ASSUME before' = before
    PROVE  \A f : output'[f] = output[f] => (Good(f)' <=> Good(f))
BY DEF Good, P!Flipped

\* A file that failed ended the walk.
FlipperInv ==
    /\ output = [f \in Name |-> output[f]]
    /\ todo \subseteq Name
    /\ walk = "returned 0" => todo = {}
    /\ ~same =>
          /\ \A f \in (Name \ Txt) \cup todo : output[f] = P!NoFile
          /\ \A f \in Txt \ todo :
                Good(f) \/ (walk = "returned 1" /\ output[f] \in {<<>>, P!NoFile})
          /\ \A f, g \in Txt \ todo : Good(f) \/ Good(g) \/ f = g

LEMMA InitFlipper == which = "flipper" /\ Init => FlipperInv
<1> SUFFICES ASSUME which = "flipper", P!Init PROVE FlipperInv
  BY DEF Init
<1>1. todo = Name /\ Txt \ todo = {} /\ walk # "returned 0"
  BY ExercisesAssumption DEF P!Init
<1>2. ~same => output = [f \in Name |-> P!NoFile]
  BY DEF P!Init
<1>3. output = [f \in Name |-> output[f]]
  BY DEF P!Init
<1> QED
  BY <1>1, <1>2, <1>3, ExercisesAssumption DEF FlipperInv

\* A file is written once, when readdir returns it.
LEMMA FlipOne ==
    ASSUME FlipperInv, NEW f \in Name, P!Flip(f)
    PROVE  FlipperInv'
<1>1. /\ walk = "walk" /\ f \in todo /\ f \in Txt /\ todo' = todo \ {f}
      /\ walk' = IF f \in unreadable \cup unwritable THEN "returned 1" ELSE "walk"
      /\ output' = [output EXCEPT ![f] = P!Received(f)]
      /\ UNCHANGED <<same, before>>
  BY DEF P!Flip
<1>2. /\ output' = [g \in Name |-> output'[g]]
      /\ output'[f] = P!Received(f)
      /\ \A g \in Name \ {f} : output'[g] = output[g]
  BY <1>1 DEF FlipperInv
<1>3. CASE same
  BY <1>1, <1>2, <1>3 DEF FlipperInv
<1>4. CASE ~same
  <2>1. /\ output[f] = P!NoFile
        /\ \A g \in Txt \ todo : Good(g)
    BY <1>1, <1>4 DEF FlipperInv
  <2>2. \/ Good(f)'
        \/ walk' = "returned 1" /\ output'[f] \in {<<>>, P!NoFile}
    BY <1>1, <1>2, <1>4, <2>1 DEF P!Received, P!Flipped, Good
  <2>3. \A g \in (Name \ Txt) \cup todo' : output'[g] = P!NoFile
    BY <1>1, <1>2, <1>4 DEF FlipperInv
  <2>4. \A g \in Txt \ todo' : g = f \/ Good(g)'
    BY <1>1, <1>2, <2>1, SameFile, ExercisesAssumption
  <2> QED
    BY <1>1, <1>2, <2>2, <2>3, <2>4 DEF FlipperInv, P!NoFile
<1> QED
  BY <1>3, <1>4

LEMMA StepFlipper ==
    ASSUME FlipperInv, P!Next \/ UNCHANGED flipping
    PROVE  FlipperInv'
<1>1. CASE P!EndOfDirectory \/ UNCHANGED flipping
  <2>1. /\ UNCHANGED <<todo, same, before, output>>
        /\ walk' = walk \/ (todo = {} /\ walk = "walk")
    BY <1>1 DEF flipping, P!EndOfDirectory
  <2> QED
    BY <2>1, SameFile DEF FlipperInv, P!NoFile
<1>2. ASSUME NEW f \in Name, P!Skip(f)
      PROVE  FlipperInv'
  <2>1. /\ UNCHANGED <<walk, same, before, output>> /\ walk = "walk"
        /\ todo' = todo \ {f} /\ f \notin Txt
    BY <1>2 DEF P!Skip
  <2>2. (Name \ Txt) \cup todo' = (Name \ Txt) \cup todo /\ Txt \ todo' = Txt \ todo
    BY <2>1
  <2> QED
    BY <2>1, <2>2, SameFile DEF FlipperInv, P!NoFile
<1> QED
  BY <1>1, <1>2, FlipOne DEF P!Next

LEMMA FlipperShown == FlipperInv => P!FlippedUpTo
BY DEF FlipperInv, P!FlippedUpTo, Good

\* For any directory: if flipper.c returns 0 every .txt file is flipped, if 1 all
\* those returned by readdir but one, and no other file is ever written.
THEOREM AllFlippedButOne == Spec => []FlippedUpTo
<1> DEFINE Inv == which = "flipper" => FlipperInv
<1>1. AnyInit => Inv
  BY InitFlipper DEF AnyInit
<1>2. Inv /\ [Next]_vars => Inv'
  BY Alone, StepFlipper
<1>3. Inv => FlippedUpTo
  BY FlipperShown DEF FlippedUpTo
<1> HIDE DEF Inv
<1> QED
  BY <1>1, <1>2, <1>3, PTL DEF Spec

-----------------------------------------------------------------------------
(* zad1.c *)

\* The bytes of the file behind the first m, backwards.
Back(m) == [k \in 1 .. Len(giver) - m |-> giver[Len(giver) - k + 1]]

LEMMA BackIsSeq ==
    ASSUME giver \in Seq(Byte), NEW m \in 0 .. Len(giver)
    PROVE  /\ Back(m) \in Seq(Byte)
           /\ Len(Back(m)) = Len(giver) - m
           /\ \A k \in 1 .. Len(giver) - m : Back(m)[k] = giver[Len(giver) - k + 1]
<1>1. Len(giver) \in Nat /\ Len(giver) - m \in Nat
  BY LenProperties
<1>2. \A k \in 1 .. Len(giver) - m : giver[Len(giver) - k + 1] \in Byte
  BY <1>1, ElementOfSeq
<1> QED
  BY <1>1, <1>2, IsASeq DEF Back

\* A part of the file taken backwards: what is behind its first m bytes, up to l.
LEMMA ReversedPart ==
    ASSUME giver \in Seq(Byte), NEW l \in 0 .. Len(giver), NEW m \in 0 .. l
    PROVE  LET s == R!Reversed(SubSeq(giver, m + 1, l))
           IN  /\ s \in Seq(Byte) /\ Len(s) = l - m
               /\ \A k \in 1 .. l - m : s[k] = giver[l - k + 1]
<1> DEFINE p == SubSeq(giver, m + 1, l)
           s == R!Reversed(p)
<1>1. Len(giver) \in Nat
  BY LenProperties
<1>2. /\ p \in Seq(Byte) /\ Len(p) = l - m
      /\ \A k \in 1 .. l - m : p[k] = giver[m + k]
  BY <1>1, SubSeqProperties
<1> HIDE DEF p
<1>3. \A k \in 1 .. l - m : p[l - m - k + 1] \in Byte /\ p[l - m - k + 1] = giver[l - k + 1]
  BY <1>1, <1>2, ElementOfSeq
<1>4. s = [k \in 1 .. l - m |-> p[l - m - k + 1]]
  BY <1>2 DEF R!Reversed
<1>5. l - m \in Nat
  BY <1>1
<1>6. s \in Seq(Byte) /\ Len(s) = l - m
  BY <1>3, <1>4, <1>5, IsASeq
<1> QED
  BY <1>3, <1>4, <1>6 DEF p

LEMMA AllReversed ==
    ASSUME giver \in Seq(Byte), NEW m \in 0 .. Len(giver)
    PROVE  R!Reversed(SubSeq(giver, m + 1, Len(giver))) = Back(m)
<1> DEFINE l == Len(giver)
           s == R!Reversed(SubSeq(giver, m + 1, l))
<1>1. l \in 0 .. l /\ l \in Nat
  BY LenProperties
<1>2. /\ s \in Seq(Byte) /\ Len(s) = l - m
      /\ \A k \in 1 .. l - m : s[k] = giver[l - k + 1]
  BY <1>1, ReversedPart
<1>3. /\ Back(m) \in Seq(Byte) /\ Len(Back(m)) = l - m
      /\ \A k \in 1 .. l - m : Back(m)[k] = giver[l - k + 1]
  BY BackIsSeq
<1> HIDE DEF s
<1>4. s = Back(m)
  BY <1>2, <1>3, SeqEqual
<1> QED
  BY <1>4 DEF s

CopyInv ==
    /\ giver \in Seq(Byte)
    /\ i \in -1 .. Len(giver) - 1 /\ receiver = Back(i + 1)
    /\ bytesLeft \in 0 .. Len(giver) /\ receiver2 = Back(bytesLeft)
    /\ IF copier = "blocks" THEN position = bytesLeft ELSE bytesLeft = Len(giver)

LEMMA InitCopy == which = "copy" /\ Init => CopyInv
<1> SUFFICES ASSUME which = "copy", R!Init PROVE CopyInv
  BY DEF Init
<1>1. PICK k \in 0 .. MaxLength : giver \in [1 .. k -> Byte]
  BY DEF R!Init
<1>2. giver \in Seq(Byte) /\ Len(giver) \in Nat
  BY <1>1, ExercisesAssumption
<1>3. Back(Len(giver)) = <<>>
  BY <1>2, BackIsSeq DEF Back
<1> QED
  BY <1>2, <1>3 DEF R!Init, CopyInv

\* One byte more, the one in front of those copied.
LEMMA OneByte ==
    ASSUME CopyInv, R!CopyByte
    PROVE  CopyInv'
<1>1. /\ giver \in Seq(Byte) /\ Len(giver) \in Nat /\ i \in 0 .. Len(giver) - 1
      /\ receiver' = Append(Back(i + 1), giver[i + 1]) /\ i' = i - 1
      /\ UNCHANGED <<giver, bytesLeft, receiver2, copier>> /\ copier # "blocks"
  BY LenProperties DEF CopyInv, R!CopyByte
<1>2. i + 1 \in 0 .. Len(giver) /\ i \in 0 .. Len(giver) /\ giver[i + 1] \in Byte
  BY <1>1, ElementOfSeq
<1>3. receiver' = Back(i)
  <2> DEFINE b == Back(i + 1)
             c == Back(i)
             r == Append(b, giver[i + 1])
  <2>1. /\ b \in Seq(Byte) /\ Len(b) = Len(giver) - (i + 1)
        /\ \A k \in 1 .. Len(giver) - (i + 1) : b[k] = giver[Len(giver) - k + 1]
    BY <1>1, <1>2, BackIsSeq
  <2>2. /\ c \in Seq(Byte) /\ Len(c) = Len(giver) - i
        /\ \A k \in 1 .. Len(giver) - i : c[k] = giver[Len(giver) - k + 1]
    BY <1>1, <1>2, BackIsSeq
  <2> HIDE DEF b, c
  <2>3. /\ r \in Seq(Byte) /\ Len(r) = Len(b) + 1
        /\ \A k \in 1 .. Len(b) : r[k] = b[k]
        /\ r[Len(b) + 1] = giver[i + 1]
    BY <1>2, <2>1, AppendProperties
  <2>4. Len(r) = Len(c) /\ \A k \in 1 .. Len(r) : r[k] = c[k]
    BY <1>1, <2>1, <2>2, <2>3
  <2>5. r = c
    BY <2>2, <2>3, <2>4, SeqEqual
  <2> QED
    BY <1>1, <2>5 DEF b, c
<1>4. i' + 1 = i /\ i' \in -1 .. Len(giver) - 1
  BY <1>1
<1> QED
  BY <1>1, <1>3, <1>4 DEF CopyInv, Back

\* One block more, or with fewer bytes left what there is, or nothing.
LEMMA OneBlock ==
    ASSUME CopyInv, R!CopyBlock
    PROVE  CopyInv'
<1> DEFINE l == bytesLeft
           m == bytesLeft - R!Size
           b == Back(l)
           c == Back(m)
           p == R!Reversed(SubSeq(giver, m + 1, l))
           r == b \o p
<1>1. /\ giver \in Seq(Byte) /\ Len(giver) \in Nat /\ bytesLeft \in 0 .. Len(giver)
      /\ UNCHANGED <<copier, giver, i, receiver>>
      /\ position = bytesLeft /\ bytesLeft' = bytesLeft - R!Size
      /\ position' = position - R!Size
      /\ receiver2' = Back(bytesLeft) \o R!Reversed(SubSeq(giver, position - R!Size + 1, position))
  BY LenProperties DEF CopyInv, R!CopyBlock
<1>2. m \in 0 .. l /\ m \in 0 .. Len(giver) /\ l \in 0 .. Len(giver) /\ l \in Int
  BY <1>1, ExercisesAssumption DEF R!Size
<1>3. receiver2' = r
  BY <1>1
<1> HIDE DEF m
<1>4. /\ b \in Seq(Byte) /\ Len(b) = Len(giver) - l
      /\ \A k \in 1 .. Len(giver) - l : b[k] = giver[Len(giver) - k + 1]
  BY <1>1, <1>2, BackIsSeq
<1>5. /\ c \in Seq(Byte) /\ Len(c) = Len(giver) - m
      /\ \A k \in 1 .. Len(giver) - m : c[k] = giver[Len(giver) - k + 1]
  BY <1>1, <1>2, BackIsSeq
<1>6. /\ p \in Seq(Byte) /\ Len(p) = l - m
      /\ \A k \in 1 .. l - m : p[k] = giver[l - k + 1]
  BY <1>1, <1>2, ReversedPart
<1> HIDE DEF b, c, p, l
<1>7. /\ r \in Seq(Byte) /\ Len(r) = Len(b) + Len(p)
      /\ \A k \in 1 .. Len(b) + Len(p) :
            r[k] = IF k <= Len(b) THEN b[k] ELSE p[k - Len(b)]
  BY <1>4, <1>6, ConcatProperties
<1> HIDE DEF r
<1>8. Len(r) = Len(c) /\ \A k \in 1 .. Len(r) : r[k] = c[k]
  <2>1. Len(giver) \in Nat /\ l \in 0 .. Len(giver) /\ m \in 0 .. l
    BY <1>1, <1>2
  <2>2. Len(r) = Len(giver) - m
    BY <2>1, <1>4, <1>6, <1>7
  <2>3. ASSUME NEW k \in 1 .. Len(giver) - l
        PROVE  r[k] = c[k]
    <3>1. k \in 1 .. Len(b) + Len(p) /\ k <= Len(b) /\ k \in 1 .. Len(giver) - m
      BY <2>1, <2>3, <1>4, <1>6
    <3>2. r[k] = b[k]
      BY <3>1, <1>7
    <3>3. b[k] = giver[Len(giver) - k + 1]
      BY <2>3, <1>4
    <3>4. c[k] = giver[Len(giver) - k + 1]
      BY <3>1, <1>5
    <3> QED
      BY <3>2, <3>3, <3>4
  <2>4. ASSUME NEW k \in 1 .. Len(giver) - m, k > Len(giver) - l
        PROVE  r[k] = c[k]
    <3>1. k - (Len(giver) - l) \in 1 .. l - m /\ l - (k - (Len(giver) - l)) + 1 = Len(giver) - k + 1
      BY <2>1, <2>4
    <3>2. r[k] = p[k - (Len(giver) - l)]
      BY <2>1, <2>4, <1>4, <1>6, <1>7
    <3>3. r[k] = giver[Len(giver) - k + 1]
      BY <3>1, <3>2, <1>6
    <3> QED
      BY <3>3, <1>5
  <2> QED
    BY <2>1, <2>2, <2>3, <2>4, <1>5
<1>9. r = c
  BY <1>5, <1>7, <1>8, SeqEqual
<1> QED
  BY <1>1, <1>2, <1>3, <1>9 DEF CopyInv, R!CopyBlock, Back, c, m

LEMMA StepCopy ==
    ASSUME CopyInv, R!Next \/ UNCHANGED copying
    PROVE  CopyInv'
<1>1. CASE UNCHANGED copying
  BY <1>1 DEF copying, CopyInv, Back
<1>2. CASE R!SecondCopy
  <2>1. Len(giver) \in Nat
    BY LenProperties DEF CopyInv
  <2> QED
    BY <1>2, <2>1 DEF R!SecondCopy, CopyInv, Back
<1> QED
  BY <1>1, <1>2, OneByte, OneBlock DEF R!Next

LEMMA CopyShown == CopyInv => R!CopiedSoFar
<1> SUFFICES ASSUME CopyInv PROVE R!CopiedSoFar
  OBVIOUS
<1>1. i + 1 \in 0 .. Len(giver) /\ i + 1 + 1 = i + 2 /\ bytesLeft \in 0 .. Len(giver)
  BY LenProperties DEF CopyInv
<1>2. R!Reversed(SubSeq(giver, i + 1 + 1, Len(giver))) = Back(i + 1)
  BY <1>1, AllReversed DEF CopyInv
<1>3. R!Reversed(SubSeq(giver, bytesLeft + 1, Len(giver))) = Back(bytesLeft)
  BY <1>1, AllReversed DEF CopyInv
<1> QED
  BY <1>1, <1>2, <1>3 DEF CopyInv, R!CopiedSoFar

\* For any file and any size of a block, both copies are at every point the
\* reversal of what they have passed, and the file stays in step with the count.
THEOREM CopiesReversed == Spec => []CopiedSoFar
<1> DEFINE Inv == which = "copy" => CopyInv
<1>1. AnyInit => Inv
  BY InitCopy DEF AnyInit
<1>2. Inv /\ [Next]_vars => Inv'
  BY Alone, StepCopy
<1>3. Inv => CopiedSoFar
  BY CopyShown DEF CopiedSoFar
<1> HIDE DEF Inv
<1> QED
  BY <1>1, <1>2, <1>3, PTL DEF Spec

-----------------------------------------------------------------------------
(* collatz.c *)

LEMMA LeastNumber ==
    ASSUME NEW S, S \subseteq Nat, S # {}
    PROVE  \E l \in S : \A k \in S : l <= k
<1>1. PICK l \in S : \A k \in S : <<k, l>> \notin OpToRel(<, Nat)
  BY NatLessThanWellFounded, WFMin
<1>2. \A k \in S : ~(k < l)
  BY <1>1 DEF OpToRel
<1> QED
  BY <1>2

\* o is the orbit of v up to m.
IsOrbit(o, v, m) ==
    o = [k \in 0 .. m |-> IF k = 0 THEN v ELSE Z!collatz_conjecture(o[k - 1])]

\* The orbit exists: the least length without one would be one more than a
\* length with one, or none.
LEMMA OrbitExists == \A v : \A m \in Nat : \E o : IsOrbit(o, v, m)
<1> SUFFICES ASSUME NEW v PROVE \A m \in Nat : \E o : IsOrbit(o, v, m)
  OBVIOUS
<1> DEFINE S == {m \in Nat : ~\E o : IsOrbit(o, v, m)}
<1> SUFFICES ASSUME S # {} PROVE FALSE
  OBVIOUS
<1>1. PICK m \in S : \A k \in S : m <= k
  BY LeastNumber
<1>2. CASE m = 0
  <2> DEFINE o == [k \in 0 .. 0 |-> v]
  <2>1. IsOrbit(o, v, 0)
    BY DEF IsOrbit
  <2> QED
    BY <1>1, <1>2, <2>1
<1>3. CASE m # 0
  <2>1. m \in Nat /\ m - 1 \in Nat /\ m - 1 \notin S
    BY <1>1, <1>3
  <2>2. PICK p : IsOrbit(p, v, m - 1)
    BY <2>1
  <2> DEFINE o == [k \in 0 .. m |-> IF k = 0 THEN v ELSE Z!collatz_conjecture(p[k - 1])]
  <2>3. \A k \in 0 .. m - 1 : o[k] = p[k]
    BY <2>1, <2>2 DEF IsOrbit
  <2> HIDE DEF S
  <2>4. ASSUME NEW k \in 0 .. m, k # 0
        PROVE  o[k - 1] = p[k - 1]
    <3>1. k - 1 \in 0 .. m - 1
      BY <2>1, <2>4
    <3> HIDE DEF o
    <3> QED
      BY <2>3, <3>1
  <2>5. o = [k \in 0 .. m |-> IF k = 0 THEN v ELSE Z!collatz_conjecture(o[k - 1])]
    <3> DEFINE q == [k \in 0 .. m |-> IF k = 0 THEN v ELSE Z!collatz_conjecture(o[k - 1])]
    <3>1. \A k \in 0 .. m : o[k] = q[k]
      BY <2>4
    <3> QED
      BY <3>1
  <2>6. IsOrbit(o, v, m)
    BY <2>5 DEF IsOrbit
  <2> QED
    BY <2>6 DEF S
<1> QED
  BY <1>2, <1>3

LEMMA OrbitIs == \A v : IsOrbit(Z!Orbit(v), v, MaxIter)
<1> SUFFICES ASSUME NEW v PROVE IsOrbit(Z!Orbit(v), v, MaxIter)
  OBVIOUS
<1>1. \E o : IsOrbit(o, v, MaxIter)
  BY OrbitExists, ExercisesAssumption
<1> QED
  BY <1>1 DEF IsOrbit, Z!Orbit

LEMMA OrbitNext ==
    ASSUME NEW v, NEW k \in 1 .. MaxIter
    PROVE  Z!Orbit(v)[k] = Z!collatz_conjecture(Z!Orbit(v)[k - 1])
<1> DEFINE o == Z!Orbit(v)
<1>1. o = [l \in 0 .. MaxIter |-> IF l = 0 THEN v ELSE Z!collatz_conjecture(o[l - 1])]
  BY OrbitIs DEF IsOrbit
<1> HIDE DEF o
<1>2. k \in 0 .. MaxIter /\ k # 0
  OBVIOUS
<1>3. o[k] = IF k = 0 THEN v ELSE Z!collatz_conjecture(o[k - 1])
  BY <1>1, <1>2
<1> QED
  BY <1>2, <1>3 DEF o

\* Running, or answered: what has been passed is not 1.
CollatzInv ==
    /\ max_iter \in 0 .. MaxIter /\ iter \in 0 .. max_iter
    /\ exact =>
          /\ x = Z!Orbit(number)[iter]
          /\ \A k \in 0 .. iter - 1 : Z!Orbit(number)[k] # 1
    /\ result # Z!Running =>
          /\ x = 1 \/ iter = max_iter
          /\ result = IF x = 1 THEN iter ELSE -1

LEMMA SameOrbit ==
    ASSUME number' = number
    PROVE  Z!Orbit(number)' = Z!Orbit(number)
BY DEF Z!Orbit, Z!collatz_conjecture

LEMMA InitCollatz == which = "collatz" /\ Init => CollatzInv
<1> SUFFICES ASSUME which = "collatz", Z!Init PROVE CollatzInv
  BY DEF Init
<1>1. Z!Orbit(number)[0] = number
  BY OrbitIs, ExercisesAssumption DEF IsOrbit
<1> QED
  BY <1>1 DEF Z!Init, Z!Running, CollatzInv

LEMMA StepCollatz ==
    ASSUME CollatzInv, Z!Next \/ UNCHANGED iterating
    PROVE  CollatzInv'
<1> DEFINE o == Z!Orbit(number)
<1>1. number' = number
  BY DEF Z!Next, Z!Iterate, Z!Return, iterating
<1>2. o' = o
  BY <1>1, SameOrbit
<1> HIDE DEF o
<1>3. CASE UNCHANGED iterating
  BY <1>2, <1>3 DEF iterating, CollatzInv, Z!Running, o
<1>4. CASE Z!Iterate
  <2>1. /\ iter' = iter + 1 /\ iter' \in 1 .. max_iter /\ x # 1
        /\ UNCHANGED <<max_iter, result>> /\ result = Z!Running
        /\ iter \in Nat /\ iter' \in 0 .. MaxIter /\ max_iter \in 0 .. MaxIter
    BY <1>4, ExercisesAssumption DEF Z!Iterate, CollatzInv
  <2>2. ASSUME exact'
        PROVE  x' = o[iter'] /\ \A k \in 0 .. iter' - 1 : o[k] # 1
    <3>1. /\ exact /\ x' = Z!collatz_conjecture(x)
          /\ x = o[iter] /\ \A k \in 0 .. iter - 1 : o[k] # 1
      BY <1>4, <2>2 DEF Z!Iterate, CollatzInv, o
    <3>2. o[iter'] = Z!collatz_conjecture(o[iter' - 1])
      <4>1. iter' \in 1 .. MaxIter
        BY <2>1
      <4> QED
        BY <4>1, OrbitNext DEF o
    <3>3. iter' - 1 = iter
      BY <2>1
    <3>4. \A k \in 0 .. iter' - 1 : k = iter \/ k \in 0 .. iter - 1
      BY <2>1
    <3> QED
      BY <2>1, <3>1, <3>2, <3>3, <3>4
  <2> QED
    BY <1>2, <2>1, <2>2 DEF CollatzInv, Z!Running, o
<1>5. CASE Z!Return
  BY <1>2, <1>5 DEF Z!Return, CollatzInv, Z!Running, o
<1> QED
  BY <1>3, <1>4, <1>5 DEF Z!Next

LEMMA CollatzShown == CollatzInv => Z!Convergence
<1> DEFINE o == Z!Orbit(number)
           hits == {k \in 0 .. max_iter : o[k] = 1}
<1> SUFFICES ASSUME CollatzInv, result # Z!Running, exact
             PROVE  IF hits = {} THEN result = -1
                    ELSE result \in hits /\ \A k \in hits : result <= k
  BY DEF Z!Convergence
<1>1. /\ x = o[iter] /\ \A k \in 0 .. iter - 1 : o[k] # 1
      /\ x = 1 \/ iter = max_iter
      /\ result = IF x = 1 THEN iter ELSE -1
      /\ iter \in 0 .. max_iter /\ max_iter \in Nat
  BY ExercisesAssumption DEF CollatzInv
<1> HIDE DEF o
<1>2. \A k \in hits : iter <= k
  BY <1>1
<1>3. CASE x = 1
  BY <1>1, <1>2, <1>3
<1>4. CASE x # 1
  BY <1>1, <1>2, <1>4
<1> QED
  BY <1>3, <1>4

\* For every number, every bound on the turns and every width of an int: the
\* answer is the least number of steps to 1, and -1 exactly if that many turns do
\* not lead there, unless a step overflowed.
THEOREM LeastSteps == Spec => []Convergence
<1> DEFINE Inv == which = "collatz" => CollatzInv
<1>1. AnyInit => Inv
  BY InitCollatz DEF AnyInit
<1>2. Inv /\ [Next]_vars => Inv'
  BY Alone, StepCollatz
<1>3. Inv => Convergence
  BY CollatzShown DEF Convergence
<1> HIDE DEF Inv
<1> QED
  BY <1>1, <1>2, <1>3, PTL DEF Spec
=============================================================================
