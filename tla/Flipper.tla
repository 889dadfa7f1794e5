------------------------------ MODULE Flipper ------------------------------
(***************************************************************************)
(* The directory flipper of cw3/DziwakNorbert-cw03 (flipper.c): every      *)
(* .txt file of one directory is copied, reversed, into another.  The loop *)
(* of reverse_copy is checked in ReverseCopy.  For names of less than four *)
(* characters the test of the ending reads d_reclen and d_type, in front   *)
(* of the name; neither can be the dot it looks for.                       *)
(***************************************************************************)
EXTENDS Integers, Sequences

CONSTANTS Name, Txt,        \* the entries of the directory; those in .txt
          Contents          \* what a file may hold

NoFile == <<"none">>

VARIABLES
    walk,                   \* "walk", or how it ended
    todo,                   \* entries readdir has not returned yet
    unreadable, unwritable, \* files that fopen does not open in either place
    same,                   \* both arguments name one directory
    before, output          \* the giver's files at the start; the receiver's

vars == <<walk, todo, unreadable, unwritable, same, before, output>>

Init ==
    /\ walk \in {"walk", "not opened"} /\ todo = Name
    /\ unreadable \in SUBSET Txt /\ unwritable \in SUBSET Txt
    /\ same \in BOOLEAN
    /\ before \in [Name -> Contents]
    /\ output = IF same THEN before ELSE [f \in Name |-> NoFile]

Flipped(s) == [k \in 1 .. Len(s) |-> s[Len(s) - k + 1]]

Skip(f) ==
    /\ walk = "walk" /\ f \in todo \ Txt
    /\ todo' = todo \ {f}
    /\ UNCHANGED <<walk, unreadable, unwritable, same, before, output>>

\* The receiver is opened, and so emptied, before it is known whether the giver
\* could be; if they are one file there is nothing left to copy.
Received(f) ==
    IF f \in unwritable THEN output[f]
    ELSE IF f \in unreadable \/ same THEN <<>> ELSE Flipped(before[f])

\* Mutant: a file that does not open is passed over.
FlipOn(f) ==
    /\ walk = "walk" /\ f \in todo \cap Txt
    /\ todo' = todo \ {f}
    /\ output' = [output EXCEPT ![f] = Received(f)]
    /\ UNCHANGED <<walk, unreadable, unwritable, same, before>>

\* The first file that does not open ends the walk.
Flip(f) ==
    /\ walk = "walk" /\ f \in todo \cap Txt
    /\ todo' = todo \ {f}
    /\ walk' = IF f \in unreadable \cup unwritable THEN "returned 1" ELSE "walk"
    /\ output' = [output EXCEPT ![f] = Received(f)]
    /\ UNCHANGED <<unreadable, unwritable, same, before>>

EndOfDirectory ==
    /\ walk = "walk" /\ todo = {}
    /\ walk' = "returned 0"
    /\ UNCHANGED <<todo, unreadable, unwritable, same, before, output>>

Next == EndOfDirectory \/ \E f \in Name : Skip(f) \/ Flip(f)

Spec == Init /\ [][Next]_vars

-----------------------------------------------------------------------------
(* Properties *)

\* Between two directories: if 0 is returned every .txt file was flipped; if 1,
\* all that readdir had returned were, but for one, which was emptied or not
\* touched.  Files that were not returned, or are not .txt, are never written.
FlippedUpTo ==
    ~same =>
        LET failed == {f \in Txt \ todo : output[f] # Flipped(before[f])}
        IN /\ \A f \in (Name \ Txt) \cup todo : output[f] = NoFile
           /\ \A f \in failed : output[f] \in {<<>>, NoFile}
           /\ \A f, g \in failed : f = g
           /\ walk \in {"walk", "returned 0"} => failed = {}
           /\ walk = "returned 0" => todo = {}
=============================================================================
