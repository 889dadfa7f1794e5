---------------------------- MODULE ReverseCopy ----------------------------
(***************************************************************************)
(* The reversing copy of cw3 (zad1.c): once byte by byte, then once more,  *)
(* into a second file, in blocks of 1024 bytes taken from the end.  A file *)
(* is the sequence of its bytes; a receiver is what was written to its     *)
(* stream.  Reads and writes do not fail.                                  *)
(***************************************************************************)
EXTENDS Integers, Sequences

CONSTANTS Byte, BlockSize,      \* 1024
          MaxLength             \* bound: length of the file

VARIABLES
    copier,                     \* where main is
    giver, position,            \* the file, and its position indicator
    i,                          \* the loop variable of reverse_copy
    bytesLeft,
    receiver, receiver2

vars == <<copier, giver, position, i, bytesLeft, receiver, receiver2>>

\* giver is open, and may be empty.  That the first receiver opens is checked,
\* that the second does is not: writing a byte to none is a crash.
Init ==
    /\ copier \in {"bytes", "failed"}
    /\ giver \in UNION {[1 .. k -> Byte] : k \in 0 .. MaxLength}
    /\ position = Len(giver)
    /\ i = Len(giver) - 1
    /\ bytesLeft = Len(giver)
    /\ receiver = <<>> /\ receiver2 = <<>>

\* reverse_copy: seek to i, read one byte, write it.
CopyByte ==
    /\ copier = "bytes" /\ i >= 0
    /\ receiver' = Append(receiver, giver[i + 1])
    /\ position' = i + 1
    /\ i' = i - 1
    /\ UNCHANGED <<copier, giver, bytesLeft, receiver2>>

\* reverse_copy is through; the second copy seeks to the end again.
SecondCopy ==
    /\ copier = "bytes" /\ i < 0
    /\ copier' \in {"blocks"} \cup (IF giver = <<>> THEN {} ELSE {"crashed"})
    /\ position' = Len(giver)
    /\ UNCHANGED <<giver, i, bytesLeft, receiver, receiver2>>

Reversed(s) == [k \in 1 .. Len(s) |-> s[Len(s) - k + 1]]

Size == IF bytesLeft >= BlockSize THEN BlockSize ELSE bytesLeft

\* Mutant: the file is not sought back after the read.
CopyBlockOnce ==
    /\ copier = "blocks" /\ bytesLeft >= 0
    /\ position' = position
    /\ receiver2' = receiver2 \o Reversed(SubSeq(giver, position - Size + 1, position))
    /\ bytesLeft' = bytesLeft - Size
    /\ UNCHANGED <<copier, giver, i, receiver>>

\* One turn of reverse_copy_1024buffer: back by a block, read it, back again,
\* swap its halves, write it.  With nothing left the turns go on for ever.
CopyBlock ==
    /\ copier = "blocks" /\ bytesLeft >= 0
    /\ position' = position - Size
    /\ receiver2' = receiver2 \o Reversed(SubSeq(giver, position - Size + 1, position))
    /\ bytesLeft' = bytesLeft - Size
    /\ UNCHANGED <<copier, giver, i, receiver>>

Next == CopyByte \/ SecondCopy \/ CopyBlock

Spec == Init /\ [][Next]_vars
Fairness == WF_vars(Next)

-----------------------------------------------------------------------------
(* Properties *)

\* The loop invariants: what is written is the reversal of what was passed,
\* and the position indicator stays in step with the counter of either loop,
\* across the end of the file, short last blocks and empty files.
CopiedSoFar ==
    /\ receiver = Reversed(SubSeq(giver, i + 2, Len(giver)))
    /\ receiver2 = Reversed(SubSeq(giver, bytesLeft + 1, Len(giver)))
    /\ copier = "blocks" => position = bytesLeft

\* The second copy is eventually complete and stays so, although its loop does
\* not end: the turns without a byte write nothing.
SecondCopyComplete ==
    copier = "blocks" ~> [](receiver2 = Reversed(giver) /\ receiver = receiver2)
=============================================================================
