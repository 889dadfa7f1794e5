----------------------------- MODULE Integrals -----------------------------
(***************************************************************************)
(* The integral in processes of cw6/zadanie1 (integrals.c): the parent     *)
(* forks n children, each with a pipe of its own, waits for all of them,   *)
(* and adds up one number from every pipe.  A number is the index of the   *)
(* child that computed it.  Nothing checks fork, wait or read.             *)
(***************************************************************************)
EXTENDS Integers, Sequences

CONSTANT n

Children == 1 .. n
Garbage == 0                \* temp before the first read

VARIABLES
    parent, i,              \* where the parent is, and its loop variable
    child,                  \* each child: "unborn", "running", "wrote" or "dead"
    temp,
    res                     \* the numbers added up, in order

vars == <<parent, i, child, temp, res>>

Init ==
    /\ parent = "fork" /\ i = 1
    /\ child = [c \in Children |-> "unborn"]
    /\ temp = Garbage /\ res = <<>>

\* pipe and fork; a fork that fails takes the branch of the parent, too.
Fork ==
    /\ parent = "fork" /\ i <= n
    /\ \E c \in {"running", "dead"} : child' = [child EXCEPT ![i] = c]
    /\ i' = i + 1
    /\ UNCHANGED <<parent, temp, res>>

Compute(c) ==
    /\ child[c] = "running"
    /\ child' = [child EXCEPT ![c] = "wrote"]
    /\ UNCHANGED <<parent, i, temp, res>>

Die(c) ==
    /\ child[c] = "running"
    /\ child' = [child EXCEPT ![c] = "dead"]
    /\ UNCHANGED <<parent, i, temp, res>>

\* Mutant: the parent waits for results, not for ends.
WaitForResults ==
    /\ parent = "fork" /\ i > n
    /\ \A c \in Children : child[c] = "wrote"
    /\ parent' = "read" /\ i' = 1
    /\ UNCHANGED <<child, temp, res>>

\* wait is called until there is no child left.
Wait ==
    /\ parent = "fork" /\ i > n
    /\ \A c \in Children : child[c] # "running"
    /\ parent' = "read" /\ i' = 1
    /\ UNCHANGED <<child, temp, res>>

\* Mutant: every read is from the first pipe.
ReadFirst ==
    /\ parent = "read" /\ i <= n
    /\ temp' = IF child[1] = "wrote" THEN 1 ELSE temp
    /\ res' = Append(res, temp')
    /\ i' = i + 1
    /\ UNCHANGED <<parent, child>>

\* The pipe of a child that wrote nothing is at its end: read returns 0, and
\* temp is the number of the turn before, which is added once more.
Read ==
    /\ parent = "read" /\ i <= n
    /\ temp' = IF child[i] = "wrote" THEN i ELSE temp
    /\ res' = Append(res, temp')
    /\ i' = i + 1
    /\ UNCHANGED <<parent, child>>

PrintSum ==
    /\ parent = "read" /\ i > n
    /\ parent' = "done"
    /\ UNCHANGED <<i, child, temp, res>>

Parent == Fork \/ Wait \/ Read \/ PrintSum
Next == Parent \/ \E c \in Children : Compute(c) \/ Die(c)

\* Every process runs; a child ends one way or the other: the step it was given
\* is one its loop ends with.
Spec == /\ Init /\ [][Next]_vars
        /\ WF_vars(Parent) /\ \A c \in Children : WF_vars(Compute(c) \/ Die(c))

-----------------------------------------------------------------------------
(* Properties *)

\* A child that dies, or could not be forked, costs its own part of the sum and
\* no other; what is added in its place is a part added already, or what temp
\* held at the start.
OwnPartOnly ==
    \A k \in 1 .. Len(res) :
        IF child[k] = "wrote" THEN res[k] = k
        ELSE res[k] \in {Garbage} \cup {res[j] : j \in 1 .. k - 1}

\* Whatever becomes of the children, the parent ends with n summands.
ParentEnds == <>(parent = "done" /\ Len(res) = n)
=============================================================================
