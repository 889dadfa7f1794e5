------------------------------ MODULE Collatz ------------------------------
(***************************************************************************)
(* test_collatz_convergence of cw2/collatzlib (collatz.c), as its client   *)
(* calls it: how many steps of the Collatz iteration lead from a number to *)
(* 1.  An int has Bits bits here, and overflows as the machine's does.     *)
(***************************************************************************)
EXTENDS Integers

CONSTANTS Bits,             \* 32
          MaxIter           \* bound: max_iter

Int_ == -(2 ^ (Bits - 1)) .. 2 ^ (Bits - 1) - 1

\* The int a machine word of Bits bits stands for.
Wrap(v) == ((v + 2 ^ (Bits - 1)) % (2 ^ Bits)) - 2 ^ (Bits - 1)

VARIABLES
    number, max_iter,       \* what client.c reads
    x, iter,                \* input and iter of test_collatz_convergence
    result,
    exact                   \* history: no step has overflowed

vars == <<number, max_iter, x, iter, result, exact>>

Running == -2

Init ==
    /\ number \in Int_ /\ max_iter \in 0 .. MaxIter
    /\ x = number /\ iter = 0
    /\ result = Running
    /\ exact = TRUE

\* collatz_conjecture, in integers without bounds.
collatz_conjecture(v) == IF v % 2 = 0 THEN v \div 2 ELSE 3 * v + 1

Iterate ==
    /\ result = Running
    /\ x # 1 /\ iter < max_iter
    /\ iter' = iter + 1
    /\ x' = Wrap(collatz_conjecture(x))
    /\ exact' = (exact /\ x' = collatz_conjecture(x))
    /\ UNCHANGED <<number, max_iter, result>>

\* Mutant: running out of turns is taken for failure.
ReturnLate ==
    /\ result = Running
    /\ x = 1 \/ iter >= max_iter
    /\ result' = IF iter < max_iter THEN iter ELSE -1
    /\ UNCHANGED <<number, max_iter, x, iter, exact>>

Return ==
    /\ result = Running
    /\ x = 1 \/ iter >= max_iter
    /\ result' = IF x = 1 THEN iter ELSE -1
    /\ UNCHANGED <<number, max_iter, x, iter, exact>>

Next == Iterate \/ Return

Spec == Init /\ [][Next]_vars

-----------------------------------------------------------------------------
(* Properties *)

\* The k-th iterate of v.
Orbit(v) ==
    LET o[k \in 0 .. MaxIter] == IF k = 0 THEN v ELSE collatz_conjecture(o[k - 1])
    IN o

\* The answer is the least number of steps to 1, and -1 exactly if max_iter
\* steps do not lead there, for negative numbers and zero too, unless a step
\* left the range of int.
Convergence ==
    result # Running /\ exact =>
        LET hits == {k \in 0 .. max_iter : Orbit(number)[k] = 1}
        IN IF hits = {} THEN result = -1
           ELSE result \in hits /\ \A k \in hits : result <= k
=============================================================================
