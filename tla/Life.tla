-------------------------------- MODULE Life --------------------------------
(***************************************************************************)
(* The game of life of cw9 (life.c, grid.c): n threads each compute a      *)
(* share of the next generation from the foreground grid into the          *)
(* background grid and pause; main draws the foreground, signals the       *)
(* threads, sleeps half a second and swaps the two pointers, whether the   *)
(* threads are done or not.  A grid is the set of its live cells.          *)
(***************************************************************************)
EXTENDS Integers, FiniteSets

CONSTANTS grid_width, grid_height,
          MaxThreads,   \* bound: argv[1]
          Patterns,     \* what init_grid may draw by lot
          Garbage       \* what malloc may leave in a grid

Cell == 0 .. grid_width * grid_height - 1
Grids == {0, 1}         \* the two arrays made by create_grid

ASSUME LifeAssumption ==
    /\ grid_width \in Nat \ {0} /\ grid_height \in Nat \ {0}
    /\ MaxThreads \in Nat \ {0}
    /\ Patterns \subseteq SUBSET Cell /\ Garbage \subseteq SUBSET Cell

VARIABLES
    n,                      \* argv[1]
    main, i,                \* where main is, and its loop variable
    grid,                   \* the two arrays
    foreground, background, tmp,
    pc, at, val, dst,       \* each thread: where, its cell, the value, the target
    drawn                   \* history: the grid drawn last, while main has come
                            \* upon every thread in pause() since

pointers == <<foreground, background, tmp>>
thread == <<pc, at, val, dst>>
vars == <<n, main, i, grid, pointers, thread, drawn>>

NotDrawn == {-1}
Thread == 0 .. n - 1

-----------------------------------------------------------------------------
(* grid.c *)

Abs(x) == IF x < 0 THEN -x ELSE x
Row(c) == c \div grid_width
Col(c) == c % grid_width

\* The border is not wrapped around.
Neighbours == [c \in Cell |->
    {d \in Cell \ {c} : Abs(Row(c) - Row(d)) <= 1 /\ Abs(Col(c) - Col(d)) <= 1}]

is_alive(c, live) ==
    LET count == Cardinality(Neighbours[c] \cap live)
    IN count = 3 \/ (count = 2 /\ c \in live)

-----------------------------------------------------------------------------

\* Mutant: ceil does what its author meant.
cells_per_thread_up == (grid_width * grid_height + n - 1) \div n

\* The division is one of integers; ceil comes too late.
cells_per_thread == (grid_width * grid_height) \div n
Start(t) == t * cells_per_thread
End(t) == (t + 1) * cells_per_thread

\* The cells some thread computes.
Covered == 0 .. n * cells_per_thread - 1

Init ==
    /\ n \in 1 .. MaxThreads
    /\ main = "create" /\ i = 0
    /\ grid \in [Grids -> Garbage]
    /\ foreground = 0 /\ background = 1 /\ tmp = 0
    /\ pc = [t \in Thread |-> "off"]
    /\ at = [t \in Thread |-> 0]
    /\ val = [t \in Thread |-> FALSE]
    /\ dst = [t \in Thread |-> 1]
    /\ drawn = NotDrawn

-----------------------------------------------------------------------------
(* update, run by every thread *)

\* Mutant: the neighbours are counted in the grid that is written.
ComputeInPlace(t) ==
    /\ pc[t] = "loop" /\ at[t] < End(t)
    /\ pc' = [pc EXCEPT ![t] = "store"]
    /\ val' = [val EXCEPT ![t] = is_alive(at[t], grid[background])]
    /\ dst' = [dst EXCEPT ![t] = background]
    /\ UNCHANGED <<n, main, i, grid, pointers, at, drawn>>

\* gcc looks up the target of the assignment, then calls is_alive: a thread
\* that is late stores where background pointed when it began the cell.
Compute(t) ==
    /\ pc[t] = "loop" /\ at[t] < End(t)
    /\ pc' = [pc EXCEPT ![t] = "store"]
    /\ val' = [val EXCEPT ![t] = is_alive(at[t], grid[foreground])]
    /\ dst' = [dst EXCEPT ![t] = background]
    /\ UNCHANGED <<n, main, i, grid, pointers, at, drawn>>

Store(t) ==
    /\ pc[t] = "store"
    /\ pc' = [pc EXCEPT ![t] = "loop"]
    /\ at' = [at EXCEPT ![t] = @ + 1]
    /\ grid' = [grid EXCEPT ![dst[t]] = IF val[t] THEN @ \cup {at[t]} ELSE @ \ {at[t]}]
    /\ val' = [val EXCEPT ![t] = FALSE] /\ dst' = [dst EXCEPT ![t] = 1]
    /\ UNCHANGED <<n, main, i, pointers, drawn>>

Pause(t) ==
    /\ pc[t] = "loop" /\ at[t] = End(t)
    /\ pc' = [pc EXCEPT ![t] = "pause"]
    /\ UNCHANGED <<n, main, i, grid, pointers, at, val, dst, drawn>>

-----------------------------------------------------------------------------
(* main *)

Paused(S) == \A t \in S : pc[t] = "pause"

\* The threads run from here on, on whatever malloc left in the grids.
CreateThread ==
    /\ main = "create" /\ i < n
    /\ pc' = [pc EXCEPT ![i] = "loop"]
    /\ at' = [at EXCEPT ![i] = Start(i)]
    /\ i' = i + 1
    /\ UNCHANGED <<n, main, grid, pointers, val, dst, drawn>>

InitGrid ==
    /\ main = "create" /\ i = n
    /\ main' = "draw"
    /\ \E p \in Patterns : grid' = [grid EXCEPT ![foreground] = p]
    /\ UNCHANGED <<n, i, pointers, thread, drawn>>

DrawGrid ==
    /\ main = "draw"
    /\ main' = "kill"
    /\ i' = 0
    /\ drawn' = IF Paused(Thread) THEN grid[foreground] ELSE NotDrawn
    /\ UNCHANGED <<n, grid, pointers, thread>>

\* Mutant: the last thread is left out.
KillAllButOne ==
    /\ main = "kill" /\ i < n
    /\ i' = IF i + 1 = n - 1 THEN n ELSE i + 1
    /\ drawn' = IF Paused({i}) THEN drawn ELSE NotDrawn
    /\ IF pc[i] = "pause"
       THEN pc' = [pc EXCEPT ![i] = "loop"] /\ at' = [at EXCEPT ![i] = Start(i)]
       ELSE UNCHANGED <<pc, at>>
    /\ UNCHANGED <<n, main, grid, pointers, val, dst>>

\* SIGUSR1 ends the pause of thread i; anywhere else its handler does nothing,
\* and the signal is lost.
Kill ==
    /\ main = "kill" /\ i < n
    /\ i' = i + 1
    /\ drawn' = IF Paused({i}) THEN drawn ELSE NotDrawn
    /\ IF pc[i] = "pause"
       THEN pc' = [pc EXCEPT ![i] = "loop"] /\ at' = [at EXCEPT ![i] = Start(i)]
       ELSE UNCHANGED <<pc, at>>
    /\ UNCHANGED <<n, main, grid, pointers, val, dst>>

\* usleep is over: tmp = foreground; foreground = background.
SwapForeground ==
    /\ main = "kill" /\ i = n
    /\ main' = "swap"
    /\ tmp' = foreground
    /\ foreground' = background
    /\ drawn' = IF Paused(Thread) THEN drawn ELSE NotDrawn
    /\ UNCHANGED <<n, i, grid, background, thread>>

SwapBackground ==
    /\ main = "swap"
    /\ main' = "draw"
    /\ background' = tmp
    /\ UNCHANGED <<n, i, grid, foreground, tmp, thread, drawn>>

Main == \/ CreateThread \/ InitGrid \/ DrawGrid \/ Kill
        \/ SwapForeground \/ SwapBackground

Update(t) == Compute(t) \/ Store(t) \/ Pause(t)

Next == Main \/ \E t \in Thread : Update(t)

Spec == Init /\ [][Next]_vars

\* Every thread runs; how long main sleeps is not related to their work.
FairSpec ==
    /\ Spec
    /\ WF_vars(Main)
    /\ \A t \in 0 .. MaxThreads - 1 : WF_vars(t < n /\ Update(t))

-----------------------------------------------------------------------------
(* Properties *)

\* Every variable stays in its range; no thread stores outside the grid.
TypeOK ==
    /\ n \in 1 .. MaxThreads
    /\ main \in {"create", "draw", "kill", "swap"} /\ i \in 0 .. n
    /\ grid \in [Grids -> SUBSET Cell]
    /\ foreground \in Grids /\ background \in Grids /\ tmp \in Grids
    /\ pc \in [Thread -> {"off", "loop", "store", "pause"}]
    /\ at \in [Thread -> Cell \cup {grid_width * grid_height}]
    /\ val \in [Thread -> BOOLEAN]
    /\ dst \in [Thread -> Grids]
    /\ \A t \in Thread : pc[t] # "off" => Start(t) .. End(t) - 1 \subseteq Cell
    /\ drawn \in (SUBSET Cell) \cup {NotDrawn}

\* What is drawn is the generation after the one drawn before, on every cell
\* that has a thread, provided every thread was in pause() at the last drawing,
\* when it was signalled and when the grids were swapped.  Nothing that went wrong in
\* earlier rounds, lost signals, late stores or threads that began on
\* uninitialised grids, matters any more.
Generations ==
    main = "draw" /\ drawn # NotDrawn =>
        grid[foreground] \cap Covered = {c \in Covered : is_alive(c, drawn)}

\* A signal that came too early is made good: a thread in pause() is always
\* woken again, although main never learns what became of its signals.
EveryThreadGoesOn ==
    \A t \in 0 .. MaxThreads - 1 :
        (t < n /\ pc[t] = "pause") ~> (t < n /\ pc[t] = "loop")
=============================================================================
