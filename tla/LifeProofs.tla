----------------------------- MODULE LifeProofs -----------------------------
(***************************************************************************)
(* The safety of Life for any size of the grid and any number of threads:  *)
(* types (no thread leaves its share of the grid), and that a round in     *)
(* which main finds every thread in pause() draws the next generation.     *)
(***************************************************************************)
EXTENDS Life, TLAPS

-----------------------------------------------------------------------------
(* The shares of the threads *)

Share(t) == Start(t) .. End(t) - 1

LEMMA Multiples ==
    ASSUME NEW a \in Int, NEW b \in Int, NEW k \in Nat, a <= b
    PROVE  a * k <= b * k
BY SMT

\* ceil comes after the division, so the shares together never pass the end.
LEMMA SharesFit ==
    ASSUME n \in Nat \ {0}
    PROVE  /\ cells_per_thread \in Nat
           /\ n * cells_per_thread \in Nat
           /\ n * cells_per_thread <= grid_width * grid_height
<1>1. grid_width * grid_height \in Nat
  BY LifeAssumption
<1>2. ASSUME NEW a \in Nat
      PROVE  a \div n \in Nat /\ n * (a \div n) \in Nat /\ n * (a \div n) <= a
  BY SMT
<1> QED
  BY <1>1, <1>2 DEF cells_per_thread

LEMMA ShareBounds ==
    ASSUME n \in Nat \ {0}, NEW t \in Thread
    PROVE  /\ Start(t) \in Nat /\ End(t) \in Nat
           /\ Start(t) <= End(t) /\ End(t) <= n * cells_per_thread
           /\ End(t) <= grid_width * grid_height
           /\ Share(t) \subseteq Cell
<1>1. t \in Int /\ 0 <= t /\ t + 1 <= n /\ n \in Int
  BY DEF Thread
<1>2. /\ cells_per_thread \in Nat
      /\ 0 * cells_per_thread <= t * cells_per_thread
      /\ t * cells_per_thread <= (t + 1) * cells_per_thread
      /\ (t + 1) * cells_per_thread <= n * cells_per_thread
  BY <1>1, SharesFit, Multiples
<1>3. grid_width * grid_height \in Nat
  BY LifeAssumption
<1> QED
  BY <1>1, <1>2, <1>3, SharesFit DEF Start, End, Share, Cell

\* No cell is computed by two threads.
LEMMA SharesApart ==
    ASSUME n \in Nat \ {0}, NEW t \in Thread, NEW u \in Thread, t # u
    PROVE  Share(t) \cap Share(u) = {}
<1>1. cells_per_thread \in Nat /\ t \in Int /\ u \in Int
  BY SharesFit DEF Thread
<1>2. t + 1 <= u \/ u + 1 <= t
  BY <1>1
<1>3. End(t) <= Start(u) \/ End(u) <= Start(t)
  BY <1>1, <1>2, Multiples DEF Start, End
<1> QED
  BY <1>3, ShareBounds DEF Share

\* Every covered cell is computed by some thread.
LEMMA SharesCover ==
    ASSUME n \in Nat \ {0}, NEW c \in Covered
    PROVE  \E t \in Thread : c \in Share(t)
<1> DEFINE k == cells_per_thread
           t == c \div k
<1>1. k \in Nat /\ c \in Nat /\ c < n * k
  BY SharesFit DEF Covered
<1>2. k > 0
  BY <1>1
<1> HIDE DEF k
<1>3. t \in Nat /\ t * k <= c /\ c < (t + 1) * k
  BY <1>1, <1>2
<1> HIDE DEF t
<1>4. t < n
  <2>1. ASSUME n <= t PROVE FALSE
    BY <1>1, <1>3, <2>1, Multiples
  <2> QED
    BY <1>3, <2>1
<1>5. t \in Thread
  BY <1>3, <1>4 DEF Thread
<1>6. c \in Share(t)
  BY <1>1, <1>3 DEF k, Share, Start, End
<1> QED
  BY <1>5, <1>6

-----------------------------------------------------------------------------
(* Types *)

\* A thread stays in its share, and pauses at its end.
InShare ==
    \A t \in Thread :
        /\ pc[t] \in {"loop", "store"} => at[t] \in Start(t) .. End(t)
        /\ pc[t] = "store" => at[t] < End(t)
        /\ pc[t] = "pause" => at[t] = End(t)
        /\ pc[t] = "off" => at[t] = 0

\* main turns the pointers over in two steps; between them both name the
\* new foreground.
Pointers ==
    IF main = "swap" THEN foreground = background /\ tmp # foreground
                     ELSE foreground # background

TypeInv == TypeOK /\ InShare /\ Pointers

LEMMA Threads ==
    ASSUME TypeOK
    PROVE  n \in Nat \ {0} /\ grid_width * grid_height \in Nat
BY LifeAssumption DEF TypeOK

LEMMA InitTypeInv == Init => TypeInv
<1> SUFFICES ASSUME Init PROVE TypeInv
  OBVIOUS
<1>1. grid_width * grid_height \in Nat /\ 0 \in Cell \cup {grid_width * grid_height}
  BY LifeAssumption DEF Cell
<1>2. n \in Nat \ {0} /\ i \in 0 .. n /\ n \in 1 .. MaxThreads
  BY LifeAssumption DEF Init
<1>3. TypeOK
  BY <1>1, <1>2, LifeAssumption DEF Init, TypeOK, Grids, NotDrawn
<1> QED
  BY <1>3 DEF Init, TypeInv, InShare, Pointers

LEMMA ComputeTypeInv ==
    ASSUME TypeInv, NEW t \in Thread, Compute(t)
    PROVE  TypeInv'
<1>1. TypeOK'
  BY DEF TypeInv, TypeOK, Compute, Thread, Start, End, cells_per_thread, is_alive,
         pointers
<1>2. InShare'
  BY DEF TypeInv, TypeOK, InShare, Compute, Thread, Start, End, cells_per_thread
<1> QED
  BY <1>1, <1>2 DEF TypeInv, Pointers, Compute, pointers

LEMMA StoreTypeInv ==
    ASSUME TypeInv, NEW t \in Thread, Store(t)
    PROVE  TypeInv'
<1>1. at[t] \in Share(t) /\ at[t] \in Cell /\ at[t] + 1 \in Start(t) .. End(t)
  BY Threads, ShareBounds DEF TypeInv, TypeOK, InShare, Store, Share
<1>2. at[t] + 1 \in Cell \cup {grid_width * grid_height}
  BY <1>1, Threads DEF TypeInv, Cell
<1>3. TypeOK'
  BY <1>1, <1>2 DEF TypeInv, TypeOK, Store, Thread, Start, End, cells_per_thread,
                    pointers, Grids
<1>4. InShare'
  BY <1>1 DEF TypeInv, TypeOK, InShare, Store, Thread, Start, End, cells_per_thread
<1> QED
  BY <1>3, <1>4 DEF TypeInv, Pointers, Store, pointers

LEMMA PauseTypeInv ==
    ASSUME TypeInv, NEW t \in Thread, Pause(t)
    PROVE  TypeInv'
<1>1. TypeOK'
  BY DEF TypeInv, TypeOK, Pause, Thread, Start, End, cells_per_thread, pointers
<1>2. InShare'
  BY DEF TypeInv, TypeOK, InShare, Pause, Thread, Start, End, cells_per_thread
<1> QED
  BY <1>1, <1>2 DEF TypeInv, Pointers, Pause, pointers

\* A thread begins at the first cell of its share.
LEMMA BeginTypeInv ==
    ASSUME TypeInv, CreateThread \/ Kill
    PROVE  TypeInv'
<1>1. i \in Thread /\ i + 1 \in 0 .. n /\ n' = n
  BY Threads DEF TypeInv, TypeOK, CreateThread, Kill, Thread
<1>2. /\ Start(i) \in Start(i) .. End(i) /\ Share(i) \subseteq Cell
      /\ Start(i) \in Cell \cup {grid_width * grid_height}
  BY <1>1, Threads, ShareBounds DEF TypeInv, Cell
<1>3. \/ pc' = [pc EXCEPT ![i] = "loop"] /\ at' = [at EXCEPT ![i] = Start(i)]
      \/ pc' = pc /\ at' = at
  BY DEF CreateThread, Kill
<1>4. TypeOK'
  BY <1>1, <1>2, <1>3
     DEF TypeInv, TypeOK, CreateThread, Kill, Thread, Start, End, Share,
         cells_per_thread, pointers
<1>5. InShare'
  BY <1>1, <1>2, <1>3
     DEF TypeInv, TypeOK, InShare, Thread, Start, End, cells_per_thread
<1> QED
  BY <1>4, <1>5 DEF TypeInv, Pointers, CreateThread, Kill, pointers

LEMMA MainTypeInv ==
    ASSUME TypeInv, InitGrid \/ DrawGrid \/ SwapForeground \/ SwapBackground
    PROVE  TypeInv'
<1>1. n' = n /\ pc' = pc /\ at' = at /\ val' = val /\ dst' = dst
  BY DEF InitGrid, DrawGrid, SwapForeground, SwapBackground, thread
<1>2. InShare'
  BY <1>1 DEF TypeInv, InShare, Thread, Start, End, cells_per_thread
<1>3. i' \in 0 .. n
  BY Threads DEF TypeInv, TypeOK, InitGrid, DrawGrid, SwapForeground, SwapBackground
<1>4. grid' \in [Grids -> SUBSET Cell]
  BY LifeAssumption DEF TypeInv, TypeOK, InitGrid, DrawGrid, SwapForeground,
     SwapBackground
<1>5. drawn' \in (SUBSET Cell) \cup {NotDrawn}
  BY DEF TypeInv, TypeOK, InitGrid, DrawGrid, SwapForeground, SwapBackground
<1>6. TypeOK'
  BY <1>1, <1>3, <1>4, <1>5
     DEF TypeInv, TypeOK, InitGrid, DrawGrid, SwapForeground, SwapBackground,
         pointers, Thread, Start, End, cells_per_thread
<1>7. Pointers'
  BY DEF TypeInv, TypeOK, Pointers, InitGrid, DrawGrid, SwapForeground, SwapBackground,
         pointers, Grids
<1> QED
  BY <1>2, <1>6, <1>7 DEF TypeInv

LEMMA StepTypeInv == TypeInv /\ [Next]_vars => TypeInv'
<1> SUFFICES ASSUME TypeInv, [Next]_vars PROVE TypeInv'
  OBVIOUS
<1>1. CASE UNCHANGED vars
  BY <1>1 DEF vars, thread, pointers, TypeInv, TypeOK, InShare, Pointers, Thread,
              Start, End, cells_per_thread
<1>2. CASE Main
  BY <1>2, BeginTypeInv, MainTypeInv DEF Main
<1>3. ASSUME NEW t \in Thread, Update(t)
      PROVE  TypeInv'
  BY <1>3, ComputeTypeInv, StoreTypeInv, PauseTypeInv DEF Update
<1> QED
  BY <1>1, <1>2, <1>3 DEF Next

\* Every variable stays in its range, for any grid and any number of threads: no
\* thread stores outside the grid, however late it is.
THEOREM TypeCorrect == Spec => []TypeOK
<1>1. TypeInv => TypeOK
  BY DEF TypeInv
<1> QED
  BY InitTypeInv, StepTypeInv, <1>1, PTL DEF Spec

-----------------------------------------------------------------------------
(* Generations *)

\* c of grid g is what the rule makes of the grid drawn last.
IsNext(c, g) == c \in grid[g] <=> is_alive(c, drawn)

\* A thread that was woken has finished the cells before its own and is about to
\* store the right value for that one, at the right place.
Working(t) ==
    /\ \A c \in Start(t) .. at[t] - 1 : IsNext(c, background)
    /\ pc[t] = "store" => dst[t] = background /\ (val[t] <=> is_alive(at[t], drawn))

\* While drawn is kept, the grid drawn is still there, threads not signalled yet
\* sleep, and the others work.
Signalling ==
    main = "kill" /\ drawn # NotDrawn =>
        /\ grid[foreground] = drawn
        /\ \A t \in Thread : t < i => Working(t)
        /\ \A t \in Thread : t >= i => pc[t] = "pause"

\* From the swap on everybody sleeps and every share is done.
Swapped ==
    main \in {"swap", "draw"} /\ drawn # NotDrawn =>
        \A t \in Thread : pc[t] = "pause" /\ \A c \in Share(t) : IsNext(c, foreground)

RoundInv ==
    /\ main = "create" => drawn = NotDrawn
    /\ Signalling
    /\ Swapped

LifeInv == TypeInv /\ RoundInv

LEMMA InitRound == Init => RoundInv
BY DEF Init, RoundInv, Signalling, Swapped

\* Nothing is claimed of a round in which main met a thread at work.
LEMMA Unknown == drawn' = NotDrawn => RoundInv'
BY DEF RoundInv, Signalling, Swapped

LEMMA SameRule ==
    ASSUME drawn' = drawn
    PROVE  \A c : is_alive(c, drawn)' <=> is_alive(c, drawn)
BY DEF is_alive

\* A thread at work in a good round has been signalled, and main waits for the
\* end of its sleep.
LEMMA Awake ==
    ASSUME TypeOK, RoundInv, drawn # NotDrawn,
           NEW t \in Thread, pc[t] # "pause"
    PROVE  main = "kill" /\ t < i /\ grid[foreground] = drawn /\ Working(t)
BY DEF TypeOK, RoundInv, Signalling, Swapped, Thread

\* What one thread does is no matter to the others, if it leaves their cells and
\* the grid drawn alone.
LEMMA OthersKeep ==
    ASSUME TypeInv, RoundInv, drawn # NotDrawn, UNCHANGED <<n, main, i, pointers, drawn>>,
           NEW t \in Thread, pc[t] # "pause",
           grid'[foreground] = drawn,
           \A u \in Thread \ {t} :
               /\ pc'[u] = pc[u] /\ at'[u] = at[u] /\ val'[u] = val[u] /\ dst'[u] = dst[u]
               /\ \A c \in Share(u) : c \in grid'[background] <=> c \in grid[background],
           Working(t)'
    PROVE  RoundInv'
<1>1. main = "kill" /\ t < i /\ grid[foreground] = drawn
  BY Awake DEF TypeInv
<1>2. ASSUME NEW u \in Thread \ {t}, Working(u)
      PROVE  Working(u)'
  <2>1. Start(u) .. at[u] - 1 \subseteq Share(u)
    BY Threads, ShareBounds DEF TypeInv, TypeOK, InShare, Share
  <2> QED
    BY <1>2, <2>1, SameRule DEF Working, IsNext, pointers, Start, cells_per_thread
<1> QED
  BY <1>1, <1>2 DEF RoundInv, Signalling, Swapped, Thread, pointers

LEMMA ThreadRound ==
    ASSUME TypeInv, RoundInv, NEW t \in Thread, Update(t)
    PROVE  RoundInv'
<1>1. drawn' = drawn /\ pc[t] # "pause"
  BY DEF Update, Compute, Store, Pause
<1>2. CASE drawn = NotDrawn
  BY <1>1, <1>2, Unknown
<1>3. CASE drawn # NotDrawn
  <2>1. main = "kill" /\ t < i /\ grid[foreground] = drawn /\ Working(t)
    BY <1>1, <1>3, Awake DEF TypeInv
  <2>2. n \in Nat \ {0} /\ foreground # background /\ foreground \in Grids
        /\ background \in Grids
    BY <2>1, Threads DEF TypeInv, TypeOK, Pointers
  <2>3. UNCHANGED <<n, main, i, pointers, drawn>>
    BY DEF Update, Compute, Store, Pause
  <2>4. \A u \in Thread \ {t} :
           pc'[u] = pc[u] /\ at'[u] = at[u] /\ val'[u] = val[u] /\ dst'[u] = dst[u]
    BY DEF TypeInv, TypeOK, Update, Compute, Store, Pause
  <2>5. CASE Compute(t)
    <3>1. /\ pc' = [pc EXCEPT ![t] = "store"]
          /\ val' = [val EXCEPT ![t] = is_alive(at[t], grid[foreground])]
          /\ dst' = [dst EXCEPT ![t] = background]
          /\ grid' = grid /\ at' = at
      BY <2>5 DEF Compute
    <3>2. val'[t] = is_alive(at[t], drawn) /\ dst'[t] = background
      BY <2>1, <3>1 DEF TypeInv, TypeOK
    <3>3. Working(t)'
      BY <2>1, <2>3, <3>1, <3>2, SameRule
         DEF Working, IsNext, pointers, Start, cells_per_thread
    <3> QED
      BY <1>1, <1>3, <2>1, <2>3, <2>4, <3>1, <3>3, OthersKeep
  <2>6. CASE Store(t)
    <3>1. at[t] \in Share(t)
      BY <2>2, <2>6, ShareBounds DEF TypeInv, TypeOK, InShare, Store, Share
    <3>2. dst[t] = background /\ (val[t] <=> is_alive(at[t], drawn))
      BY <2>1, <2>6 DEF Working, Store
    <3>3. grid' = [grid EXCEPT ![background] =
                     IF val[t] THEN @ \cup {at[t]} ELSE @ \ {at[t]}]
      BY <2>6, <3>2 DEF Store
    <3>4. grid'[foreground] = drawn
      BY <2>1, <2>2, <3>3 DEF TypeInv, TypeOK
    <3>5. /\ at[t] \in grid'[background] <=> is_alive(at[t], drawn)
          /\ \A c : c # at[t] => (c \in grid'[background] <=> c \in grid[background])
      BY <2>2, <3>2, <3>3 DEF TypeInv, TypeOK
    <3>6. \A u \in Thread \ {t} : \A c \in Share(u) :
             c \in grid'[background] <=> c \in grid[background]
      BY <2>2, <3>1, <3>5, SharesApart
    <3>7. at'[t] = at[t] + 1 /\ pc'[t] = "loop"
      BY <2>6 DEF TypeInv, TypeOK, Store
    <3>8. Working(t)'
      <4>1. ASSUME NEW c \in Start(t) .. at[t]
            PROVE  IsNext(c, background)'
        <5>1. CASE c = at[t]
          BY <2>3, <3>5, <5>1, SameRule DEF IsNext, pointers
        <5>2. CASE c # at[t]
          <6>1. c \in Start(t) .. at[t] - 1
            BY <3>1, <4>1, <5>2, <2>2, ShareBounds DEF Share
          <6> QED
            BY <2>1, <2>3, <3>5, <5>2, <6>1, SameRule DEF Working, IsNext, pointers
        <5> QED
          BY <5>1, <5>2
      <4>2. (Start(t) .. at[t] - 1)' = Start(t) .. at[t]
        BY <2>2, <2>3, <3>1, <3>7, ShareBounds DEF Share, Start, cells_per_thread
      <4> QED
        BY <3>7, <4>1, <4>2 DEF Working
    <3> QED
      BY <1>1, <1>3, <2>3, <2>4, <3>4, <3>6, <3>8, OthersKeep
  <2>7. CASE Pause(t)
    <3>1. grid' = grid /\ at' = at /\ pc'[t] = "pause"
      BY <2>7 DEF TypeInv, TypeOK, Pause
    <3>2. Working(t)'
      BY <2>1, <2>3, <3>1, SameRule DEF Working, IsNext, pointers, Start, cells_per_thread
    <3> QED
      BY <1>1, <1>3, <2>1, <2>3, <2>4, <3>1, <3>2, OthersKeep
  <2> QED
    BY <2>5, <2>6, <2>7 DEF Update
<1> QED
  BY <1>2, <1>3

\* The round begins with everybody asleep.
LEMMA DrawRound ==
    ASSUME TypeInv, RoundInv, DrawGrid
    PROVE  RoundInv'
<1>1. CASE Paused(Thread)
  BY <1>1 DEF DrawGrid, Paused, RoundInv, Signalling, Swapped, TypeInv, TypeOK, Thread,
              pointers, thread
<1>2. CASE ~Paused(Thread)
  BY <1>2, Unknown DEF DrawGrid
<1> QED
  BY <1>1, <1>2

\* The thread that is signalled has done nothing yet.
LEMMA KillRound ==
    ASSUME TypeInv, RoundInv, Kill
    PROVE  RoundInv'
<1>1. CASE drawn' = NotDrawn
  BY <1>1, Unknown
<1>2. CASE drawn' # NotDrawn
  <2>1. drawn' = drawn /\ pc[i] = "pause"
    BY <1>2 DEF Kill, Paused
  <2>2. /\ main = "kill" /\ main' = "kill" /\ i' = i + 1 /\ i \in Thread
        /\ UNCHANGED <<n, grid, pointers, val, dst>>
        /\ pc' = [pc EXCEPT ![i] = "loop"]
        /\ at' = [at EXCEPT ![i] = Start(i)]
    BY <2>1, Threads DEF Kill, TypeInv, TypeOK, Thread
  <2>3. /\ grid[foreground] = drawn
        /\ \A t \in Thread : t < i => Working(t)
        /\ \A t \in Thread : t >= i => pc[t] = "pause"
    BY <1>2, <2>1, <2>2 DEF RoundInv, Signalling
  <2>4. ASSUME NEW t \in Thread, t = i
        PROVE  Working(t)'
    <3>1. /\ at'[t] = Start(t) /\ pc'[t] = "loop"
          /\ Start(t) \in Int /\ Start(t)' = Start(t)
      BY <2>2, <2>4, Threads, ShareBounds DEF TypeInv, TypeOK, Start, cells_per_thread
    <3>2. (Start(t) .. at[t] - 1)' = {}
      BY <3>1
    <3> QED
      BY <3>1, <3>2 DEF Working
  <2>5. ASSUME NEW t \in Thread, t < i
        PROVE  Working(t)'
    <3>1. Working(t) /\ pc'[t] = pc[t] /\ at'[t] = at[t]
      BY <2>2, <2>3, <2>5 DEF TypeInv, TypeOK
    <3> QED
      BY <2>1, <2>2, <3>1, SameRule DEF Working, IsNext, pointers, Start, cells_per_thread
  <2>6. \A t \in Thread : t >= i + 1 => pc'[t] = "pause"
    BY <2>2, <2>3 DEF TypeInv, TypeOK, Thread
  <2> QED
    BY <2>1, <2>2, <2>3, <2>4, <2>5, <2>6
       DEF RoundInv, Signalling, Swapped, Thread, pointers
<1> QED
  BY <1>1, <1>2

\* When everybody sleeps again every share is done.
LEMMA SwapRound ==
    ASSUME TypeInv, RoundInv, SwapForeground
    PROVE  RoundInv'
<1>1. CASE drawn' = NotDrawn
  BY <1>1, Unknown
<1>2. CASE drawn' # NotDrawn
  <2>1. /\ drawn' = drawn /\ main = "kill" /\ main' = "swap" /\ i = n
        /\ foreground' = background
        /\ UNCHANGED <<n, grid, thread>>
        /\ \A t \in Thread : pc[t] = "pause"
    BY <1>2 DEF SwapForeground, Paused
  <2>2. \A t \in Thread : Working(t) /\ at[t] = End(t)
    BY <1>2, <2>1 DEF RoundInv, Signalling, Thread, TypeInv, TypeOK, InShare
  <2>3. \A t \in Thread : \A c \in Share(t) : IsNext(c, background)
    BY <2>2 DEF Working, Share
  <2>4. ASSUME NEW t \in Thread, NEW c \in Share(t)
        PROVE  IsNext(c, foreground)'
    BY <2>1, <2>3, <2>4, SameRule DEF IsNext
  <2>5. Thread' = Thread /\ \A t \in Thread : Share(t)' = Share(t)
    BY <2>1 DEF Thread, Share, Start, End, cells_per_thread
  <2> QED
    BY <2>1, <2>4, <2>5 DEF RoundInv, Signalling, Swapped, thread
<1> QED
  BY <1>1, <1>2

LEMMA SwappedRound ==
    ASSUME TypeInv, RoundInv, SwapBackground
    PROVE  RoundInv'
<1>1. main = "swap" /\ main' = "draw" /\ UNCHANGED <<n, grid, foreground, thread, drawn>>
  BY DEF SwapBackground
<1>2. Thread' = Thread /\ \A t \in Thread : Share(t)' = Share(t)
  BY <1>1 DEF Thread, Share, Start, End, cells_per_thread
<1> QED
  BY <1>1, <1>2, SameRule DEF RoundInv, Signalling, Swapped, IsNext, thread

LEMMA StepRound == TypeInv /\ RoundInv /\ [Next]_vars => RoundInv'
<1> SUFFICES ASSUME TypeInv, RoundInv, [Next]_vars PROVE RoundInv'
  OBVIOUS
<1>1. CASE UNCHANGED vars
  <2>1. Thread' = Thread /\ \A t \in Thread : Share(t)' = Share(t)
    BY <1>1 DEF vars, Thread, Share, Start, End, cells_per_thread
  <2> QED
    BY <1>1, <2>1, SameRule
       DEF vars, pointers, thread, RoundInv, Signalling, Swapped, Working, IsNext,
           Start, cells_per_thread
<1>2. CASE CreateThread \/ InitGrid
  <2>1. drawn' = NotDrawn
    BY <1>2 DEF CreateThread, InitGrid, RoundInv
  <2> QED
    BY <2>1, Unknown
<1>3. CASE DrawGrid \/ Kill \/ SwapForeground \/ SwapBackground
  BY <1>3, DrawRound, KillRound, SwapRound, SwappedRound
<1>4. ASSUME NEW t \in Thread, Update(t)
      PROVE  RoundInv'
  BY <1>4, ThreadRound
<1> QED
  BY <1>1, <1>2, <1>3, <1>4 DEF Next, Main

LEMMA NextGeneration == TypeInv /\ RoundInv => Generations
<1> SUFFICES ASSUME TypeInv, RoundInv, main = "draw", drawn # NotDrawn
             PROVE  grid[foreground] \cap Covered = {c \in Covered : is_alive(c, drawn)}
  BY DEF Generations
<1>1. \A t \in Thread : \A c \in Share(t) : c \in grid[foreground] <=> is_alive(c, drawn)
  BY DEF RoundInv, Swapped, IsNext
<1>2. \A c \in Covered : c \in grid[foreground] <=> is_alive(c, drawn)
  BY <1>1, Threads, SharesCover DEF TypeInv
<1> QED
  BY <1>2

\* For any grid, any number of threads and whatever happened before: a round in
\* which main finds every thread in pause(), at the drawing, at the signals and at
\* the swap, draws the next generation on every cell that has a thread.
THEOREM RoundsDrawGenerations == Spec => []Generations
BY InitTypeInv, StepTypeInv, InitRound, StepRound, NextGeneration, PTL DEF Spec
=============================================================================
