----------------------------- MODULE GridBarrier -----------------------------
(***************************************************************************)
(* The grid barrier NV_GBAR is printed as (src/src/nvidia/emit.c): two     *)
(* words of global memory, a count of the blocks that came and a           *)
(* generation, and a bar.sync of the block before and after.  One thread   *)
(* of each block arrives for the block; the last block to arrive zeroes    *)
(* the count and moves the generation on, which the others spin on.  The   *)
(* words outlive the launch, so that the generation wraps.  Memory is      *)
(* sequentially consistent: what the acquire and release of the PTX are    *)
(* for is taken as given.                                                  *)
(***************************************************************************)
EXTENDS Integers, FiniteSets, FiniteSetTheorems, TLAPS

CONSTANTS Blocks, Threads,  \* the grid: blocks, and the threads of each
          Leader,           \* the thread of a block whose tid is 0
          Resident,         \* how many blocks the device holds at once
          Gens,             \* the generations there are, 2^32 in the code
          Rounds            \* how many barriers the kernel runs through

ASSUME GridAssumption == /\ IsFiniteSet(Blocks) /\ Blocks # {} /\ Leader \in Threads
                         /\ Gens \in Nat \ {0, 1} /\ Rounds \in Nat
(* What cuLaunchCooperativeKernel promises, and a plain launch does not. *)
ASSUME Cooperative == Resident >= Cardinality(Blocks)

Grid == Blocks \X Threads
TheBlock(b) == {b} \X Threads

VARIABLES started,     \* the blocks that the device has taken
          count, gen,  \* $bgbar[0] and $bgbar[1]
          waiting,     \* the threads in a bar.sync
          pc, saved,   \* of each thread: where it is; of each block: %r_gb2
          came, left   \* how many grid barriers a thread came to, has left
vars == << started, count, gen, waiting, pc, saved, came, left >>

Init == /\ started = {} /\ waiting = {} /\ pc = [t \in Grid |-> "run"]
        /\ count = 0 /\ gen = 0 /\ saved = [b \in Blocks |-> 0]
        /\ came = [t \in Grid |-> 0] /\ left = [t \in Grid |-> 0]

Finished(b) == \A t \in TheBlock(b) : left[t] = Rounds
(* The device takes a block when it has room for one. *)
Start(b) == /\ b \notin started
            /\ Cardinality({c \in started : ~Finished(c)}) < Resident
            /\ started' = started \cup {b}
            /\ UNCHANGED << count, gen, waiting, pc, saved, came, left >>

At(t, p) == pc[t] = p /\ t \notin waiting
Goto(t, p) == pc' = [pc EXCEPT ![t] = p]

(* bar.sync: every thread of the block has to come before any goes on. *)
Sync(t) == /\ waiting' = waiting \cup {t}
           /\ UNCHANGED << started, count, gen, saved, left >>
Head(t) == /\ At(t, "run") /\ t[1] \in started /\ came[t] < Rounds
           /\ Sync(t) /\ Goto(t, "head") /\ came' = [came EXCEPT ![t] = @ + 1]
Tail(t) == /\ At(t, "sync")
           /\ Sync(t) /\ Goto(t, "tail") /\ UNCHANGED came
Open(b) == /\ TheBlock(b) \subseteq waiting /\ waiting' = waiting \ TheBlock(b)
           /\ pc' = [t \in Grid |-> IF t \notin TheBlock(b) THEN pc[t]
                                    ELSE IF pc[t] = "tail" THEN "run"
                                    ELSE IF t[2] = Leader THEN "load" ELSE "sync"]
           /\ left' = [t \in Grid |-> IF t \in TheBlock(b) /\ pc[t] = "tail" THEN came[t] ELSE left[t]]
           /\ UNCHANGED << started, count, gen, saved, came >>

Local == << started, waiting, came, left >>
Load(t) == /\ At(t, "load") /\ saved' = [saved EXCEPT ![t[1]] = gen] /\ Goto(t, "add")
           /\ UNCHANGED << count, gen, Local >>
(* The count before the add tells the last block to come. *)
LastTooEarly(old) == old = Cardinality(Blocks) - 2
Last(old) == old = Cardinality(Blocks) - 1
Add(t) == /\ At(t, "add") /\ count' = count + 1
          /\ Goto(t, IF Last(count) THEN "reset" ELSE "spin")
          /\ UNCHANGED << gen, saved, Local >>
NoReset(t) == /\ At(t, "reset") /\ Goto(t, "bump")
              /\ UNCHANGED << count, gen, saved, Local >>
Reset(t) == /\ At(t, "reset") /\ count' = 0 /\ Goto(t, "bump")
            /\ UNCHANGED << gen, saved, Local >>
Bump(t) == /\ At(t, "bump") /\ gen' = (gen + 1) % Gens /\ Goto(t, "sync")
           /\ UNCHANGED << count, saved, Local >>
Spin(t) == /\ At(t, "spin") /\ Goto(t, IF gen = saved[t[1]] THEN "spin" ELSE "sync")
           /\ UNCHANGED << count, gen, saved, Local >>

Thread(t) == Head(t) \/ Tail(t) \/ Load(t) \/ Add(t) \/ Reset(t) \/ Bump(t) \/ Spin(t)
Done == (\A b \in Blocks : Finished(b)) /\ UNCHANGED vars
Next == (\E b \in Blocks : Start(b) \/ Open(b)) \/ (\E t \in Grid : Thread(t)) \/ Done

(* The device goes on with every block it holds and every thread of one. *)
Fairness == /\ \A b \in Blocks : WF_vars(Start(b)) /\ WF_vars(Open(b))
            /\ \A t \in Grid : WF_vars(Thread(t))
Spec == Init /\ [][Next]_vars /\ Fairness

(***************************************************************************)
(* No thread goes past a grid barrier before every thread of the grid has  *)
(* come to it, whatever block it is of and however many barriers before:   *)
(* what the two words and the two bar.syncs do amounts to a Rendezvous.    *)
(***************************************************************************)
Barrier == INSTANCE Rendezvous
ARendezvous == Barrier!Spec

(***************************************************************************)
(* With all blocks on the device every thread gets through every barrier:  *)
(* no block sleeps through a generation, none is counted twice, and the    *)
(* count is ready for the next barrier before anyone can come to it.       *)
(***************************************************************************)
AllThrough == <>(\A t \in Grid : left[t] = Rounds)

-----------------------------------------------------------------------------
(***************************************************************************)
(* The grid barrier implements a Rendezvous for every grid, every number   *)
(* of barriers and every number of generations above one.                  *)
(***************************************************************************)
Lead(b) == << b, Leader >>
Outside == {"run", "head"}
ForTheBlock == {"load", "add", "reset", "bump", "spin"}
Places == Outside \cup ForTheBlock \cup {"sync", "tail"}

(* The shapes of the variables. *)
Shapes ==
  /\ waiting \subseteq Grid /\ pc \in [Grid -> Places]
  /\ count \in Nat /\ gen \in 0 .. Gens - 1 /\ saved \in [Blocks -> 0 .. Gens - 1]
  /\ came \in [Grid -> Nat] /\ left \in [Grid -> Nat]

(* A thread: it waits in a bar.sync or not, it is in a barrier or not, and *)
(* only the thread whose tid is 0 touches the two words.                   *)
OfThreads ==
  \A t \in Grid :
    /\ t \in waiting <=> pc[t] \in {"head", "tail"}
    /\ came[t] = IF pc[t] = "run" THEN left[t] ELSE left[t] + 1
    /\ pc[t] \in ForTheBlock => t[2] = Leader

(* A block: its threads are on the same side of the first bar.sync and     *)
(* have left as many barriers.                                             *)
OfBlocks ==
  \A t, u \in Grid : t[1] = u[1] =>
    /\ left[t] = left[u]
    /\ pc[t] \in Outside => pc[u] \in Outside

(* The blocks that are counted in barrier n. *)
Arrived(n) == {b \in Blocks : /\ pc[Lead(b)] \in {"reset", "bump", "spin"}
                              /\ left[Lead(b)] = n}

(* n barriers are complete.  A block is on its way to the next or still in *)
(* the last, and a block that spins knows by the generation which of the   *)
(* two it is; whoever resets has all the others spinning.                  *)
OfBlock(b, n) ==
  /\ pc[Lead(b)] \in {"run", "head", "load", "add", "reset", "bump"} => left[Lead(b)] = n
  /\ pc[Lead(b)] \in {"sync", "tail"} => left[Lead(b)] + 1 = n
  /\ pc[Lead(b)] = "spin" => \/ left[Lead(b)] = n /\ saved[b] = gen
                             \/ left[Lead(b)] + 1 = n /\ saved[b] # gen
  /\ pc[Lead(b)] = "add" => saved[b] = gen
  /\ pc[Lead(b)] \in {"reset", "bump"} =>
       \A c \in Blocks \ {b} : pc[Lead(c)] = "spin" /\ left[Lead(c)] = n

Bumping == \E b \in Blocks : pc[Lead(b)] = "bump"
Counted(n) == count = IF Bumping THEN 0 ELSE Cardinality(Arrived(n))

OfRounds == \E n \in Nat : (\A b \in Blocks : OfBlock(b, n)) /\ Counted(n)

BarrierInv == Shapes /\ OfThreads /\ OfBlocks /\ OfRounds

-----------------------------------------------------------------------------
(* The threads of the grid and the leader of a block, as tuples. *)
LEMMA GridFacts ==
  /\ \A t \in Grid : t[1] \in Blocks /\ t = << t[1], t[2] >>
  /\ \A b \in Blocks : Lead(b) \in Grid /\ Lead(b)[1] = b /\ Lead(b)[2] = Leader
  /\ \A t \in Grid : t[2] = Leader => t = Lead(t[1])
  /\ \A b \in Blocks : \A t : t \in TheBlock(b) <=> t \in Grid /\ t[1] = b
BY GridAssumption DEF Grid, TheBlock, Lead

(* One more, modulo the generations, is another generation. *)
LEMMA NextGen ==
  ASSUME NEW g \in 0 .. Gens - 1
  PROVE  (g + 1) % Gens \in 0 .. Gens - 1 /\ (g + 1) % Gens # g
<1>1. CASE g + 1 < Gens
  <2>1. (g + 1) % Gens = g + 1
    BY <1>1, GridAssumption
  <2> QED
    BY <1>1, <2>1, GridAssumption
<1>2. CASE g + 1 = Gens
  <2>1. (g + 1) % Gens = 0
    BY <1>2, GridAssumption
  <2> QED
    BY <1>2, <2>1, GridAssumption
<1> QED
  BY <1>1, <1>2, GridAssumption

(* How a block's leader moves when it touches neither word. *)
Moves(b) ==
  \/ /\ pc'[Lead(b)] = pc[Lead(b)] /\ left'[Lead(b)] = left[Lead(b)]
     /\ saved'[b] = saved[b]
  \/ /\ pc[Lead(b)] \in Outside /\ pc'[Lead(b)] \in {"head", "load"}
     /\ left'[Lead(b)] = left[Lead(b)] /\ saved'[b] = saved[b]
  \/ /\ pc[Lead(b)] = "sync" /\ pc'[Lead(b)] = "tail"
     /\ left'[Lead(b)] = left[Lead(b)] /\ saved'[b] = saved[b]
  \/ /\ pc[Lead(b)] = "tail" /\ pc'[Lead(b)] = "run"
     /\ left'[Lead(b)] = left[Lead(b)] + 1 /\ saved'[b] = saved[b]
  \/ /\ pc[Lead(b)] = "load" /\ pc'[Lead(b)] = "add"
     /\ left'[Lead(b)] = left[Lead(b)] /\ saved'[b] = gen
  \/ /\ pc[Lead(b)] = "spin" /\ pc'[Lead(b)] = "sync" /\ saved[b] # gen
     /\ left'[Lead(b)] = left[Lead(b)] /\ saved'[b] = saved[b]

(* Such moves complete no barrier. *)
LEMMA MovesKeepRound ==
  ASSUME Shapes, OfRounds, count' = count, gen' = gen, \A b \in Blocks : Moves(b)
  PROVE  OfRounds'
<1>1. PICK n \in Nat : (\A b \in Blocks : OfBlock(b, n)) /\ Counted(n)
  BY DEF OfRounds
<1>0. \A b \in Blocks : left[Lead(b)] \in Nat
  BY GridFacts DEF Shapes
<1>2. ASSUME NEW b \in Blocks PROVE OfBlock(b, n)'
  <2>1. OfBlock(b, n) /\ Moves(b)
    BY <1>1
  <2>2. pc'[Lead(b)] \in {"reset", "bump"} =>
          pc[Lead(b)] = pc'[Lead(b)] /\ left'[Lead(b)] = left[Lead(b)]
    BY <2>1 DEF Moves, Outside
  <2>3. ASSUME pc'[Lead(b)] \in {"reset", "bump"}, NEW c \in Blocks \ {b}
        PROVE  pc'[Lead(c)] = "spin" /\ left'[Lead(c)] = n
    <3>1. pc[Lead(c)] = "spin" /\ left[Lead(c)] = n
      BY <2>1, <2>2, <2>3 DEF OfBlock
    <3>2. OfBlock(c, n) /\ Moves(c) /\ left[Lead(c)] \in Nat
      BY <1>0, <1>1
    <3>3. saved[c] = gen
      BY <3>1, <3>2 DEF OfBlock
    <3> QED
      BY <3>1, <3>2, <3>3 DEF Moves, Outside
  <2> QED
    BY <2>1, <2>2, <2>3, <1>0 DEF OfBlock, Moves, Outside
<1>3. ASSUME NEW b \in Blocks
      PROVE  /\ b \in Arrived(n)' <=> b \in Arrived(n)
             /\ pc'[Lead(b)] = "bump" <=> pc[Lead(b)] = "bump"
  <2>1. OfBlock(b, n) /\ Moves(b) /\ left[Lead(b)] \in Nat
    BY <1>0, <1>1
  <2> QED
    BY <2>1 DEF OfBlock, Moves, Outside, Arrived
<1>4. Arrived(n)' = Arrived(n) /\ (Bumping' <=> Bumping)
  BY <1>3 DEF Arrived, Bumping
<1>5. Counted(n)'
  BY <1>1, <1>4 DEF Counted
<1> QED
  BY <1>2, <1>5 DEF OfRounds

(* A thread's step that is its own business: pc[t] becomes q. *)
LEMMA OwnStep ==
  ASSUME Shapes, OfThreads, OfBlocks, NEW t \in Grid, NEW q \in Places,
         Goto(t, q), came' = [came EXCEPT ![t] = IF pc[t] = "run" THEN @ + 1 ELSE @],
         left' = left, waiting' \subseteq Grid,
         \A u \in Grid \ {t} : u \in waiting' <=> u \in waiting,
         t \in waiting' <=> q \in {"head", "tail"},
         q # "run", pc[t] \in Outside <=> q \in Outside,
         q \in ForTheBlock => t[2] = Leader
  PROVE  OfThreads' /\ OfBlocks' /\ pc' \in [Grid -> Places] /\ came' \in [Grid -> Nat]
<1>1. /\ pc' \in [Grid -> Places] /\ came' \in [Grid -> Nat]
      /\ pc'[t] = q /\ \A u \in Grid \ {t} : pc'[u] = pc[u] /\ came'[u] = came[u]
      /\ came'[t] = IF pc[t] = "run" THEN came[t] + 1 ELSE came[t]
  BY DEF Goto, Shapes
<1>2. OfThreads'
  <2> SUFFICES ASSUME NEW u \in Grid
               PROVE  /\ u \in waiting' <=> pc'[u] \in {"head", "tail"}
                      /\ came'[u] = IF pc'[u] = "run" THEN left[u] ELSE left[u] + 1
                      /\ pc'[u] \in ForTheBlock => u[2] = Leader
    BY DEF OfThreads
  <2>1. CASE u = t
    BY <1>1, <2>1 DEF OfThreads
  <2>2. CASE u # t
    BY <1>1, <2>2 DEF OfThreads
  <2> QED
    BY <2>1, <2>2
<1>3. OfBlocks'
  BY <1>1 DEF OfBlocks
<1> QED
  BY <1>1, <1>2, <1>3

(* The steps of one thread that touch neither word of the barrier. *)
LEMMA QuietSteps ==
  ASSUME BarrierInv, NEW t \in Grid, Head(t) \/ Tail(t) \/ Load(t) \/ Spin(t)
  PROVE  BarrierInv'
<1> USE DEF BarrierInv
<1>0. t \in waiting <=> pc[t] \in {"head", "tail"}
  BY DEF OfThreads
<1>1. CASE Head(t)
  <2>1. OfThreads' /\ OfBlocks' /\ pc' \in [Grid -> Places] /\ came' \in [Grid -> Nat]
    BY <1>1, OwnStep DEF Head, At, Sync, Goto, Places, Outside, ForTheBlock, Shapes
  <2>2. \A b \in Blocks : Moves(b)
    BY <1>1, GridFacts DEF Head, At, Sync, Goto, Moves, Outside, Shapes
  <2>3. OfRounds'
    BY <1>1, <2>2, MovesKeepRound DEF Head, Sync
  <2> QED
    BY <1>1, <2>1, <2>3 DEF Head, Sync, Shapes
<1>2. CASE Tail(t)
  <2>1. OfThreads' /\ OfBlocks' /\ pc' \in [Grid -> Places] /\ came' \in [Grid -> Nat]
    BY <1>2, OwnStep DEF Tail, At, Sync, Goto, Places, Outside, ForTheBlock, Shapes
  <2>2. \A b \in Blocks : Moves(b)
    BY <1>2, GridFacts DEF Tail, At, Sync, Goto, Moves, Outside, Shapes
  <2>3. OfRounds'
    BY <1>2, <2>2, MovesKeepRound DEF Tail, Sync
  <2> QED
    BY <1>2, <2>1, <2>3 DEF Tail, Sync, Shapes
<1>3. CASE Load(t)
  <2>1. OfThreads' /\ OfBlocks' /\ pc' \in [Grid -> Places] /\ came' \in [Grid -> Nat]
    BY <1>3, <1>0, OwnStep DEF Load, At, Local, Goto, Places, Outside, ForTheBlock, Shapes, OfThreads
  <2>2. t = Lead(t[1]) /\ t[1] \in Blocks
    BY <1>3, GridFacts DEF Load, At, OfThreads, ForTheBlock
  <2>3. \A b \in Blocks : Moves(b)
    BY <1>3, <2>2, GridFacts DEF Load, At, Local, Goto, Moves, Outside, Shapes
  <2>4. OfRounds'
    BY <1>3, <2>3, MovesKeepRound DEF Load, Local
  <2>5. saved' \in [Blocks -> 0 .. Gens - 1]
    BY <1>3, <2>2 DEF Load, Shapes
  <2> QED
    BY <1>3, <2>1, <2>4, <2>5 DEF Load, Local, Shapes
<1>4. CASE Spin(t)
  <2>1. OfThreads' /\ OfBlocks' /\ pc' \in [Grid -> Places] /\ came' \in [Grid -> Nat]
    BY <1>4, <1>0, OwnStep DEF Spin, At, Local, Goto, Places, Outside, ForTheBlock, Shapes, OfThreads
  <2>2. t = Lead(t[1]) /\ t[1] \in Blocks
    BY <1>4, GridFacts DEF Spin, At, OfThreads, ForTheBlock
  <2>3. \A b \in Blocks : Moves(b)
    BY <1>4, <2>2, GridFacts DEF Spin, At, Local, Goto, Moves, Outside, Shapes
  <2>4. OfRounds'
    BY <1>4, <2>3, MovesKeepRound DEF Spin, Local
  <2> QED
    BY <1>4, <2>1, <2>4 DEF Spin, Local, Shapes
<1> QED
  BY <1>1, <1>2, <1>3, <1>4

(* A block adds itself to the count: the last to come has all the others   *)
(* spinning in the same barrier.                                           *)
LEMMA AddStep ==
  ASSUME BarrierInv, NEW t \in Grid, Add(t)
  PROVE  BarrierInv'
<1> USE DEF BarrierInv
<1> DEFINE b == t[1]
<1>1. t = Lead(b) /\ b \in Blocks /\ pc[t] = "add"
  BY GridFacts DEF Add, At, OfThreads, ForTheBlock
<1>2. OfThreads' /\ OfBlocks' /\ pc' \in [Grid -> Places] /\ came' \in [Grid -> Nat]
  BY <1>1, OwnStep DEF Add, At, Local, Goto, Places, Outside, ForTheBlock, Shapes, OfThreads
<1>3. PICK n \in Nat : (\A c \in Blocks : OfBlock(c, n)) /\ Counted(n)
  BY DEF OfRounds
<1>4. left[t] = n /\ saved[b] = gen
  BY <1>1, <1>3 DEF OfBlock
<1>5. \A c \in Blocks : pc[Lead(c)] \notin {"reset", "bump"}
  BY <1>1, <1>3 DEF OfBlock
<1>6. ~Bumping /\ count = Cardinality(Arrived(n))
  BY <1>3, <1>5 DEF Bumping, Counted
<1>7. IsFiniteSet(Arrived(n)) /\ b \notin Arrived(n) /\ Arrived(n) \subseteq Blocks
  BY <1>1, FS_Subset, GridAssumption DEF Arrived
<1>8. /\ pc'[t] = IF Last(count) THEN "reset" ELSE "spin"
      /\ \A c \in Blocks \ {b} : pc'[Lead(c)] = pc[Lead(c)]
  BY <1>1, GridFacts DEF Add, Goto, Shapes
<1>9. Arrived(n)' = Arrived(n) \cup {b}
  BY <1>1, <1>4, <1>8 DEF Arrived, Add, Local
<1>10. Counted(n)'
  <2>1. Cardinality(Arrived(n)') = count + 1
    BY <1>6, <1>7, <1>9, FS_AddElement
  <2>2. ~Bumping'
    BY <1>1, <1>5, <1>8 DEF Bumping
  <2> QED
    BY <2>1, <2>2 DEF Counted, Add
<1>11. Last(count) => Arrived(n) \cup {b} = Blocks
  <2>1. IsFiniteSet(Blocks) /\ Cardinality(Blocks) \in Nat
    BY GridAssumption, FS_CardinalityType
  <2>2. Cardinality(Arrived(n) \cup {b}) = count + 1
    BY <1>6, <1>7, FS_AddElement
  <2>3. Arrived(n) \cup {b} \in SUBSET Blocks
    BY <1>1, <1>7
  <2> QED
    BY <2>1, <2>2, <2>3, FS_Subset DEF Last
<1>12. ASSUME NEW c \in Blocks PROVE OfBlock(c, n)'
  <2>1. CASE c = b
    <3>1. pc'[Lead(c)] = "reset" =>
            \A d \in Blocks \ {c} : pc'[Lead(d)] = "spin" /\ left'[Lead(d)] = n
      BY <1>1, <1>5, <1>8, <1>11, <2>1 DEF Arrived, Add, Local
    <3> QED
      BY <1>1, <1>4, <1>8, <2>1, <3>1 DEF OfBlock, Add, Local
  <2>2. CASE c # b
    BY <1>3, <1>5, <1>8, <2>2 DEF OfBlock, Add, Local
  <2> QED
    BY <2>1, <2>2
<1>13. OfRounds'
  BY <1>10, <1>12 DEF OfRounds
<1> QED
  BY <1>2, <1>13 DEF Add, Local, Shapes

(* The last block zeroes the count; the generation still stands.           *)
LEMMA ResetStep ==
  ASSUME BarrierInv, NEW t \in Grid, Reset(t)
  PROVE  BarrierInv'
<1> USE DEF BarrierInv
<1> DEFINE b == t[1]
<1>1. t = Lead(b) /\ b \in Blocks /\ pc[t] = "reset"
  BY GridFacts DEF Reset, At, OfThreads, ForTheBlock
<1>2. OfThreads' /\ OfBlocks' /\ pc' \in [Grid -> Places] /\ came' \in [Grid -> Nat]
  BY <1>1, OwnStep DEF Reset, At, Local, Goto, Places, Outside, ForTheBlock, Shapes, OfThreads
<1>3. PICK n \in Nat : (\A c \in Blocks : OfBlock(c, n)) /\ Counted(n)
  BY DEF OfRounds
<1>4. /\ pc'[t] = "bump" /\ \A c \in Blocks \ {b} : pc'[Lead(c)] = pc[Lead(c)]
      /\ left' = left /\ saved' = saved /\ gen' = gen /\ count' = 0
  BY <1>1, GridFacts DEF Reset, Goto, Local, Shapes
<1>5. Counted(n)'
  BY <1>1, <1>4 DEF Counted, Bumping
<1>6. ASSUME NEW c \in Blocks PROVE OfBlock(c, n)'
  <2>1. left[t] = n /\ \A d \in Blocks \ {b} : pc[Lead(d)] = "spin" /\ left[Lead(d)] = n
    BY <1>1, <1>3 DEF OfBlock
  <2>2. CASE c = b
    BY <1>1, <1>4, <2>1, <2>2 DEF OfBlock
  <2>3. CASE c # b
    BY <1>3, <1>4, <2>1, <2>3 DEF OfBlock
  <2> QED
    BY <2>2, <2>3
<1>7. OfRounds'
  BY <1>5, <1>6 DEF OfRounds
<1> QED
  BY <1>2, <1>4, <1>7 DEF Reset, Local, Shapes

(* The generation moves on, and with it every block's round is complete:   *)
(* each spins on the generation before, so that it cannot miss this one.   *)
LEMMA BumpStep ==
  ASSUME BarrierInv, NEW t \in Grid, Bump(t)
  PROVE  BarrierInv'
<1> USE DEF BarrierInv
<1> DEFINE b == t[1]
<1>1. t = Lead(b) /\ b \in Blocks /\ pc[t] = "bump"
  BY GridFacts DEF Bump, At, OfThreads, ForTheBlock
<1>2. OfThreads' /\ OfBlocks' /\ pc' \in [Grid -> Places] /\ came' \in [Grid -> Nat]
  BY <1>1, OwnStep DEF Bump, At, Local, Goto, Places, Outside, ForTheBlock, Shapes, OfThreads
<1>3. PICK n \in Nat : (\A c \in Blocks : OfBlock(c, n)) /\ Counted(n)
  BY DEF OfRounds
<1>4. /\ pc'[t] = "sync" /\ \A c \in Blocks \ {b} : pc'[Lead(c)] = pc[Lead(c)]
      /\ left' = left /\ saved' = saved /\ count' = count /\ gen' = (gen + 1) % Gens
  BY <1>1, GridFacts DEF Bump, Goto, Local, Shapes
<1>5. gen' \in 0 .. Gens - 1 /\ gen' # gen
  BY <1>4, NextGen DEF Shapes
<1>6. left[t] = n /\ \A c \in Blocks \ {b} : pc[Lead(c)] = "spin" /\ left[Lead(c)] = n
  BY <1>1, <1>3 DEF OfBlock
<1>7. n + 1 \in Nat /\ n + 1 # n
  OBVIOUS
<1>8. Counted(n + 1)'
  <2>1. count = 0
    BY <1>1, <1>3 DEF Counted, Bumping
  <2>2. \A c \in Blocks : left'[Lead(c)] = n
    BY <1>1, <1>4, <1>6
  <2>3. Arrived(n + 1)' = {}
    BY <1>7, <2>2 DEF Arrived
  <2>4. ~Bumping'
    BY <1>1, <1>4, <1>6 DEF Bumping
  <2> QED
    BY <1>4, <2>1, <2>3, <2>4, FS_EmptySet DEF Counted
<1>9. ASSUME NEW c \in Blocks PROVE OfBlock(c, n + 1)'
  <2>1. CASE c = b
    BY <1>1, <1>4, <1>6, <2>1 DEF OfBlock
  <2>2. CASE c # b
    <3>1. OfBlock(c, n) /\ pc[Lead(c)] = "spin" /\ left[Lead(c)] = n
      BY <1>3, <1>6, <2>2
    <3>2. saved[c] = gen
      BY <3>1, <1>7 DEF OfBlock
    <3> QED
      BY <1>4, <1>5, <2>2, <3>1, <3>2 DEF OfBlock
  <2> QED
    BY <2>1, <2>2
<1>10. OfRounds'
  BY <1>7, <1>8, <1>9 DEF OfRounds
<1> QED
  BY <1>2, <1>4, <1>5, <1>10 DEF Bump, Local, Shapes

(* A block's threads leave a bar.sync together: they are all in the first  *)
(* or all in the second.                                                   *)
LEMMA OpenTogether ==
  ASSUME BarrierInv, NEW b \in Blocks, Open(b)
  PROVE  \/ \A t \in TheBlock(b) : pc[t] = "head"
         \/ \A t \in TheBlock(b) : pc[t] = "tail"
<1>1. \A t \in TheBlock(b) : t \in Grid /\ t[1] = b /\ pc[t] \in {"head", "tail"}
  BY GridFacts DEF BarrierInv, OfThreads, Open
<1> QED
  BY <1>1 DEF BarrierInv, OfBlocks, Outside

LEMMA OpenStep ==
  ASSUME BarrierInv, NEW b \in Blocks, Open(b)
  PROVE  BarrierInv'
<1> USE DEF BarrierInv
<1>1. \A t : t \in TheBlock(b) <=> t \in Grid /\ t[1] = b
  BY GridFacts
<1>2. /\ waiting' = waiting \ TheBlock(b) /\ came' = came /\ saved' = saved
      /\ gen' = gen /\ count' = count
      /\ \A t \in Grid : t \notin TheBlock(b) => pc'[t] = pc[t] /\ left'[t] = left[t]
  BY DEF Open
<1>3. pc' \in [Grid -> Places] /\ left' \in [Grid -> Nat]
  BY DEF Open, Shapes, Places, Outside, ForTheBlock
<1>4. Shapes'
  BY <1>2, <1>3 DEF Shapes
<1>5. CASE \A t \in TheBlock(b) : pc[t] = "head"
  <2>1. \A t \in TheBlock(b) : /\ left'[t] = left[t]
                              /\ pc'[t] = IF t[2] = Leader THEN "load" ELSE "sync"
    BY <1>1, <1>5 DEF Open
  <2>2. OfThreads'
    BY <1>1, <1>2, <1>5, <2>1 DEF OfThreads, ForTheBlock, Shapes
  <2>3. OfBlocks'
    BY <1>1, <1>2, <1>5, <2>1 DEF OfBlocks, Outside
  <2>4. \A c \in Blocks : Moves(c)
    BY <1>1, <1>2, <1>5, <2>1, GridFacts DEF Moves, Outside
  <2> QED
    BY <1>2, <1>4, <2>2, <2>3, <2>4, MovesKeepRound
<1>6. CASE \A t \in TheBlock(b) : pc[t] = "tail"
  <2>0. \A t \in TheBlock(b) : came[t] = left[t] + 1
    BY <1>1, <1>6 DEF OfThreads
  <2>1. \A t \in TheBlock(b) : left'[t] = left[t] + 1 /\ pc'[t] = "run"
    BY <1>1, <1>6, <2>0 DEF Open
  <2>2. OfThreads'
    BY <1>1, <1>2, <1>6, <2>0, <2>1 DEF OfThreads, ForTheBlock, Shapes
  <2>3. OfBlocks'
    BY <1>1, <1>2, <1>6, <2>1 DEF OfBlocks, Outside
  <2>4. \A c \in Blocks : Moves(c)
    BY <1>1, <1>2, <1>6, <2>1, GridFacts DEF Moves, Outside
  <2> QED
    BY <1>2, <1>4, <2>2, <2>3, <2>4, MovesKeepRound
<1> QED
  BY <1>5, <1>6, OpenTogether

-----------------------------------------------------------------------------
(* The device's two words, the two bar.syncs and the generations: what     *)
(* holds of every grid at every moment of the barrier of emit.c.           *)
THEOREM BarrierCorrect == Spec => []BarrierInv
<1>1. Init => BarrierInv
  <2> SUFFICES ASSUME Init PROVE BarrierInv
    OBVIOUS
  <2>1. Shapes /\ OfThreads /\ OfBlocks
    BY GridAssumption DEF Init, Shapes, Places, Outside, ForTheBlock, OfThreads, OfBlocks
  <2>2. \A b \in Blocks : pc[Lead(b)] = "run" /\ left[Lead(b)] = 0
    BY GridFacts DEF Init
  <2>3. Arrived(0) = {} /\ ~Bumping
    BY <2>2 DEF Arrived, Bumping
  <2>4. Counted(0)
    BY <2>3, FS_EmptySet DEF Counted, Init
  <2>5. \A b \in Blocks : OfBlock(b, 0)
    BY <2>2 DEF OfBlock
  <2> QED
    BY <2>1, <2>4, <2>5 DEF BarrierInv, OfRounds
<1>2. BarrierInv /\ [Next]_vars => BarrierInv'
  <2> SUFFICES ASSUME BarrierInv, [Next]_vars PROVE BarrierInv'
    OBVIOUS
  <2>1. CASE UNCHANGED << count, gen, waiting, pc, saved, came, left >>
    <3>1. Shapes' /\ OfThreads' /\ OfBlocks'
      BY <2>1 DEF BarrierInv, Shapes, OfThreads, OfBlocks
    <3>2. \A b \in Blocks : Moves(b)
      BY <2>1 DEF Moves
    <3>3. OfRounds'
      BY <2>1, <3>2, MovesKeepRound DEF BarrierInv
    <3> QED
      BY <3>1, <3>3 DEF BarrierInv
  <2>2. ASSUME NEW b \in Blocks, Start(b) PROVE BarrierInv'
    BY <2>1, <2>2 DEF Start
  <2>3. CASE Done \/ UNCHANGED vars
    BY <2>1, <2>3 DEF Done, vars
  <2>4. ASSUME NEW t \in Grid, Thread(t) PROVE BarrierInv'
    BY <2>4, QuietSteps, AddStep, ResetStep, BumpStep DEF Thread
  <2> QED
    BY <2>2, <2>3, <2>4, OpenStep DEF Next
<1> QED
  BY <1>1, <1>2, PTL DEF Spec

(* No thread goes past a grid barrier before every thread of the grid has  *)
(* come to it: the barrier of emit.c implements grid.sync(), for any grid, *)
(* any number of barriers and although the generation wraps.               *)
THEOREM GridBarrierIsRendezvous == Spec => ARendezvous
<1>1. Init => Barrier!Init
  BY DEF Init, Barrier!Init
<1>2. BarrierInv /\ [Next]_vars => [Barrier!Next]_(Barrier!vars)
  <2> SUFFICES ASSUME BarrierInv, [Next]_vars
               PROVE  Barrier!Next \/ (came' = came /\ left' = left)
    BY DEF Barrier!vars
  <2>1. ASSUME NEW t \in Grid, Head(t) PROVE Barrier!Next
    <3>1. came[t] = left[t]
      BY <2>1 DEF BarrierInv, OfThreads, Head, At
    <3> QED
      BY <2>1, <3>1 DEF Head, Sync, Barrier!Come, Barrier!Next
  <2>2. ASSUME NEW t \in Grid, Thread(t) PROVE Barrier!Next \/ (came' = came /\ left' = left)
    BY <2>1, <2>2 DEF Thread, Tail, Sync, Load, Add, Reset, Bump, Spin, Local
  <2>3. ASSUME NEW b \in Blocks, Open(b), \A t \in TheBlock(b) : pc[t] = "head"
        PROVE  came' = came /\ left' = left
    BY <2>3 DEF Open, BarrierInv, Shapes
  <2>4. ASSUME NEW b \in Blocks, Open(b), \A t \in TheBlock(b) : pc[t] = "tail"
        PROVE  Barrier!Next
    <3>1. \A t : t \in TheBlock(b) <=> t \in Grid /\ t[1] = b
      BY GridFacts
    <3>2. PICK n \in Nat : \A c \in Blocks : OfBlock(c, n)
      BY DEF BarrierInv, OfRounds
    <3>3. ASSUME NEW t \in TheBlock(b)
          PROVE  came[t] = n /\ left[t] < came[t]
      <4>1. t \in Grid /\ t[1] = b /\ Lead(b) \in TheBlock(b)
        BY <3>1, <3>3, GridFacts
      <4>2. left[t] = left[Lead(b)] /\ came[t] = left[t] + 1
        BY <2>4, <3>1, <4>1 DEF BarrierInv, OfBlocks, OfThreads
      <4>3. left[Lead(b)] + 1 = n
        BY <2>4, <3>2, <4>1 DEF OfBlock
      <4>4. left[t] \in Nat
        BY <4>1 DEF BarrierInv, Shapes
      <4> QED
        BY <4>2, <4>3, <4>4
    <3>4. ASSUME NEW u \in Grid PROVE came[u] >= n
      <4>1. u[1] \in Blocks /\ Lead(u[1]) \in Grid /\ Lead(u[1])[1] = u[1]
        BY GridFacts
      <4>2. OfBlock(u[1], n) /\ left[u] = left[Lead(u[1])] /\ left[u] \in Nat
        BY <3>2, <4>1 DEF BarrierInv, OfBlocks, Shapes
      <4>3. came[u] = IF pc[u] = "run" THEN left[u] ELSE left[u] + 1
        BY DEF BarrierInv, OfThreads
      <4>4. pc[u] = "run" => pc[Lead(u[1])] \in Outside
        BY <4>1 DEF BarrierInv, OfBlocks, Outside
      <4>5. pc[Lead(u[1])] \in Places
        BY <4>1 DEF BarrierInv, Shapes
      <4> QED
        BY <4>2, <4>3, <4>4, <4>5 DEF OfBlock, Outside, Places, ForTheBlock
    <3>5. left' = [t \in Grid |-> IF t \in TheBlock(b) THEN came[t] ELSE left[t]]
      BY <2>4 DEF Open
    <3>6. Barrier!Leave(TheBlock(b)) /\ TheBlock(b) \in SUBSET Grid
      BY <2>4, <3>1, <3>3, <3>4, <3>5 DEF Open, Barrier!Leave
    <3> QED
      BY <3>6 DEF Barrier!Next
  <2>5. ASSUME NEW b \in Blocks, Start(b) \/ Open(b)
        PROVE  Barrier!Next \/ (came' = came /\ left' = left)
    BY <2>3, <2>4, <2>5, OpenTogether DEF Start
  <2> QED
    BY <2>2, <2>5 DEF Next, Done, vars
<1> QED
  BY <1>1, <1>2, BarrierCorrect, PTL DEF Spec, ARendezvous, Barrier!Spec
=============================================================================
