----------------------------- MODULE Dominators -----------------------------
(***************************************************************************)
(* Steps 2 to 4 of src/src/ir/bir_mem2reg.c: the predecessor lists of a    *)
(* function, its immediate dominators, by Cooper, Harvey and Kennedy's     *)
(* iteration, and its dominance frontiers.  Blocks are numbered within the *)
(* function, as in the code.  The loops are recursive functions over their *)
(* turns.                                                                  *)
(***************************************************************************)
EXTENDS Bir

CONSTANTS M2R_MAX_PREDS, M2R_MAX_DF

ASSUME PredsAssumption == M2R_MAX_PREDS \in Nat /\ M2R_MAX_PREDS > 1
ASSUME FrontierAssumption == M2R_MAX_DF \in Nat

M2R_UNDEF == -1

(* The first n elements: what a table of n entries holds of a sequence. *)
Cut(s, n) == IF Len(s) > n THEN SubSeq(s, 1, n) ELSE s

(* Successors, a switch's cut at M2R_MAX_PREDS; absolute block indices. *)
GetSuccs(M, b) ==
    IF /\ M.blocks[b].num > 0
       /\ M.insts[M.blocks[b].first + M.blocks[b].num - 1].op = "switch"
    THEN Cut(Succs(M, b), M2R_MAX_PREDS) ELSE Succs(M, b)

-----------------------------------------------------------------------------
(* Step 2: distinct predecessors of each block, at most M2R_MAX_PREDS. *)
Edge(acc, p, s) ==
    IF /\ s \in DOMAIN acc
       /\ Len(acc[s]) < M2R_MAX_PREDS
       /\ \A k \in DOMAIN acc[s] : acc[s][k] # p
    THEN [acc EXCEPT ![s] = Append(@, p)] ELSE acc

BlockEdges(acc, p, succs, base) ==
    LET upto[k \in 0 .. Len(succs)] ==
            IF k = 0 THEN acc ELSE Edge(upto[k - 1], p, succs[k] - base)
    IN  upto[Len(succs)]

Step2BuildPreds(M, F) ==
    LET upto[n \in 0 .. F.num] ==
            IF n = 0 THEN [b \in 0 .. F.num - 1 |-> <<>>]
            ELSE BlockEdges(upto[n - 1], n - 1, GetSuccs(M, F.first + n - 1), F.first)
    IN  upto[F.num]

-----------------------------------------------------------------------------
(***************************************************************************)
(* Step 3: post-order of a depth-first walk that takes the first unvisited *)
(* successor.  Every block is pushed and popped once: 2 * F.num turns.     *)
(***************************************************************************)
Unvisited(s, F, succs) ==
    {k \in DOMAIN succs : succs[k] - F.first \in (0 .. F.num - 1) \ s.visited}

Descend(s, t) == [stack |-> Append(s.stack, t), visited |-> s.visited \cup {t}, post |-> s.post]
Retreat(s) == [stack |-> SubSeq(s.stack, 1, Len(s.stack) - 1), visited |-> s.visited,
               post |-> Append(s.post, s.stack[Len(s.stack)])]

Advance(s, F, succs) ==
    LET new == Unvisited(s, F, succs)
    IN  IF new = {} THEN Retreat(s)
        ELSE Descend(s, succs[CHOOSE k \in new : \A j \in new : k <= j] - F.first)

DfsTurn(s, M, F) ==
    IF s.stack = <<>> THEN s
    ELSE Advance(s, F, GetSuccs(M, F.first + s.stack[Len(s.stack)]))

PostOrder(M, F) ==
    LET after[n \in 0 .. 2 * F.num] ==
            IF n = 0 THEN [stack |-> << 0 >>, visited |-> {0}, post |-> <<>>]
            ELSE DfsTurn(after[n - 1], M, F)
    IN  after[2 * F.num].post

RpoNum(post) ==
    [b \in {post[k] : k \in DOMAIN post} |->
        Len(post) - (CHOOSE k \in DOMAIN post : post[k] = b)]

(***************************************************************************)
(* Where two chains of immediate dominators meet.  The guard of 2 * nb     *)
(* also counts the turns of the outer loop, of which there is at most one  *)
(* per climb; the higher number falls with every climb, so both stay below *)
(* nb.                                                                     *)
(***************************************************************************)
Climb(x, idom, rpo) ==
    IF x[1] = x[2] THEN x
    ELSE IF rpo[x[1]] > rpo[x[2]] THEN << idom[x[1]], x[2] >>
    ELSE << x[1], idom[x[2]] >>

Intersect(idom, rpo, nb, p, q) ==
    LET after[n \in 0 .. nb] ==
            IF n = 0 THEN << p, q >> ELSE Climb(after[n - 1], idom, rpo)
    IN  after[nb][1]

(* Mutant: the first processed predecessor is taken for the dominator. *)
NewIdomFirst(idom, rpo, nb, preds) ==
    LET done == SelectSeq(preds, LAMBDA p : idom[p] # M2R_UNDEF)
    IN  IF done = <<>> THEN M2R_UNDEF ELSE done[1]

Meet(new, p, idom, rpo, nb) ==
    IF idom[p] = M2R_UNDEF THEN new
    ELSE IF new = M2R_UNDEF THEN p
    ELSE Intersect(idom, rpo, nb, new, p)

NewIdom(idom, rpo, nb, preds) ==
    LET upto[k \in 0 .. Len(preds)] ==
            IF k = 0 THEN M2R_UNDEF ELSE Meet(upto[k - 1], preds[k], idom, rpo, nb)
    IN  upto[Len(preds)]

Settle(idom, b, new) == IF new = M2R_UNDEF THEN idom ELSE [idom EXCEPT ![b] = new]
Relax(idom, b, rpo, nb, preds) == Settle(idom, b, NewIdom(idom, rpo, nb, preds[b]))

(* One turn of the outer loop: every block but the entry in reverse post-order. *)
Sweep(idom, nb, preds, post, rpo) ==
    LET upto[k \in 0 .. Len(post) - 1] ==
            IF k = 0 THEN idom ELSE Relax(upto[k - 1], post[Len(post) - k], rpo, nb, preds)
    IN  upto[Len(post) - 1]

Turn(s, nb, preds, post, rpo) ==
    LET new == Sweep(s.idom, nb, preds, post, rpo)
    IN  IF s.changed THEN [idom |-> new, changed |-> new # s.idom] ELSE s

Unknown(nb) == [b \in 0 .. nb - 1 |-> IF b = 0 THEN 0 ELSE M2R_UNDEF]

IterateDominators(nb, preds, post, rpo) ==
    LET after[n \in 0 .. 4 * nb + 16] ==
            IF n = 0 THEN [idom |-> Unknown(nb), changed |-> TRUE]
            ELSE Turn(after[n - 1], nb, preds, post, rpo)
    IN  after[4 * nb + 16].idom

DominatorsFrom(nb, preds, post) == IterateDominators(nb, preds, post, RpoNum(post))

Step3ComputeDominators(M, F, preds) == DominatorsFrom(F.num, preds, PostOrder(M, F))

-----------------------------------------------------------------------------
(***************************************************************************)
(* Step 4: dominance frontiers, at most M2R_MAX_DF blocks each.  From each *)
(* predecessor of b a runner climbs to b's dominator and enters b in the   *)
(* frontier of every block it passes.  s is [df, at].  A runner that       *)
(* starts at b's dominator takes no turn.                                  *)
(***************************************************************************)
NoteFrontier(frontier, b) == IF Cardinality(frontier) >= M2R_MAX_DF THEN frontier ELSE frontier \cup {b}

RunnerTurn(s, b, idom) ==
    IF s.at = idom[b] \/ s.at = M2R_UNDEF THEN s
    ELSE [df |-> [s.df EXCEPT ![s.at] = NoteFrontier(@, b)], at |-> idom[s.at]]

Runner(df, b, p, idom, nb) ==
    LET start == [df |-> df, at |-> p]
        after[n \in 0 .. 2 * nb] == IF n = 0 THEN start ELSE RunnerTurn(after[n - 1], b, idom)
    IN  IF start.at = idom[b] THEN df ELSE after[2 * nb].df

Runners(df, b, preds, idom, nb) ==
    LET upto[k \in 0 .. Len(preds)] ==
            IF k = 0 THEN df ELSE Runner(upto[k - 1], b, preds[k], idom, nb)
    IN  upto[Len(preds)]

(* Only a block where edges join is in a frontier. *)
JoinFrontier(df, b, preds, idom, nb) == IF Len(preds) < 2 THEN df ELSE Runners(df, b, preds, idom, nb)

FrontiersFrom(nb, preds, idom) ==
    LET upto[n \in 0 .. nb] ==
            IF n = 0 THEN [b \in 0 .. nb - 1 |-> {}]
            ELSE JoinFrontier(upto[n - 1], n - 1, preds[n - 1], idom, nb)
    IN  upto[nb]

Step4ComputeDf(F, preds, idom) == FrontiersFrom(F.num, preds, idom)

-----------------------------------------------------------------------------
(* The blocks of F that can be reached from its entry without entering a. *)
Around(M, F, a) ==
    LET grow[n \in 0 .. F.num] ==
            IF n = 0 THEN {F.first} \ {a}
            ELSE LET r == grow[n - 1]
                 IN  r \cup ((UNION {SuccSet(M, c) : c \in r}) \ {a})
    IN  grow[F.num]

(* a dominates b in F: b cannot be reached round a. *)
Dominates(M, F, a, b) == b \in Reachable(M, F) /\ b \notin Around(M, F, a)

(* What step 3 is to find for every block the entry reaches: the strict
   dominator all the other strict dominators dominate. *)
ImmediateDominators(M, F, idom) ==
    LET live == Reachable(M, F)
        around == [a \in BlocksOf(F) |-> Around(M, F, a)]
    IN  \A b \in live \ {F.first} :
            LET doms == {a \in BlocksOf(F) \ {b} : b \notin around[a]}
                d == idom[b - F.first] + F.first
            IN  d \in doms /\ d \in live /\ \A a \in doms : d \notin around[a]

(* The frontier of a: where its dominance ends, the blocks with a predecessor
   a dominates that a does not strictly dominate. *)
FrontierOf(M, F, a) ==
    LET live == Reachable(M, F)
        round == Around(M, F, a)
    IN  {b \in live : /\ \E p \in PredSet(M, F, b) : p \in live /\ p \notin round
                     /\ (a = b \/ b \in round)}

(* What step 4 is to find for every block the entry reaches, if the table has
   room.  The entry is left out: the code takes what comes before it for no
   edge. *)
DominanceFrontiers(M, F, df) ==
    \A a \in Reachable(M, F) :
        LET frontier == FrontierOf(M, F, a)
        IN  Cardinality(frontier) <= M2R_MAX_DF =>
              {F.first + b : b \in df[a - F.first] \ {0}} = frontier \ {F.first}
=============================================================================
