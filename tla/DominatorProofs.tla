--------------------------- MODULE DominatorProofs --------------------------
(***************************************************************************)
(* Theorems about steps 2 to 4 of mem2reg, for control-flow graphs of any  *)
(* size and shape.                                                         *)
(***************************************************************************)
EXTENDS Dominators, FiniteSetTheorems, SequenceTheorems, WellFoundedInduction, TLAPS

-----------------------------------------------------------------------------
(***************************************************************************)
(* Loops.  A loop is a recursive function over its turns; st is what one   *)
(* turn makes of the state.                                                *)
(***************************************************************************)

(* A set of turns that holds 0 and, with a turn, the next one holds all.   *)
LEMMA EveryTurn ==
  ASSUME NEW n \in Nat, NEW G, 0 \in G, \A k \in 1 .. n : k - 1 \in G => k \in G
  PROVE  \A k \in 0 .. n : k \in G
<1> DEFINE T == {k \in 0 .. n : k \notin G}
           R == {ss \in Nat \X Nat : ss[1] < ss[2]}
<1> SUFFICES ASSUME T # {} PROVE FALSE
  OBVIOUS
<1>1. IsWellFoundedOn(R, Nat)
  BY NatLessThanWellFounded, Zenon DEF OpToRel
<1>2. T \subseteq Nat
  OBVIOUS
<1> HIDE DEF R
<1>3. PICK k \in T : \A y \in T : ~(<< y, k >> \in R)
  BY <1>1, <1>2, WFMin, Zenon
<1>4. k \in 0 .. n /\ k \notin G /\ k # 0
  OBVIOUS
<1>5. k - 1 \in T
  BY <1>4
<1>6. << k - 1, k >> \in R
  BY <1>4 DEF R
<1> QED
  BY <1>3, <1>5, <1>6

Turns(f, S, x, n, st) ==
  f \in [0 .. n -> S] /\ \A k \in 0 .. n : f[k] = IF k = 0 THEN x ELSE st[<< f[k - 1], k >>]

(* A loop whose turns stay in S has a state in S at every turn. *)
LEMMA LoopRuns ==
  ASSUME NEW S, NEW x \in S, NEW n \in Nat, NEW st \in [S \X (1 .. n) -> S]
  PROVE  \E f : Turns(f, S, x, n, st)
<1> DEFINE Runs(m) == \E f \in [0 .. m -> S] :
              \A k \in 0 .. m : f[k] = IF k = 0 THEN x ELSE st[<< f[k - 1], k >>]
           G == {m \in 0 .. n : Runs(m)}
<1>1. 0 \in G
  <2> DEFINE f == [k \in 0 .. 0 |-> x]
  <2>1. f \in [0 .. 0 -> S] /\ \A k \in 0 .. 0 : f[k] = IF k = 0 THEN x ELSE st[<< f[k - 1], k >>]
    OBVIOUS
  <2> HIDE DEF f
  <2>2. Runs(0)
    BY <2>1
  <2> QED
    BY <2>2
<1>2. ASSUME NEW m \in 1 .. n, m - 1 \in G
      PROVE  m \in G
  <2>1. PICK f \in [0 .. m - 1 -> S] :
           \A k \in 0 .. m - 1 : f[k] = IF k = 0 THEN x ELSE st[<< f[k - 1], k >>]
    BY <1>2
  <2> DEFINE g == [k \in 0 .. m |-> IF k = m THEN st[<< f[m - 1], m >>] ELSE f[k]]
  <2>2. << f[m - 1], m >> \in S \X (1 .. n) /\ st[<< f[m - 1], m >>] \in S
    BY <2>1
  <2>3. g \in [0 .. m -> S]
    BY <2>1, <2>2
  <2>4. ASSUME NEW k \in 0 .. m
        PROVE  g[k] = IF k = 0 THEN x ELSE st[<< g[k - 1], k >>]
    <3>1. CASE k = m
      <4>1. g[k] = st[<< f[m - 1], m >>] /\ g[k - 1] = f[m - 1] /\ k # 0
        BY <3>1
      <4> HIDE DEF g
      <4> QED
        BY <3>1, <4>1
    <3>2. CASE k # m
      <4>1. k \in 0 .. m - 1 /\ g[k] = f[k] /\ (k # 0 => g[k - 1] = f[k - 1])
        BY <3>2
      <4> HIDE DEF g
      <4> QED
        BY <2>1, <4>1
    <3> QED
      BY <3>1, <3>2
  <2> HIDE DEF g
  <2> QED
    BY <2>3, <2>4
<1>3. \A m \in 0 .. n : m \in G
  <2> HIDE DEF G
  <2> QED
    BY <1>1, <1>2, EveryTurn
<1> QED
  BY <1>3 DEF Turns

-----------------------------------------------------------------------------
(***************************************************************************)
(* The tree that idom stands for while step 3 iterates: known blocks have  *)
(* a known parent with a smaller number, Up is a block and its ancestors.  *)
(***************************************************************************)
Known(idom) == {x \in DOMAIN idom : idom[x] # M2R_UNDEF}

Numbering(nb, R, rpo) ==
  /\ nb \in Nat \ {0} /\ R \subseteq 0 .. nb - 1 /\ 0 \in R
  /\ rpo \in [R -> 0 .. nb - 1] /\ rpo[0] = 0
  /\ \A x, y \in R : rpo[x] = rpo[y] => x = y

Tree(nb, R, rpo, idom) ==
  /\ idom \in [0 .. nb - 1 -> (0 .. nb - 1) \cup {M2R_UNDEF}]
  /\ idom[0] = 0
  /\ \A x \in Known(idom) :
        x \in R /\ idom[x] \in Known(idom) /\ (x # 0 => rpo[idom[x]] < rpo[x])

Climbing(idom, S) == \A z \in S : z \in DOMAIN idom /\ idom[z] \in S
Up(idom, x) == {y \in DOMAIN idom : \A S \in SUBSET DOMAIN idom :
                                      x \in S /\ Climbing(idom, S) => y \in S}

(* Up is contained in every set that holds x and, with a block, its parent. *)
LEMMA UpLeast ==
  ASSUME NEW idom, NEW x, NEW S \in SUBSET DOMAIN idom, x \in S, Climbing(idom, S)
  PROVE  Up(idom, x) \subseteq S
BY DEF Up

(* What the tree says of a known block. *)
LEMMA TreeKnown ==
  ASSUME NEW nb, NEW R, NEW rpo, NEW idom, Numbering(nb, R, rpo), Tree(nb, R, rpo, idom)
  PROVE  /\ Known(idom) \subseteq R /\ R \subseteq 0 .. nb - 1 /\ DOMAIN idom = 0 .. nb - 1
         /\ 0 \in Known(idom) /\ idom[0] = 0
         /\ \A x \in Known(idom) : idom[x] \in Known(idom) /\ (x # 0 => rpo[idom[x]] < rpo[x])
         /\ \A x \in R : rpo[x] \in 0 .. nb - 1 /\ rpo[x] \in Nat
<1>1. DOMAIN idom = 0 .. nb - 1 /\ 0 \in 0 .. nb - 1
  BY DEF Tree, Numbering
<1>2. 0 \in Known(idom)
  BY <1>1 DEF Tree, Known, M2R_UNDEF
<1> QED
  BY <1>1, <1>2 DEF Tree, Numbering

(* A known block's ancestors, itself among them, are known and not higher. *)
LEMMA UpClimbs ==
  ASSUME NEW nb, NEW R, NEW rpo, NEW idom, Numbering(nb, R, rpo), Tree(nb, R, rpo, idom),
         NEW x \in Known(idom)
  PROVE  /\ Up(idom, x) \subseteq Known(idom) /\ Climbing(idom, Up(idom, x))
         /\ x \in Up(idom, x)
         /\ \A y \in Up(idom, x) : rpo[y] <= rpo[x]
<1>1. Known(idom) \subseteq DOMAIN idom /\ Climbing(idom, Known(idom))
  BY TreeKnown DEF Climbing, Known
<1>2. x \in Up(idom, x)
  BY DEF Up, Known
<1>0. Up(idom, x) \subseteq Known(idom)
  BY <1>1, UpLeast
<1>3. Climbing(idom, Up(idom, x))
  <2> SUFFICES ASSUME NEW z \in Up(idom, x)
               PROVE  z \in DOMAIN idom /\ idom[z] \in Up(idom, x)
    BY DEF Climbing
  <2>1. z \in DOMAIN idom /\ idom[z] \in DOMAIN idom
    BY <1>0, <1>1 DEF Climbing
  <2>2. ASSUME NEW S \in SUBSET DOMAIN idom, x \in S, Climbing(idom, S)
        PROVE  idom[z] \in S
    BY <2>2, UpLeast DEF Climbing
  <2> QED
    BY <2>1, <2>2 DEF Up
<1> DEFINE L == {y \in Known(idom) : rpo[y] <= rpo[x]}
<1>4. \A y \in Known(idom) : y \in R /\ rpo[y] \in Int
  BY TreeKnown
<1>5. L \subseteq DOMAIN idom /\ x \in L
  BY <1>1, <1>4
<1>6. ASSUME NEW y \in L PROVE idom[y] \in L
  <2>1. idom[y] \in Known(idom) /\ (y # 0 => rpo[idom[y]] < rpo[y]) /\ idom[0] = 0
    BY TreeKnown
  <2> QED
    BY <1>4, <2>1
<1>7. Climbing(idom, L)
  BY <1>5, <1>6 DEF Climbing
<1>8. Up(idom, x) \subseteq L
  <2> HIDE DEF L
  <2> QED
    BY <1>5, <1>7, UpLeast
<1> QED
  BY <1>2, <1>3, <1>8

(* The ancestors of a block are itself and those of its parent. *)
LEMMA UpStep ==
  ASSUME NEW nb, NEW R, NEW rpo, NEW idom, Numbering(nb, R, rpo), Tree(nb, R, rpo, idom),
         NEW x \in Known(idom)
  PROVE  Up(idom, x) = {x} \cup Up(idom, idom[x])
<1>1. idom[x] \in Known(idom) /\ x \in DOMAIN idom /\ Known(idom) \subseteq DOMAIN idom
  BY TreeKnown DEF Known
<1> DEFINE S == {x} \cup Up(idom, idom[x])
<1>7. Climbing(idom, Up(idom, idom[x])) /\ idom[x] \in Up(idom, idom[x])
      /\ Up(idom, idom[x]) \subseteq Known(idom)
  BY <1>1, UpClimbs
<1>2. S \subseteq DOMAIN idom /\ Climbing(idom, S)
  BY <1>1, <1>7 DEF Climbing
<1>3. Up(idom, x) \subseteq S
  <2> HIDE DEF S
  <2>1. x \in S
    BY DEF S
  <2> QED
    BY <1>2, <2>1, UpLeast
<1>4. Climbing(idom, Up(idom, x)) /\ x \in Up(idom, x) /\ Up(idom, x) \subseteq DOMAIN idom
  BY <1>1, UpClimbs
<1>5. idom[x] \in Up(idom, x)
  BY <1>4 DEF Climbing
<1>6. Up(idom, idom[x]) \subseteq Up(idom, x)
  BY <1>4, <1>5, UpLeast
<1> QED
  BY <1>3, <1>4, <1>6

(* The ancestors of an ancestor are the block's own. *)
LEMMA UpUp ==
  ASSUME NEW nb, NEW R, NEW rpo, NEW idom, Numbering(nb, R, rpo), Tree(nb, R, rpo, idom),
         NEW x \in Known(idom), NEW y \in Up(idom, x)
  PROVE  Up(idom, y) \subseteq Up(idom, x)
<1>1. Climbing(idom, Up(idom, x)) /\ Up(idom, x) \subseteq DOMAIN idom
  BY UpClimbs DEF Known
<1> QED
  BY <1>1, UpLeast

-----------------------------------------------------------------------------
(* The climb of Intersect ends where the two chains meet. *)
LEMMA ClimbMeets ==
  ASSUME NEW nb, NEW R, NEW rpo, NEW idom, Numbering(nb, R, rpo), Tree(nb, R, rpo, idom),
         NEW p \in Known(idom), NEW q \in Known(idom), p # q, rpo[p] > rpo[q]
  PROVE  /\ idom[p] \in Known(idom) /\ rpo[idom[p]] < rpo[p]
         /\ Up(idom, p) \cap Up(idom, q) = Up(idom, idom[p]) \cap Up(idom, q)
<1>1. p \in R /\ q \in R /\ rpo[p] \in Nat /\ rpo[q] \in Nat
  BY TreeKnown
<1>2. p # 0
  BY <1>1 DEF Numbering
<1>3. idom[p] \in Known(idom) /\ rpo[idom[p]] < rpo[p]
  BY <1>2, TreeKnown
<1>4. p \notin Up(idom, q)
  <2>1. \A y \in Up(idom, q) : rpo[y] <= rpo[q]
    BY UpClimbs
  <2> QED
    BY <1>1, <2>1
<1>5. Up(idom, p) = {p} \cup Up(idom, idom[p])
  BY UpStep
<1> QED
  BY <1>3, <1>4, <1>5

(* A turn of intersect keeps the shared ancestors and lowers the maximum. *)
LEMMA ClimbStep ==
  ASSUME NEW nb, NEW R, NEW rpo, NEW idom, Numbering(nb, R, rpo), Tree(nb, R, rpo, idom),
         NEW x \in Known(idom) \X Known(idom), NEW m \in Int,
         x[1] = x[2] \/ (rpo[x[1]] <= m /\ rpo[x[2]] <= m)
  PROVE  LET y == Climb(x, idom, rpo)
         IN  /\ y \in Known(idom) \X Known(idom)
             /\ Up(idom, y[1]) \cap Up(idom, y[2]) = Up(idom, x[1]) \cap Up(idom, x[2])
             /\ y[1] = y[2] \/ (rpo[y[1]] <= m - 1 /\ rpo[y[2]] <= m - 1)
<1>1. PICK p \in Known(idom), q \in Known(idom) : x = << p, q >>
  OBVIOUS
<1>2. p \in R /\ q \in R /\ rpo[p] \in Nat /\ rpo[q] \in Nat
  BY TreeKnown
<1>3. CASE p = q
  BY <1>1, <1>3 DEF Climb
<1>4. CASE p # q /\ rpo[p] > rpo[q]
  <2>1. Climb(x, idom, rpo) = << idom[p], q >>
    BY <1>1, <1>4 DEF Climb
  <2>2. /\ idom[p] \in Known(idom) /\ rpo[idom[p]] < rpo[p]
        /\ Up(idom, p) \cap Up(idom, q) = Up(idom, idom[p]) \cap Up(idom, q)
    BY <1>4, ClimbMeets
  <2>3. rpo[idom[p]] \in Nat
    BY <2>2, TreeKnown
  <2> QED
    BY <1>1, <1>2, <1>4, <2>1, <2>2, <2>3
<1>5. CASE p # q /\ ~(rpo[p] > rpo[q])
  <2>1. Climb(x, idom, rpo) = << p, idom[q] >>
    BY <1>1, <1>5 DEF Climb
  <2>0. rpo[q] > rpo[p]
    BY <1>2, <1>5 DEF Numbering
  <2>2. /\ idom[q] \in Known(idom) /\ rpo[idom[q]] < rpo[q]
        /\ Up(idom, q) \cap Up(idom, p) = Up(idom, idom[q]) \cap Up(idom, p)
    BY <1>5, <2>0, ClimbMeets
  <2>3. rpo[idom[q]] \in Nat
    BY <2>2, TreeKnown
  <2> QED
    BY <1>1, <1>2, <1>5, <2>0, <2>1, <2>2, <2>3
<1> QED
  BY <1>3, <1>4, <1>5

(* The climb (bir_mem2reg.c:362) ends where the chains meet: the guard of  *)
(* 2 * nb turns is never what ends it.                                     *)
THEOREM IntersectMeets ==
  ASSUME NEW nb, NEW R, NEW rpo, NEW idom, Numbering(nb, R, rpo), Tree(nb, R, rpo, idom),
         NEW p \in Known(idom), NEW q \in Known(idom)
  PROVE  LET r == Intersect(idom, rpo, nb, p, q)
         IN  r \in Known(idom) /\ Up(idom, r) = Up(idom, p) \cap Up(idom, q)
<1> DEFINE S == Known(idom) \X Known(idom)
           Runs(f) == f = [n \in 0 .. nb |->
                              IF n = 0 THEN << p, q >> ELSE Climb(f[n - 1], idom, rpo)]
           f == CHOOSE f : Runs(f)
<1>0. nb \in Nat /\ nb # 0
  BY DEF Numbering
<1>1. \E g : Runs(g)
  <2> DEFINE st == [y \in S \X (1 .. nb) |-> Climb(y[1], idom, rpo)]
  <2>1. \A x \in S : Climb(x, idom, rpo) \in S
    <3> SUFFICES ASSUME NEW x \in S PROVE Climb(x, idom, rpo) \in S
      OBVIOUS
    <3>1. x[1] \in Known(idom) /\ x[2] \in Known(idom)
      OBVIOUS
    <3>2. rpo[x[1]] <= nb - 1 /\ rpo[x[2]] <= nb - 1 /\ nb - 1 \in Int
      BY <1>0, <3>1, TreeKnown
    <3> QED
      BY <3>2, ClimbStep
  <2>2. st \in [S \X (1 .. nb) -> S]
    BY <2>1
  <2>3. << p, q >> \in S
    OBVIOUS
  <2>4. PICK g : Turns(g, S, << p, q >>, nb, st)
    <3> HIDE DEF S, st
    <3> QED
      BY <1>0, <2>2, <2>3, LoopRuns
  <2>5. ASSUME NEW k \in 0 .. nb
        PROVE  g[k] = IF k = 0 THEN << p, q >> ELSE Climb(g[k - 1], idom, rpo)
    <3>1. CASE k = 0
      BY <2>4, <3>1 DEF Turns
    <3>2. CASE k # 0
      <4>1. g[k - 1] \in S /\ k \in 1 .. nb
        BY <1>0, <2>4, <3>2 DEF Turns
      <4>2. st[<< g[k - 1], k >>] = Climb(g[k - 1], idom, rpo)
        BY <4>1
      <4> QED
        BY <2>4, <3>2, <4>2 DEF Turns
    <3> QED
      BY <3>1, <3>2
  <2> QED
    BY <2>4, <2>5 DEF Turns
<1>2. Runs(f)
  BY <1>1
<1>3. Intersect(idom, rpo, nb, p, q) = f[nb][1]
  BY DEF Intersect
<1> HIDE DEF f
<1>4. f[0] = << p, q >> /\ \A k \in 1 .. nb : f[k] = Climb(f[k - 1], idom, rpo)
  <2>1. \A k \in 0 .. nb : f[k] = IF k = 0 THEN << p, q >> ELSE Climb(f[k - 1], idom, rpo)
    BY <1>2, Zenon
  <2> QED
    BY <1>0, <2>1
<1> DEFINE Good(k) == /\ f[k] \in S
                      /\ Up(idom, f[k][1]) \cap Up(idom, f[k][2]) = Up(idom, p) \cap Up(idom, q)
                      /\ f[k][1] = f[k][2] \/ (rpo[f[k][1]] <= nb - 1 - k /\ rpo[f[k][2]] <= nb - 1 - k)
           G == {k \in 0 .. nb : Good(k)}
<1>5. 0 \in G
  <2>1. rpo[p] <= nb - 1 /\ rpo[q] <= nb - 1
    BY <1>0, TreeKnown
  <2> QED
    BY <1>0, <1>4, <2>1
<1>6. ASSUME NEW k \in 1 .. nb, k - 1 \in G
      PROVE  k \in G
  <2>1. Good(k - 1)
    BY <1>6
  <2>2. PICK x \in S : x = f[k - 1] /\ f[k] = Climb(x, idom, rpo)
    BY <1>4, <2>1
  <2>3. nb - 1 - (k - 1) \in Int
    BY <1>0
  <2>4. x[1] = x[2] \/ (rpo[x[1]] <= nb - 1 - (k - 1) /\ rpo[x[2]] <= nb - 1 - (k - 1))
    BY <2>1, <2>2
  <2>5. /\ f[k] \in S
        /\ Up(idom, f[k][1]) \cap Up(idom, f[k][2]) = Up(idom, x[1]) \cap Up(idom, x[2])
        /\ f[k][1] = f[k][2] \/ (rpo[f[k][1]] <= nb - 1 - (k - 1) - 1 /\ rpo[f[k][2]] <= nb - 1 - (k - 1) - 1)
    BY <2>2, <2>3, <2>4, ClimbStep
  <2>6. nb - 1 - (k - 1) - 1 = nb - 1 - k /\ k \in 0 .. nb
    BY <1>0
  <2> QED
    BY <2>1, <2>2, <2>5, <2>6
<1>7. \A k \in 0 .. nb : k \in G
  <2> HIDE DEF G
  <2> QED
    BY <1>0, <1>5, <1>6, EveryTurn
<1>8. Good(nb)
  BY <1>0, <1>7
<1>9. f[nb][1] \in Known(idom) /\ f[nb][2] \in Known(idom)
  BY <1>8
<1>10. rpo[f[nb][1]] \in Nat
  BY <1>9, TreeKnown
<1>11. f[nb][1] = f[nb][2]
  BY <1>0, <1>8, <1>10
<1> QED
  BY <1>3, <1>8, <1>9, <1>11

-----------------------------------------------------------------------------
(* What NewIdom has after some predecessors: nothing, or the block whose    *)
(* ancestors are those that all known ones of them share.                   *)
Shared(idom, P) == {y \in DOMAIN idom : \A p \in P : y \in Up(idom, p)}
Meets(idom, r, P) ==
  IF P \cap Known(idom) = {} THEN r = M2R_UNDEF
  ELSE r \in Known(idom) /\ Up(idom, r) = Shared(idom, P \cap Known(idom))

(* One more predecessor narrows the shared ancestors by its own. *)
LEMMA MeetStep ==
  ASSUME NEW nb, NEW R, NEW rpo, NEW idom, Numbering(nb, R, rpo), Tree(nb, R, rpo, idom),
         NEW P, NEW r, Meets(idom, r, P), NEW p \in DOMAIN idom
  PROVE  Meets(idom, Meet(r, p, idom, rpo, nb), P \cup {p})
<1>0. M2R_UNDEF \notin Known(idom)
  <2>1. Known(idom) \subseteq 0 .. nb - 1
    BY TreeKnown
  <2> QED
    BY <2>1 DEF M2R_UNDEF
<1>1. CASE p \notin Known(idom)
  <2>1. idom[p] = M2R_UNDEF
    BY <1>1 DEF Known
  <2>2. Meet(r, p, idom, rpo, nb) = r
    BY <2>1 DEF Meet
  <2>3. (P \cup {p}) \cap Known(idom) = P \cap Known(idom)
    BY <1>1
  <2> QED
    BY <2>2, <2>3 DEF Meets
<1>2. CASE p \in Known(idom) /\ P \cap Known(idom) = {}
  <2>1. r = M2R_UNDEF /\ idom[p] # M2R_UNDEF
    BY <1>2 DEF Meets, Known
  <2>2. Meet(r, p, idom, rpo, nb) = p
    BY <2>1 DEF Meet
  <2>3. (P \cup {p}) \cap Known(idom) = {p}
    BY <1>2
  <2>4. Up(idom, p) = Shared(idom, {p})
    BY DEF Shared, Up
  <2> QED
    BY <1>2, <2>2, <2>3, <2>4 DEF Meets
<1>3. CASE p \in Known(idom) /\ P \cap Known(idom) # {}
  <2>1. r \in Known(idom) /\ Up(idom, r) = Shared(idom, P \cap Known(idom)) /\ idom[p] # M2R_UNDEF
    BY <1>3 DEF Meets, Known
  <2>2. Meet(r, p, idom, rpo, nb) = Intersect(idom, rpo, nb, r, p)
    BY <1>0, <2>1 DEF Meet
  <2>3. /\ Intersect(idom, rpo, nb, r, p) \in Known(idom)
        /\ Up(idom, Intersect(idom, rpo, nb, r, p)) = Up(idom, r) \cap Up(idom, p)
    BY <1>3, <2>1, IntersectMeets
  <2>4. (P \cup {p}) \cap Known(idom) = (P \cap Known(idom)) \cup {p}
    BY <1>3
  <2>5. Shared(idom, (P \cap Known(idom)) \cup {p}) = Shared(idom, P \cap Known(idom)) \cap Up(idom, p)
    BY DEF Shared, Up
  <2> QED
    BY <2>1, <2>2, <2>3, <2>4, <2>5 DEF Meets
<1> QED
  BY <1>1, <1>2, <1>3

(* What step 3 proposes for a block is where its processed predecessors meet. *)
LEMMA NewIdomMeets ==
  ASSUME NEW nb, NEW R, NEW rpo, NEW idom, Numbering(nb, R, rpo), Tree(nb, R, rpo, idom),
         NEW q \in Seq(0 .. nb - 1)
  PROVE  Meets(idom, NewIdom(idom, rpo, nb, q), {q[k] : k \in DOMAIN q})
<1> DEFINE S == Known(idom) \cup {M2R_UNDEF}
           Runs(f) == f = [k \in 0 .. Len(q) |->
                              IF k = 0 THEN M2R_UNDEF ELSE Meet(f[k - 1], q[k], idom, rpo, nb)]
           f == CHOOSE f : Runs(f)
<1>0. Len(q) \in Nat /\ DOMAIN q = 1 .. Len(q) /\ \A k \in 1 .. Len(q) : q[k] \in DOMAIN idom
  BY TreeKnown
<1>1. \E g : Runs(g)
  <2> DEFINE st == [y \in S \X (1 .. Len(q)) |-> Meet(y[1], q[y[2]], idom, rpo, nb)]
  <2>1. ASSUME NEW x \in S, NEW k \in 1 .. Len(q)
        PROVE  Meet(x, q[k], idom, rpo, nb) \in S
    <3>1. CASE idom[q[k]] = M2R_UNDEF \/ x = M2R_UNDEF
      BY <1>0, <3>1 DEF Meet, Known
    <3>2. CASE idom[q[k]] # M2R_UNDEF /\ x # M2R_UNDEF
      <4>1. x \in Known(idom) /\ q[k] \in Known(idom)
        BY <1>0, <3>2 DEF Known
      <4>2. Intersect(idom, rpo, nb, x, q[k]) \in Known(idom)
        BY <4>1, IntersectMeets
      <4> QED
        BY <3>2, <4>2 DEF Meet
    <3> QED
      BY <3>1, <3>2
  <2>2. st \in [S \X (1 .. Len(q)) -> S]
    <3>1. ASSUME NEW y \in S \X (1 .. Len(q)) PROVE Meet(y[1], q[y[2]], idom, rpo, nb) \in S
      BY <2>1
    <3> QED
      BY <3>1
  <2>3. M2R_UNDEF \in S
    OBVIOUS
  <2>4. PICK g : Turns(g, S, M2R_UNDEF, Len(q), st)
    <3> HIDE DEF S, st
    <3> QED
      BY <1>0, <2>2, <2>3, LoopRuns
  <2>5. ASSUME NEW k \in 0 .. Len(q)
        PROVE  g[k] = IF k = 0 THEN M2R_UNDEF ELSE Meet(g[k - 1], q[k], idom, rpo, nb)
    <3>1. CASE k = 0
      BY <2>4, <3>1 DEF Turns
    <3>2. CASE k # 0
      <4>1. g[k - 1] \in S /\ k \in 1 .. Len(q)
        BY <1>0, <2>4, <3>2 DEF Turns
      <4>2. st[<< g[k - 1], k >>] = Meet(g[k - 1], q[k], idom, rpo, nb)
        BY <4>1
      <4> QED
        BY <2>4, <3>2, <4>2 DEF Turns
    <3> QED
      BY <3>1, <3>2
  <2> QED
    BY <2>4, <2>5 DEF Turns
<1>2. Runs(f)
  BY <1>1
<1>3. NewIdom(idom, rpo, nb, q) = f[Len(q)]
  BY DEF NewIdom
<1> HIDE DEF f
<1>4. f[0] = M2R_UNDEF /\ \A k \in 1 .. Len(q) : f[k] = Meet(f[k - 1], q[k], idom, rpo, nb)
  <2>1. \A k \in 0 .. Len(q) : f[k] = IF k = 0 THEN M2R_UNDEF ELSE Meet(f[k - 1], q[k], idom, rpo, nb)
    BY <1>2, Zenon
  <2> QED
    BY <1>0, <2>1
<1> DEFINE P(k) == {q[j] : j \in 1 .. k}
           Good(k) == Meets(idom, f[k], P(k))
           G == {k \in 0 .. Len(q) : Good(k)}
<1>5. Good(0)
  <2>1. P(0) = {}
    OBVIOUS
  <2> QED
    BY <1>4, <2>1 DEF Meets
<1>6. ASSUME NEW k \in 1 .. Len(q), Good(k - 1)
      PROVE  Good(k)
  <2>1. P(k) = P(k - 1) \cup {q[k]}
    BY <1>0
  <2>2. Meets(idom, f[k - 1], P(k - 1)) /\ q[k] \in DOMAIN idom
    BY <1>0, <1>6
  <2> HIDE DEF P
  <2>3. Meets(idom, Meet(f[k - 1], q[k], idom, rpo, nb), P(k - 1) \cup {q[k]})
    BY <2>2, MeetStep
  <2>4. f[k] = Meet(f[k - 1], q[k], idom, rpo, nb)
    BY <1>4
  <2> QED
    BY <2>1, <2>3, <2>4
<1>7. Good(Len(q))
  <2> HIDE DEF Good
  <2>1. 0 \in G /\ \A k \in 1 .. Len(q) : k - 1 \in G => k \in G
    BY <1>0, <1>5, <1>6
  <2> HIDE DEF G
  <2>2. \A k \in 0 .. Len(q) : k \in G
    BY <1>0, <2>1, EveryTurn
  <2> QED
    BY <1>0, <2>2 DEF G
<1>8. P(Len(q)) = {q[k] : k \in DOMAIN q}
  BY <1>0
<1> QED
  BY <1>3, <1>7, <1>8

-----------------------------------------------------------------------------
(***************************************************************************)
(* The graph: pr[v] are the predecessors of v, R the blocks the entry      *)
(* reaches.  av[a][n] are the blocks at most n edges from the entry on a   *)
(* path that does not enter a.                                             *)
(***************************************************************************)
Graph(nb, R, rpo, pr) ==
  /\ Numbering(nb, R, rpo)
  /\ pr \in [0 .. nb - 1 -> SUBSET (0 .. nb - 1)]
  /\ \A u \in R, v \in 0 .. nb - 1 : u \in pr[v] => v \in R
  /\ \A v \in R \ {0} : \E u \in pr[v] \cap R : rpo[u] < rpo[v]

Rounds(nb, pr, av) ==
  /\ av \in [0 .. nb -> [0 .. nb -> SUBSET (0 .. nb - 1)]]
  /\ \A a \in 0 .. nb :
        /\ av[a][0] = {0} \ {a}
        /\ \A n \in 1 .. nb : \A v \in 0 .. nb - 1 :
              v \in av[a][n] <=> v \in av[a][n - 1] \/ (v # a /\ pr[v] \cap av[a][n - 1] # {})

(* The numbers below nb are finitely many. *)
LEMMA BlockCount ==
  ASSUME NEW nb \in Nat \ {0}
  PROVE  IsFiniteSet(0 .. nb - 1) /\ Cardinality(0 .. nb - 1) = nb
<1>1. \A a, b \in Int : IsFiniteSet(a .. b) /\ Cardinality(a .. b) = IF a > b THEN 0 ELSE b - a + 1
  BY FS_Interval
<1>2. nb - 1 \in Int /\ 0 \in Int
  OBVIOUS
<1>3. IsFiniteSet(0 .. nb - 1)
      /\ Cardinality(0 .. nb - 1) = IF 0 > nb - 1 THEN 0 ELSE nb - 1 - 0 + 1
  BY <1>1, <1>2, Zenon
<1> QED
  BY <1>3

(* The rounds hold blocks. *)
LEMMA RoundsType ==
  ASSUME NEW nb, NEW pr, NEW av, Rounds(nb, pr, av), NEW a \in 0 .. nb, NEW n \in 0 .. nb
  PROVE  av[a][n] \subseteq 0 .. nb - 1
<1>1. av[a] \in [0 .. nb -> SUBSET (0 .. nb - 1)]
  BY DEF Rounds
<1>2. av[a][n] \in SUBSET (0 .. nb - 1)
  BY <1>1
<1> QED
  BY <1>2

(* Every round holds the earlier ones. *)
LEMMA RoundsGrow ==
  ASSUME NEW nb, NEW R, NEW rpo, NEW pr, NEW av, Graph(nb, R, rpo, pr), Rounds(nb, pr, av),
         NEW a \in 0 .. nb, NEW n \in 0 .. nb, NEW i \in 0 .. n
  PROVE  av[a][i] \subseteq av[a][n]
<1>0. nb \in Nat
  BY DEF Graph, Numbering
<1> DEFINE G == {k \in 0 .. n - i : av[a][i] \subseteq av[a][i + k]}
<1>1. n - i \in Nat /\ 0 \in G
  BY <1>0
<1>2. ASSUME NEW k \in 1 .. n - i, k - 1 \in G PROVE k \in G
  <2>1. i + k \in 1 .. nb /\ i + (k - 1) = i + k - 1 /\ i + k - 1 \in 0 .. nb
    BY <1>0
  <2>2. av[a][i] \subseteq av[a][i + k - 1] /\ av[a][i + k - 1] \subseteq 0 .. nb - 1
    BY <1>2, <2>1, RoundsType
  <2>3. av[a][i + k - 1] \subseteq av[a][i + k]
    BY <2>1, <2>2 DEF Rounds
  <2> QED
    BY <2>2, <2>3
<1>3. \A k \in 0 .. n - i : k \in G
  <2> HIDE DEF G
  <2> QED
    BY <1>1, <1>2, EveryTurn
<1>4. n - i \in G /\ i + (n - i) = n
  BY <1>0, <1>1, <1>3
<1> QED
  BY <1>4

(* They are reached blocks other than a. *)
LEMMA RoundsReached ==
  ASSUME NEW nb, NEW R, NEW rpo, NEW pr, NEW av, Graph(nb, R, rpo, pr), Rounds(nb, pr, av),
         NEW a \in 0 .. nb, NEW n \in 0 .. nb
  PROVE  av[a][n] \subseteq R \ {a}
<1>0. nb \in Nat /\ 0 \in R
  BY DEF Graph, Numbering
<1> DEFINE G == {k \in 0 .. nb : av[a][k] \subseteq R \ {a}}
<1>1. 0 \in G
  BY <1>0 DEF Rounds
<1>2. ASSUME NEW k \in 1 .. nb, k - 1 \in G PROVE k \in G
  <2>1. av[a][k - 1] \subseteq R \ {a} /\ av[a][k] \subseteq 0 .. nb - 1
    BY <1>0, <1>2, RoundsType
  <2>2. ASSUME NEW v \in av[a][k], v # a, pr[v] \cap av[a][k - 1] # {} PROVE v \in R \ {a}
    BY <2>1, <2>2 DEF Graph
  <2>3. \A v \in av[a][k] : v \in av[a][k - 1] \/ (v # a /\ pr[v] \cap av[a][k - 1] # {})
    BY <2>1 DEF Rounds
  <2> QED
    BY <2>1, <2>2, <2>3
<1>3. \A k \in 0 .. nb : k \in G
  <2> HIDE DEF G
  <2> QED
    BY <1>0, <1>1, <1>2, EveryTurn
<1> QED
  BY <1>3

(* A block that is not the entry got in by one of its predecessors. *)
LEMMA RoundsEnter ==
  ASSUME NEW nb, NEW R, NEW rpo, NEW pr, NEW av, Graph(nb, R, rpo, pr), Rounds(nb, pr, av),
         NEW a \in 0 .. nb, NEW n \in 1 .. nb, NEW v \in av[a][n], v # 0
  PROVE  pr[v] \cap av[a][n - 1] # {}
<1>0. nb \in Nat
  BY DEF Graph, Numbering
<1> DEFINE Good(k) == k # 0 /\ v \in av[a][k] => pr[v] \cap av[a][k - 1] # {}
           G == {k \in 0 .. nb : Good(k)}
<1>1. 0 \in G
  BY <1>0
<1>2. ASSUME NEW k \in 1 .. nb, Good(k - 1) PROVE Good(k)
  <2> SUFFICES ASSUME v \in av[a][k] PROVE pr[v] \cap av[a][k - 1] # {}
    OBVIOUS
  <2>1. CASE v \notin av[a][k - 1]
    <3>1. v \in 0 .. nb - 1
      BY <1>0, RoundsType
    <3> QED
      BY <2>1, <3>1 DEF Rounds
  <2>2. CASE v \in av[a][k - 1]
    <3>1. k - 1 # 0
      BY <1>0, <2>2 DEF Rounds
    <3>2. pr[v] \cap av[a][k - 1 - 1] # {}
      BY <1>2, <2>2, <3>1
    <3>3. k - 1 \in 0 .. nb /\ k - 1 - 1 \in 0 .. k - 1
      BY <1>0, <3>1
    <3>4. av[a][k - 1 - 1] \subseteq av[a][k - 1]
      BY <3>3, RoundsGrow
    <3> QED
      BY <3>2, <3>4
  <2> QED
    BY <2>1, <2>2
<1>3. Good(n)
  <2> HIDE DEF Good
  <2>1. \A k \in 1 .. nb : k - 1 \in G => k \in G
    BY <1>0, <1>2
  <2> HIDE DEF G
  <2>2. \A k \in 0 .. nb : k \in G
    BY <1>0, <1>1, <2>1, EveryTurn
  <2> QED
    BY <1>0, <2>2 DEF G
<1> QED
  BY <1>3

(* A path round a that has not entered b is a path round b. *)
LEMMA RoundsPass ==
  ASSUME NEW nb, NEW R, NEW rpo, NEW pr, NEW av, Graph(nb, R, rpo, pr), Rounds(nb, pr, av),
         NEW a \in 0 .. nb, NEW b \in 0 .. nb, NEW n \in 0 .. nb, b \notin av[a][n]
  PROVE  av[a][n] \subseteq av[b][n]
<1>0. nb \in Nat /\ n \in Nat
  BY DEF Graph, Numbering
<1>1. ASSUME NEW k \in 0 .. n PROVE b \notin av[a][k] /\ k \in 0 .. nb /\ av[a][k] \subseteq 0 .. nb - 1
  <2>1. k \in 0 .. nb
    BY <1>0
  <2> QED
    BY <2>1, RoundsGrow, RoundsType
<1> DEFINE G == {k \in 0 .. n : av[a][k] \subseteq av[b][k]}
<1>2. 0 \in G
  BY <1>0, <1>1 DEF Rounds
<1>3. ASSUME NEW k \in 1 .. n, k - 1 \in G PROVE k \in G
  <2>1. k \in 1 .. nb /\ k \in 0 .. n /\ k - 1 \in 0 .. n
    BY <1>0
  <2>2. av[a][k - 1] \subseteq av[b][k - 1]
    BY <1>3
  <2>3. ASSUME NEW v \in av[a][k] PROVE v \in av[b][k]
    <3>1. v \in 0 .. nb - 1 /\ v # b
      BY <1>1, <2>1
    <3>2. v \in av[a][k - 1] \/ pr[v] \cap av[a][k - 1] # {}
      BY <2>1, <3>1 DEF Rounds
    <3>3. v \in av[b][k - 1] \/ pr[v] \cap av[b][k - 1] # {}
      BY <2>2, <3>2
    <3> QED
      BY <2>1, <3>1, <3>3 DEF Rounds
  <2> QED
    BY <2>1, <2>3
<1>4. \A k \in 0 .. n : k \in G
  <2> HIDE DEF G
  <2> QED
    BY <1>0, <1>2, <1>3, EveryTurn
<1> QED
  BY <1>0, <1>4

(* nb edges are enough: one more adds nothing. *)
LEMMA RoundsEnd ==
  ASSUME NEW nb, NEW R, NEW rpo, NEW pr, NEW av, Graph(nb, R, rpo, pr), Rounds(nb, pr, av),
         NEW a \in 0 .. nb, NEW v \in 0 .. nb - 1, v # a, pr[v] \cap av[a][nb] # {}
  PROVE  v \in av[a][nb]
<1>0. nb \in Nat /\ nb # 0
  BY DEF Graph, Numbering
<1> DEFINE Closed(k) == \A x \in 0 .. nb - 1 : x # a /\ pr[x] \cap av[a][k] # {} => x \in av[a][k]
           Good(k) == Closed(k) \/ Cardinality(av[a][k]) > k
           G == {k \in 0 .. nb : Good(k)}
<1>1. \A k \in 0 .. nb : av[a][k] \subseteq 0 .. nb - 1 /\ IsFiniteSet(av[a][k])
                         /\ Cardinality(av[a][k]) \in Nat
  <2>1. \A k \in 0 .. nb : av[a][k] \subseteq 0 .. nb - 1
    BY RoundsType
  <2>2. IsFiniteSet(0 .. nb - 1)
    BY <1>0, BlockCount
  <2> QED
    BY <2>1, <2>2, FS_Subset, FS_CardinalityType
<1>2. Good(0)
  <2>1. CASE a = 0
    BY <2>1 DEF Rounds
  <2>2. CASE a # 0
    <3>1. av[a][0] = {0}
      BY <2>2 DEF Rounds
    <3>2. Cardinality({0}) = 1
      BY FS_Singleton
    <3> QED
      BY <3>1, <3>2
  <2> QED
    BY <2>1, <2>2
<1>3. ASSUME NEW k \in 1 .. nb, Good(k - 1) PROVE Good(k)
  <2>1. k - 1 \in 0 .. nb /\ k \in 0 .. nb /\ k - 1 \in 0 .. k
    BY <1>0
  <2>2. av[a][k - 1] \subseteq av[a][k]
    BY <2>1, RoundsGrow
  <2>3. CASE Closed(k - 1)
    <3>1. \A x \in 0 .. nb - 1 : x \in av[a][k] => x \in av[a][k - 1]
      BY <2>3 DEF Rounds
    <3>2. av[a][k] = av[a][k - 1]
      BY <1>1, <2>1, <2>2, <3>1
    <3> QED
      BY <2>3, <3>2
  <2>4. CASE ~Closed(k - 1)
    <3>1. PICK x \in 0 .. nb - 1 : x # a /\ pr[x] \cap av[a][k - 1] # {} /\ x \notin av[a][k - 1]
      BY <2>4
    <3>2. x \in av[a][k]
      BY <3>1 DEF Rounds
    <3>3. Cardinality(av[a][k - 1]) < Cardinality(av[a][k])
      <4>1. /\ Cardinality(av[a][k - 1]) <= Cardinality(av[a][k])
            /\ Cardinality(av[a][k - 1]) = Cardinality(av[a][k]) => av[a][k - 1] = av[a][k]
        BY <1>1, <2>1, <2>2, FS_Subset
      <4> QED
        BY <1>1, <2>1, <3>1, <3>2, <4>1
    <3>4. Cardinality(av[a][k - 1]) > k - 1
      BY <1>3, <2>4
    <3> QED
      BY <1>0, <1>1, <2>1, <3>3, <3>4
  <2> QED
    BY <2>3, <2>4
<1>4. Good(nb)
  <2> HIDE DEF Good
  <2>1. 0 \in G /\ \A k \in 1 .. nb : k - 1 \in G => k \in G
    BY <1>0, <1>2, <1>3
  <2> HIDE DEF G
  <2>2. \A k \in 0 .. nb : k \in G
    BY <1>0, <2>1, EveryTurn
  <2> QED
    BY <1>0, <2>2 DEF G
<1>5. Cardinality(av[a][nb]) <= nb
  <2>1. IsFiniteSet(0 .. nb - 1) /\ Cardinality(0 .. nb - 1) = nb /\ nb \in 0 .. nb
    BY <1>0, BlockCount
  <2> QED
    BY <1>1, <2>1, FS_Subset
<1>6. Closed(nb)
  <2>1. nb \in 0 .. nb
    BY <1>0
  <2> QED
    BY <1>0, <1>1, <1>4, <1>5, <2>1
<1> QED
  BY <1>6

-----------------------------------------------------------------------------
(***************************************************************************)
(* One step of the iteration hangs the block b below a block r with a      *)
(* smaller number: what becomes of everybody's ancestors.                  *)
(***************************************************************************)
Hung(idom, new, R, rpo, b, r) ==
  /\ b \in R \ {0} /\ r \in Known(idom) /\ rpo[r] < rpo[b]
  /\ new = [idom EXCEPT ![b] = r]

(* Hanging b below r leaves a tree, with b known and nothing else changed. *)
LEMMA HungTree ==
  ASSUME NEW nb, NEW R, NEW rpo, NEW idom, Numbering(nb, R, rpo), Tree(nb, R, rpo, idom),
         NEW new, NEW b, NEW r, Hung(idom, new, R, rpo, b, r)
  PROVE  /\ Tree(nb, R, rpo, new) /\ Known(new) = Known(idom) \cup {b}
         /\ DOMAIN new = DOMAIN idom /\ new[b] = r
         /\ \A x \in DOMAIN idom : x # b => new[x] = idom[x]
<1>1. /\ Known(idom) \subseteq R /\ R \subseteq 0 .. nb - 1 /\ DOMAIN idom = 0 .. nb - 1
      /\ 0 \in Known(idom) /\ idom[0] = 0
      /\ \A x \in Known(idom) : idom[x] \in Known(idom) /\ (x # 0 => rpo[idom[x]] < rpo[x])
  BY TreeKnown
<1>2. b \in R /\ b # 0 /\ r \in Known(idom) /\ rpo[r] < rpo[b] /\ new = [idom EXCEPT ![b] = r]
  BY DEF Hung
<1>3. DOMAIN new = DOMAIN idom /\ new[b] = r /\ \A x \in DOMAIN idom : x # b => new[x] = idom[x]
  BY <1>1, <1>2
<1>4. r \in 0 .. nb - 1 /\ r # M2R_UNDEF
  <2>1. r \in 0 .. nb - 1 /\ nb \in Nat
    BY <1>1, <1>2 DEF Numbering
  <2> QED
    BY <2>1 DEF M2R_UNDEF
<1>5. Known(new) = Known(idom) \cup {b}
  BY <1>1, <1>2, <1>3, <1>4 DEF Known
<1>6. new \in [0 .. nb - 1 -> (0 .. nb - 1) \cup {M2R_UNDEF}] /\ new[0] = 0
  <2>1. idom \in [0 .. nb - 1 -> (0 .. nb - 1) \cup {M2R_UNDEF}]
    BY DEF Tree
  <2>2. new \in [0 .. nb - 1 -> (0 .. nb - 1) \cup {M2R_UNDEF}]
    BY <1>2, <1>4, <2>1
  <2>3. 0 \in DOMAIN idom
    BY <1>1
  <2> QED
    BY <1>1, <1>2, <1>3, <2>2, <2>3
<1>7. ASSUME NEW x \in Known(new)
      PROVE  x \in R /\ new[x] \in Known(new) /\ (x # 0 => rpo[new[x]] < rpo[x])
  <2>1. CASE x = b
    BY <1>2, <1>3, <1>5, <2>1
  <2>2. CASE x # b
    BY <1>1, <1>3, <1>5, <2>2
  <2> QED
    BY <2>1, <2>2
<1> QED
  BY <1>3, <1>5, <1>6, <1>7 DEF Tree

(* A block that is not below b keeps its ancestors. *)
LEMMA HungElsewhere ==
  ASSUME NEW nb, NEW R, NEW rpo, NEW idom, Numbering(nb, R, rpo), Tree(nb, R, rpo, idom),
         NEW new, NEW b, NEW r, Hung(idom, new, R, rpo, b, r),
         NEW x \in Known(idom), b \notin Up(idom, x)
  PROVE  Up(new, x) = Up(idom, x)
<1>1. /\ Tree(nb, R, rpo, new) /\ x \in Known(new) /\ DOMAIN new = DOMAIN idom
      /\ \A y \in DOMAIN idom : y # b => new[y] = idom[y]
  BY HungTree
<1>2. Climbing(idom, Up(idom, x)) /\ x \in Up(idom, x) /\ Up(idom, x) \subseteq DOMAIN idom
  BY UpClimbs DEF Known
<1>3. Climbing(new, Up(new, x)) /\ x \in Up(new, x) /\ Up(new, x) \subseteq DOMAIN new
  BY <1>1, UpClimbs DEF Known
<1>4. Climbing(new, Up(idom, x))
  BY <1>1, <1>2 DEF Climbing
<1>5. Up(new, x) \subseteq Up(idom, x)
  BY <1>1, <1>2, <1>4, UpLeast
<1>6. Climbing(idom, Up(new, x))
  BY <1>1, <1>3, <1>5 DEF Climbing
<1>7. Up(idom, x) \subseteq Up(new, x)
  BY <1>1, <1>3, <1>6, UpLeast
<1> QED
  BY <1>5, <1>7

(* b is now an ancestor of its own, and has those of r. *)
LEMMA HungItself ==
  ASSUME NEW nb, NEW R, NEW rpo, NEW idom, Numbering(nb, R, rpo), Tree(nb, R, rpo, idom),
         NEW new, NEW b, NEW r, Hung(idom, new, R, rpo, b, r)
  PROVE  Up(new, b) = {b} \cup Up(idom, r) /\ b \notin Up(idom, r)
<1>1. Tree(nb, R, rpo, new) /\ b \in Known(new) /\ new[b] = r
  BY HungTree
<1>2. b \in R /\ r \in Known(idom) /\ rpo[r] < rpo[b]
  BY DEF Hung
<1>3. b \notin Up(idom, r)
  <2>1. \A y \in Up(idom, r) : rpo[y] <= rpo[r]
    BY <1>2, UpClimbs
  <2>2. r \in R /\ rpo[b] \in Nat /\ rpo[r] \in Nat
    BY <1>2, TreeKnown
  <2> QED
    BY <1>2, <2>1, <2>2
<1>4. Up(new, r) = Up(idom, r)
  BY <1>2, <1>3, HungElsewhere
<1>5. Up(new, b) = {b} \cup Up(new, r)
  BY <1>1, UpStep
<1> QED
  BY <1>3, <1>4, <1>5

(* A block below b keeps what it had between itself and b, and has b's. *)
LEMMA HungBelow ==
  ASSUME NEW nb, NEW R, NEW rpo, NEW idom, Numbering(nb, R, rpo), Tree(nb, R, rpo, idom),
         NEW new, NEW b, NEW r, Hung(idom, new, R, rpo, b, r),
         NEW x \in Known(idom), b \in Up(idom, x)
  PROVE  /\ Up(new, x) \subseteq Up(idom, x) \cup Up(new, b)
         /\ Up(new, b) \subseteq Up(new, x)
         /\ Up(idom, x) \subseteq Up(new, x) \cup Up(idom, b)
<1>1. /\ Tree(nb, R, rpo, new) /\ x \in Known(new) /\ b \in Known(new) /\ DOMAIN new = DOMAIN idom
      /\ \A y \in DOMAIN idom : y # b => new[y] = idom[y]
  BY HungTree
<1>2. Climbing(idom, Up(idom, x)) /\ x \in Up(idom, x) /\ Up(idom, x) \subseteq Known(idom)
  BY UpClimbs
<1>3. Climbing(new, Up(new, x)) /\ x \in Up(new, x) /\ Up(new, x) \subseteq DOMAIN new
  BY <1>1, UpClimbs DEF Known
<1>4. Climbing(new, Up(new, b)) /\ b \in Up(new, b) /\ Up(new, b) \subseteq DOMAIN new
  BY <1>1, UpClimbs DEF Known
<1>5. b \in Known(idom) /\ Known(idom) \subseteq DOMAIN idom
  BY <1>2 DEF Known
<1>6. Climbing(idom, Up(idom, b)) /\ b \in Up(idom, b) /\ Up(idom, b) \subseteq DOMAIN idom
  BY <1>5, UpClimbs
<1>7. Up(new, x) \subseteq Up(idom, x) \cup Up(new, b)
  <2> DEFINE S == Up(idom, x) \cup Up(new, b)
  <2>1. Climbing(new, S)
    BY <1>1, <1>2, <1>4 DEF Climbing
  <2>2. S \subseteq DOMAIN new /\ x \in S
    BY <1>1, <1>2, <1>4, <1>5
  <2> HIDE DEF S
  <2>3. Up(new, x) \subseteq S
    BY <2>1, <2>2, UpLeast
  <2> QED
    BY <2>3 DEF S
<1>8. b \in Up(new, x)
  <2> SUFFICES ASSUME b \notin Up(new, x) PROVE FALSE
    OBVIOUS
  <2>1. Climbing(idom, Up(new, x))
    BY <1>1, <1>3 DEF Climbing
  <2>2. Up(idom, x) \subseteq Up(new, x)
    BY <1>1, <1>3, <2>1, UpLeast
  <2> QED
    BY <2>2
<1>9. Up(new, b) \subseteq Up(new, x)
  BY <1>1, <1>8, UpUp
<1>10. Up(idom, x) \subseteq Up(new, x) \cup Up(idom, b)
  <2> DEFINE S == Up(new, x) \cup Up(idom, b)
  <2>1. Climbing(idom, S)
    BY <1>1, <1>3, <1>6 DEF Climbing
  <2>2. S \subseteq DOMAIN idom /\ x \in S
    BY <1>1, <1>3, <1>6
  <2> HIDE DEF S
  <2>3. Up(idom, x) \subseteq S
    BY <2>1, <2>2, UpLeast
  <2> QED
    BY <2>3 DEF S
<1> QED
  BY <1>7, <1>9, <1>10

-----------------------------------------------------------------------------
(***************************************************************************)
(* What every step of the iteration keeps.  StaysOut: a set that forward   *)
(* edges do not leave is not entered by climbing.  HasDominators: the      *)
(* dominators of a known block are among its ancestors.                    *)
(***************************************************************************)
PredsOf(preds) == [v \in DOMAIN preds |-> {preds[v][k] : k \in DOMAIN preds[v]}]

ForwardClosed(R, rpo, pr, S) ==
  \A u \in S \cap R, v \in R : u \in pr[v] /\ rpo[u] < rpo[v] => v \in S

StaysOut(nb, R, rpo, pr, idom) ==
  \A S \in SUBSET (0 .. nb - 1) : ForwardClosed(R, rpo, pr, S) =>
      \A x \in Known(idom) : x \notin S => idom[x] \notin S

HasDominators(nb, av, idom) ==
  \A x \in Known(idom), d \in 0 .. nb - 1 : x \notin av[d][nb] => d \in Up(idom, x)

Iterating(nb, R, rpo, pr, av, idom) ==
  /\ Tree(nb, R, rpo, idom)
  /\ StaysOut(nb, R, rpo, pr, idom)
  /\ HasDominators(nb, av, idom)

(* A known block outside a forward-closed set has no ancestor in it. *)
LEMMA StaysOutUp ==
  ASSUME NEW nb, NEW R, NEW rpo, NEW pr, NEW idom, Graph(nb, R, rpo, pr), Tree(nb, R, rpo, idom),
         StaysOut(nb, R, rpo, pr, idom),
         NEW S \in SUBSET (0 .. nb - 1), ForwardClosed(R, rpo, pr, S),
         NEW x \in Known(idom), x \notin S
  PROVE  Up(idom, x) \cap S = {}
<1>0. Numbering(nb, R, rpo)
  BY DEF Graph
<1> DEFINE T == Known(idom) \ S
<1>1. T \subseteq DOMAIN idom /\ x \in T
  BY DEF Known
<1>2. \A z \in T : idom[z] \in T
  BY <1>0, TreeKnown DEF StaysOut
<1>3. Climbing(idom, T)
  BY <1>1, <1>2 DEF Climbing
<1>4. Up(idom, x) \subseteq T
  <2> HIDE DEF T
  <2> QED
    BY <1>1, <1>3, UpLeast
<1> QED
  BY <1>4

(* A turn of the inner loop hangs b below the meet of its known predecessors. *)
Relaxed(idom, new, R, rpo, pr, b, r) ==
  /\ Hung(idom, new, R, rpo, b, r)
  /\ Up(idom, r) = Shared(idom, pr[b] \cap Known(idom))

(* Relax hangs b below the meeting point of its processed predecessors. *)
LEMMA RelaxHangs ==
  ASSUME NEW nb, NEW R, NEW rpo, NEW preds, NEW pr, NEW idom,
         preds \in [0 .. nb - 1 -> Seq(0 .. nb - 1)], pr = PredsOf(preds),
         Graph(nb, R, rpo, pr), Tree(nb, R, rpo, idom),
         NEW b \in R \ {0},
         NEW u \in pr[b] \cap Known(idom), rpo[u] < rpo[b]
  PROVE  \E r : Relaxed(idom, Relax(idom, b, rpo, nb, preds), R, rpo, pr, b, r)
<1> DEFINE r == NewIdom(idom, rpo, nb, preds[b])
<1>0. Numbering(nb, R, rpo)
  BY DEF Graph
<1>1. b \in 0 .. nb - 1 /\ preds[b] \in Seq(0 .. nb - 1)
  BY <1>0 DEF Numbering
<1>2. pr[b] = {preds[b][k] : k \in DOMAIN preds[b]}
  BY <1>1 DEF PredsOf
<1>3. Meets(idom, r, pr[b])
  BY <1>0, <1>1, <1>2, NewIdomMeets
<1>4. r \in Known(idom) /\ Up(idom, r) = Shared(idom, pr[b] \cap Known(idom))
  BY <1>3 DEF Meets
<1>5. r \in Up(idom, r)
  BY <1>0, <1>4, UpClimbs
<1>6. r \in Up(idom, u)
  BY <1>4, <1>5 DEF Shared
<1>7. rpo[r] <= rpo[u]
  BY <1>0, <1>6, UpClimbs
<1>8. rpo[r] < rpo[b]
  <2>1. u \in R /\ r \in R /\ rpo[u] \in Nat /\ rpo[r] \in Nat /\ rpo[b] \in Nat
    BY <1>0, <1>4, TreeKnown
  <2> QED
    BY <1>7, <2>1
<1> HIDE DEF r
<1>9. r # M2R_UNDEF
  <2>1. nb \in Nat /\ r \in 0 .. nb - 1
    BY <1>0, <1>4, TreeKnown DEF Numbering
  <2> QED
    BY <2>1 DEF M2R_UNDEF
<1>10. Relax(idom, b, rpo, nb, preds) = [idom EXCEPT ![b] = r]
  BY <1>9 DEF Relax, Settle, r
<1> QED
  BY <1>4, <1>8, <1>10 DEF Relaxed, Hung

(* Hanging keeps the known blocks outside a forward-closed set out of it. *)
LEMMA RelaxStaysOut ==
  ASSUME NEW nb, NEW R, NEW rpo, NEW pr, NEW idom, Graph(nb, R, rpo, pr),
         Tree(nb, R, rpo, idom), StaysOut(nb, R, rpo, pr, idom),
         NEW new, NEW b, NEW r, Relaxed(idom, new, R, rpo, pr, b, r),
         NEW u \in pr[b] \cap Known(idom), rpo[u] < rpo[b]
  PROVE  StaysOut(nb, R, rpo, pr, new)
<1>0. Numbering(nb, R, rpo) /\ Hung(idom, new, R, rpo, b, r)
  BY DEF Graph, Relaxed
<1>1. /\ Known(new) = Known(idom) \cup {b} /\ new[b] = r
      /\ \A x \in DOMAIN idom : x # b => new[x] = idom[x]
  BY <1>0, HungTree
<1> SUFFICES ASSUME NEW S \in SUBSET (0 .. nb - 1), ForwardClosed(R, rpo, pr, S),
                    NEW x \in Known(new), x \notin S
             PROVE  new[x] \notin S
  BY DEF StaysOut
<1>2. CASE x # b
  <2>1. x \in Known(idom) /\ x \in DOMAIN idom /\ new[x] = idom[x]
    BY <1>1, <1>2 DEF Known
  <2> QED
    BY <2>1 DEF StaysOut
<1>3. CASE x = b
  <2>1. b \in R /\ r \in Known(idom) /\ u \in R
    BY <1>0, TreeKnown DEF Hung
  <2>2. u \notin S
    BY <1>3, <2>1 DEF ForwardClosed
  <2>3. Up(idom, u) \cap S = {}
    BY <2>2, StaysOutUp
  <2>4. r \in Up(idom, r)
    BY <1>0, <2>1, UpClimbs
  <2>5. r \in Up(idom, u)
    BY <2>4 DEF Relaxed, Shared
  <2> QED
    BY <1>1, <1>3, <2>3, <2>5
<1> QED
  BY <1>2, <1>3

(* Hanging loses no dominator: each is still an ancestor. *)
LEMMA RelaxHasDominators ==
  ASSUME NEW nb, NEW R, NEW rpo, NEW pr, NEW av, NEW idom, Graph(nb, R, rpo, pr),
         Rounds(nb, pr, av), Iterating(nb, R, rpo, pr, av, idom),
         NEW new, NEW b, NEW r, Relaxed(idom, new, R, rpo, pr, b, r),
         NEW u \in pr[b] \cap Known(idom), rpo[u] < rpo[b]
  PROVE  HasDominators(nb, av, new)
<1>0. Numbering(nb, R, rpo) /\ Hung(idom, new, R, rpo, b, r) /\ nb \in Nat \ {0}
      /\ Tree(nb, R, rpo, idom) /\ StaysOut(nb, R, rpo, pr, idom)
      /\ HasDominators(nb, av, idom) /\ \A a \in 0 .. nb - 1 : a \in 0 .. nb
  BY DEF Graph, Relaxed, Numbering, Iterating
<1>1. Known(new) = Known(idom) \cup {b} /\ Tree(nb, R, rpo, new)
  BY <1>0, HungTree
<1>2. b \in R /\ b # 0 /\ r \in Known(idom) /\ b \in 0 .. nb - 1 /\ pr[b] \subseteq 0 .. nb - 1
  BY <1>0 DEF Hung, Numbering, Graph
<1>3. Up(new, b) = {b} \cup Up(idom, r)
  BY <1>0, HungItself
<1> SUFFICES ASSUME NEW x \in Known(new), NEW d \in 0 .. nb - 1, x \notin av[d][nb]
             PROVE  d \in Up(new, x)
  BY DEF HasDominators
<1>4. ASSUME b \notin av[d][nb] PROVE d \in Up(new, b)
  <2>1. CASE d = b
    BY <1>3, <2>1
  <2>2. CASE d # b
    <3>1. ASSUME NEW p \in pr[b] \cap Known(idom) PROVE d \in Up(idom, p)
      <4>1. p \notin av[d][nb]
        BY <1>0, <1>2, <1>4, <2>2, RoundsEnd
      <4> QED
        BY <1>0, <4>1 DEF HasDominators
    <3>2. d \in DOMAIN idom
      BY <1>0, TreeKnown
    <3>3. d \in Up(idom, r)
      BY <3>1, <3>2 DEF Relaxed, Shared
    <3> QED
      BY <1>3, <3>3
  <2> QED
    BY <2>1, <2>2
<1>5. CASE x = b
  BY <1>4, <1>5
<1>6. CASE x # b
  <2>1. x \in Known(idom) /\ d \in Up(idom, x)
    BY <1>0, <1>1, <1>6 DEF HasDominators
  <2>2. CASE b \notin Up(idom, x)
    BY <1>0, <2>1, <2>2, HungElsewhere
  <2>3. CASE b \in Up(idom, x)
    <3>1. /\ Up(new, b) \subseteq Up(new, x)
          /\ Up(idom, x) \subseteq Up(new, x) \cup Up(idom, b)
      BY <1>0, <2>1, <2>3, HungBelow
    <3>2. CASE d = b \/ d \notin Up(idom, b) \/ b \notin av[d][nb]
      BY <1>3, <1>4, <2>1, <3>1, <3>2
    <3>3. CASE d # b /\ d \in Up(idom, b) /\ b \in av[d][nb]
      <4> DEFINE S == {v \in av[d][nb] \cap R : rpo[v] > rpo[d]}
      <4>1. b \in Known(idom) /\ Up(idom, b) \subseteq Known(idom)
        <5>1. b \in Known(idom)
          BY <1>0, <2>1, <2>3, UpClimbs
        <5> QED
          BY <1>0, <5>1, UpClimbs
      <4>2. d \in R /\ \A v \in R : rpo[v] \in Nat
        BY <1>0, <3>3, <4>1, TreeKnown
      <4>3. rpo[d] <= rpo[b] /\ rpo[d] # rpo[b]
        BY <1>0, <1>2, <3>3, <4>1, <4>2, UpClimbs DEF Numbering
      <4>4. b \in S
        BY <1>2, <3>3, <4>2, <4>3
      <4>5. S \subseteq 0 .. nb - 1
        BY <1>0 DEF Numbering
      <4>6. ASSUME NEW w \in S, NEW v \in R, w \in pr[v], rpo[w] < rpo[v] PROVE v \in S
        <5>1. v # d /\ rpo[v] > rpo[d] /\ v \in 0 .. nb - 1
          <6>1. v \in 0 .. nb - 1
            BY <1>0 DEF Numbering
          <6>2. rpo[w] > rpo[d] /\ rpo[w] \in Nat /\ rpo[v] \in Nat /\ rpo[d] \in Nat
            BY <4>2, <4>6
          <6> QED
            BY <4>6, <6>1, <6>2
        <5>2. pr[v] \cap av[d][nb] # {}
          BY <4>6
        <5>3. v \in av[d][nb]
          BY <1>0, <5>1, <5>2, RoundsEnd
        <5> QED
          BY <5>1, <5>3
      <4>7. ForwardClosed(R, rpo, pr, S)
        BY <4>6 DEF ForwardClosed
      <4>8. x \notin S
        OBVIOUS
      <4>9. Up(idom, x) \cap S = {}
        <5> HIDE DEF S
        <5> QED
          BY <1>0, <2>1, <4>5, <4>7, <4>8, StaysOutUp
      <4> QED
        BY <2>3, <4>4, <4>9
    <3> QED
      BY <3>2, <3>3
  <2> QED
    BY <2>2, <2>3
<1> QED
  BY <1>5, <1>6

(* So hanging keeps the invariant of the iteration and adds b to the known. *)
LEMMA RelaxIterating ==
  ASSUME NEW nb, NEW R, NEW rpo, NEW pr, NEW av, NEW idom, Graph(nb, R, rpo, pr),
         Rounds(nb, pr, av), Iterating(nb, R, rpo, pr, av, idom),
         NEW new, NEW b, NEW r, Relaxed(idom, new, R, rpo, pr, b, r),
         NEW u \in pr[b] \cap Known(idom), rpo[u] < rpo[b]
  PROVE  Iterating(nb, R, rpo, pr, av, new) /\ Known(new) = Known(idom) \cup {b}
<1>0. Numbering(nb, R, rpo) /\ Hung(idom, new, R, rpo, b, r)
      /\ Tree(nb, R, rpo, idom) /\ StaysOut(nb, R, rpo, pr, idom)
  BY DEF Graph, Relaxed, Iterating
<1>1. Tree(nb, R, rpo, new) /\ Known(new) = Known(idom) \cup {b}
  BY <1>0, HungTree
<1>2. StaysOut(nb, R, rpo, pr, new)
  BY <1>0, RelaxStaysOut
<1>3. HasDominators(nb, av, new)
  BY RelaxHasDominators
<1> QED
  BY <1>1, <1>2, <1>3 DEF Iterating

-----------------------------------------------------------------------------
(***************************************************************************)
(* What a sweep gains: once every reached block is known, the blocks that  *)
(* paths of j edges round a lead to have lost a as an ancestor after j     *)
(* sweeps.                                                                 *)
(***************************************************************************)
Spread(nb, av, idom, x, j) ==
  \A a \in 0 .. nb - 1 : x \in av[a][j] => a \notin Up(idom, x)

(* Hanging b settles paths of one edge more for b and unsettles no others. *)
LEMMA RelaxSpread ==
  ASSUME NEW nb, NEW R, NEW rpo, NEW pr, NEW av, NEW idom, Graph(nb, R, rpo, pr),
         Rounds(nb, pr, av), Tree(nb, R, rpo, idom), Known(idom) = R,
         NEW new, NEW b, NEW r, Relaxed(idom, new, R, rpo, pr, b, r),
         NEW j \in 0 .. nb - 1, \A x \in R : Spread(nb, av, idom, x, j)
  PROVE  /\ \A x \in R : Spread(nb, av, new, x, j)
         /\ Spread(nb, av, new, b, j + 1)
         /\ \A x \in R : rpo[x] < rpo[b] /\ Spread(nb, av, idom, x, j + 1)
                            => Spread(nb, av, new, x, j + 1)
<1>0. Numbering(nb, R, rpo) /\ Hung(idom, new, R, rpo, b, r) /\ nb \in Nat \ {0}
      /\ \A a \in 0 .. nb - 1 : a \in 0 .. nb
  BY DEF Graph, Relaxed, Numbering
<1>1. b \in R /\ b # 0 /\ b \in 0 .. nb - 1 /\ R \subseteq 0 .. nb - 1
  BY <1>0 DEF Hung, Numbering
<1>2. j \in 0 .. nb /\ j + 1 \in 1 .. nb /\ j + 1 - 1 = j /\ j + 1 \in 0 .. nb /\ j \in 0 .. j + 1
  BY <1>0
<1>3. Up(new, b) = {b} \cup Up(idom, r)
  BY <1>0, HungItself
<1>4. Spread(nb, av, new, b, j + 1)
  <2> SUFFICES ASSUME NEW a \in 0 .. nb - 1, b \in av[a][j + 1]
               PROVE  a \notin Up(new, b)
    BY DEF Spread
  <2>1. a # b
    BY <1>0, <1>2, RoundsReached
  <2>2. pr[b] \cap av[a][j] # {}
    BY <1>0, <1>1, <1>2, RoundsEnter
  <2>3. PICK p \in pr[b] : p \in av[a][j]
    BY <2>2
  <2>4. p \in R
    BY <1>0, <1>2, <2>3, RoundsReached
  <2>5. a \notin Up(idom, p)
    BY <2>3, <2>4 DEF Spread
  <2>6. a \notin Up(idom, r)
    BY <2>3, <2>4, <2>5 DEF Relaxed, Shared
  <2> QED
    BY <1>3, <2>1, <2>6
<1>5. ASSUME NEW x \in R PROVE Spread(nb, av, new, x, j)
  <2> SUFFICES ASSUME NEW a \in 0 .. nb - 1, x \in av[a][j]
               PROVE  a \notin Up(new, x)
    BY DEF Spread
  <2>1. a \notin Up(idom, x)
    BY DEF Spread
  <2>2. CASE b \notin Up(idom, x)
    BY <1>0, <2>1, <2>2, HungElsewhere
  <2>3. CASE b \in Up(idom, x)
    <3>1. Up(new, x) \subseteq Up(idom, x) \cup Up(new, b)
      BY <1>0, <2>3, HungBelow
    <3>2. CASE b \in av[a][j]
      <4>1. b \in av[a][j + 1]
        BY <1>0, <1>2, <3>2, RoundsGrow
      <4>2. a \notin Up(new, b)
        BY <1>4, <4>1 DEF Spread
      <4> QED
        BY <2>1, <3>1, <4>2
    <3>3. CASE b \notin av[a][j]
      <4>1. x \in av[b][j]
        BY <1>0, <1>1, <1>2, <3>3, RoundsPass
      <4> QED
        BY <1>1, <2>3, <4>1 DEF Spread
    <3> QED
      BY <3>2, <3>3
  <2> QED
    BY <2>2, <2>3
<1>6. ASSUME NEW x \in R, rpo[x] < rpo[b], Spread(nb, av, idom, x, j + 1)
      PROVE  Spread(nb, av, new, x, j + 1)
  <2>1. b \notin Up(idom, x)
    <3>1. \A y \in Up(idom, x) : rpo[y] <= rpo[x]
      BY <1>0, UpClimbs
    <3>2. rpo[x] \in Nat /\ rpo[b] \in Nat
      BY <1>0, <1>1, TreeKnown
    <3> QED
      BY <1>6, <3>1, <3>2
  <2>2. Up(new, x) = Up(idom, x)
    BY <1>0, <2>1, HungElsewhere
  <2> QED
    BY <1>6, <2>2 DEF Spread
<1> QED
  BY <1>4, <1>5, <1>6

-----------------------------------------------------------------------------
(* post lists the reached blocks with falling numbers, the entry last. *)
Listed(R, rpo, post) ==
  /\ Len(post) \in Nat \ {0}
  /\ \A k \in 0 .. Len(post) - 1 : post[Len(post) - k] \in R /\ rpo[post[Len(post) - k]] = k
  /\ \A x \in R : rpo[x] <= Len(post) - 1

Through(R, rpo, idom, new, k) ==
  /\ Known(idom) \subseteq Known(new)
  /\ \A x \in R : rpo[x] <= k => x \in Known(new)

(* The turns f of a sweep: one block after the other is hung anew. *)
SweepRun(nb, R, rpo, pr, post, av, idom, f) ==
  /\ f[0] = idom
  /\ \A k \in 0 .. Len(post) - 1 :
        Iterating(nb, R, rpo, pr, av, f[k]) /\ Through(R, rpo, idom, f[k], k)
  /\ \A k \in 1 .. Len(post) - 1 : \E r :
        Relaxed(f[k - 1], f[k], R, rpo, pr, post[Len(post) - k], r)

(* A graph, its predecessor lists, its post-order and its paths. *)
Setting(nb, R, rpo, preds, pr, post, av) ==
  /\ preds \in [0 .. nb - 1 -> Seq(0 .. nb - 1)] /\ pr = PredsOf(preds)
  /\ Graph(nb, R, rpo, pr) /\ Listed(R, rpo, post) /\ Rounds(nb, pr, av)

(* A sweep is a run of such steps, one block after the other. *)
LEMMA SweepTurns ==
  ASSUME NEW nb, NEW R, NEW rpo, NEW preds, NEW pr, NEW post, NEW av, NEW idom,
         Setting(nb, R, rpo, preds, pr, post, av),
         Iterating(nb, R, rpo, pr, av, idom)
  PROVE  \E f : /\ SweepRun(nb, R, rpo, pr, post, av, idom, f)
                /\ f[Len(post) - 1] = Sweep(idom, nb, preds, post, rpo)
<1>s. /\ preds \in [0 .. nb - 1 -> Seq(0 .. nb - 1)] /\ pr = PredsOf(preds)
      /\ Graph(nb, R, rpo, pr) /\ Listed(R, rpo, post) /\ Rounds(nb, pr, av)
  BY DEF Setting
<1> DEFINE N == Len(post) - 1
           B(k) == post[Len(post) - k]
           S == {i \in [0 .. nb - 1 -> (0 .. nb - 1) \cup {M2R_UNDEF}] :
                    Iterating(nb, R, rpo, pr, av, i)}
           Next1(i, k) == Relax(i, B(k), rpo, nb, preds)
           st == [y \in S \X (1 .. N) |->
                    IF Next1(y[1], y[2]) \in S THEN Next1(y[1], y[2]) ELSE y[1]]
           Runs(f) == f = [k \in 0 .. N |-> IF k = 0 THEN idom ELSE Next1(f[k - 1], k)]
<1>0. Numbering(nb, R, rpo) /\ nb \in Nat \ {0} /\ N \in Nat /\ Len(post) \in Nat
  BY <1>s DEF Graph, Numbering, Listed
<1>1. ASSUME NEW k \in 1 .. N
      PROVE  B(k) \in R \ {0} /\ rpo[B(k)] = k /\ \A x \in R : rpo[x] = k => x = B(k)
  <2>0. k \in 0 .. Len(post) - 1
    BY <1>0
  <2>1. B(k) \in R /\ rpo[B(k)] = k
    BY <1>s, <2>0 DEF Listed
  <2>2. rpo[0] = 0 /\ k # 0
    BY <1>0 DEF Numbering
  <2> QED
    BY <1>0, <2>1, <2>2 DEF Numbering
<1>2. \A i : Iterating(nb, R, rpo, pr, av, i) <=> i \in S
  BY DEF Iterating, Tree
<1>3. idom \in S
  BY <1>2
<1>4. PICK f : Turns(f, S, idom, N, st)
  <2>1. st \in [S \X (1 .. N) -> S]
    <3> HIDE DEF S, Next1
    <3> QED
      OBVIOUS
  <2> HIDE DEF S, st
  <2> QED
    BY <1>0, <1>3, <2>1, LoopRuns
<1>5. f[0] = idom /\ \A k \in 0 .. N : f[k] \in S
  <2> HIDE DEF S, st, N
  <2>1. f \in [0 .. N -> S] /\ 0 \in 0 .. N
    BY <1>0, <1>4 DEF Turns
  <2>2. f[0] = idom
    BY <1>4, <2>1 DEF Turns
  <2> QED
    BY <2>1, <2>2
<1> HIDE DEF B
<1>6. ASSUME NEW k \in 1 .. N, Through(R, rpo, idom, f[k - 1], k - 1)
      PROVE  /\ f[k] = Next1(f[k - 1], k)
             /\ \E r : Relaxed(f[k - 1], f[k], R, rpo, pr, B(k), r)
             /\ Through(R, rpo, idom, f[k], k)
  <2>1. f[k - 1] \in S /\ Iterating(nb, R, rpo, pr, av, f[k - 1])
    BY <1>0, <1>2, <1>5
  <2>2. Tree(nb, R, rpo, f[k - 1])
    BY <2>1 DEF Iterating
  <2>3. PICK u \in pr[B(k)] \cap R : rpo[u] < k
    <3>1. \A v \in R \ {0} : \E u \in pr[v] \cap R : rpo[u] < rpo[v]
      BY <1>s DEF Graph
    <3> QED
      BY <1>1, <3>1
  <2>4. u \in Known(f[k - 1]) /\ rpo[u] < rpo[B(k)]
    <3>1. rpo[u] \in Nat
      BY <1>0, <2>2, TreeKnown
    <3>2. rpo[u] <= k - 1
      BY <1>0, <2>3, <3>1
    <3> QED
      BY <1>1, <1>6, <2>3, <3>2 DEF Through
  <2>5. PICK r : Relaxed(f[k - 1], Next1(f[k - 1], k), R, rpo, pr, B(k), r)
    BY <1>s, <1>1, <2>2, <2>3, <2>4, RelaxHangs DEF Next1
  <2>6. /\ Iterating(nb, R, rpo, pr, av, Next1(f[k - 1], k))
        /\ Known(Next1(f[k - 1], k)) = Known(f[k - 1]) \cup {B(k)}
    BY <1>s, <2>1, <2>3, <2>4, <2>5, RelaxIterating
  <2>7. f[k] = Next1(f[k - 1], k)
    <3>1. f[k] = st[<< f[k - 1], k >>]
      <4> HIDE DEF S, st
      <4> QED
        BY <1>0, <1>4 DEF Turns
    <3>2. << f[k - 1], k >> \in S \X (1 .. N) /\ Next1(f[k - 1], k) \in S
      BY <1>2, <2>1, <2>6
    <3> HIDE DEF S, Next1
    <3> QED
      BY <3>1, <3>2
  <2>8. Through(R, rpo, idom, f[k], k)
    <3>1. ASSUME NEW x \in R, rpo[x] <= k PROVE x \in Known(f[k])
      <4>1. rpo[x] \in Nat
        BY <1>0, <2>2, TreeKnown
      <4>2. CASE rpo[x] <= k - 1
        BY <1>6, <2>6, <2>7, <4>2 DEF Through
      <4>3. CASE rpo[x] = k
        BY <1>1, <2>6, <2>7, <4>3
      <4> QED
        BY <3>1, <4>1, <4>2, <4>3
    <3> QED
      BY <1>6, <2>6, <2>7, <3>1 DEF Through
  <2> QED
    BY <2>5, <2>7, <2>8
<1>7. \A k \in 0 .. N : Through(R, rpo, idom, f[k], k)
  <2> DEFINE G == {k \in 0 .. N : Through(R, rpo, idom, f[k], k)}
  <2>1. 0 \in G
    <3>1. Tree(nb, R, rpo, idom)
      BY DEF Iterating
    <3>2. \A x \in R : rpo[x] <= 0 => x = 0
      BY <1>0, <3>1, TreeKnown DEF Numbering
    <3>3. 0 \in Known(idom)
      BY <1>0, <3>1, TreeKnown
    <3> QED
      BY <1>0, <1>5, <3>2, <3>3 DEF Through
  <2>2. \A k \in 1 .. N : k - 1 \in G => k \in G
    BY <1>0, <1>6
  <2> HIDE DEF G
  <2>3. \A k \in 0 .. N : k \in G
    BY <1>0, <2>1, <2>2, EveryTurn
  <2> QED
    BY <2>3 DEF G
<1>8. \A k \in 1 .. N : /\ f[k] = Next1(f[k - 1], k)
                        /\ \E r : Relaxed(f[k - 1], f[k], R, rpo, pr, B(k), r)
  <2>1. \A k \in 1 .. N : k - 1 \in 0 .. N
    BY <1>0
  <2> QED
    BY <1>6, <1>7, <2>1
<1>9. f[N] = Sweep(idom, nb, preds, post, rpo)
  <2> DEFINE g == CHOOSE g : Runs(g)
  <2>1. Runs(f)
    <3>1. f \in [0 .. N -> S]
      BY <1>4 DEF Turns
    <3>2. \A k \in 0 .. N : f[k] = IF k = 0 THEN idom ELSE Next1(f[k - 1], k)
      BY <1>s, <1>0, <1>5, <1>8
    <3> HIDE DEF S, Next1
    <3> QED
      BY <3>1, <3>2
  <2>2. Runs(g)
    BY <2>1
  <2>3. Sweep(idom, nb, preds, post, rpo) = g[N]
    BY DEF Sweep, B
  <2> HIDE DEF g
  <2>4. \A k \in 0 .. N : g[k] = IF k = 0 THEN idom ELSE Next1(g[k - 1], k)
    BY <2>2, Zenon
  <2> HIDE DEF Next1
  <2> DEFINE G == {k \in 0 .. N : g[k] = f[k]}
  <2>5. 0 \in G
    <3>1. 0 \in 0 .. N
      BY <1>0
    <3>2. g[0] = idom
      BY <2>4, <3>1, Zenon
    <3>3. f[0] = idom
      BY <1>5
    <3> HIDE DEF N
    <3> QED
      BY <3>1, <3>2, <3>3
  <2>6. ASSUME NEW k \in 1 .. N, k - 1 \in G PROVE k \in G
    <3>1. k \in 0 .. N /\ k # 0 /\ g[k - 1] = f[k - 1]
      BY <1>0, <2>6
    <3>2. g[k] = Next1(g[k - 1], k) /\ f[k] = Next1(f[k - 1], k)
      BY <1>8, <2>4, <3>1
    <3> QED
      BY <3>1, <3>2
  <2>7. \A k \in 0 .. N : k \in G
    <3> HIDE DEF G
    <3> QED
      BY <1>0, <2>5, <2>6, EveryTurn
  <2> QED
    BY <1>0, <2>3, <2>7
<1> QED
  <2>1. SweepRun(nb, R, rpo, pr, post, av, idom, f)
    BY <1>2, <1>5, <1>7, <1>8 DEF SweepRun, B
  <2> QED
    BY <1>9, <2>1

(* A sweep keeps the invariant and leaves no reached block unknown. *)
LEMMA SweepIterating ==
  ASSUME NEW nb, NEW R, NEW rpo, NEW preds, NEW pr, NEW post, NEW av, NEW idom,
         Setting(nb, R, rpo, preds, pr, post, av),
         Iterating(nb, R, rpo, pr, av, idom),
         NEW new, new = Sweep(idom, nb, preds, post, rpo)
  PROVE  Iterating(nb, R, rpo, pr, av, new) /\ Known(new) = R
<1>s. /\ preds \in [0 .. nb - 1 -> Seq(0 .. nb - 1)] /\ pr = PredsOf(preds)
      /\ Graph(nb, R, rpo, pr) /\ Listed(R, rpo, post) /\ Rounds(nb, pr, av)
  BY DEF Setting
<1>1. PICK f : SweepRun(nb, R, rpo, pr, post, av, idom, f) /\ f[Len(post) - 1] = new
  BY SweepTurns
<1>2. Len(post) - 1 \in 0 .. Len(post) - 1
  BY <1>s DEF Listed
<1>3. Iterating(nb, R, rpo, pr, av, new) /\ Through(R, rpo, idom, new, Len(post) - 1)
  BY <1>1, <1>2 DEF SweepRun
<1>4. R \subseteq Known(new)
  BY <1>s, <1>3 DEF Through, Listed
<1>5. Known(new) \subseteq R
  BY <1>s, <1>3, TreeKnown DEF Iterating, Graph
<1> QED
  BY <1>3, <1>4, <1>5

(* The entry is its own parent. *)
LEMMA UpEntry ==
  ASSUME NEW nb, NEW R, NEW rpo, NEW idom, Numbering(nb, R, rpo), Tree(nb, R, rpo, idom)
  PROVE  Up(idom, 0) = {0}
<1>1. 0 \in Known(idom) /\ idom[0] = 0 /\ 0 \in DOMAIN idom
  BY TreeKnown DEF Known
<1>2. {0} \in SUBSET DOMAIN idom /\ 0 \in {0} /\ Climbing(idom, {0})
  BY <1>1 DEF Climbing
<1>3. Up(idom, 0) \subseteq {0}
  BY <1>2, UpLeast
<1> QED
  BY <1>1, <1>3, UpClimbs

(* A sweep settles the paths of one edge more for every block. *)
LEMMA SweepSpread ==
  ASSUME NEW nb, NEW R, NEW rpo, NEW preds, NEW pr, NEW post, NEW av, NEW idom,
         Setting(nb, R, rpo, preds, pr, post, av),
         Iterating(nb, R, rpo, pr, av, idom), Known(idom) = R,
         NEW j \in 0 .. nb - 1, \A x \in R : Spread(nb, av, idom, x, j),
         NEW new, new = Sweep(idom, nb, preds, post, rpo)
  PROVE  \A x \in R : Spread(nb, av, new, x, j + 1)
<1>s. /\ preds \in [0 .. nb - 1 -> Seq(0 .. nb - 1)] /\ pr = PredsOf(preds)
      /\ Graph(nb, R, rpo, pr) /\ Listed(R, rpo, post) /\ Rounds(nb, pr, av)
  BY DEF Setting
<1> DEFINE N == Len(post) - 1
<1>0. Numbering(nb, R, rpo) /\ N \in Nat /\ nb \in Nat \ {0}
      /\ \A a \in 0 .. nb - 1 : a \in 0 .. nb
  BY <1>s DEF Graph, Listed, Numbering
<1>1. PICK f : SweepRun(nb, R, rpo, pr, post, av, idom, f) /\ f[N] = new
  BY SweepTurns
<1>2. ASSUME NEW k \in 0 .. N PROVE Tree(nb, R, rpo, f[k]) /\ Known(f[k]) = R
  <2>1. Tree(nb, R, rpo, f[k]) /\ R \subseteq Known(f[k])
    BY <1>1 DEF Iterating, Through, SweepRun
  <2> QED
    BY <1>0, <2>1, TreeKnown
<1>3. ASSUME NEW k \in 1 .. N
      PROVE  /\ post[Len(post) - k] \in R /\ rpo[post[Len(post) - k]] = k
             /\ \A x \in R : rpo[x] = k => x = post[Len(post) - k]
  <2>1. k \in 0 .. Len(post) - 1
    BY <1>0
  <2>2. post[Len(post) - k] \in R /\ rpo[post[Len(post) - k]] = k
    BY <1>s, <2>1 DEF Listed
  <2> QED
    BY <1>0, <2>2 DEF Numbering
<1>4. \A x \in R : rpo[x] \in Nat
  BY <1>0, <1>2, TreeKnown
<1> DEFINE Good(k) == \A x \in R : /\ Spread(nb, av, f[k], x, j)
                                   /\ rpo[x] <= k => Spread(nb, av, f[k], x, j + 1)
           G == {k \in 0 .. N : Good(k)}
<1>5. Good(0)
  <2>1. ASSUME NEW x \in R, rpo[x] <= 0 PROVE Spread(nb, av, idom, x, j + 1)
    <3>1. x = 0
      BY <1>0, <1>4, <2>1 DEF Numbering
    <3>2. Up(idom, x) = {0}
      BY <1>0, <3>1, UpEntry DEF Iterating
    <3>3. j + 1 \in 0 .. nb
      BY <1>0
    <3>4. \A a \in 0 .. nb - 1 : 0 \in av[a][j + 1] => a # 0
      BY <1>s, <1>0, <3>3, RoundsReached
    <3> QED
      BY <3>1, <3>2, <3>4 DEF Spread
  <2> QED
    BY <1>1, <2>1 DEF SweepRun
<1>6. ASSUME NEW k \in 1 .. N, Good(k - 1) PROVE Good(k)
  <2>1. k - 1 \in 0 .. N /\ k \in 0 .. N
    BY <1>0
  <2>2. Tree(nb, R, rpo, f[k - 1]) /\ Known(f[k - 1]) = R
    BY <1>2, <2>1
  <2>3. PICK r : Relaxed(f[k - 1], f[k], R, rpo, pr, post[Len(post) - k], r)
    BY <1>1 DEF SweepRun
  <2>4. \A x \in R : Spread(nb, av, f[k - 1], x, j)
    BY <1>6
  <2> DEFINE b == post[Len(post) - k]
  <2>5. /\ \A x \in R : Spread(nb, av, f[k], x, j)
        /\ Spread(nb, av, f[k], b, j + 1)
        /\ \A x \in R : rpo[x] < rpo[b] /\ Spread(nb, av, f[k - 1], x, j + 1)
                            => Spread(nb, av, f[k], x, j + 1)
    BY <1>s, <2>2, <2>3, <2>4, RelaxSpread
  <2> HIDE DEF b
  <2>6. b \in R /\ rpo[b] = k /\ \A x \in R : rpo[x] = k => x = b
    BY <1>3 DEF b
  <2>7. ASSUME NEW x \in R, rpo[x] <= k PROVE Spread(nb, av, f[k], x, j + 1)
    <3>1. CASE rpo[x] = k
      BY <2>5, <2>6, <3>1
    <3>2. CASE rpo[x] # k
      <4>1. rpo[x] <= k - 1 /\ rpo[x] < rpo[b]
        BY <1>4, <2>6, <2>7, <3>2
      <4> QED
        BY <1>6, <2>5, <4>1
    <3> QED
      BY <3>1, <3>2
  <2> QED
    BY <2>5, <2>7
<1>7. Good(N)
  <2> HIDE DEF Good, N
  <2>1. 0 \in G /\ \A k \in 1 .. N : k - 1 \in G => k \in G
    BY <1>0, <1>5, <1>6
  <2> HIDE DEF G
  <2>2. \A k \in 0 .. N : k \in G
    BY <1>0, <2>1, EveryTurn
  <2> QED
    BY <1>0, <2>2 DEF G
<1> QED
  BY <1>s, <1>1, <1>7 DEF Listed

-----------------------------------------------------------------------------
(* The invariant of the iteration holds before the first sweep. *)
LEMMA UnknownIterating ==
  ASSUME NEW nb, NEW R, NEW rpo, NEW pr, NEW av, Graph(nb, R, rpo, pr), Rounds(nb, pr, av)
  PROVE  Iterating(nb, R, rpo, pr, av, Unknown(nb))
<1> DEFINE idom == Unknown(nb)
<1>0. Numbering(nb, R, rpo) /\ nb \in Nat \ {0} /\ 0 \in R /\ R \subseteq 0 .. nb - 1
      /\ \A a \in 0 .. nb - 1 : a \in 0 .. nb
  BY DEF Graph, Numbering
<1>1. /\ idom \in [0 .. nb - 1 -> (0 .. nb - 1) \cup {M2R_UNDEF}] /\ idom[0] = 0
      /\ \A x \in 0 .. nb - 1 : x # 0 => idom[x] = M2R_UNDEF
  BY <1>0 DEF Unknown, M2R_UNDEF
<1> HIDE DEF idom
<1>2. Known(idom) = {0}
  BY <1>0, <1>1 DEF Known, M2R_UNDEF
<1>3. Tree(nb, R, rpo, idom)
  BY <1>0, <1>1, <1>2 DEF Tree
<1>4. StaysOut(nb, R, rpo, pr, idom)
  BY <1>1, <1>2 DEF StaysOut
<1>5. HasDominators(nb, av, idom)
  <2> SUFFICES ASSUME NEW d \in 0 .. nb - 1, 0 \notin av[d][nb] PROVE d \in Up(idom, 0)
    BY <1>2 DEF HasDominators
  <2>1. d = 0
    <3>1. nb \in 0 .. nb /\ 0 \in 0 .. nb
      BY <1>0
    <3>2. av[d][0] \subseteq av[d][nb]
      BY <1>0, <3>1, RoundsGrow
    <3>3. av[d][0] = {0} \ {d}
      BY <1>0 DEF Rounds
    <3> QED
      BY <3>2, <3>3
  <2> QED
    BY <1>0, <1>2, <1>3, <2>1, UpClimbs
<1> QED
  BY <1>3, <1>4, <1>5 DEF Iterating, idom

(* Every turn of the outer loop has the effect of a sweep: one that changes *)
(* nothing ends the loop where another would not change anything either.    *)
LEMMA TurnSweeps ==
  ASSUME NEW nb, NEW preds, NEW post, NEW rpo,
         NEW I, NEW s \in [idom : I, changed : BOOLEAN],
         Sweep(s.idom, nb, preds, post, rpo) \in I,
         ~s.changed => Sweep(s.idom, nb, preds, post, rpo) = s.idom
  PROVE  LET t == Turn(s, nb, preds, post, rpo)
         IN  /\ t \in [idom : I, changed : BOOLEAN]
             /\ t.idom = Sweep(s.idom, nb, preds, post, rpo)
             /\ ~t.changed => Sweep(t.idom, nb, preds, post, rpo) = t.idom
<1>1. CASE s.changed
  <2>1. Turn(s, nb, preds, post, rpo) =
          [idom |-> Sweep(s.idom, nb, preds, post, rpo),
           changed |-> Sweep(s.idom, nb, preds, post, rpo) # s.idom]
    BY <1>1 DEF Turn
  <2> QED
    BY <2>1
<1>2. CASE ~s.changed
  <2>1. Turn(s, nb, preds, post, rpo) = s
    BY <1>2 DEF Turn
  <2> QED
    BY <1>2, <2>1
<1> QED
  BY <1>1, <1>2

(* How far the paths reach that sweep n has dealt with. *)
Reach(n, nb) == IF n - 1 < nb THEN n - 1 ELSE nb

Swept(nb, R, rpo, pr, av, idom, n) ==
  /\ Iterating(nb, R, rpo, pr, av, idom)
  /\ n > 0 => /\ Known(idom) = R
              /\ \A x \in R : Spread(nb, av, idom, x, Reach(n, nb))

(* One sweep more, one edge more. *)
LEMMA SweptStep ==
  ASSUME NEW nb, NEW R, NEW rpo, NEW preds, NEW pr, NEW post, NEW av, NEW idom,
         Setting(nb, R, rpo, preds, pr, post, av),
         NEW n \in Nat, Swept(nb, R, rpo, pr, av, idom, n),
         NEW new, new = Sweep(idom, nb, preds, post, rpo)
  PROVE  Swept(nb, R, rpo, pr, av, new, n + 1)
<1>s. /\ preds \in [0 .. nb - 1 -> Seq(0 .. nb - 1)] /\ pr = PredsOf(preds)
      /\ Graph(nb, R, rpo, pr) /\ Listed(R, rpo, post) /\ Rounds(nb, pr, av)
  BY DEF Setting
<1>0. Numbering(nb, R, rpo) /\ nb \in Nat \ {0} /\ Iterating(nb, R, rpo, pr, av, idom)
      /\ \A a \in 0 .. nb - 1 : a \in 0 .. nb
  BY <1>s DEF Graph, Numbering, Swept
<1>1. Iterating(nb, R, rpo, pr, av, new) /\ Known(new) = R
  BY <1>0, SweepIterating
<1>2. CASE n = 0
  <2>1. Reach(n + 1, nb) = 0
    BY <1>0, <1>2 DEF Reach
  <2>2. ASSUME NEW x \in R, NEW a \in 0 .. nb - 1, x \in av[a][0] PROVE a \notin Up(new, x)
    <3>1. x = 0 /\ a # 0
      BY <1>s, <1>0, <2>2 DEF Rounds
    <3>2. Up(new, x) = {0}
      BY <1>0, <1>1, <3>1, UpEntry DEF Iterating
    <3> QED
      BY <3>1, <3>2
  <2>3. \A x \in R : Spread(nb, av, new, x, 0)
    BY <2>2 DEF Spread
  <2> QED
    BY <1>1, <2>1, <2>3 DEF Swept
<1>3. CASE n # 0
  <2>1. Known(idom) = R /\ \A x \in R : Spread(nb, av, idom, x, Reach(n, nb))
    BY <1>3 DEF Swept
  <2>2. PICK j \in 0 .. nb - 1 : j <= Reach(n, nb) /\ j + 1 = Reach(n + 1, nb) /\ Reach(n, nb) \in 0 .. nb
    <3>1. CASE n - 1 < nb
      BY <1>0, <1>3, <3>1 DEF Reach
    <3>2. CASE ~(n - 1 < nb)
      <4>1. nb - 1 \in 0 .. nb - 1 /\ nb - 1 <= Reach(n, nb) /\ nb - 1 + 1 = Reach(n + 1, nb)
            /\ Reach(n, nb) \in 0 .. nb
        BY <1>0, <3>2 DEF Reach
      <4> QED
        BY <4>1
    <3> QED
      BY <3>1, <3>2
  <2>3. \A x \in R : Spread(nb, av, idom, x, j)
    <3>1. \A a \in 0 .. nb - 1 : av[a][j] \subseteq av[a][Reach(n, nb)]
      <4>1. j \in 0 .. Reach(n, nb)
        BY <2>2
      <4> QED
        BY <1>s, <1>0, <2>2, <4>1, RoundsGrow
    <3> QED
      BY <2>1, <3>1 DEF Spread
  <2>4. \A x \in R : Spread(nb, av, new, x, j + 1)
    BY <1>0, <2>1, <2>3, SweepSpread
  <2> QED
    BY <1>1, <2>2, <2>4 DEF Swept
<1> QED
  BY <1>2, <1>3

(* The 4 * nb + 16 sweeps (bir_mem2reg.c:346) suffice: nb + 1 settle it. *)
THEOREM IterationFinds ==
  ASSUME NEW nb, NEW R, NEW rpo, NEW preds, NEW pr, NEW post, NEW av,
         Setting(nb, R, rpo, preds, pr, post, av)
  PROVE  Swept(nb, R, rpo, pr, av, IterateDominators(nb, preds, post, rpo), nb + 1)
<1>s. /\ preds \in [0 .. nb - 1 -> Seq(0 .. nb - 1)] /\ pr = PredsOf(preds)
      /\ Graph(nb, R, rpo, pr) /\ Listed(R, rpo, post) /\ Rounds(nb, pr, av)
  BY DEF Setting
<1> DEFINE T == 4 * nb + 16
           I == {i \in [0 .. nb - 1 -> (0 .. nb - 1) \cup {M2R_UNDEF}] :
                    Iterating(nb, R, rpo, pr, av, i)}
           Ends(s) == ~s.changed => Sweep(s.idom, nb, preds, post, rpo) = s.idom
           S == {s \in [idom : I, changed : BOOLEAN] : Ends(s)}
           start == [idom |-> Unknown(nb), changed |-> TRUE]
           st == [y \in S \X (1 .. T) |-> Turn(y[1], nb, preds, post, rpo)]
           Runs(f) == f = [n \in 0 .. T |->
                              IF n = 0 THEN start ELSE Turn(f[n - 1], nb, preds, post, rpo)]
           f == CHOOSE f : Runs(f)
<1>0. nb \in Nat \ {0} /\ T \in Nat
  BY <1>s DEF Graph, Numbering
<1>1. \A i : Iterating(nb, R, rpo, pr, av, i) <=> i \in I
  BY DEF Iterating, Tree
<1>2. start \in S
  <2>1. Unknown(nb) \in I
    BY <1>s, <1>1, UnknownIterating
  <2> QED
    BY <2>1
<1>3. ASSUME NEW s \in S
      PROVE  /\ Turn(s, nb, preds, post, rpo) \in S
             /\ Turn(s, nb, preds, post, rpo).idom = Sweep(s.idom, nb, preds, post, rpo)
  <2>1. s \in [idom : I, changed : BOOLEAN] /\ Ends(s) /\ Iterating(nb, R, rpo, pr, av, s.idom)
    BY <1>1
  <2>2. Sweep(s.idom, nb, preds, post, rpo) \in I
    BY <1>1, <2>1, SweepIterating
  <2> HIDE DEF I
  <2> DEFINE t == Turn(s, nb, preds, post, rpo)
  <2>3. /\ t \in [idom : I, changed : BOOLEAN] /\ t.idom = Sweep(s.idom, nb, preds, post, rpo)
        /\ ~t.changed => Sweep(t.idom, nb, preds, post, rpo) = t.idom
    BY <2>1, <2>2, TurnSweeps
  <2> HIDE DEF t
  <2>4. t \in S /\ t.idom = Sweep(s.idom, nb, preds, post, rpo)
    BY <2>3
  <2> QED
    BY <2>4 DEF t
<1>4. \E g : Runs(g)
  <2>1. st \in [S \X (1 .. T) -> S]
    <3>1. \A y \in S \X (1 .. T) : Turn(y[1], nb, preds, post, rpo) \in S
      <4> HIDE DEF S
      <4> QED
        BY <1>3
    <3> HIDE DEF S
    <3> QED
      BY <3>1
  <2>2. PICK g : Turns(g, S, start, T, st)
    <3> HIDE DEF S, st, start, T
    <3> QED
      BY <1>0, <1>2, <2>1, LoopRuns
  <2>3. ASSUME NEW n \in 0 .. T
        PROVE  g[n] = IF n = 0 THEN start ELSE Turn(g[n - 1], nb, preds, post, rpo)
    <3> HIDE DEF S, start, T
    <3>1. CASE n = 0
      BY <2>2, <3>1 DEF Turns
    <3>2. CASE n # 0
      <4>1. g[n - 1] \in S /\ n \in 1 .. T
        BY <1>0, <2>2, <3>2 DEF Turns
      <4>2. st[<< g[n - 1], n >>] = Turn(g[n - 1], nb, preds, post, rpo)
        BY <4>1
      <4> HIDE DEF st
      <4> QED
        BY <2>2, <3>2, <4>2 DEF Turns
    <3> QED
      BY <3>1, <3>2
  <2>4. g \in [0 .. T -> S]
    BY <2>2 DEF Turns
  <2> HIDE DEF S, start, T
  <2> QED
    BY <2>3, <2>4
<1>5. Runs(f)
  BY <1>4
<1>6. IterateDominators(nb, preds, post, rpo) = f[T].idom
  BY DEF IterateDominators
<1> HIDE DEF f
<1>7. f[0] = start /\ \A n \in 1 .. T : f[n] = Turn(f[n - 1], nb, preds, post, rpo)
  <2>1. \A n \in 0 .. T : f[n] = IF n = 0 THEN start ELSE Turn(f[n - 1], nb, preds, post, rpo)
    BY <1>5, Zenon
  <2> HIDE DEF start, T
  <2> QED
    BY <1>0, <2>1
<1> DEFINE Good(n) == f[n] \in S /\ Swept(nb, R, rpo, pr, av, f[n].idom, n)
           G == {n \in 0 .. T : Good(n)}
<1>8. Good(0)
  <2>1. start.idom = Unknown(nb)
    OBVIOUS
  <2> HIDE DEF S, start
  <2> QED
    BY <1>s, <1>2, <1>7, <2>1, UnknownIterating DEF Swept
<1>9. ASSUME NEW n \in 1 .. T, Good(n - 1) PROVE Good(n)
  <2>1. f[n] \in S /\ f[n].idom = Sweep(f[n - 1].idom, nb, preds, post, rpo)
    <3> HIDE DEF S
    <3> QED
      BY <1>3, <1>7, <1>9
  <2>2. n - 1 \in Nat /\ n - 1 + 1 = n
    BY <1>0
  <2>3. Swept(nb, R, rpo, pr, av, f[n - 1].idom, n - 1)
    BY <1>9
  <2>4. Swept(nb, R, rpo, pr, av, f[n].idom, n - 1 + 1)
    <3> HIDE DEF T
    <3> QED
      BY <2>1, <2>2, <2>3, SweptStep
  <2> HIDE DEF S
  <2> QED
    BY <2>1, <2>2, <2>4
<1>10. Good(T)
  <2>1. 0 \in 0 .. T /\ T \in 0 .. T /\ \A n \in 1 .. T : n \in 0 .. T
    BY <1>0
  <2> HIDE DEF Good, T
  <2>2. 0 \in G /\ \A n \in 1 .. T : n - 1 \in G => n \in G
    BY <1>8, <1>9, <2>1
  <2> HIDE DEF G
  <2>3. \A n \in 0 .. T : n \in G
    BY <1>0, <2>2, EveryTurn
  <2> QED
    BY <2>1, <2>3 DEF G
<1>11. Reach(T, nb) = nb /\ Reach(nb + 1, nb) = nb /\ T > 0 /\ nb + 1 > 0
  BY <1>0 DEF Reach
<1> QED
  BY <1>6, <1>10, <1>11 DEF Swept

(* What is left above a block is its dominators, in their order. *)
LEMMA SweptImmediate ==
  ASSUME NEW nb, NEW R, NEW rpo, NEW preds, NEW pr, NEW post, NEW av, NEW idom,
         Setting(nb, R, rpo, preds, pr, post, av),
         Swept(nb, R, rpo, pr, av, idom, nb + 1), NEW b \in R \ {0}
  PROVE  /\ idom[b] \in R /\ idom[b] # b /\ b \notin av[idom[b]][nb]
         /\ \A a \in 0 .. nb - 1 : a # b /\ b \notin av[a][nb] => idom[b] \notin av[a][nb]
<1>1. Numbering(nb, R, rpo) /\ nb \in Nat \ {0} /\ R \subseteq 0 .. nb - 1
  BY DEF Setting, Graph, Numbering
<1>2. nb + 1 > 0 /\ Reach(nb + 1, nb) = nb
  BY <1>1 DEF Reach
<1>3. /\ Tree(nb, R, rpo, idom) /\ HasDominators(nb, av, idom) /\ Known(idom) = R
      /\ \A x \in R : Spread(nb, av, idom, x, nb)
  BY <1>2 DEF Swept, Iterating
<1>4. idom[b] \in R /\ rpo[idom[b]] < rpo[b] /\ rpo[b] \in Nat
  BY <1>1, <1>3, TreeKnown
<1>5. Up(idom, b) = {b} \cup Up(idom, idom[b]) /\ idom[b] \in Up(idom, idom[b])
  BY <1>1, <1>3, <1>4, UpStep, UpClimbs
<1>6. b \notin av[idom[b]][nb]
  BY <1>1, <1>3, <1>4, <1>5 DEF Spread
<1>7. ASSUME NEW a \in 0 .. nb - 1, a # b, b \notin av[a][nb] PROVE idom[b] \notin av[a][nb]
  <2>1. a \in Up(idom, idom[b])
    BY <1>3, <1>5, <1>7 DEF HasDominators
  <2> QED
    BY <1>3, <1>4, <2>1 DEF Spread
<1> QED
  BY <1>4, <1>6, <1>7

-----------------------------------------------------------------------------
(***************************************************************************)
(* The post-order.  It ends with the entry, every other block of it has a  *)
(* predecessor further on, and no edge leaves it.                          *)
(***************************************************************************)
Ordered(nb, pr, post) ==
  /\ nb \in Nat \ {0} /\ pr \in [0 .. nb - 1 -> SUBSET (0 .. nb - 1)]
  /\ post \in Seq(0 .. nb - 1) /\ Len(post) \in 1 .. nb /\ post[Len(post)] = 0
  /\ \A i, j \in 1 .. Len(post) : post[i] = post[j] => i = j
  /\ \A i \in 1 .. Len(post) - 1 : \E j \in i + 1 .. Len(post) : post[j] \in pr[post[i]]
  /\ \A i \in 1 .. Len(post), v \in 0 .. nb - 1 : post[i] \in pr[v] =>
        \E j \in 1 .. Len(post) : post[j] = v

(* By its reverse numbers every block has a lower predecessor. *)
LEMMA RpoNumbers ==
  ASSUME NEW nb, NEW pr, NEW post, Ordered(nb, pr, post)
  PROVE  Graph(nb, DOMAIN RpoNum(post), RpoNum(post), pr)
         /\ Listed(DOMAIN RpoNum(post), RpoNum(post), post)
<1> DEFINE R == {post[k] : k \in 1 .. Len(post)}
           rpo == RpoNum(post)
<1>1. /\ nb \in Nat \ {0} /\ Len(post) \in 1 .. nb /\ Len(post) \in Nat \ {0}
      /\ DOMAIN post = 1 .. Len(post) /\ \A i \in 1 .. Len(post) : post[i] \in 0 .. nb - 1
      /\ \A i, j \in 1 .. Len(post) : post[i] = post[j] => i = j
  BY DEF Ordered
<1>2. DOMAIN rpo = R
  BY <1>1 DEF RpoNum
<1>3. ASSUME NEW i \in 1 .. Len(post) PROVE rpo[post[i]] = Len(post) - i
  <2>1. (CHOOSE k \in 1 .. Len(post) : post[k] = post[i]) = i
    BY <1>1
  <2>2. post[i] \in R
    OBVIOUS
  <2>3. rpo[post[i]] = Len(post) - (CHOOSE k \in 1 .. Len(post) : post[k] = post[i])
    BY <1>1, <2>2 DEF RpoNum
  <2> QED
    BY <2>1, <2>3
<1>4. rpo \in [R -> 0 .. nb - 1]
  <2>1. \A x \in R : rpo[x] \in 0 .. nb - 1
    BY <1>1, <1>3
  <2>2. rpo = [x \in R |-> rpo[x]]
    BY <1>1 DEF RpoNum
  <2> HIDE DEF rpo, R
  <2> QED
    BY <2>1, <2>2
<1> HIDE DEF rpo
<1>5. post[Len(post)] = 0 /\ 0 \in R /\ rpo[0] = 0
  <2>1. post[Len(post)] = 0 /\ Len(post) \in 1 .. Len(post)
    BY <1>1 DEF Ordered
  <2>2. rpo[0] = Len(post) - Len(post)
    BY <1>3, <2>1
  <2> QED
    BY <1>1, <2>1, <2>2
<1>6. \A x, y \in R : rpo[x] = rpo[y] => x = y
  <2> SUFFICES ASSUME NEW i \in 1 .. Len(post), NEW j \in 1 .. Len(post), rpo[post[i]] = rpo[post[j]]
               PROVE  post[i] = post[j]
    OBVIOUS
  <2>1. rpo[post[i]] = Len(post) - i /\ rpo[post[j]] = Len(post) - j
    BY <1>3
  <2>2. i = j
    <3>1. Len(post) - i = Len(post) - j
      BY <2>1
    <3>2. Len(post) \in Int /\ i \in Int /\ j \in Int
      BY <1>1
    <3> QED
      BY <3>1, <3>2
  <2> QED
    BY <2>2
<1>7. Numbering(nb, R, rpo)
  BY <1>1, <1>4, <1>5, <1>6 DEF Numbering
<1>8. ASSUME NEW u \in R, NEW v \in 0 .. nb - 1, u \in pr[v] PROVE v \in R
  <2>1. PICK i \in 1 .. Len(post) : u = post[i]
    OBVIOUS
  <2>2. PICK j \in 1 .. Len(post) : post[j] = v
    BY <1>8, <2>1 DEF Ordered
  <2> QED
    BY <2>2
<1>9. ASSUME NEW v \in R \ {0} PROVE \E u \in pr[v] \cap R : rpo[u] < rpo[v]
  <2>1. PICK i \in 1 .. Len(post) : v = post[i]
    OBVIOUS
  <2>2. i \in 1 .. Len(post) - 1
    BY <1>1, <1>5, <2>1
  <2>3. PICK j \in i + 1 .. Len(post) : post[j] \in pr[v]
    BY <2>1, <2>2 DEF Ordered
  <2>4. j \in 1 .. Len(post) /\ post[j] \in R
    BY <1>1, <2>3
  <2>5. rpo[post[j]] = Len(post) - j /\ rpo[v] = Len(post) - i
    BY <1>3, <2>1, <2>4
  <2>6. rpo[post[j]] < rpo[v]
    BY <1>1, <2>3, <2>5
  <2> QED
    BY <2>3, <2>4, <2>6
<1>10. Graph(nb, R, rpo, pr)
  BY <1>7, <1>8, <1>9 DEF Graph, Ordered
<1>11. Listed(R, rpo, post)
  <2>1. ASSUME NEW k \in 0 .. Len(post) - 1
        PROVE  post[Len(post) - k] \in R /\ rpo[post[Len(post) - k]] = k
    <3>1. Len(post) - k \in 1 .. Len(post) /\ Len(post) - (Len(post) - k) = k
      BY <1>1
    <3> QED
      BY <1>3, <3>1
  <2>2. ASSUME NEW x \in R PROVE rpo[x] <= Len(post) - 1
    <3>1. PICK i \in 1 .. Len(post) : x = post[i]
      OBVIOUS
    <3>2. rpo[x] = Len(post) - i
      BY <1>3, <3>1
    <3> QED
      BY <1>1, <3>2
  <2> QED
    BY <1>1, <2>1, <2>2 DEF Listed
<1> QED
  BY <1>2, <1>10, <1>11 DEF rpo

-----------------------------------------------------------------------------
(***************************************************************************)
(* The functions step 3 is asked about: every successor is a block of the  *)
(* function, and no block has more of them or more predecessors than the   *)
(* tables take.                                                            *)
(***************************************************************************)
Shape(M, F) ==
  /\ F.num \in Nat \ {0} /\ F.first \in Nat
  /\ \A b \in BlocksOf(F) :
        /\ Succs(M, b) \in Seq(BlocksOf(F)) /\ Len(Succs(M, b)) <= M2R_MAX_PREDS
        /\ Cardinality(PredSet(M, F, b)) <= M2R_MAX_PREDS

(* pr holds the predecessors of each block, both numbered from the entry. *)
Edges(M, F, pr) ==
  /\ pr \in [0 .. F.num - 1 -> SUBSET (0 .. F.num - 1)]
  /\ \A u, v \in 0 .. F.num - 1 :
        u \in pr[v] <=> \E k \in 1 .. Len(Succs(M, F.first + u)) : Succs(M, F.first + u)[k] = F.first + v

(* What step 2 and the walk read of a block of such a function. *)
LEMMA ShapeFacts ==
  ASSUME NEW M, NEW F, Shape(M, F)
  PROVE  /\ F.num \in Nat \ {0} /\ F.first \in Nat
         /\ \A u \in 0 .. F.num - 1 :
               /\ GetSuccs(M, F.first + u) = Succs(M, F.first + u)
               /\ Len(Succs(M, F.first + u)) \in Nat
               /\ DOMAIN Succs(M, F.first + u) = 1 .. Len(Succs(M, F.first + u))
               /\ \A k \in 1 .. Len(Succs(M, F.first + u)) :
                     /\ Succs(M, F.first + u)[k] \in Nat
                     /\ Succs(M, F.first + u)[k] - F.first \in 0 .. F.num - 1
<1>1. F.num \in Nat \ {0} /\ F.first \in Nat
  BY DEF Shape
<1> SUFFICES ASSUME NEW u \in 0 .. F.num - 1
             PROVE  /\ GetSuccs(M, F.first + u) = Succs(M, F.first + u)
                    /\ Len(Succs(M, F.first + u)) \in Nat
                    /\ DOMAIN Succs(M, F.first + u) = 1 .. Len(Succs(M, F.first + u))
                    /\ \A k \in 1 .. Len(Succs(M, F.first + u)) :
                          /\ Succs(M, F.first + u)[k] \in Nat
                          /\ Succs(M, F.first + u)[k] - F.first \in 0 .. F.num - 1
  BY <1>1
<1> DEFINE ss == Succs(M, F.first + u)
<1>2. F.first + u \in BlocksOf(F)
  BY <1>1 DEF BlocksOf
<1>3. ss \in Seq(F.first .. F.first + F.num - 1) /\ Len(ss) <= M2R_MAX_PREDS
  BY <1>2 DEF Shape, BlocksOf
<1> HIDE DEF ss
<1>4. Cut(ss, M2R_MAX_PREDS) = ss
  <2>1. ~(Len(ss) > M2R_MAX_PREDS)
    BY <1>3, PredsAssumption
  <2> QED
    BY <2>1 DEF Cut
<1>5. GetSuccs(M, F.first + u) = ss
  BY <1>4 DEF GetSuccs, ss
<1>6. Len(ss) \in Nat /\ DOMAIN ss = 1 .. Len(ss)
      /\ \A k \in 1 .. Len(ss) : ss[k] \in Nat /\ ss[k] - F.first \in 0 .. F.num - 1
  <2> DEFINE B == F.first .. F.first + F.num - 1
  <2>0. ss \in Seq(B)
    BY <1>3
  <2> HIDE DEF B
  <2>1. Len(ss) \in Nat /\ DOMAIN ss = 1 .. Len(ss) /\ \A k \in 1 .. Len(ss) : ss[k] \in B
    BY <2>0
  <2>2. \A k \in 1 .. Len(ss) : ss[k] \in F.first .. F.first + F.num - 1
    BY <2>1 DEF B
  <2>3. \A c \in F.first .. F.first + F.num - 1 : c \in Nat /\ c - F.first \in 0 .. F.num - 1
    BY <1>1
  <2> QED
    BY <2>1, <2>2, <2>3
<1> QED
  BY <1>5, <1>6 DEF ss

-----------------------------------------------------------------------------
(***************************************************************************)
(* The depth-first walk: tk, vs and ps are its stack, the visited blocks   *)
(* and the post-order so far.                                              *)
(***************************************************************************)
At(tk, vs, ps) == [stack |-> tk, visited |-> vs, post |-> ps]

(* A set of positions has a first one: the one Advance takes. *)
LEMMA Smallest ==
  ASSUME NEW S \in SUBSET Nat, S # {}
  PROVE  \E k \in S : \A j \in S : k <= j
<1> DEFINE Q == {ss \in Nat \X Nat : ss[1] < ss[2]}
<1>1. IsWellFoundedOn(Q, Nat)
  BY NatLessThanWellFounded, Zenon DEF OpToRel
<1> HIDE DEF Q
<1>2. PICK k \in S : \A y \in S : ~(<< y, k >> \in Q)
  BY <1>1, WFMin, Zenon
<1>3. ASSUME NEW j \in S PROVE k <= j
  <2>1. ~(j < k)
    BY <1>2 DEF Q
  <2> QED
    BY <2>1
<1> QED
  BY <1>3

(* A turn descends to an unvisited successor or retreats when none is left. *)
Advances(M, F, pr, tk, vs, ps, u) ==
  \/ \E v \in (0 .. F.num - 1) \ vs :
        u \in pr[v] /\ DfsTurn(At(tk, vs, ps), M, F) = At(Append(tk, v), vs \cup {v}, ps)
  \/ /\ \A v \in 0 .. F.num - 1 : u \in pr[v] => v \in vs
     /\ DfsTurn(At(tk, vs, ps), M, F) = At(SubSeq(tk, 1, Len(tk) - 1), vs, Append(ps, u))

(* A turn does one of the two, with the stack's top. *)
LEMMA DfsCases ==
  ASSUME NEW M, NEW F, NEW pr, Shape(M, F), Edges(M, F, pr),
         NEW tk, NEW vs, NEW ps, tk # <<>>, NEW u \in 0 .. F.num - 1, u = tk[Len(tk)]
  PROVE  Advances(M, F, pr, tk, vs, ps, u)
<1> DEFINE ss == Succs(M, F.first + u)
           s == At(tk, vs, ps)
           new == Unvisited(s, F, ss)
<1>2. /\ F.num \in Nat \ {0} /\ F.first \in Nat /\ GetSuccs(M, F.first + u) = ss
      /\ Len(ss) \in Nat /\ DOMAIN ss = 1 .. Len(ss)
      /\ \A k \in 1 .. Len(ss) : ss[k] \in Nat /\ ss[k] - F.first \in 0 .. F.num - 1
  BY ShapeFacts
<1>3. \A v \in 0 .. F.num - 1 : u \in pr[v] <=> \E k \in 1 .. Len(ss) : ss[k] = F.first + v
  BY DEF Edges
<1> HIDE DEF ss
<1>1. s.stack = tk /\ s.visited = vs /\ s.post = ps /\ s.stack[Len(s.stack)] = u
  BY DEF At
<1>9. Retreat(s) = At(SubSeq(tk, 1, Len(tk) - 1), vs, Append(ps, u))
  BY DEF At, Retreat
<1>8. \A v : Descend(s, v) = At(Append(tk, v), vs \cup {v}, ps)
  BY DEF At, Descend
<1> HIDE DEF s
<1>4. new = {k \in 1 .. Len(ss) : ss[k] - F.first \notin vs}
  BY <1>1, <1>2 DEF Unvisited
<1>5. DfsTurn(s, M, F) =
        IF new = {} THEN Retreat(s)
        ELSE Descend(s, ss[CHOOSE k \in new : \A j \in new : k <= j] - F.first)
  <2>1. DfsTurn(s, M, F) = Advance(s, F, ss)
    BY <1>1, <1>2 DEF DfsTurn
  <2> QED
    BY <2>1, Zenon DEF Advance
<1> HIDE DEF new
<1>6. CASE new = {}
  <2>1. ASSUME NEW v \in 0 .. F.num - 1, u \in pr[v] PROVE v \in vs
    <3>1. PICK k \in 1 .. Len(ss) : ss[k] = F.first + v
      BY <1>3, <2>1
    <3>2. ss[k] - F.first = v
      BY <1>2, <3>1
    <3> QED
      BY <1>4, <1>6, <3>2
  <2> QED
    BY <1>5, <1>6, <1>9, <2>1 DEF s, Advances
<1>7. CASE new # {}
  <2> DEFINE k == CHOOSE k \in new : \A j \in new : k <= j
  <2>1. new \in SUBSET Nat
    BY <1>2, <1>4
  <2>2. k \in new
    BY <1>7, <2>1, Smallest
  <2>5. DfsTurn(s, M, F) = Descend(s, ss[k] - F.first)
    BY <1>5, <1>7
  <2> HIDE DEF k
  <2>3. PICK v \in (0 .. F.num - 1) \ vs : ss[k] = F.first + v /\ k \in 1 .. Len(ss)
                                          /\ v = ss[k] - F.first
    BY <1>2, <1>4, <2>2
  <2>4. u \in pr[v]
    BY <1>3, <2>3
  <2> QED
    BY <1>8, <2>3, <2>4, <2>5 DEF s, Advances
<1> QED
  BY <1>6, <1>7

(***************************************************************************)
(* Blocks on the stack lead from the entry to its top; a block that has    *)
(* been retreated from has all its successors visited and, unless it is    *)
(* the entry, a predecessor on the stack or retreated from later.          *)
(***************************************************************************)
OnStack(pr, tk) ==
  /\ \A i, j \in 1 .. Len(tk) : tk[i] = tk[j] => i = j
  /\ tk # <<>> => tk[1] = 0
  /\ \A i \in 1 .. Len(tk) - 1 : tk[i] \in pr[tk[i + 1]]

Left(nb, pr, tk, vs, ps) ==
  /\ \A i, j \in 1 .. Len(ps) : ps[i] = ps[j] => i = j
  /\ \A i \in 1 .. Len(ps), j \in 1 .. Len(tk) : ps[i] # tk[j]
  /\ tk = <<>> => ps # <<>> /\ ps[Len(ps)] = 0
  /\ \A i \in 1 .. Len(ps), v \in 0 .. nb - 1 : ps[i] \in pr[v] => v \in vs
  /\ \A i \in 1 .. Len(ps) : \/ ps[i] = 0
                             \/ \E j \in i + 1 .. Len(ps) : ps[j] \in pr[ps[i]]
                             \/ \E k \in 1 .. Len(tk) : tk[k] \in pr[ps[i]]

Counted(tk, vs, ps, n) ==
  /\ \A v \in vs : \/ \E i \in 1 .. Len(ps) : ps[i] = v
                   \/ \E k \in 1 .. Len(tk) : tk[k] = v
  /\ \A i \in 1 .. Len(ps) : ps[i] \in vs
  /\ \A k \in 1 .. Len(tk) : tk[k] \in vs
  /\ Cardinality(vs) = Len(ps) + Len(tk)
  /\ tk # <<>> => 2 * Len(ps) + Len(tk) = n + 1

Walking(nb, pr, tk, vs, ps, n) ==
  /\ tk \in Seq(0 .. nb - 1) /\ vs \in SUBSET (0 .. nb - 1) /\ ps \in Seq(0 .. nb - 1)
  /\ OnStack(pr, tk) /\ Left(nb, pr, tk, vs, ps) /\ Counted(tk, vs, ps, n)

(* Descending keeps the invariant of the walk. *)
LEMMA DescendWalks ==
  ASSUME NEW nb \in Nat \ {0}, NEW pr, NEW n \in Nat, NEW tk, NEW vs, NEW ps,
         Walking(nb, pr, tk, vs, ps, n), tk # <<>>,
         NEW v \in (0 .. nb - 1) \ vs, tk[Len(tk)] \in pr[v]
  PROVE  Walking(nb, pr, Append(tk, v), vs \cup {v}, ps, n + 1)
<1> DEFINE t == Append(tk, v)
<1>0. /\ tk \in Seq(0 .. nb - 1) /\ vs \in SUBSET (0 .. nb - 1) /\ ps \in Seq(0 .. nb - 1)
      /\ OnStack(pr, tk) /\ Left(nb, pr, tk, vs, ps) /\ Counted(tk, vs, ps, n)
  BY DEF Walking
<1>1. Len(tk) \in Nat \ {0} /\ Len(ps) \in Nat
  BY <1>0, EmptySeq, LenProperties
<1>2. t \in Seq(0 .. nb - 1) /\ vs \cup {v} \in SUBSET (0 .. nb - 1)
  BY <1>0, AppendProperties
<1>3. /\ Len(t) = Len(tk) + 1 /\ t[Len(tk) + 1] = v /\ t # <<>>
      /\ \A k \in 1 .. Len(tk) : t[k] = tk[k]
  <2>1. tk \in Seq(0 .. nb - 1) /\ v \in 0 .. nb - 1
    BY <1>0
  <2>2. ASSUME NEW q \in Seq(0 .. nb - 1), NEW e \in 0 .. nb - 1
        PROVE  /\ Append(q, e) \in Seq(0 .. nb - 1) /\ Append(q, e) # <<>>
               /\ Len(Append(q, e)) = Len(q) + 1 /\ Append(q, e)[Len(q) + 1] = e
               /\ \A k \in 1 .. Len(q) : Append(q, e)[k] = q[k]
    BY AppendProperties, SMTT(30)
  <2> QED
    BY <2>1, <2>2, Zenon
<1> HIDE DEF t
<1>7. \A k \in 1 .. Len(t) : k \in 1 .. Len(tk) \/ k = Len(tk) + 1
  BY <1>1, <1>3
<1>8. \A k \in 1 .. Len(tk) : k \in 1 .. Len(t)
  BY <1>1, <1>3
<1>9. Len(tk) + 1 \in 1 .. Len(t)
  BY <1>1, <1>3
<1>4. OnStack(pr, t)
  <2>1. ASSUME NEW i \in 1 .. Len(t), NEW j \in 1 .. Len(t), t[i] = t[j]
        PROVE  i = j
    <3>1. \A k \in 1 .. Len(tk) : tk[k] # v
      BY <1>0 DEF Counted
    <3>2. \A k \in 1 .. Len(tk) : t[k] # v
      BY <1>3, <3>1
    <3>3. CASE i \in 1 .. Len(tk) /\ j \in 1 .. Len(tk)
      <4>1. tk[i] = tk[j]
        BY <1>3, <2>1, <3>3
      <4> QED
        BY <1>0, <3>3, <4>1 DEF OnStack
    <3>4. CASE i = Len(tk) + 1 \/ j = Len(tk) + 1
      BY <1>3, <1>7, <2>1, <3>2, <3>4
    <3> QED
      BY <1>7, <3>3, <3>4
  <2>2. t[1] = 0
    <3>1. 1 \in 1 .. Len(tk) /\ tk[1] = 0
      BY <1>0, <1>1 DEF OnStack
    <3> QED
      BY <1>3, <3>1
  <2>3. ASSUME NEW i \in 1 .. Len(t) - 1 PROVE t[i] \in pr[t[i + 1]]
    <3>1. CASE i = Len(tk)
      <4>1. i \in 1 .. Len(tk) /\ t[i + 1] = v
        BY <1>1, <1>3, <3>1
      <4> QED
        BY <1>3, <3>1, <4>1
    <3>2. CASE i # Len(tk)
      <4>1. i \in 1 .. Len(tk) - 1 /\ i \in 1 .. Len(tk) /\ i + 1 \in 1 .. Len(tk)
        BY <1>1, <1>3, <3>2
      <4> QED
        BY <1>0, <1>3, <4>1 DEF OnStack
    <3> QED
      BY <3>1, <3>2
  <2> QED
    BY <2>1, <2>2, <2>3 DEF OnStack
<1>5. Left(nb, pr, t, vs \cup {v}, ps)
  <2>1. ASSUME NEW i \in 1 .. Len(ps), NEW j \in 1 .. Len(t) PROVE ps[i] # t[j]
    <3>1. ps[i] # v
      BY <1>0 DEF Counted
    <3> QED
      BY <1>0, <1>3, <1>7, <3>1 DEF Left
  <2>2. ASSUME NEW i \in 1 .. Len(ps)
        PROVE  \/ ps[i] = 0
               \/ \E j \in i + 1 .. Len(ps) : ps[j] \in pr[ps[i]]
               \/ \E k \in 1 .. Len(t) : t[k] \in pr[ps[i]]
    <3>1. \/ ps[i] = 0
          \/ \E j \in i + 1 .. Len(ps) : ps[j] \in pr[ps[i]]
          \/ \E k \in 1 .. Len(tk) : tk[k] \in pr[ps[i]]
      BY <1>0 DEF Left
    <3> QED
      BY <1>3, <1>8, <3>1
  <2> QED
    BY <1>0, <1>3, <2>1, <2>2 DEF Left
<1>6. Counted(t, vs \cup {v}, ps, n + 1)
  <2>1. Cardinality(vs \cup {v}) = Len(ps) + Len(t)
    <3>1. IsFiniteSet(vs)
      BY <1>0, BlockCount, FS_Subset
    <3>2. Cardinality(vs \cup {v}) = Cardinality(vs) + 1
      BY <3>1, FS_AddElement
    <3>3. Cardinality(vs) = Len(ps) + Len(tk)
      BY <1>0 DEF Counted
    <3> QED
      BY <1>1, <1>3, <3>2, <3>3
  <2>2. 2 * Len(ps) + Len(t) = n + 1 + 1
    <3>1. 2 * Len(ps) + Len(tk) = n + 1
      BY <1>0 DEF Counted
    <3> QED
      BY <1>1, <1>3, <3>1
  <2>3. ASSUME NEW x \in vs \cup {v}
        PROVE  \/ \E i \in 1 .. Len(ps) : ps[i] = x
               \/ \E k \in 1 .. Len(t) : t[k] = x
    <3>1. CASE x = v
      BY <1>3, <1>9, <3>1
    <3>2. CASE x # v
      <4>1. \/ \E i \in 1 .. Len(ps) : ps[i] = x
            \/ \E k \in 1 .. Len(tk) : tk[k] = x
        BY <1>0, <3>2 DEF Counted
      <4> QED
        BY <1>3, <1>8, <4>1
    <3> QED
      BY <3>1, <3>2
  <2>4. ASSUME NEW k \in 1 .. Len(t) PROVE t[k] \in vs \cup {v}
    BY <1>0, <1>3, <1>7 DEF Counted
  <2>5. \A i \in 1 .. Len(ps) : ps[i] \in vs \cup {v}
    BY <1>0 DEF Counted
  <2> QED
    BY <2>1, <2>2, <2>3, <2>4, <2>5 DEF Counted
<1> QED
  BY <1>0, <1>2, <1>4, <1>5, <1>6 DEF Walking, t

(* Retreating keeps the invariant of the walk. *)
LEMMA RetreatWalks ==
  ASSUME NEW nb \in Nat \ {0}, NEW pr, NEW n \in Nat, NEW tk, NEW vs, NEW ps,
         Walking(nb, pr, tk, vs, ps, n), tk # <<>>, NEW u, u = tk[Len(tk)],
         \A v \in 0 .. nb - 1 : u \in pr[v] => v \in vs
  PROVE  Walking(nb, pr, SubSeq(tk, 1, Len(tk) - 1), vs, Append(ps, u), n + 1)
<1> DEFINE t == SubSeq(tk, 1, Len(tk) - 1)
           p == Append(ps, u)
<1>0. /\ tk \in Seq(0 .. nb - 1) /\ vs \in SUBSET (0 .. nb - 1) /\ ps \in Seq(0 .. nb - 1)
      /\ OnStack(pr, tk) /\ Left(nb, pr, tk, vs, ps) /\ Counted(tk, vs, ps, n)
  BY DEF Walking
<1>1. /\ Len(tk) \in Nat \ {0} /\ Len(ps) \in Nat
      /\ \A k \in 1 .. Len(tk) : tk[k] \in 0 .. nb - 1
  BY <1>0, EmptySeq, LenProperties
<1>2. u \in 0 .. nb - 1 /\ Len(tk) \in 1 .. Len(tk)
  BY <1>1
<1>3. /\ p \in Seq(0 .. nb - 1) /\ Len(p) = Len(ps) + 1 /\ p[Len(ps) + 1] = u /\ p # <<>>
      /\ \A k \in 1 .. Len(ps) : p[k] = ps[k]
  <2>1. ps \in Seq(0 .. nb - 1) /\ u \in 0 .. nb - 1
    BY <1>0, <1>2
  <2>2. ASSUME NEW q \in Seq(0 .. nb - 1), NEW e \in 0 .. nb - 1
        PROVE  /\ Append(q, e) \in Seq(0 .. nb - 1) /\ Append(q, e) # <<>>
               /\ Len(Append(q, e)) = Len(q) + 1 /\ Append(q, e)[Len(q) + 1] = e
               /\ \A k \in 1 .. Len(q) : Append(q, e)[k] = q[k]
    BY AppendProperties, SMTT(30)
  <2> QED
    BY <2>1, <2>2, Zenon
<1>4. /\ t \in Seq(0 .. nb - 1) /\ Len(t) = Len(tk) - 1
      /\ \A k \in 1 .. Len(tk) - 1 : t[k] = tk[k]
  <2>1. Len(tk) - 1 \in Int /\ 1 \in Int /\ \A k \in 1 .. Len(tk) - 1 : tk[k] \in 0 .. nb - 1
    BY <1>1
  <2>2. /\ t \in Seq(0 .. nb - 1)
        /\ Len(t) = IF 1 <= Len(tk) - 1 THEN Len(tk) - 1 - 1 + 1 ELSE 0
        /\ \A k \in 1 .. Len(tk) - 1 - 1 + 1 : t[k] = tk[1 + k - 1]
    BY <2>1, SubSeqProperties
  <2> HIDE DEF t
  <2>3. ASSUME NEW k \in 1 .. Len(tk) - 1 PROVE t[k] = tk[k]
    <3>1. k \in 1 .. Len(tk) - 1 - 1 + 1 /\ 1 + k - 1 = k
      BY <1>1
    <3> QED
      BY <2>2, <3>1
  <2>4. Len(t) = Len(tk) - 1
    <3>1. \A m \in Nat \ {0} : (IF 1 <= m - 1 THEN m - 1 - 1 + 1 ELSE 0) = m - 1
      OBVIOUS
    <3> QED
      BY <1>1, <2>2, <3>1, Zenon
  <2> QED
    BY <2>2, <2>3, <2>4
<1>5. t = <<>> => Len(tk) = 1
  <2>1. t = <<>> => Len(t) = 0
    BY <1>4, EmptySeq
  <2> HIDE DEF t
  <2> QED
    BY <1>1, <1>4, <2>1
<1> HIDE DEF t, p
<1>6. /\ \A k \in 1 .. Len(p) : k \in 1 .. Len(ps) \/ k = Len(ps) + 1
      /\ \A k \in 1 .. Len(ps) : k \in 1 .. Len(p)
      /\ Len(ps) + 1 \in 1 .. Len(p)
  BY <1>1, <1>3
<1>7. /\ \A k \in 1 .. Len(t) : k \in 1 .. Len(tk) - 1 /\ k \in 1 .. Len(tk) /\ k # Len(tk) /\ t[k] = tk[k]
      /\ \A k \in 1 .. Len(tk) : k \in 1 .. Len(t) \/ k = Len(tk)
  <2>1. \A n1 \in Nat \ {0} : /\ \A k \in 1 .. n1 - 1 : k \in 1 .. n1 /\ k # n1
                              /\ \A k \in 1 .. n1 : k \in 1 .. n1 - 1 \/ k = n1
    OBVIOUS
  <2>2. Len(tk) \in Nat \ {0} /\ Len(t) = Len(tk) - 1 /\ \A k \in 1 .. Len(tk) - 1 : t[k] = tk[k]
    BY <1>1, <1>4
  <2> QED
    BY <2>1, <2>2, Zenon
<1>8. OnStack(pr, t)
  <2>1. \A i, j \in 1 .. Len(t) : t[i] = t[j] => i = j
    BY <1>0, <1>7 DEF OnStack
  <2>2. t # <<>> => t[1] = 0
    <3> SUFFICES ASSUME t # <<>> PROVE t[1] = 0
      OBVIOUS
    <3>1. Len(t) \in Nat \ {0}
      BY <1>4, EmptySeq
    <3>2. 1 \in 1 .. Len(t) /\ tk # <<>>
      BY <3>1
    <3> QED
      BY <1>0, <1>7, <3>2 DEF OnStack
  <2>3. ASSUME NEW i \in 1 .. Len(t) - 1 PROVE t[i] \in pr[t[i + 1]]
    <3>1. i \in 1 .. Len(tk) - 1 /\ i \in 1 .. Len(t) /\ i + 1 \in 1 .. Len(t)
      BY <1>1, <1>4
    <3> QED
      BY <1>0, <1>7, <3>1 DEF OnStack
  <2> QED
    BY <2>1, <2>2, <2>3 DEF OnStack
<1>9. Left(nb, pr, t, vs, p)
  <2>1. ASSUME NEW i \in 1 .. Len(ps) PROVE p[i] # u /\ p[i] = ps[i]
    BY <1>0, <1>2, <1>3 DEF Left
  <2>2. ASSUME NEW i \in 1 .. Len(p), NEW j \in 1 .. Len(p), p[i] = p[j] PROVE i = j
    <3>1. CASE i \in 1 .. Len(ps) /\ j \in 1 .. Len(ps)
      <4>1. ps[i] = ps[j]
        BY <2>1, <2>2, <3>1
      <4> QED
        BY <1>0, <3>1, <4>1 DEF Left
    <3>2. CASE i = Len(ps) + 1 \/ j = Len(ps) + 1
      BY <1>3, <1>6, <2>1, <2>2, <3>2
    <3> QED
      BY <1>6, <3>1, <3>2
  <2>3. ASSUME NEW i \in 1 .. Len(p), NEW j \in 1 .. Len(t) PROVE p[i] # t[j]
    <3>1. j \in 1 .. Len(tk) /\ j # Len(tk) /\ t[j] = tk[j]
      BY <1>7
    <3>2. CASE i \in 1 .. Len(ps)
      BY <1>0, <2>1, <3>1, <3>2 DEF Left
    <3>3. CASE i = Len(ps) + 1
      <4>1. tk[Len(tk)] # tk[j]
        BY <1>0, <1>2, <3>1 DEF OnStack
      <4> QED
        BY <1>3, <3>1, <3>3, <4>1
    <3> QED
      BY <1>6, <3>2, <3>3
  <2>4. t = <<>> => p # <<>> /\ p[Len(p)] = 0
    <3> SUFFICES ASSUME t = <<>> PROVE p[Len(p)] = 0
      BY <1>3
    <3>1. tk[1] = 0 /\ Len(tk) = 1
      BY <1>0, <1>5 DEF OnStack
    <3> QED
      BY <1>3, <3>1
  <2>5. ASSUME NEW i \in 1 .. Len(p), NEW v \in 0 .. nb - 1, p[i] \in pr[v] PROVE v \in vs
    <3>1. CASE i \in 1 .. Len(ps)
      BY <1>0, <2>1, <2>5, <3>1 DEF Left
    <3>2. CASE i = Len(ps) + 1
      BY <1>3, <2>5, <3>2
    <3> QED
      BY <1>6, <3>1, <3>2
  <2>6. ASSUME NEW i \in 1 .. Len(p)
        PROVE  \/ p[i] = 0
               \/ \E j \in i + 1 .. Len(p) : p[j] \in pr[p[i]]
               \/ \E k \in 1 .. Len(t) : t[k] \in pr[p[i]]
    <3>1. CASE i \in 1 .. Len(ps)
      <4>1. \/ ps[i] = 0
            \/ \E j \in i + 1 .. Len(ps) : ps[j] \in pr[ps[i]]
            \/ \E k \in 1 .. Len(tk) : tk[k] \in pr[ps[i]]
        BY <1>0, <3>1 DEF Left
      <4>2. p[i] = ps[i]
        BY <2>1, <3>1
      <4>3. CASE \E j \in i + 1 .. Len(ps) : ps[j] \in pr[ps[i]]
        <5>1. PICK j \in i + 1 .. Len(ps) : ps[j] \in pr[ps[i]]
          BY <4>3
        <5>2. j \in i + 1 .. Len(p) /\ j \in 1 .. Len(ps)
          BY <1>1, <1>3
        <5> QED
          BY <1>3, <4>2, <5>1, <5>2
      <4>4. CASE \E k \in 1 .. Len(tk) : tk[k] \in pr[ps[i]]
        <5>1. PICK k \in 1 .. Len(tk) : tk[k] \in pr[ps[i]]
          BY <4>4
        <5>2. CASE k \in 1 .. Len(t)
          BY <1>7, <4>2, <5>1, <5>2
        <5>3. CASE k = Len(tk)
          <6>1. Len(ps) + 1 \in i + 1 .. Len(p)
            BY <1>1, <1>3, <3>1
          <6> QED
            BY <1>3, <4>2, <5>1, <5>3, <6>1
        <5> QED
          BY <1>7, <5>2, <5>3
      <4> QED
        BY <4>1, <4>2, <4>3, <4>4
    <3>2. CASE i = Len(ps) + 1
      <4>1. p[i] = u
        BY <1>3, <3>2
      <4>2. CASE Len(tk) = 1
        BY <1>0, <4>1, <4>2 DEF OnStack
      <4>3. CASE Len(tk) # 1
        <5>1. Len(tk) - 1 \in 1 .. Len(tk) - 1 /\ Len(tk) - 1 + 1 = Len(tk)
              /\ Len(tk) - 1 \in 1 .. Len(t)
          BY <1>1, <1>4, <4>3
        <5>2. tk[Len(tk) - 1] \in pr[tk[Len(tk) - 1 + 1]]
          BY <1>0, <5>1 DEF OnStack
        <5>3. t[Len(tk) - 1] \in pr[u]
          BY <1>7, <5>1, <5>2
        <5> QED
          BY <4>1, <5>1, <5>3
      <4> QED
        BY <4>2, <4>3
    <3> QED
      BY <1>6, <3>1, <3>2
  <2> QED
    BY <2>2, <2>3, <2>4, <2>5, <2>6 DEF Left
<1>10. Counted(t, vs, p, n + 1)
  <2>1. ASSUME NEW x \in vs
        PROVE  \/ \E i \in 1 .. Len(p) : p[i] = x
               \/ \E k \in 1 .. Len(t) : t[k] = x
    <3>1. \/ \E i \in 1 .. Len(ps) : ps[i] = x
          \/ \E k \in 1 .. Len(tk) : tk[k] = x
      BY <1>0 DEF Counted
    <3> QED
      BY <1>3, <1>6, <1>7, <3>1
  <2>2. ASSUME NEW i \in 1 .. Len(p) PROVE p[i] \in vs
    BY <1>0, <1>2, <1>3, <1>6 DEF Counted
  <2>3. ASSUME NEW k \in 1 .. Len(t) PROVE t[k] \in vs
    BY <1>0, <1>7 DEF Counted
  <2>4. Cardinality(vs) = Len(p) + Len(t)
    <3>1. Cardinality(vs) = Len(ps) + Len(tk)
      BY <1>0 DEF Counted
    <3> QED
      BY <1>1, <1>3, <1>4, <3>1
  <2>5. 2 * Len(p) + Len(t) = n + 1 + 1
    <3>1. 2 * Len(ps) + Len(tk) = n + 1
      BY <1>0 DEF Counted
    <3>2. \A a, b, c, d \in Int : 2 * a + b = n + 1 /\ c = a + 1 /\ d = b - 1
                                    => 2 * c + d = n + 1 + 1
      OBVIOUS
    <3>3. Len(ps) \in Int /\ Len(tk) \in Int /\ Len(p) \in Int /\ Len(t) \in Int
          /\ Len(p) = Len(ps) + 1 /\ Len(t) = Len(tk) - 1
      BY <1>1, <1>3, <1>4
    <3> QED
      BY <3>1, <3>2, <3>3
  <2> QED
    BY <2>1, <2>2, <2>3, <2>4, <2>5 DEF Counted
<1> QED
  BY <1>0, <1>3, <1>4, <1>8, <1>9, <1>10 DEF Walking, t, p

(* Twice as many turns as blocks empty the stack. *)
LEMMA WalkEnds ==
  ASSUME NEW nb \in Nat \ {0}, NEW pr \in [0 .. nb - 1 -> SUBSET (0 .. nb - 1)],
         NEW tk, NEW vs, NEW ps, Walking(nb, pr, tk, vs, ps, 2 * nb)
  PROVE  Ordered(nb, pr, ps)
<1>0. /\ tk \in Seq(0 .. nb - 1) /\ vs \in SUBSET (0 .. nb - 1) /\ ps \in Seq(0 .. nb - 1)
      /\ OnStack(pr, tk) /\ Left(nb, pr, tk, vs, ps) /\ Counted(tk, vs, ps, 2 * nb)
  BY DEF Walking
<1>1. Len(tk) \in Nat /\ Len(ps) \in Nat /\ Cardinality(vs) = Len(ps) + Len(tk)
  BY <1>0, LenProperties DEF Counted
<1>2. Cardinality(vs) <= nb
  <2>1. IsFiniteSet(0 .. nb - 1) /\ Cardinality(0 .. nb - 1) = nb
    BY BlockCount
  <2>2. Cardinality(vs) <= Cardinality(0 .. nb - 1)
    BY <1>0, <2>1, FS_Subset
  <2> QED
    BY <2>1, <2>2
<1>3. tk = <<>>
  <2> SUFFICES ASSUME tk # <<>> PROVE FALSE
    OBVIOUS
  <2>1. 2 * Len(ps) + Len(tk) = 2 * nb + 1
    BY <1>0 DEF Counted
  <2>2. \A a, b \in Nat : 2 * a + b = 2 * nb + 1 => a + b > nb
    OBVIOUS
  <2> QED
    BY <1>1, <1>2, <2>1, <2>2
<1>4. Len(tk) = 0
  BY <1>3, EmptySeq
<1>5. ps # <<>> /\ ps[Len(ps)] = 0
  BY <1>0, <1>3 DEF Left
<1>6. Len(ps) \in 1 .. nb
  <2>1. Len(ps) \in Nat \ {0}
    BY <1>0, <1>5, EmptySeq
  <2> QED
    BY <1>1, <1>2, <1>4, <2>1
<1>7. \A i, j \in 1 .. Len(ps) : ps[i] = ps[j] => i = j
  BY <1>0 DEF Left
<1>8. ASSUME NEW i \in 1 .. Len(ps) - 1
      PROVE  \E j \in i + 1 .. Len(ps) : ps[j] \in pr[ps[i]]
  <2>1. i \in 1 .. Len(ps) /\ Len(ps) \in 1 .. Len(ps) /\ i # Len(ps)
    BY <1>6
  <2>2. ps[i] # 0
    BY <1>5, <1>7, <2>1
  <2>3. ~\E k \in 1 .. Len(tk) : tk[k] \in pr[ps[i]]
    BY <1>4
  <2> QED
    BY <1>0, <2>1, <2>2, <2>3 DEF Left
<1>9. ASSUME NEW i \in 1 .. Len(ps), NEW v \in 0 .. nb - 1, ps[i] \in pr[v]
      PROVE  \E j \in 1 .. Len(ps) : ps[j] = v
  <2>1. v \in vs
    BY <1>0, <1>9 DEF Left
  <2> QED
    BY <1>0, <1>4, <2>1 DEF Counted
<1> QED
  BY <1>0, <1>5, <1>6, <1>7, <1>8, <1>9 DEF Ordered

(* The invariant holds when only the entry is visited. *)
LEMMA WalkStarts ==
  ASSUME NEW nb \in Nat \ {0}, NEW pr
  PROVE  Walking(nb, pr, << 0 >>, {0}, <<>>, 0)
<1>1. /\ Len(<< 0 >>) = 1 /\ << 0 >>[1] = 0 /\ Len(<<>>) = 0 /\ 0 \in 0 .. nb - 1
      /\ << 0 >> \in Seq(0 .. nb - 1) /\ <<>> \in Seq(0 .. nb - 1) /\ << 0 >> # <<>>
  OBVIOUS
<1>2. OnStack(pr, << 0 >>)
  BY <1>1 DEF OnStack
<1>3. Left(nb, pr, << 0 >>, {0}, <<>>)
  BY <1>1 DEF Left
<1>4. Counted(<< 0 >>, {0}, <<>>, 0)
  <2>1. Cardinality({0}) = 1
    BY FS_Singleton
  <2>2. 2 * 0 + 1 = 0 + 1 /\ 0 + 1 = 1
    OBVIOUS
  <2>3. 1 \in 1 .. Len(<< 0 >>)
    BY <1>1
  <2> QED
    BY <1>1, <2>1, <2>2, <2>3 DEF Counted
<1> QED
  BY <1>1, <1>2, <1>3, <1>4 DEF Walking

(* A turn leads from states of the walk to states of the walk. *)
WalkStates(nb) == [stack : Seq(0 .. nb - 1), visited : SUBSET (0 .. nb - 1), post : Seq(0 .. nb - 1)]

Turned(nb, pr, tk, vs, ps, s) ==
  \E tk1 \in Seq(0 .. nb - 1), vs1 \in SUBSET (0 .. nb - 1), ps1 \in Seq(0 .. nb - 1) :
     /\ s = At(tk1, vs1, ps1)
     /\ \A n \in Nat : Walking(nb, pr, tk, vs, ps, n) => Walking(nb, pr, tk1, vs1, ps1, n + 1)

(* A turn of the walk, whatever it does, keeps the types and the invariant. *)
LEMMA DfsTurnWalks ==
  ASSUME NEW M, NEW F, NEW pr, Shape(M, F), Edges(M, F, pr),
         NEW tk \in Seq(0 .. F.num - 1), NEW vs \in SUBSET (0 .. F.num - 1), NEW ps \in Seq(0 .. F.num - 1)
  PROVE  Turned(F.num, pr, tk, vs, ps, DfsTurn(At(tk, vs, ps), M, F))
<1>0. F.num \in Nat \ {0}
  BY DEF Shape
<1>1. CASE tk = <<>>
  <2>1. DfsTurn(At(tk, vs, ps), M, F) = At(tk, vs, ps)
    BY <1>1 DEF DfsTurn, At
  <2>2. ASSUME NEW n \in Nat, Walking(F.num, pr, tk, vs, ps, n)
        PROVE  Walking(F.num, pr, tk, vs, ps, n + 1)
    BY <1>1, <2>2 DEF Walking, Counted
  <2> QED
    BY <2>1, <2>2 DEF Turned
<1>2. CASE tk # <<>>
  <2> DEFINE u == tk[Len(tk)]
  <2>1. u \in 0 .. F.num - 1
    <3>1. Len(tk) \in Nat \ {0} /\ \A k \in 1 .. Len(tk) : tk[k] \in 0 .. F.num - 1
      BY <1>2, EmptySeq, LenProperties
    <3> QED
      BY <3>1
  <2> HIDE DEF u
  <2>2. CASE \E v \in (0 .. F.num - 1) \ vs :
                u \in pr[v] /\ DfsTurn(At(tk, vs, ps), M, F) = At(Append(tk, v), vs \cup {v}, ps)
    <3>1. PICK v \in (0 .. F.num - 1) \ vs :
             u \in pr[v] /\ DfsTurn(At(tk, vs, ps), M, F) = At(Append(tk, v), vs \cup {v}, ps)
      BY <2>2
    <3>2. Append(tk, v) \in Seq(0 .. F.num - 1) /\ vs \cup {v} \in SUBSET (0 .. F.num - 1)
      BY AppendProperties
    <3>3. ASSUME NEW n \in Nat, Walking(F.num, pr, tk, vs, ps, n)
          PROVE  Walking(F.num, pr, Append(tk, v), vs \cup {v}, ps, n + 1)
      BY <1>0, <1>2, <3>1, <3>3, DescendWalks DEF u
    <3> QED
      BY <3>1, <3>2, <3>3 DEF Turned
  <2>3. CASE /\ \A v \in 0 .. F.num - 1 : u \in pr[v] => v \in vs
             /\ DfsTurn(At(tk, vs, ps), M, F) = At(SubSeq(tk, 1, Len(tk) - 1), vs, Append(ps, u))
    <3>1. Append(ps, u) \in Seq(0 .. F.num - 1)
      BY <2>1, AppendProperties
    <3>2. SubSeq(tk, 1, Len(tk) - 1) \in Seq(0 .. F.num - 1)
      <4>1. Len(tk) \in Nat /\ \A k \in 1 .. Len(tk) : tk[k] \in 0 .. F.num - 1
        BY LenProperties
      <4>2. Len(tk) - 1 \in Int /\ 1 \in Int /\ \A k \in 1 .. Len(tk) - 1 : tk[k] \in 0 .. F.num - 1
        BY <4>1
      <4> QED
        BY <4>2, SubSeqProperties
    <3>3. ASSUME NEW n \in Nat, Walking(F.num, pr, tk, vs, ps, n)
          PROVE  Walking(F.num, pr, SubSeq(tk, 1, Len(tk) - 1), vs, Append(ps, u), n + 1)
      BY <1>0, <1>2, <2>3, <3>3, RetreatWalks DEF u
    <3> QED
      BY <2>3, <3>1, <3>2, <3>3 DEF Turned
  <2> QED
    <3>1. u = tk[Len(tk)]
      BY DEF u
    <3>2. Advances(M, F, pr, tk, vs, ps, u)
      BY <1>2, <2>1, <3>1, DfsCases
    <3> QED
      BY <2>2, <2>3, <3>2 DEF Advances
<1> QED
  BY <1>1, <1>2

(* The depth-first walk (bir_mem2reg.c:299-328) leaves such a post-order,  *)
(* for every graph and whatever order the successors are in.               *)
THEOREM PostOrdered ==
  ASSUME NEW M, NEW F, NEW pr, Shape(M, F), Edges(M, F, pr)
  PROVE  Ordered(F.num, pr, PostOrder(M, F))
<1> DEFINE nb == F.num
           T == 2 * nb
           S == WalkStates(nb)
           start == [stack |-> << 0 >>, visited |-> {0}, post |-> <<>>]
           st == [y \in S \X (1 .. T) |-> DfsTurn(y[1], M, F)]
           Runs(f) == f = [n \in 0 .. T |-> IF n = 0 THEN start ELSE DfsTurn(f[n - 1], M, F)]
           f == CHOOSE f : Runs(f)
           Good(n) == \E tk, vs, ps : f[n] = At(tk, vs, ps) /\ Walking(nb, pr, tk, vs, ps, n)
           G == {n \in 0 .. T : Good(n)}
<1>0. nb \in Nat \ {0} /\ T \in Nat /\ pr \in [0 .. nb - 1 -> SUBSET (0 .. nb - 1)]
  BY DEF Shape, Edges
<1>1. start = At(<< 0 >>, {0}, <<>>) /\ start \in S
  <2>1. start = At(<< 0 >>, {0}, <<>>)
    BY DEF At
  <2>2. /\ << 0 >> \in Seq(0 .. nb - 1) /\ <<>> \in Seq(0 .. nb - 1)
        /\ {0} \in SUBSET (0 .. nb - 1)
    BY <1>0
  <2> QED
    BY <2>1, <2>2 DEF WalkStates
<1>2. ASSUME NEW s \in S PROVE DfsTurn(s, M, F) \in S
  <2>1. PICK tk \in Seq(0 .. nb - 1), vs \in SUBSET (0 .. nb - 1), ps \in Seq(0 .. nb - 1) :
           s = At(tk, vs, ps)
    <3>1. s = At(s.stack, s.visited, s.post)
      BY DEF WalkStates, At
    <3>2. s.stack \in Seq(0 .. nb - 1) /\ s.visited \in SUBSET (0 .. nb - 1) /\ s.post \in Seq(0 .. nb - 1)
      BY DEF WalkStates
    <3> QED
      BY <3>1, <3>2
  <2>2. Turned(nb, pr, tk, vs, ps, DfsTurn(s, M, F))
    BY <2>1, DfsTurnWalks
  <2> QED
    BY <2>2 DEF Turned, At, WalkStates
<1> HIDE DEF S, start
<1>3. \E g : Runs(g)
  <2>1. st \in [S \X (1 .. T) -> S]
    BY <1>2
  <2>2. PICK g : Turns(g, S, start, T, st)
    <3> HIDE DEF st, T
    <3> QED
      BY <1>0, <1>1, <2>1, LoopRuns
  <2>3. ASSUME NEW n \in 0 .. T
        PROVE  g[n] = IF n = 0 THEN start ELSE DfsTurn(g[n - 1], M, F)
    <3> HIDE DEF T
    <3>1. CASE n = 0
      BY <2>2, <3>1 DEF Turns
    <3>2. CASE n # 0
      <4>1. g[n - 1] \in S /\ n \in 1 .. T
        BY <1>0, <2>2, <3>2 DEF Turns
      <4>2. st[<< g[n - 1], n >>] = DfsTurn(g[n - 1], M, F)
        BY <4>1
      <4> HIDE DEF st
      <4> QED
        BY <2>2, <3>2, <4>2 DEF Turns
    <3> QED
      BY <3>1, <3>2
  <2>4. g \in [0 .. T -> S]
    BY <2>2 DEF Turns
  <2> HIDE DEF T
  <2> QED
    BY <2>3, <2>4
<1>4. Runs(f)
  BY <1>3
<1>5. PostOrder(M, F) = f[T].post
  BY DEF PostOrder, start
<1> HIDE DEF f
<1>6. f[0] = start /\ \A n \in 1 .. T : f[n] = DfsTurn(f[n - 1], M, F)
  <2>1. \A n \in 0 .. T : f[n] = IF n = 0 THEN start ELSE DfsTurn(f[n - 1], M, F)
    BY <1>4, Zenon
  <2> HIDE DEF T
  <2> QED
    BY <1>0, <2>1
<1>7. Good(0)
  BY <1>0, <1>1, <1>6, WalkStarts
<1>8. ASSUME NEW n \in 1 .. T, Good(n - 1) PROVE Good(n)
  <2>1. PICK tk, vs, ps : f[n - 1] = At(tk, vs, ps) /\ Walking(nb, pr, tk, vs, ps, n - 1)
    BY <1>8
  <2>2. tk \in Seq(0 .. nb - 1) /\ vs \in SUBSET (0 .. nb - 1) /\ ps \in Seq(0 .. nb - 1)
    BY <2>1 DEF Walking
  <2>3. n - 1 \in Nat /\ n - 1 + 1 = n
    BY <1>0
  <2>4. PICK tk1, vs1, ps1 :
           /\ DfsTurn(At(tk, vs, ps), M, F) = At(tk1, vs1, ps1)
           /\ \A m \in Nat : Walking(nb, pr, tk, vs, ps, m) => Walking(nb, pr, tk1, vs1, ps1, m + 1)
    <3>1. Turned(nb, pr, tk, vs, ps, DfsTurn(At(tk, vs, ps), M, F))
      BY <2>2, DfsTurnWalks
    <3> QED
      BY <3>1 DEF Turned
  <2>5. Walking(nb, pr, tk1, vs1, ps1, n)
    BY <2>1, <2>3, <2>4
  <2> QED
    BY <1>6, <2>1, <2>4, <2>5
<1>9. Good(T)
  <2>1. 0 \in 0 .. T /\ T \in 0 .. T /\ \A n \in 1 .. T : n \in 0 .. T
    BY <1>0
  <2> HIDE DEF Good, T
  <2>2. 0 \in G /\ \A n \in 1 .. T : n - 1 \in G => n \in G
    BY <1>7, <1>8, <2>1
  <2> HIDE DEF G
  <2>3. \A n \in 0 .. T : n \in G
    BY <1>0, <2>2, EveryTurn
  <2> QED
    BY <2>1, <2>3 DEF G
<1>10. PICK tk, vs, ps : f[T] = At(tk, vs, ps) /\ Walking(nb, pr, tk, vs, ps, T)
  BY <1>9
<1>11. f[T].post = ps
  BY <1>10 DEF At
<1> QED
  BY <1>0, <1>5, <1>10, <1>11, WalkEnds

-----------------------------------------------------------------------------
(***************************************************************************)
(* Step 2: the lists acc hold the sets D of predecessors, each block once. *)
(***************************************************************************)
Lists(nb, acc, D) ==
  /\ acc \in [0 .. nb - 1 -> Seq(0 .. nb - 1)]
  /\ D \in [0 .. nb - 1 -> SUBSET (0 .. nb - 1)]
  /\ \A v \in 0 .. nb - 1 : /\ D[v] = {acc[v][i] : i \in 1 .. Len(acc[v])}
                            /\ Cardinality(D[v]) = Len(acc[v])

(* Noting an edge leaves lists of blocks. *)
LEMMA EdgeType ==
  ASSUME NEW nb, NEW acc \in [0 .. nb - 1 -> Seq(0 .. nb - 1)], NEW p \in 0 .. nb - 1, NEW v
  PROVE  Edge(acc, p, v) \in [0 .. nb - 1 -> Seq(0 .. nb - 1)]
<1>1. CASE v \in 0 .. nb - 1
  <2>1. acc[v] \in Seq(0 .. nb - 1)
    BY <1>1
  <2>2. Append(acc[v], p) \in Seq(0 .. nb - 1)
    BY <2>1, AppendProperties
  <2> QED
    BY <1>1, <2>2 DEF Edge
<1>2. CASE v \notin 0 .. nb - 1
  BY <1>2 DEF Edge
<1> QED
  BY <1>1, <1>2

(* An edge into v is noted unless it is already there: the list has room. *)
LEMMA EdgeLists ==
  ASSUME NEW nb \in Nat \ {0}, NEW acc, NEW D, Lists(nb, acc, D),
         NEW p \in 0 .. nb - 1, NEW v \in 0 .. nb - 1,
         Cardinality(D[v] \cup {p}) <= M2R_MAX_PREDS
  PROVE  Lists(nb, Edge(acc, p, v), [D EXCEPT ![v] = @ \cup {p}])
<1> DEFINE q == acc[v]
           E == [D EXCEPT ![v] = @ \cup {p}]
<1>1. /\ acc \in [0 .. nb - 1 -> Seq(0 .. nb - 1)]
      /\ D \in [0 .. nb - 1 -> SUBSET (0 .. nb - 1)]
      /\ \A x \in 0 .. nb - 1 : /\ D[x] = {acc[x][i] : i \in 1 .. Len(acc[x])}
                                /\ Cardinality(D[x]) = Len(acc[x])
  BY DEF Lists
<1>2. /\ q \in Seq(0 .. nb - 1) /\ Len(q) \in Nat /\ DOMAIN q = 1 .. Len(q)
      /\ D[v] = {q[i] : i \in 1 .. Len(q)} /\ Cardinality(D[v]) = Len(q)
  BY <1>1
<1>3. E \in [0 .. nb - 1 -> SUBSET (0 .. nb - 1)] /\ E[v] = D[v] \cup {p}
      /\ \A x \in 0 .. nb - 1 : x # v => E[x] = D[x]
  BY <1>1
<1>4. IsFiniteSet(D[v])
  <2>1. D[v] \in SUBSET (0 .. nb - 1) /\ IsFiniteSet(0 .. nb - 1)
    BY <1>1, BlockCount
  <2> QED
    BY <2>1, FS_Subset
<1> HIDE DEF q, E
<1>5. CASE p \in D[v]
  <2>1. \E i \in DOMAIN q : q[i] = p
    BY <1>2, <1>5
  <2>2. Edge(acc, p, v) = acc
    BY <2>1 DEF Edge, q
  <2>3. D[v] \cup {p} = D[v]
    BY <1>5
  <2>4. E = D
    BY <1>1, <2>3 DEF E
  <2> QED
    BY <2>2, <2>4 DEF E
<1>6. CASE p \notin D[v]
  <2>1. Cardinality(D[v] \cup {p}) = Len(q) + 1
    BY <1>2, <1>4, <1>6, FS_AddElement
  <2>2. Len(q) < M2R_MAX_PREDS
    BY <1>2, <2>1, PredsAssumption
  <2>3. \A i \in DOMAIN q : q[i] # p
    BY <1>2, <1>6
  <2>4. Edge(acc, p, v) = [acc EXCEPT ![v] = Append(q, p)]
    BY <1>1, <2>2, <2>3 DEF Edge, q
  <2>5. /\ Append(q, p) \in Seq(0 .. nb - 1) /\ Len(Append(q, p)) = Len(q) + 1
        /\ Append(q, p)[Len(q) + 1] = p
        /\ \A i \in 1 .. Len(q) : Append(q, p)[i] = q[i]
    BY <1>2, AppendProperties
  <2> DEFINE q1 == Append(q, p)
  <2> HIDE DEF q1
  <2>6. /\ q1 \in Seq(0 .. nb - 1) /\ Len(q1) = Len(q) + 1 /\ q1[Len(q) + 1] = p
        /\ \A i \in 1 .. Len(q) : q1[i] = q[i]
    BY <2>5 DEF q1
  <2>7. D[v] \cup {p} = {q1[i] : i \in 1 .. Len(q1)}
    <3>1. \A i \in 1 .. Len(q1) : i \in 1 .. Len(q) \/ i = Len(q) + 1
      BY <1>2, <2>6
    <3>2. \A i \in 1 .. Len(q) : i \in 1 .. Len(q1)
      BY <1>2, <2>6
    <3>3. Len(q) + 1 \in 1 .. Len(q1)
      BY <1>2, <2>6
    <3> QED
      BY <1>2, <2>6, <3>1, <3>2, <3>3
  <2> DEFINE acc1 == [acc EXCEPT ![v] = q1]
  <2>8. acc1 \in [0 .. nb - 1 -> Seq(0 .. nb - 1)] /\ acc1[v] = q1
        /\ \A x \in 0 .. nb - 1 : x # v => acc1[x] = acc[x]
    BY <1>1, <2>6
  <2> HIDE DEF acc1
  <2>9. ASSUME NEW x \in 0 .. nb - 1
        PROVE  /\ E[x] = {acc1[x][i] : i \in 1 .. Len(acc1[x])}
               /\ Cardinality(E[x]) = Len(acc1[x])
    <3>1. CASE x = v
      <4>1. E[x] = D[v] \cup {p} /\ acc1[x] = q1
        BY <1>3, <2>8, <3>1
      <4>2. E[x] = {q1[i] : i \in 1 .. Len(q1)}
        BY <2>7, <4>1, Zenon
      <4>3. Cardinality(E[x]) = Len(q1)
        BY <2>1, <2>6, <4>1
      <4> QED
        BY <4>1, <4>2, <4>3, Zenon
    <3>2. CASE x # v
      <4>1. E[x] = D[x] /\ acc1[x] = acc[x]
        BY <1>3, <2>8, <3>2
      <4> QED
        BY <1>1, <4>1, Zenon
    <3> QED
      BY <3>1, <3>2
  <2>10. Lists(nb, acc1, E)
    BY <1>3, <2>8, <2>9 DEF Lists
  <2> QED
    BY <2>4, <2>10 DEF acc1, q1, E
<1> QED
  BY <1>5, <1>6

(* The loop over the successors of one block. *)
Noting(nb, acc, p, ss, base, f) ==
  /\ f[0] = acc /\ \A k \in 1 .. Len(ss) : f[k] = Edge(f[k - 1], p, ss[k] - base)
  /\ \A k \in 0 .. Len(ss) : f[k] \in [0 .. nb - 1 -> Seq(0 .. nb - 1)]
  /\ BlockEdges(acc, p, ss, base) = f[Len(ss)]

(* That loop runs. *)
LEMMA BlockEdgesTurns ==
  ASSUME NEW nb \in Nat \ {0}, NEW acc \in [0 .. nb - 1 -> Seq(0 .. nb - 1)], NEW p \in 0 .. nb - 1,
         NEW base, NEW ss, Len(ss) \in Nat
  PROVE  \E f : Noting(nb, acc, p, ss, base, f)
<1> DEFINE N == Len(ss)
           S == [0 .. nb - 1 -> Seq(0 .. nb - 1)]
           st == [y \in S \X (1 .. N) |-> Edge(y[1], p, ss[y[2]] - base)]
           Runs(f) == f = [k \in 0 .. N |-> IF k = 0 THEN acc ELSE Edge(f[k - 1], p, ss[k] - base)]
           f == CHOOSE f : Runs(f)
<1>1. acc \in S
  OBVIOUS
<1>2. \E g : Runs(g)
  <2>0. N \in Nat
    OBVIOUS
  <2>1. ASSUME NEW y \in S \X (1 .. N) PROVE Edge(y[1], p, ss[y[2]] - base) \in S
    BY EdgeType
  <2>2. st \in [S \X (1 .. N) -> S]
    <3> HIDE DEF S
    <3> QED
      BY <2>1
  <2>3. PICK g : Turns(g, S, acc, N, st)
    <3> HIDE DEF st, S
    <3> QED
      BY <1>1, <2>2, LoopRuns
  <2> HIDE DEF S
  <2>4. ASSUME NEW k \in 0 .. N
        PROVE  g[k] = IF k = 0 THEN acc ELSE Edge(g[k - 1], p, ss[k] - base)
    <3>1. CASE k = 0
      BY <2>3, <3>1 DEF Turns
    <3>2. CASE k # 0
      <4>1. g[k - 1] \in S /\ k \in 1 .. N
        <5> HIDE DEF N
        <5>1. k - 1 \in 0 .. N /\ k \in 1 .. N
          BY <2>0, <3>2
        <5> QED
          BY <2>3, <5>1 DEF Turns
      <4>2. st[<< g[k - 1], k >>] = Edge(g[k - 1], p, ss[k] - base)
        BY <4>1
      <4> HIDE DEF st
      <4> QED
        BY <2>3, <3>2, <4>2 DEF Turns
    <3> QED
      BY <3>1, <3>2
  <2>5. g \in [0 .. N -> S]
    BY <2>3 DEF Turns
  <2> QED
    BY <2>4, <2>5
<1>3. Runs(f)
  BY <1>2
<1>4. BlockEdges(acc, p, ss, base) = f[N]
  BY DEF BlockEdges
<1> HIDE DEF f
<1>5. f[0] = acc /\ \A k \in 1 .. N : f[k] = Edge(f[k - 1], p, ss[k] - base)
  <2>1. \A k \in 0 .. N : f[k] = IF k = 0 THEN acc ELSE Edge(f[k - 1], p, ss[k] - base)
    BY <1>3, Zenon
  <2> QED
    BY <2>1
<1>6. \A k \in 0 .. N : f[k] \in S
  <2> DEFINE G == {k \in 0 .. N : f[k] \in S}
  <2>1. N \in Nat /\ 0 \in G
    BY <1>1, <1>5
  <2>2. ASSUME NEW k \in 1 .. N, k - 1 \in G PROVE k \in G
    <3>1. f[k] = Edge(f[k - 1], p, ss[k] - base) /\ f[k - 1] \in S
      BY <1>5, <2>2
    <3>2. \A v : Edge(f[k - 1], p, v) \in S
      BY <3>1, EdgeType
    <3>3. f[k] \in S
      BY <3>1, <3>2
    <3> HIDE DEF S
    <3> QED
      BY <2>1, <3>3
  <2>3. \A k \in 0 .. N : k \in G
    <3> HIDE DEF G, N
    <3> QED
      BY <2>1, <2>2, EveryTurn
  <2> QED
    BY <2>3
<1> QED
  BY <1>4, <1>5, <1>6 DEF Noting

(* The edges of one block. *)
Into(D, p, ss, base, k) ==
  [v \in DOMAIN D |-> IF \E j \in 1 .. k : ss[j] = base + v THEN D[v] \cup {p} ELSE D[v]]

(* The lists gain the edges of the block that have room, all of them. *)
LEMMA BlockEdgesLists ==
  ASSUME NEW nb \in Nat \ {0}, NEW acc, NEW D, Lists(nb, acc, D), NEW p \in 0 .. nb - 1,
         NEW base \in Nat, NEW ss, Len(ss) \in Nat,
         \A k \in 1 .. Len(ss) : ss[k] \in Nat /\ ss[k] - base \in 0 .. nb - 1,
         \A v \in 0 .. nb - 1 : (\E k \in 1 .. Len(ss) : ss[k] = base + v)
                                  => Cardinality(D[v] \cup {p}) <= M2R_MAX_PREDS
  PROVE  Lists(nb, BlockEdges(acc, p, ss, base), Into(D, p, ss, base, Len(ss)))
<1> DEFINE N == Len(ss)
<1>1. /\ acc \in [0 .. nb - 1 -> Seq(0 .. nb - 1)]
      /\ D \in [0 .. nb - 1 -> SUBSET (0 .. nb - 1)] /\ DOMAIN D = 0 .. nb - 1
      /\ \A v \in 0 .. nb - 1 : D[v] \subseteq 0 .. nb - 1
  BY DEF Lists
<1>2. PICK f : Noting(nb, acc, p, ss, base, f)
  BY <1>1, BlockEdgesTurns
<1> DEFINE Good(k) == Lists(nb, f[k], Into(D, p, ss, base, k))
           G == {k \in 0 .. N : Good(k)}
<1>4. BlockEdges(acc, p, ss, base) = f[N]
  BY <1>2 DEF Noting
<1>5. f[0] = acc /\ \A k \in 1 .. N : f[k] = Edge(f[k - 1], p, ss[k] - base)
  BY <1>2 DEF Noting
<1>6. Good(0)
  <2>1. Into(D, p, ss, base, 0) = D
    BY <1>1 DEF Into
  <2> QED
    BY <1>5, <2>1
<1>7. ASSUME NEW k \in 1 .. N, Good(k - 1) PROVE Good(k)
  <2> DEFINE E == Into(D, p, ss, base, k - 1)
             v == ss[k] - base
  <2>1. v \in 0 .. nb - 1 /\ ss[k] = base + v
    OBVIOUS
  <2> HIDE DEF v
  <2>2. Cardinality(D[v] \cup {p}) <= M2R_MAX_PREDS
    BY <2>1
  <2>3. E[v] \cup {p} = D[v] \cup {p}
    BY <1>1, <2>1 DEF Into
  <2>4. Into(D, p, ss, base, k) = [E EXCEPT ![v] = @ \cup {p}]
    <3>1. \A j \in 1 .. k : j \in 1 .. k - 1 \/ j = k
      OBVIOUS
    <3>2. \A j \in 1 .. k - 1 : j \in 1 .. k
      OBVIOUS
    <3>3. ASSUME NEW x \in 0 .. nb - 1
          PROVE  (\E j \in 1 .. k : ss[j] = base + x) <=> (x = v \/ \E j \in 1 .. k - 1 : ss[j] = base + x)
      <4>1. ss[k] = base + x <=> x = v
        BY <2>1
      <4>2. k \in 1 .. k
        OBVIOUS
      <4> QED
        BY <3>1, <3>2, <4>1, <4>2
    <3>4. DOMAIN E = 0 .. nb - 1 /\ \A x \in 0 .. nb - 1 :
             E[x] = IF \E j \in 1 .. k - 1 : ss[j] = base + x THEN D[x] \cup {p} ELSE D[x]
      BY <1>1 DEF Into
    <3> HIDE DEF E
    <3>5. ASSUME NEW x \in 0 .. nb - 1
          PROVE  (IF \E j \in 1 .. k : ss[j] = base + x THEN D[x] \cup {p} ELSE D[x])
                   = IF x = v THEN E[v] \cup {p} ELSE E[x]
      BY <2>3, <3>3, <3>4
    <3> QED
      BY <1>1, <2>1, <3>4, <3>5 DEF Into
  <2>5. Lists(nb, f[k - 1], E)
    BY <1>7
  <2> HIDE DEF E
  <2>6. Lists(nb, Edge(f[k - 1], p, v), [E EXCEPT ![v] = @ \cup {p}])
    BY <2>1, <2>2, <2>3, <2>5, EdgeLists
  <2>7. f[k] = Edge(f[k - 1], p, v)
    BY <1>5 DEF v
  <2> QED
    BY <2>4, <2>6, <2>7
<1>8. Good(N)
  <2> HIDE DEF Good
  <2>1. 0 \in G /\ \A k \in 1 .. N : k - 1 \in G => k \in G
    BY <1>6, <1>7
  <2> HIDE DEF G
  <2>2. \A k \in 0 .. N : k \in G
    BY <2>1, EveryTurn
  <2> QED
    BY <2>2 DEF G
<1> QED
  BY <1>4, <1>8

(* There is an edge from block u to block v, counted from the entry. *)
Joined(M, F, u, v) ==
  \E k \in 1 .. Len(Succs(M, F.first + u)) : Succs(M, F.first + u)[k] = F.first + v

(* The blocks with an edge into v are no more than a list takes. *)
LEMMA Room ==
  ASSUME NEW M, NEW F, Shape(M, F), NEW v \in 0 .. F.num - 1,
         NEW A \in SUBSET (0 .. F.num - 1), \A u \in A : Joined(M, F, u, v)
  PROVE  Cardinality(A) <= M2R_MAX_PREDS
<1> DEFINE P == PredSet(M, F, F.first + v)
           h == [u \in A |-> F.first + u]
<1>1. F.num \in Nat \ {0} /\ F.first \in Nat
  BY DEF Shape
<1>2. BlocksOf(F) = F.first .. F.first + F.num - 1
  BY <1>1 DEF BlocksOf
<1>3. IsFiniteSet(P) /\ Cardinality(P) \in Nat
  <2>1. P \in SUBSET BlocksOf(F)
    BY DEF PredSet
  <2>2. \A a, b \in Int : IsFiniteSet(a .. b)
    BY FS_Interval
  <2>3. IsFiniteSet(BlocksOf(F))
    BY <1>1, <1>2, <2>2
  <2> QED
    BY <2>1, <2>3, FS_Subset, FS_CardinalityType
<1>4. ASSUME NEW u \in A PROVE F.first + u \in P
  <2>1. F.first + u \in BlocksOf(F) /\ u \in 0 .. F.num - 1
    BY <1>1, <1>2
  <2>2. DOMAIN Succs(M, F.first + u) = 1 .. Len(Succs(M, F.first + u))
    BY <2>1, ShapeFacts
  <2>3. F.first + v \in SuccSet(M, F.first + u)
    BY <2>2 DEF SuccSet, Joined
  <2> QED
    BY <2>1, <2>3 DEF PredSet
<1>5. h \in Injection(A, P)
  <2>1. h \in [A -> P]
    BY <1>4
  <2>2. \A x, y \in A : h[x] = h[y] => x = y
    BY <1>1
  <2> QED
    BY <2>1, <2>2 DEF Injection, IsInjective
<1>6. IsFiniteSet(A) /\ Cardinality(A) <= Cardinality(P)
  <2> HIDE DEF P, h
  <2> QED
    BY <1>3, <1>5, FS_Injection
<1>7. Cardinality(P) <= M2R_MAX_PREDS
  <2>1. F.first + v \in BlocksOf(F)
    BY <1>1, <1>2
  <2> QED
    BY <2>1 DEF Shape
<1>8. Cardinality(A) \in Nat
  BY <1>6, FS_CardinalityType
<1> QED
  BY <1>3, <1>6, <1>7, <1>8, PredsAssumption

(* The edges out of the first n blocks. *)
From(M, F, n) == [v \in 0 .. F.num - 1 |-> {u \in 0 .. n - 1 : Joined(M, F, u, v)}]

(* One block more: the lists hold the edges out of the first n blocks. *)
LEMMA FromStep ==
  ASSUME NEW M, NEW F, Shape(M, F), NEW n \in 1 .. F.num, NEW acc, Lists(F.num, acc, From(M, F, n - 1))
  PROVE  Lists(F.num, BlockEdges(acc, n - 1, GetSuccs(M, F.first + n - 1), F.first), From(M, F, n))
<1> DEFINE nb == F.num
           p == n - 1
           D == From(M, F, p)
           ss == Succs(M, F.first + p)
<1>1. nb \in Nat \ {0} /\ F.first \in Nat /\ p \in 0 .. nb - 1 /\ F.first + n - 1 = F.first + p
  BY DEF Shape
<1>2. /\ GetSuccs(M, F.first + p) = ss /\ Len(ss) \in Nat
      /\ \A k \in 1 .. Len(ss) : ss[k] \in Nat /\ ss[k] - F.first \in 0 .. nb - 1
  BY <1>1, ShapeFacts
<1>3. \A u : u \in 0 .. n - 1 <=> u \in 0 .. p - 1 \/ u = p
  BY <1>1
<1>4. \A v : (\E k \in 1 .. Len(ss) : ss[k] = F.first + v) <=> Joined(M, F, p, v)
  BY DEF Joined
<1>5. ASSUME NEW v \in 0 .. nb - 1, \E k \in 1 .. Len(ss) : ss[k] = F.first + v
      PROVE  Cardinality(D[v] \cup {p}) <= M2R_MAX_PREDS
  <2>1. D[v] = {u \in 0 .. p - 1 : Joined(M, F, u, v)}
    BY DEF From
  <2>2. \A u \in 0 .. p - 1 : u \in 0 .. nb - 1
    BY <1>1
  <2>3. D[v] \cup {p} \in SUBSET (0 .. nb - 1) /\ \A u \in D[v] \cup {p} : Joined(M, F, u, v)
    BY <1>1, <1>4, <1>5, <2>1, <2>2
  <2> HIDE DEF D, p
  <2> QED
    BY <2>3, Room
<1>6. Into(D, p, ss, F.first, Len(ss)) = From(M, F, n)
  <2>1. ASSUME NEW v \in 0 .. nb - 1
        PROVE  (IF Joined(M, F, p, v) THEN D[v] \cup {p} ELSE D[v]) = {u \in 0 .. n - 1 : Joined(M, F, u, v)}
    <3>1. D[v] = {u \in 0 .. p - 1 : Joined(M, F, u, v)}
      BY DEF From
    <3> HIDE DEF D, p
    <3> QED
      BY <1>3, <3>1
  <2>2. DOMAIN D = 0 .. nb - 1
    BY DEF From
  <2> HIDE DEF D, p, ss
  <2>3. Into(D, p, ss, F.first, Len(ss))
          = [v \in 0 .. nb - 1 |-> IF Joined(M, F, p, v) THEN D[v] \cup {p} ELSE D[v]]
    BY <1>4, <2>2 DEF Into
  <2> QED
    BY <2>1, <2>3 DEF From
<1>7. Lists(nb, acc, D)
  OBVIOUS
<1>8. Lists(nb, BlockEdges(acc, p, ss, F.first), Into(D, p, ss, F.first, Len(ss)))
  <2> HIDE DEF D, p, ss, nb
  <2> QED
    BY <1>1, <1>2, <1>5, <1>7, BlockEdgesLists
<1> QED
  BY <1>1, <1>2, <1>6, <1>8

(* The edges of a block leave lists of blocks. *)
LEMMA BlockEdgesType ==
  ASSUME NEW nb \in Nat \ {0}, NEW acc \in [0 .. nb - 1 -> Seq(0 .. nb - 1)], NEW p \in 0 .. nb - 1,
         NEW base, NEW ss, Len(ss) \in Nat
  PROVE  BlockEdges(acc, p, ss, base) \in [0 .. nb - 1 -> Seq(0 .. nb - 1)]
<1>1. PICK f : Noting(nb, acc, p, ss, base, f)
  BY BlockEdgesTurns
<1> QED
  BY <1>1 DEF Noting

(* Step 2 lists every edge between the function's blocks, and no other. *)
LEMMA Step2Lists ==
  ASSUME NEW M, NEW F, Shape(M, F)
  PROVE  Lists(F.num, Step2BuildPreds(M, F), From(M, F, F.num))
<1> DEFINE nb == F.num
           S == [0 .. nb - 1 -> Seq(0 .. nb - 1)]
           start == [b \in 0 .. nb - 1 |-> <<>>]
           Next(y, n) == BlockEdges(y, n - 1, GetSuccs(M, F.first + n - 1), F.first)
           st == [y \in S \X (1 .. nb) |-> Next(y[1], y[2])]
           Runs(f) == f = [n \in 0 .. nb |-> IF n = 0 THEN start ELSE Next(f[n - 1], n)]
           f == CHOOSE f : Runs(f)
           Good(n) == Lists(nb, f[n], From(M, F, n))
           G == {n \in 0 .. nb : Good(n)}
<1>0. nb \in Nat \ {0} /\ F.first \in Nat
  BY DEF Shape
<1>1. start \in S
  OBVIOUS
<1>2. ASSUME NEW y \in S, NEW n \in 1 .. nb PROVE Next(y, n) \in S
  <2>1. n - 1 \in 0 .. nb - 1 /\ F.first + n - 1 = F.first + (n - 1)
    BY <1>0
  <2>2. Len(GetSuccs(M, F.first + (n - 1))) \in Nat
    BY <2>1, ShapeFacts
  <2>3. BlockEdges(y, n - 1, GetSuccs(M, F.first + (n - 1)), F.first) \in S
    BY <1>0, <2>1, <2>2, BlockEdgesType
  <2> QED
    BY <2>1, <2>3
<1> HIDE DEF S, Next, start
<1>3. \E g : Runs(g)
  <2>1. st \in [S \X (1 .. nb) -> S]
    BY <1>2
  <2>2. PICK g : Turns(g, S, start, nb, st)
    <3> HIDE DEF st, nb
    <3> QED
      BY <1>0, <1>1, <2>1, LoopRuns
  <2>3. ASSUME NEW n \in 0 .. nb
        PROVE  g[n] = IF n = 0 THEN start ELSE Next(g[n - 1], n)
    <3> HIDE DEF nb
    <3>1. CASE n = 0
      BY <2>2, <3>1 DEF Turns
    <3>2. CASE n # 0
      <4>1. g[n - 1] \in S /\ n \in 1 .. nb
        BY <1>0, <2>2, <3>2 DEF Turns
      <4>2. st[<< g[n - 1], n >>] = Next(g[n - 1], n)
        BY <4>1
      <4> HIDE DEF st
      <4> QED
        BY <2>2, <3>2, <4>2 DEF Turns
    <3> QED
      BY <3>1, <3>2
  <2>4. g \in [0 .. nb -> S]
    BY <2>2 DEF Turns
  <2> HIDE DEF nb
  <2> QED
    BY <2>3, <2>4
<1>4. Runs(f)
  BY <1>3
<1>5. Step2BuildPreds(M, F) = f[nb]
  BY DEF Step2BuildPreds, start, Next
<1> HIDE DEF f
<1>6. f[0] = start /\ \A n \in 1 .. nb : f[n] = Next(f[n - 1], n)
  <2>1. \A n \in 0 .. nb : f[n] = IF n = 0 THEN start ELSE Next(f[n - 1], n)
    BY <1>4, Zenon
  <2> HIDE DEF nb
  <2> QED
    BY <1>0, <2>1
<1>7. Good(0)
  <2>1. ASSUME NEW v \in 0 .. nb - 1
        PROVE  /\ From(M, F, 0)[v] = {} /\ start[v] = <<>>
               /\ Cardinality(From(M, F, 0)[v]) = Len(start[v])
    <3>1. From(M, F, 0)[v] = {} /\ start[v] = <<>>
      BY DEF From, start
    <3>2. Cardinality({}) = 0
      BY FS_EmptySet
    <3> QED
      BY <3>1, <3>2
  <2>2. From(M, F, 0) \in [0 .. nb - 1 -> SUBSET (0 .. nb - 1)]
    BY DEF From
  <2>3. start \in [0 .. nb - 1 -> Seq(0 .. nb - 1)]
    BY DEF start
  <2>4. \A v \in 0 .. nb - 1 : From(M, F, 0)[v] = {start[v][i] : i \in 1 .. Len(start[v])}
    <3>1. \A v \in 0 .. nb - 1 : 1 .. Len(start[v]) = {}
      BY <2>1
    <3> QED
      BY <2>1, <3>1
  <2>5. Lists(nb, start, From(M, F, 0))
    BY <2>1, <2>2, <2>3, <2>4 DEF Lists
  <2> QED
    BY <1>6, <2>5
<1>8. ASSUME NEW n \in 1 .. nb, Good(n - 1) PROVE Good(n)
  <2>1. Lists(nb, Next(f[n - 1], n), From(M, F, n))
    BY <1>8, FromStep DEF Next
  <2> QED
    BY <1>6, <2>1
<1>9. Good(nb)
  <2>1. 0 \in 0 .. nb /\ nb \in 0 .. nb /\ \A n \in 1 .. nb : n \in 0 .. nb
    BY <1>0
  <2> HIDE DEF Good, nb
  <2>2. 0 \in G /\ \A n \in 1 .. nb : n - 1 \in G => n \in G
    BY <1>7, <1>8, <2>1
  <2> HIDE DEF G
  <2>3. \A n \in 0 .. nb : n \in G
    BY <1>0, <2>2, EveryTurn
  <2> QED
    BY <2>1, <2>3 DEF G
<1> QED
  BY <1>5, <1>9

(* Step 2 (bir_mem2reg.c:271-291) builds exactly the predecessors of every *)
(* block.                                                                  *)
THEOREM Step2Edges ==
  ASSUME NEW M, NEW F, Shape(M, F)
  PROVE  /\ Step2BuildPreds(M, F) \in [0 .. F.num - 1 -> Seq(0 .. F.num - 1)]
         /\ Edges(M, F, PredsOf(Step2BuildPreds(M, F)))
<1> DEFINE nb == F.num
           acc == Step2BuildPreds(M, F)
           D == From(M, F, nb)
<1>0. nb \in Nat \ {0} /\ F.first \in Nat
  BY DEF Shape
<1>1. Lists(nb, acc, D)
  BY Step2Lists
<1> HIDE DEF acc
<1>2. acc \in [0 .. nb - 1 -> Seq(0 .. nb - 1)]
      /\ \A v \in 0 .. nb - 1 : D[v] = {acc[v][i] : i \in 1 .. Len(acc[v])}
  BY <1>1 DEF Lists
<1>3. ASSUME NEW v \in 0 .. nb - 1
      PROVE  PredsOf(acc)[v] = {u \in 0 .. nb - 1 : Joined(M, F, u, v)}
  <2>1. D[v] = {u \in 0 .. nb - 1 : Joined(M, F, u, v)}
    BY DEF From
  <2>2. DOMAIN acc = 0 .. nb - 1 /\ DOMAIN acc[v] = 1 .. Len(acc[v])
    BY <1>2
  <2>3. PredsOf(acc)[v] = {acc[v][i] : i \in DOMAIN acc[v]}
    BY <2>2 DEF PredsOf
  <2> HIDE DEF D
  <2> QED
    BY <1>2, <2>1, <2>2, <2>3
<1>4. PredsOf(acc) \in [0 .. nb - 1 -> SUBSET (0 .. nb - 1)]
  <2>1. DOMAIN acc = 0 .. nb - 1
    BY <1>2
  <2>2. \A v \in 0 .. nb - 1 : PredsOf(acc)[v] \in SUBSET (0 .. nb - 1)
    BY <1>3
  <2>3. PredsOf(acc) = [v \in 0 .. nb - 1 |-> PredsOf(acc)[v]]
    BY <2>1 DEF PredsOf
  <2> DEFINE pr == PredsOf(acc)
  <2> HIDE DEF pr
  <2> QED
    BY <2>2, <2>3 DEF pr
<1>5. Edges(M, F, PredsOf(acc))
  BY <1>3, <1>4 DEF Edges, Joined
<1> QED
  BY <1>2, <1>5 DEF acc

-----------------------------------------------------------------------------
(***************************************************************************)
(* The paths of the property's own definition, which counts blocks from    *)
(* the start of the module, are the rounds av of the proof.                *)
(***************************************************************************)
Onward(M, r) == UNION {SuccSet(M, c) : c \in r}

Grown(M, F, A, f) ==
  /\ f[0] = {F.first} \ A
  /\ \A n \in 1 .. F.num : f[n] = f[n - 1] \cup (Onward(M, f[n - 1]) \ A)

(* An edge of the function is one between its numbered blocks. *)
LEMMA SuccJoined ==
  ASSUME NEW M, NEW F, Shape(M, F), NEW u \in 0 .. F.num - 1
  PROVE  /\ \A v \in 0 .. F.num - 1 : F.first + v \in SuccSet(M, F.first + u) <=> Joined(M, F, u, v)
         /\ SuccSet(M, F.first + u) \subseteq BlocksOf(F)
<1>1. /\ F.num \in Nat \ {0} /\ F.first \in Nat
      /\ DOMAIN Succs(M, F.first + u) = 1 .. Len(Succs(M, F.first + u))
      /\ \A k \in 1 .. Len(Succs(M, F.first + u)) :
            Succs(M, F.first + u)[k] \in Nat /\ Succs(M, F.first + u)[k] - F.first \in 0 .. F.num - 1
  BY ShapeFacts
<1>2. \A v \in 0 .. F.num - 1 : F.first + v \in SuccSet(M, F.first + u) <=> Joined(M, F, u, v)
  BY <1>1 DEF SuccSet, Joined
<1>3. SuccSet(M, F.first + u) \subseteq BlocksOf(F)
  BY <1>1 DEF SuccSet, BlocksOf
<1> QED
  BY <1>2, <1>3

(* A block's index and its number within the function. *)
LEMMA BlockNumbers ==
  ASSUME NEW M, NEW F, Shape(M, F)
  PROVE  /\ F.num \in Nat \ {0} /\ F.first \in Nat /\ F.first \in BlocksOf(F)
         /\ \A u \in 0 .. F.num - 1 : F.first + u \in BlocksOf(F)
         /\ \A c \in BlocksOf(F) : c - F.first \in 0 .. F.num - 1 /\ F.first + (c - F.first) = c
<1>1. F.num \in Nat \ {0} /\ F.first \in Nat
  BY DEF Shape
<1> QED
  BY <1>1 DEF BlocksOf

(* What grows from the entry are blocks of the function. *)
LEMMA GrownType ==
  ASSUME NEW M, NEW F, Shape(M, F), NEW A, NEW f, Grown(M, F, A, f), NEW n \in 0 .. F.num
  PROVE  f[n] \subseteq BlocksOf(F)
<1> DEFINE nb == F.num
           G == {k \in 0 .. nb : f[k] \subseteq BlocksOf(F)}
<1>1. nb \in Nat \ {0} /\ 0 \in G
  BY BlockNumbers DEF Grown
<1>2. ASSUME NEW k \in 1 .. nb, k - 1 \in G PROVE k \in G
  <2>1. f[k - 1] \subseteq BlocksOf(F)
    BY <1>2
  <2>2. ASSUME NEW c \in f[k - 1] PROVE SuccSet(M, c) \subseteq BlocksOf(F)
    <3>1. c - F.first \in 0 .. F.num - 1 /\ F.first + (c - F.first) = c
      BY <2>1, BlockNumbers
    <3>2. SuccSet(M, F.first + (c - F.first)) \subseteq BlocksOf(F)
      BY <3>1, SuccJoined
    <3> QED
      BY <3>1, <3>2
  <2>3. Onward(M, f[k - 1]) \subseteq BlocksOf(F)
    BY <2>2 DEF Onward
  <2>4. f[k] \subseteq BlocksOf(F)
    BY <2>1, <2>3 DEF Grown
  <2>5. k \in 0 .. nb
    BY <1>1
  <2> QED
    BY <2>4, <2>5
<1>3. \A k \in 0 .. nb : k \in G
  <2> HIDE DEF G, nb
  <2> QED
    BY <1>1, <1>2, EveryTurn
<1> QED
  BY <1>3

(* A block is added when a predecessor is in and it is not shut out. *)
LEMMA GrownStep ==
  ASSUME NEW M, NEW F, NEW pr, Shape(M, F), Edges(M, F, pr), NEW A, NEW f, Grown(M, F, A, f),
         NEW n \in 1 .. F.num, NEW v \in 0 .. F.num - 1
  PROVE  F.first + v \in f[n] <=> \/ F.first + v \in f[n - 1]
                                  \/ /\ F.first + v \notin A
                                     /\ \E u \in pr[v] : F.first + u \in f[n - 1]
<1>1. n - 1 \in 0 .. F.num /\ F.num \in Nat \ {0} /\ F.first \in Nat
  BY BlockNumbers
<1>2. f[n - 1] \subseteq BlocksOf(F)
  BY <1>1, GrownType
<1>3. \A u \in 0 .. F.num - 1 : u \in pr[v] <=> F.first + v \in SuccSet(M, F.first + u)
  BY SuccJoined DEF Edges, Joined
<1>4. pr[v] \subseteq 0 .. F.num - 1
  BY DEF Edges
<1>5. (\E c \in f[n - 1] : F.first + v \in SuccSet(M, c)) <=> \E u \in pr[v] : F.first + u \in f[n - 1]
  <2>1. ASSUME NEW c \in f[n - 1], F.first + v \in SuccSet(M, c)
        PROVE  \E u \in pr[v] : F.first + u \in f[n - 1]
    <3>1. c - F.first \in 0 .. F.num - 1 /\ F.first + (c - F.first) = c
      BY <1>2, BlockNumbers
    <3>2. F.first + v \in SuccSet(M, F.first + (c - F.first))
      BY <2>1, <3>1
    <3>3. c - F.first \in pr[v]
      BY <1>3, <3>1, <3>2
    <3>4. F.first + (c - F.first) \in f[n - 1]
      BY <3>1
    <3> QED
      BY <3>3, <3>4
  <2>2. ASSUME NEW u \in pr[v], F.first + u \in f[n - 1]
        PROVE  F.first + v \in SuccSet(M, F.first + u)
    BY <1>3, <1>4
  <2> QED
    BY <2>1, <2>2
<1>6. f[n] = f[n - 1] \cup (Onward(M, f[n - 1]) \ A)
  BY DEF Grown
<1> QED
  BY <1>5, <1>6 DEF Onward

GrowRun(M, F, A, f) ==
  f = [n \in 0 .. F.num |->
         IF n = 0 THEN {F.first} \ A ELSE f[n - 1] \cup (Onward(M, f[n - 1]) \ A)]

(* The loop that grows the set runs. *)
LEMMA GrowRuns ==
  ASSUME NEW M, NEW F, Shape(M, F), NEW A
  PROVE  \E f : GrowRun(M, F, A, f)
<1> DEFINE nb == F.num
           B == BlocksOf(F)
           S == SUBSET B
           start == {F.first} \ A
           Grow(r) == r \cup (Onward(M, r) \ A)
           st == [y \in S \X (1 .. nb) |-> Grow(y[1])]
<1>1. nb \in Nat \ {0} /\ start \in S
  BY BlockNumbers
<1>2. ASSUME NEW r \in S PROVE Grow(r) \in S
  <2>1. ASSUME NEW c \in r PROVE SuccSet(M, c) \subseteq BlocksOf(F)
    <3>1. c - F.first \in 0 .. F.num - 1 /\ F.first + (c - F.first) = c
      BY BlockNumbers
    <3>2. SuccSet(M, F.first + (c - F.first)) \subseteq BlocksOf(F)
      BY <3>1, SuccJoined
    <3> QED
      BY <3>1, <3>2
  <2> QED
    BY <2>1 DEF Onward
<1> HIDE DEF S, Grow, start
<1>3. st \in [S \X (1 .. nb) -> S]
  BY <1>2
<1>4. PICK g : Turns(g, S, start, nb, st)
  <2> HIDE DEF st, nb
  <2> QED
    BY <1>1, <1>3, LoopRuns
<1>5. ASSUME NEW n \in 0 .. nb
      PROVE  g[n] = IF n = 0 THEN start ELSE Grow(g[n - 1])
  <2> HIDE DEF nb
  <2>1. CASE n = 0
    BY <1>4, <2>1 DEF Turns
  <2>2. CASE n # 0
    <3>1. g[n - 1] \in S /\ n \in 1 .. nb
      BY <1>1, <1>4, <2>2 DEF Turns
    <3>2. st[<< g[n - 1], n >>] = Grow(g[n - 1])
      BY <3>1
    <3> HIDE DEF st
    <3> QED
      BY <1>4, <2>2, <3>2 DEF Turns
  <2> QED
    BY <2>1, <2>2
<1>6. g \in [0 .. nb -> S]
  BY <1>4 DEF Turns
<1>7. g = [n \in 0 .. nb |-> IF n = 0 THEN start ELSE Grow(g[n - 1])]
  <2> HIDE DEF nb
  <2> QED
    BY <1>5, <1>6
<1> QED
  BY <1>7 DEF Grow, start, GrowRun

(* Around is such a growth, with a shut out. *)
LEMMA AroundGrown ==
  ASSUME NEW M, NEW F, Shape(M, F), NEW a
  PROVE  \E f : Grown(M, F, {a}, f) /\ f[F.num] = Around(M, F, a)
<1> DEFINE Runs(f) == GrowRun(M, F, {a}, f)
           f == CHOOSE f : Runs(f)
<1>1. F.num \in Nat \ {0}
  BY DEF Shape
<1>2. \E g : Runs(g)
  BY GrowRuns
<1>3. Runs(f)
  BY <1>2
<1>4. Around(M, F, a) = f[F.num]
  BY DEF Around, GrowRun, Onward
<1> HIDE DEF f
<1>5. \A n \in 0 .. F.num : f[n] = IF n = 0 THEN {F.first} \ {a}
                                   ELSE f[n - 1] \cup (Onward(M, f[n - 1]) \ {a})
  BY <1>3, Zenon DEF GrowRun
<1>6. Grown(M, F, {a}, f)
  <2>1. f[0] = {F.first} \ {a}
    <3>1. 0 \in 0 .. F.num
      BY <1>1
    <3>2. f[0] = {F.first} \ {a}
      BY <1>5, <3>1, Zenon
    <3> QED
      BY <3>2
  <2>2. ASSUME NEW n \in 1 .. F.num PROVE f[n] = f[n - 1] \cup (Onward(M, f[n - 1]) \ {a})
    <3>1. n \in 0 .. F.num /\ n # 0
      BY <1>1
    <3> QED
      BY <1>5, <3>1
  <2> QED
    BY <2>1, <2>2 DEF Grown
<1> QED
  BY <1>4, <1>6

(* Reachable is one with nothing shut out. *)
LEMMA ReachableGrown ==
  ASSUME NEW M, NEW F, Shape(M, F)
  PROVE  \E f : Grown(M, F, {}, f) /\ f[F.num] = Reachable(M, F)
<1> DEFINE Runs(f) == f = [n \in 0 .. F.num |->
                             IF n = 0 THEN {F.first}
                             ELSE f[n - 1] \cup Onward(M, f[n - 1])]
           f == CHOOSE f : Runs(f)
<1>1. F.num \in Nat \ {0}
  BY DEF Shape
<1>2. \E g : Runs(g)
  <2>1. \A x : x \ {} = x
    OBVIOUS
  <2>2. PICK g : GrowRun(M, F, {}, g)
    BY GrowRuns
  <2>3. Runs(g)
    BY <2>1, <2>2 DEF GrowRun
  <2> QED
    BY <2>3
<1>3. Runs(f)
  BY <1>2
<1>4. Reachable(M, F) = f[F.num]
  BY <1>1 DEF Reachable, Onward
<1> HIDE DEF f
<1>5. \A n \in 0 .. F.num : f[n] = IF n = 0 THEN {F.first}
                                   ELSE f[n - 1] \cup Onward(M, f[n - 1])
  BY <1>3, Zenon
<1>6. Grown(M, F, {}, f)
  <2>1. f[0] = {F.first} \ {}
    <3>1. 0 \in 0 .. F.num
      BY <1>1
    <3>2. f[0] = {F.first}
      BY <1>5, <3>1, Zenon
    <3> QED
      BY <3>2
  <2>2. ASSUME NEW n \in 1 .. F.num PROVE f[n] = f[n - 1] \cup (Onward(M, f[n - 1]) \ {})
    <3>1. n \in 0 .. F.num /\ n # 0
      BY <1>1
    <3> QED
      BY <1>5, <3>1
  <2> QED
    BY <2>1, <2>2 DEF Grown
<1> QED
  BY <1>4, <1>6

-----------------------------------------------------------------------------
(* What a stands for: no block when it is the number of blocks. *)
Out(F, a) == IF a = F.num THEN {} ELSE {F.first + a}
Beside(M, F, a) == IF a = F.num THEN Reachable(M, F) ELSE Around(M, F, F.first + a)

(* Both at once. *)
LEMMA BesideGrown ==
  ASSUME NEW M, NEW F, Shape(M, F), NEW a \in 0 .. F.num
  PROVE  \E f : Grown(M, F, Out(F, a), f) /\ f[F.num] = Beside(M, F, a)
BY AroundGrown, ReachableGrown DEF Out, Beside

(* The paths of the property: after F.num rounds the blocks of Beside. *)
Paths(M, F, av) ==
  \A a \in 0 .. F.num : \A x \in 0 .. F.num - 1 : x \in av[a][F.num] <=> F.first + x \in Beside(M, F, a)

(* There are rounds for the paths of the property. *)
LEMMA HasRounds ==
  ASSUME NEW M, NEW F, NEW pr, Shape(M, F), Edges(M, F, pr)
  PROVE  \E av : Rounds(F.num, pr, av) /\ Paths(M, F, av)
<1> DEFINE nb == F.num
           Fit(a, f) == Grown(M, F, Out(F, a), f) /\ f[nb] = Beside(M, F, a)
           g(a) == CHOOSE f : Fit(a, f)
           av == [a \in 0 .. nb |-> [n \in 0 .. nb |-> {x \in 0 .. nb - 1 : F.first + x \in g(a)[n]}]]
<1>1. nb \in Nat \ {0} /\ F.first \in Nat
  BY DEF Shape
<1>2. ASSUME NEW a \in 0 .. nb PROVE Fit(a, g(a))
  <2>1. \E f : Fit(a, f)
    BY BesideGrown
  <2> HIDE DEF Fit
  <2> QED
    BY <2>1
<1>3. ASSUME NEW a \in 0 .. nb, NEW n \in 0 .. nb, NEW x \in 0 .. nb - 1
      PROVE  x \in av[a][n] <=> F.first + x \in g(a)[n]
  <2> HIDE DEF g
  <2> QED
    OBVIOUS
<1>4. av \in [0 .. nb -> [0 .. nb -> SUBSET (0 .. nb - 1)]]
  <2> HIDE DEF g
  <2> QED
    OBVIOUS
<1>5. ASSUME NEW a \in 0 .. nb, NEW x \in 0 .. nb - 1 PROVE F.first + x \notin Out(F, a) <=> x # a
  BY <1>1 DEF Out
<1> HIDE DEF av, g
<1>6. ASSUME NEW a \in 0 .. nb PROVE av[a][0] = {0} \ {a}
  <2>1. g(a)[0] = {F.first} \ Out(F, a)
    BY <1>2 DEF Grown
  <2>2. 0 \in 0 .. nb /\ 0 \in 0 .. nb - 1 /\ F.first + 0 = F.first
    BY <1>1
  <2>3. ASSUME NEW x \in 0 .. nb - 1 PROVE x \in av[a][0] <=> x = 0 /\ x # a
    <3>1. x \in av[a][0] <=> F.first + x \in g(a)[0]
      BY <1>3, <2>2
    <3>2. F.first + x = F.first <=> x = 0
      BY <1>1
    <3>3. F.first + x \notin Out(F, a) <=> x # a
      BY <1>5
    <3> QED
      BY <2>1, <3>1, <3>2, <3>3
  <2>4. av[a][0] \subseteq 0 .. nb - 1
    BY <1>4, <2>2
  <2> HIDE DEF nb
  <2> QED
    BY <2>2, <2>3, <2>4
<1>7. ASSUME NEW a \in 0 .. nb, NEW n \in 1 .. nb, NEW v \in 0 .. nb - 1
      PROVE  v \in av[a][n] <=> v \in av[a][n - 1] \/ (v # a /\ pr[v] \cap av[a][n - 1] # {})
  <2>1. Grown(M, F, Out(F, a), g(a))
    BY <1>2
  <2>2. F.first + v \in g(a)[n] <=> \/ F.first + v \in g(a)[n - 1]
                                    \/ /\ F.first + v \notin Out(F, a)
                                       /\ \E u \in pr[v] : F.first + u \in g(a)[n - 1]
    BY <2>1, GrownStep
  <2>3. n \in 0 .. nb /\ n - 1 \in 0 .. nb
    BY <1>1
  <2>4. pr[v] \subseteq 0 .. nb - 1
    BY DEF Edges
  <2>5. (\E u \in pr[v] : F.first + u \in g(a)[n - 1]) <=> pr[v] \cap av[a][n - 1] # {}
    <3>1. \A u \in pr[v] : u \in av[a][n - 1] <=> F.first + u \in g(a)[n - 1]
      BY <1>3, <2>3, <2>4
    <3> QED
      BY <3>1
  <2>6. v \in av[a][n] <=> F.first + v \in g(a)[n]
    BY <1>3, <2>3
  <2>7. v \in av[a][n - 1] <=> F.first + v \in g(a)[n - 1]
    BY <1>3, <2>3
  <2>8. F.first + v \notin Out(F, a) <=> v # a
    BY <1>5
  <2> QED
    BY <2>2, <2>5, <2>6, <2>7, <2>8
<1>8. Rounds(nb, pr, av)
  BY <1>4, <1>6, <1>7 DEF Rounds
<1>9. Paths(M, F, av)
  <2>1. ASSUME NEW a \in 0 .. nb, NEW x \in 0 .. nb - 1
        PROVE  x \in av[a][nb] <=> F.first + x \in Beside(M, F, a)
    <3>1. nb \in 0 .. nb
      BY <1>1
    <3>2. x \in av[a][nb] <=> F.first + x \in g(a)[nb]
      BY <1>3, <3>1
    <3>3. g(a)[nb] = Beside(M, F, a)
      BY <1>2
    <3> QED
      BY <3>2, <3>3
  <2> QED
    BY <2>1 DEF Paths
<1> QED
  BY <1>8, <1>9

(* The walk and the rounds reach the same blocks. *)
LEMMA ReachedAll ==
  ASSUME NEW nb, NEW R, NEW rpo, NEW pr, NEW av, Graph(nb, R, rpo, pr), Rounds(nb, pr, av)
  PROVE  av[nb][nb] = R
<1> DEFINE V == av[nb][nb]
           S == {rpo[v] : v \in R \ V}
<1>1. nb \in Nat \ {0} /\ R \subseteq 0 .. nb - 1 /\ 0 \in R /\ rpo \in [R -> 0 .. nb - 1]
  BY DEF Graph, Numbering
<1>2. nb \in 0 .. nb /\ 0 \in 0 .. nb
  BY <1>1
<1>3. V \subseteq R
  BY <1>2, RoundsReached
<1>4. 0 \in V
  <2>1. av[nb][0] = {0}
    BY <1>1, <1>2 DEF Rounds
  <2>2. av[nb][0] \subseteq av[nb][nb]
    BY <1>2, RoundsGrow
  <2> QED
    BY <2>1, <2>2
<1> SUFFICES ASSUME S # {} PROVE FALSE
  BY <1>3
<1>5. PICK k \in S : \A j \in S : k <= j
  <2>1. S \in SUBSET Nat
    BY <1>1
  <2> HIDE DEF S
  <2> QED
    BY <2>1, Smallest
<1>6. PICK v \in R \ V : rpo[v] = k
  BY <1>5
<1>7. v # 0 /\ v # nb /\ v \in 0 .. nb - 1
  BY <1>1, <1>4, <1>6
<1>8. PICK u \in pr[v] \cap R : rpo[u] < rpo[v]
  BY <1>7 DEF Graph
<1>9. u \in V
  <2>1. rpo[u] \in Nat /\ rpo[v] \in Nat
    <3>1. \A x \in R : rpo[x] \in Nat
      BY <1>1
    <3> HIDE DEF V
    <3> QED
      BY <1>6, <1>8, <3>1
  <2>2. CASE u \notin V
    <3>1. rpo[u] \in S
      BY <2>2
    <3>2. k <= rpo[u]
      BY <1>5, <3>1
    <3> QED
      BY <1>6, <1>8, <2>1, <3>2
  <2> QED
    BY <2>2
<1>10. v \in V
  BY <1>2, <1>7, <1>8, <1>9, RoundsEnd
<1> QED
  BY <1>6, <1>10

(* With what step 2 and the walk make of it, a function is such a setting. *)
LEMMA ShapeSetting ==
  ASSUME NEW M, NEW F, Shape(M, F)
  PROVE  \E av : /\ Setting(F.num, DOMAIN RpoNum(PostOrder(M, F)), RpoNum(PostOrder(M, F)),
                            Step2BuildPreds(M, F), PredsOf(Step2BuildPreds(M, F)), PostOrder(M, F), av)
                 /\ Paths(M, F, av)
<1> DEFINE preds == Step2BuildPreds(M, F)
           pr == PredsOf(preds)
           post == PostOrder(M, F)
           rpo == RpoNum(post)
<1>1. preds \in [0 .. F.num - 1 -> Seq(0 .. F.num - 1)] /\ Edges(M, F, pr)
  BY Step2Edges
<1>2. Ordered(F.num, pr, post)
  BY <1>1, PostOrdered
<1>3. Graph(F.num, DOMAIN rpo, rpo, pr) /\ Listed(DOMAIN rpo, rpo, post)
  BY <1>2, RpoNumbers
<1>4. PICK av : Rounds(F.num, pr, av) /\ Paths(M, F, av)
  BY <1>1, HasRounds
<1>5. Setting(F.num, DOMAIN rpo, rpo, preds, pr, post, av)
  <2> HIDE DEF rpo, post, preds
  <2> QED
    BY <1>1, <1>3, <1>4 DEF Setting
<1> QED
  BY <1>4, <1>5

(***************************************************************************)
(* Steps 2 and 3 find the immediate dominator of every block the entry     *)
(* reaches, in every function whose blocks have no more successors and     *)
(* predecessors than the tables take: the strict dominator that all the    *)
(* other strict dominators dominate.                                       *)
(***************************************************************************)
THEOREM DominatorsAreExact ==
  ASSUME NEW M, NEW F, Shape(M, F)
  PROVE  ImmediateDominators(M, F, Step3ComputeDominators(M, F, Step2BuildPreds(M, F)))
<1> DEFINE nb == F.num
           preds == Step2BuildPreds(M, F)
           pr == PredsOf(preds)
           post == PostOrder(M, F)
           rpo == RpoNum(post)
           R == DOMAIN rpo
           idom == IterateDominators(nb, preds, post, rpo)
<1>1. PICK av : Setting(nb, R, rpo, preds, pr, post, av) /\ Paths(M, F, av)
  BY ShapeSetting
<1>2. Step3ComputeDominators(M, F, preds) = idom
  BY DEF Step3ComputeDominators, DominatorsFrom
<1> HIDE DEF preds, pr, post, rpo, R, idom
<1>3. Graph(nb, R, rpo, pr) /\ Rounds(nb, pr, av)
  BY <1>1 DEF Setting
<1>4. nb \in Nat \ {0} /\ nb \in 0 .. nb /\ F.first \in Nat /\ R \subseteq 0 .. nb - 1
  BY <1>3, BlockNumbers DEF Graph, Numbering
<1>5. \A x \in 0 .. nb - 1 : F.first + x \in Reachable(M, F) <=> x \in R
  BY <1>1, <1>3, <1>4, ReachedAll DEF Paths, Beside
<1>6. \A a \in 0 .. nb - 1 : \A x \in 0 .. nb - 1 :
         F.first + x \in Around(M, F, F.first + a) <=> x \in av[a][nb]
  BY <1>1, <1>4 DEF Paths, Beside
<1>7. Reachable(M, F) \subseteq BlocksOf(F)
  <2>1. PICK f : Grown(M, F, {}, f) /\ f[F.num] = Reachable(M, F)
    BY ReachableGrown
  <2> QED
    BY <1>4, <2>1, GrownType
<1>8. ASSUME NEW b \in Reachable(M, F) \ {F.first},
             NEW x \in R \ {0}, b = F.first + x
      PROVE  LET doms == {a \in BlocksOf(F) \ {b} : Dominates(M, F, a, b)}
                 d == idom[b - F.first] + F.first
             IN  d \in doms /\ \A a \in doms : Dominates(M, F, a, d)
  <2> DEFINE y == idom[x]
             d == F.first + y
  <2>1. /\ y \in R /\ y # x /\ x \notin av[y][nb]
        /\ \A a \in 0 .. nb - 1 : a # x /\ x \notin av[a][nb] => y \notin av[a][nb]
    <3>1. Swept(nb, R, rpo, pr, av, idom, nb + 1)
      BY <1>1, IterationFinds DEF idom
    <3> HIDE DEF nb
    <3> QED
      BY <1>1, <3>1, SweptImmediate
  <2>2. y \in 0 .. nb - 1 /\ x \in 0 .. nb - 1
    BY <1>4, <2>1
  <2>3. idom[b - F.first] + F.first = d
    BY <1>4, <1>8, <2>2
  <2> HIDE DEF y
  <2>4. d \in BlocksOf(F) \ {b} /\ d \in Reachable(M, F)
    <3>1. d \in BlocksOf(F)
      BY <2>2, BlockNumbers
    <3>2. d # b
      BY <1>4, <1>8, <2>1, <2>2
    <3> QED
      BY <1>5, <2>1, <2>2, <3>1, <3>2
  <2>5. Dominates(M, F, d, b)
    BY <1>6, <1>8, <2>1, <2>2 DEF Dominates
  <2>6. ASSUME NEW a \in BlocksOf(F) \ {b}, Dominates(M, F, a, b)
        PROVE  Dominates(M, F, a, d)
    <3> DEFINE z == a - F.first
    <3>1. z \in 0 .. nb - 1 /\ F.first + z = a
      BY BlockNumbers
    <3> HIDE DEF z
    <3>2. z # x
      BY <1>8, <3>1
    <3>3. x \notin av[z][nb]
      BY <1>6, <1>8, <2>2, <2>6, <3>1 DEF Dominates
    <3>4. y \notin av[z][nb]
      BY <2>1, <3>1, <3>2, <3>3
    <3> QED
      BY <1>6, <2>2, <2>4, <3>1, <3>4 DEF Dominates
  <2> QED
    BY <2>3, <2>4, <2>5, <2>6
<1>9. ASSUME NEW b \in Reachable(M, F) \ {F.first}
      PROVE  b - F.first \in R \ {0} /\ b = F.first + (b - F.first)
  <2>1. b - F.first \in 0 .. nb - 1 /\ F.first + (b - F.first) = b
    BY <1>7, BlockNumbers
  <2>2. b - F.first # 0
    BY <1>4, <2>1
  <2> QED
    BY <1>5, <2>1, <2>2
<1> DEFINE live == Reachable(M, F)
           around == [a \in BlocksOf(F) |-> Around(M, F, a)]
<1>10. ASSUME NEW b \in live \ {F.first}
       PROVE  LET doms == {a \in BlocksOf(F) \ {b} : b \notin around[a]}
                  d == idom[b - F.first] + F.first
              IN  d \in doms /\ d \in live /\ \A a \in doms : d \notin around[a]
  <2>1. \A a \in BlocksOf(F) : around[a] = Around(M, F, a)
    OBVIOUS
  <2> HIDE DEF around
  <2>2. {a \in BlocksOf(F) \ {b} : b \notin around[a]}
          = {a \in BlocksOf(F) \ {b} : Dominates(M, F, a, b)}
    BY <2>1 DEF Dominates
  <2> QED
    BY <1>8, <1>9, <2>1, <2>2 DEF Dominates
<1>11. ImmediateDominators(M, F, idom)
  BY <1>10 DEF ImmediateDominators
<1> QED
  BY <1>2, <1>11 DEF preds

-----------------------------------------------------------------------------
(***************************************************************************)
(* Step 4.  Noted is what entering b in the frontiers of the blocks of W   *)
(* makes of the table df.                                                  *)
(***************************************************************************)
Tables(nb) == [0 .. nb - 1 -> SUBSET (0 .. nb - 1)]
Noted(df, b, W) == [x \in DOMAIN df |-> IF x \in W THEN NoteFrontier(df[x], b) ELSE df[x]]

(* The table keeps its type, and entering a block twice is entering it once. *)
LEMMA NotedTable ==
  ASSUME NEW nb, NEW df \in Tables(nb), NEW b \in 0 .. nb - 1, NEW W
  PROVE  Noted(df, b, W) \in Tables(nb) /\ DOMAIN df = 0 .. nb - 1
<1>1. \A x \in 0 .. nb - 1 : NoteFrontier(df[x], b) \in SUBSET (0 .. nb - 1)
  BY DEF Tables, NoteFrontier
<1> QED
  BY <1>1 DEF Noted, Tables

(* Entering b for the blocks of V and then for those of W enters it for both. *)
LEMMA NotedTwice ==
  ASSUME NEW nb, NEW df \in Tables(nb), NEW b \in 0 .. nb - 1, NEW V, NEW W
  PROVE  Noted(Noted(df, b, V), b, W) = Noted(df, b, V \cup W)
<1>1. \A S : NoteFrontier(NoteFrontier(S, b), b) = NoteFrontier(S, b)
  BY DEF NoteFrontier
<1>2. DOMAIN Noted(df, b, V) = DOMAIN df
  BY DEF Noted
<1>3. ASSUME NEW x \in DOMAIN df
      PROVE  (IF x \in W THEN NoteFrontier(Noted(df, b, V)[x], b) ELSE Noted(df, b, V)[x])
               = IF x \in V \cup W THEN NoteFrontier(df[x], b) ELSE df[x]
  <2>1. Noted(df, b, V)[x] = IF x \in V THEN NoteFrontier(df[x], b) ELSE df[x]
    BY DEF Noted
  <2> QED
    BY <1>1, <2>1
<1> QED
  BY <1>2, <1>3 DEF Noted

(* One turn enters b in one frontier and climbs one block, or changes      *)
(* nothing.                                                                *)
RunnerStates(nb) == [df : Tables(nb), at : (0 .. nb - 1) \cup {M2R_UNDEF}]

Climbed(s, b, idom, t) == t = [df |-> Noted(s.df, b, {s.at}), at |-> idom[s.at]]

(* A runner that stands where it stops takes no further turn. *)
LEMMA RunnerStops ==
  ASSUME NEW s, NEW b, NEW idom, s.at = idom[b] \/ s.at = M2R_UNDEF
  PROVE  RunnerTurn(s, b, idom) = s
BY DEF RunnerTurn

(* Any other runner enters b for its block and climbs to that block's dominator. *)
LEMMA RunnerClimbs ==
  ASSUME NEW nb, NEW b \in 0 .. nb - 1, NEW idom \in [0 .. nb - 1 -> (0 .. nb - 1) \cup {M2R_UNDEF}],
         NEW s \in RunnerStates(nb), s.at # idom[b], s.at # M2R_UNDEF
  PROVE  /\ Climbed(s, b, idom, RunnerTurn(s, b, idom))
         /\ RunnerTurn(s, b, idom) \in RunnerStates(nb)
<1>1. s.at \in 0 .. nb - 1 /\ s.df \in Tables(nb)
  BY DEF RunnerStates
<1>2. DOMAIN s.df = 0 .. nb - 1 /\ Noted(s.df, b, {s.at}) \in Tables(nb)
  BY <1>1, NotedTable
<1>3. [s.df EXCEPT ![s.at] = NoteFrontier(@, b)] = Noted(s.df, b, {s.at})
  BY <1>1, <1>2 DEF Noted
<1>4. RunnerTurn(s, b, idom) = [df |-> Noted(s.df, b, {s.at}), at |-> idom[s.at]]
  BY <1>3 DEF RunnerTurn
<1>5. idom[s.at] \in (0 .. nb - 1) \cup {M2R_UNDEF}
  BY <1>1
<1>6. RunnerTurn(s, b, idom) \in RunnerStates(nb)
  BY <1>2, <1>4, <1>5 DEF RunnerStates
<1> QED
  BY <1>4, <1>6 DEF Climbed

(* A turn keeps the table's type and the runner in range. *)
LEMMA RunnerType ==
  ASSUME NEW nb, NEW b \in 0 .. nb - 1, NEW idom \in [0 .. nb - 1 -> (0 .. nb - 1) \cup {M2R_UNDEF}],
         NEW s \in RunnerStates(nb)
  PROVE  RunnerTurn(s, b, idom) \in RunnerStates(nb)
BY RunnerStops, RunnerClimbs

(* The runner's loop. *)
Running(df, b, p, idom, nb, f) ==
  /\ f[0] = [df |-> df, at |-> p]
  /\ \A k \in 1 .. 2 * nb : f[k] = RunnerTurn(f[k - 1], b, idom)
  /\ \A k \in 0 .. 2 * nb : f[k] \in RunnerStates(nb)
  /\ Runner(df, b, p, idom, nb) = f[2 * nb].df

(* The runner's loop is the sequence of its turns. *)
LEMMA RunnerRuns ==
  ASSUME NEW nb \in Nat \ {0}, NEW df \in Tables(nb), NEW b \in 0 .. nb - 1, NEW p \in 0 .. nb - 1,
         NEW idom \in [0 .. nb - 1 -> (0 .. nb - 1) \cup {M2R_UNDEF}]
  PROVE  \E f : Running(df, b, p, idom, nb, f)
<1> DEFINE N == 2 * nb
           S == RunnerStates(nb)
           start == [df |-> df, at |-> p]
           st == [y \in S \X (1 .. N) |-> RunnerTurn(y[1], b, idom)]
           Runs(f) == f = [k \in 0 .. N |-> IF k = 0 THEN start ELSE RunnerTurn(f[k - 1], b, idom)]
           f == CHOOSE f : Runs(f)
<1>0. N \in Nat
  OBVIOUS
<1>1. start \in S
  BY DEF RunnerStates
<1>2. PICK g : Turns(g, S, start, N, st)
  <2>1. \A y \in S \X (1 .. N) : RunnerTurn(y[1], b, idom) \in S
    BY RunnerType
  <2>2. st \in [S \X (1 .. N) -> S]
    <3> HIDE DEF S, N
    <3> QED
      BY <2>1
  <2> HIDE DEF S, N, st, start
  <2> QED
    BY <1>0, <1>1, <2>2, LoopRuns
<1> HIDE DEF S, N, start
<1>3. g \in [0 .. N -> S]
  BY <1>2 DEF Turns
<1>4. ASSUME NEW k \in 0 .. N
      PROVE  g[k] = IF k = 0 THEN start ELSE RunnerTurn(g[k - 1], b, idom)
  <2>1. CASE k = 0
    BY <1>2, <2>1 DEF Turns
  <2>2. CASE k # 0
    <3>1. k \in 1 .. N /\ k - 1 \in 0 .. N
      BY <1>0, <2>2
    <3>2. g[k - 1] \in S
      BY <1>3, <3>1
    <3>3. st[<< g[k - 1], k >>] = RunnerTurn(g[k - 1], b, idom)
      BY <3>1, <3>2
    <3> HIDE DEF st
    <3> QED
      BY <1>2, <2>2, <3>3 DEF Turns
  <2> QED
    BY <2>1, <2>2
<1>5. Runs(g)
  BY <1>3, <1>4
<1>6. Runs(f)
  BY <1>5
<1>7. Runner(df, b, p, idom, nb) = IF start.at = idom[b] THEN df ELSE f[N].df
  BY DEF Runner, N, start
<1> HIDE DEF f
<1>8. ASSUME NEW k \in 0 .. N
      PROVE  f[k] = IF k = 0 THEN start ELSE RunnerTurn(f[k - 1], b, idom)
  BY <1>6, Zenon
<1>9. f[0] = start /\ \A k \in 1 .. N : f[k] = RunnerTurn(f[k - 1], b, idom)
  BY <1>0, <1>8
<1>10. \A k \in 0 .. N : f[k] \in S
  <2> DEFINE G == {k \in 0 .. N : f[k] \in S}
  <2>1. 0 \in G
    BY <1>0, <1>1, <1>9
  <2>2. ASSUME NEW k \in 1 .. N, k - 1 \in G PROVE k \in G
    <3>1. k \in 0 .. N /\ f[k - 1] \in S
      BY <1>0, <2>2
    <3>2. RunnerTurn(f[k - 1], b, idom) \in S
      BY <3>1, RunnerType DEF S
    <3> QED
      BY <1>9, <3>1, <3>2
  <2>3. \A k \in 0 .. N : k \in G
    <3> HIDE DEF G
    <3> QED
      BY <1>0, <2>1, <2>2, EveryTurn
  <2> QED
    BY <2>3
<1>11. ASSUME start.at = idom[b] PROVE f[N] = start
  <2> DEFINE G == {k \in 0 .. N : f[k] = start}
  <2>1. RunnerTurn(start, b, idom) = start
    BY <1>11, RunnerStops
  <2>2. 0 \in G
    BY <1>0, <1>9
  <2>3. ASSUME NEW k \in 1 .. N, k - 1 \in G PROVE k \in G
    BY <1>0, <1>9, <2>1, <2>3
  <2>4. \A k \in 0 .. N : k \in G
    <3> HIDE DEF G
    <3> QED
      BY <1>0, <2>2, <2>3, EveryTurn
  <2> QED
    BY <1>0, <2>4
<1>12. Runner(df, b, p, idom, nb) = f[N].df
  BY <1>7, <1>11 DEF start
<1> QED
  BY <1>9, <1>10, <1>12 DEF Running, S, N, start

(* From a block the entry reaches, the runner passes what lies below the   *)
(* dominator of b: the guard of 2 * nb turns never ends it.                *)
LEMMA RunnerKnown ==
  ASSUME NEW nb, NEW R, NEW rpo, NEW idom, Numbering(nb, R, rpo), Tree(nb, R, rpo, idom),
         NEW df \in Tables(nb), NEW b \in Known(idom), NEW p \in Known(idom),
         idom[b] \in Up(idom, p)
  PROVE  Runner(df, b, p, idom, nb) = Noted(df, b, Up(idom, p) \ Up(idom, idom[b]))
<1> DEFINE N == 2 * nb
           d == idom[b]
           Below(x) == Up(idom, p) \ Up(idom, x)
<1>0. nb \in Nat \ {0} /\ N \in Nat /\ nb \in 0 .. N
  BY DEF Numbering
<1>1. /\ Known(idom) \subseteq 0 .. nb - 1
      /\ idom \in [0 .. nb - 1 -> (0 .. nb - 1) \cup {M2R_UNDEF}]
      /\ d \in Known(idom) /\ \A x \in Known(idom) : x # M2R_UNDEF /\ rpo[x] \in 0 .. nb - 1
  <2>1. /\ Known(idom) \subseteq R /\ R \subseteq 0 .. nb - 1 /\ d \in Known(idom)
        /\ \A x \in R : rpo[x] \in 0 .. nb - 1
    BY TreeKnown
  <2>2. \A x \in 0 .. nb - 1 : x # M2R_UNDEF
    BY DEF M2R_UNDEF
  <2>3. idom \in [0 .. nb - 1 -> (0 .. nb - 1) \cup {M2R_UNDEF}]
    BY DEF Tree
  <2> QED
    BY <2>1, <2>2, <2>3
<1>r. \A s \in RunnerStates(nb) : s.at # d /\ s.at # M2R_UNDEF => Climbed(s, b, idom, RunnerTurn(s, b, idom))
  <2>1. b \in 0 .. nb - 1
    BY <1>1
  <2> QED
    BY <1>1, <2>1, RunnerClimbs
<1>2. PICK f : Running(df, b, p, idom, nb, f)
  BY <1>0, <1>1, RunnerRuns
<1> DEFINE Good(k) == /\ f[k].at \in Known(idom) /\ d \in Up(idom, f[k].at)
                      /\ Up(idom, f[k].at) \subseteq Up(idom, p)
                      /\ f[k].df = Noted(df, b, Below(f[k].at))
                      /\ f[k].at = d \/ rpo[f[k].at] <= nb - 1 - k
           G == {k \in 0 .. N : Good(k)}
<1>3. 0 \in G
  <2>1. f[0].at = p /\ f[0].df = df
    BY <1>2 DEF Running
  <2>2. Noted(df, b, {}) = df
    BY DEF Noted, Tables
  <2>3. rpo[p] <= nb - 1 - 0
    BY <1>0, <1>1
  <2>4. Below(p) = {}
    OBVIOUS
  <2> HIDE DEF Below
  <2> QED
    BY <1>0, <2>1, <2>2, <2>3, <2>4
<1>4. ASSUME NEW k \in 1 .. N, k - 1 \in G PROVE k \in G
  <2> DEFINE s == f[k - 1]
             x == s.at
  <2>1. /\ x \in Known(idom) /\ d \in Up(idom, x) /\ Up(idom, x) \subseteq Up(idom, p)
        /\ s.df = Noted(df, b, Below(x))
        /\ x = d \/ rpo[x] <= nb - 1 - (k - 1)
    BY <1>4
  <2>2. s \in RunnerStates(nb) /\ f[k] = RunnerTurn(s, b, idom) /\ k \in 0 .. N
    <3>1. k - 1 \in 0 .. 2 * nb /\ k \in 1 .. 2 * nb /\ k \in 0 .. N
      BY <1>0
    <3> QED
      BY <1>2, <3>1 DEF Running
  <2> HIDE DEF s
  <2>3. CASE x = d
    <3>1. f[k] = s
      BY <2>2, <2>3, RunnerStops
    <3> HIDE DEF Below
    <3> QED
      BY <2>1, <2>2, <2>3, <3>1
  <2>4. CASE x # d
    <3>1. f[k] = [df |-> Noted(s.df, b, {x}), at |-> idom[x]]
      BY <1>1, <1>r, <2>1, <2>2, <2>4 DEF Climbed
    <3>2. Up(idom, x) = {x} \cup Up(idom, idom[x]) /\ idom[x] \in Known(idom)
      BY <2>1, UpStep, TreeKnown
    <3>3. d \in Up(idom, idom[x])
      BY <2>1, <2>4, <3>2
    <3>4. x # 0
      <4>1. idom[0] = 0 /\ \A y \in Known(idom) : y # 0 => rpo[idom[y]] < rpo[y]
        BY TreeKnown
      <4>2. ASSUME x = 0 PROVE FALSE
        <5>1. \A y \in Up(idom, 0) : rpo[y] <= rpo[0]
          BY <2>1, <4>2, UpClimbs
        <5>2. rpo[0] = 0 /\ rpo[d] = 0 /\ d \in R /\ 0 \in R
          <6>0. Known(idom) \subseteq R
            BY TreeKnown
          <6>1. d \in R /\ 0 \in R /\ rpo[0] = 0
            BY <1>1, <6>0 DEF Numbering
          <6>2. rpo[d] \in 0 .. nb - 1 /\ rpo[d] <= rpo[0]
            BY <1>1, <2>1, <4>2, <5>1
          <6> QED
            BY <6>1, <6>2
        <5>3. d = 0
          BY <5>2 DEF Numbering
        <5> QED
          BY <2>4, <4>2, <5>3
      <4> QED
        BY <4>2
    <3>5. rpo[idom[x]] < rpo[x] /\ rpo[x] \in Nat /\ rpo[idom[x]] \in Nat
      <4>1. rpo[idom[x]] < rpo[x]
        BY <2>1, <3>4, TreeKnown
      <4>2. rpo[x] \in 0 .. nb - 1 /\ rpo[idom[x]] \in 0 .. nb - 1
        BY <1>1, <2>1, <3>2
      <4> QED
        BY <4>1, <4>2
    <3>6. rpo[idom[x]] <= nb - 1 - k
      BY <1>0, <2>1, <2>4, <3>5
    <3>7. x \notin Up(idom, idom[x]) /\ x \in Up(idom, p)
      <4>1. \A y \in Up(idom, idom[x]) : rpo[y] <= rpo[idom[x]]
        BY <3>2, UpClimbs
      <4> QED
        BY <2>1, <3>2, <3>5, <4>1
    <3>8. Below(idom[x]) = Below(x) \cup {x}
      BY <2>1, <3>2, <3>7
    <3>9. b \in 0 .. nb - 1
      BY <1>1
    <3> HIDE DEF Below
    <3>10. Noted(s.df, b, {x}) = Noted(df, b, Below(idom[x]))
      BY <2>1, <3>8, <3>9, NotedTwice
    <3>11. Up(idom, idom[x]) \subseteq Up(idom, p)
      BY <2>1, <3>2
    <3> QED
      BY <2>2, <3>1, <3>2, <3>3, <3>6, <3>10, <3>11
  <2> QED
    BY <2>3, <2>4
<1>5. \A k \in 0 .. N : k \in G
  <2> HIDE DEF G, N
  <2> QED
    BY <1>0, <1>3, <1>4, EveryTurn
<1>6. Good(N)
  BY <1>0, <1>5
<1>7. f[N].at = d
  <2>1. rpo[f[N].at] \in 0 .. nb - 1
    BY <1>1, <1>6
  <2> QED
    BY <1>0, <1>6, <2>1
<1> QED
  BY <1>2, <1>6, <1>7 DEF Running

(* From any other block it passes that block only.                         *)
LEMMA RunnerUnknown ==
  ASSUME NEW nb, NEW R, NEW rpo, NEW idom, Numbering(nb, R, rpo), Tree(nb, R, rpo, idom),
         NEW df \in Tables(nb), NEW b \in 0 .. nb - 1, NEW p \in 0 .. nb - 1, p \notin Known(idom)
  PROVE  Runner(df, b, p, idom, nb) = Noted(df, b, {p})
<1> DEFINE N == 2 * nb
<1>0. nb \in Nat \ {0} /\ N \in Nat /\ 1 \in 1 .. N /\ N \in 1 .. N
  BY DEF Numbering
<1>1. /\ idom \in [0 .. nb - 1 -> (0 .. nb - 1) \cup {M2R_UNDEF}]
      /\ idom[p] = M2R_UNDEF /\ p # M2R_UNDEF /\ p # idom[b]
  BY TreeKnown DEF Tree, M2R_UNDEF, Known
<1>2. PICK f : Running(df, b, p, idom, nb, f)
  BY <1>0, <1>1, RunnerRuns
<1>3. f[0] = [df |-> df, at |-> p] /\ f[0] \in RunnerStates(nb)
  BY <1>0, <1>2 DEF Running
<1>r. \A s \in RunnerStates(nb) :
         s.at = p => RunnerTurn(s, b, idom) = [df |-> Noted(s.df, b, {p}), at |-> M2R_UNDEF]
  <2> SUFFICES ASSUME NEW s \in RunnerStates(nb), s.at = p
               PROVE  RunnerTurn(s, b, idom) = [df |-> Noted(s.df, b, {p}), at |-> M2R_UNDEF]
    OBVIOUS
  <2>1. Climbed(s, b, idom, RunnerTurn(s, b, idom))
    BY <1>1, RunnerClimbs
  <2> QED
    BY <1>1, <2>1 DEF Climbed
<1> DEFINE done == [df |-> Noted(df, b, {p}), at |-> M2R_UNDEF]
           G == {k \in 0 .. N : k # 0 => f[k] = done}
<1>4. 0 \in G
  BY <1>0
<1>5. ASSUME NEW k \in 1 .. N, k - 1 \in G PROVE k \in G
  <2>1. /\ f[k] = RunnerTurn(f[k - 1], b, idom) /\ f[k - 1] \in RunnerStates(nb)
        /\ k \in 0 .. N
    <3>1. k - 1 \in 0 .. 2 * nb /\ k \in 1 .. 2 * nb /\ k \in 0 .. N
      BY <1>0
    <3> QED
      BY <1>2, <3>1 DEF Running
  <2>2. CASE k = 1
    <3>1. f[k - 1].at = p /\ f[k - 1].df = df
      BY <1>3, <2>2
    <3>2. f[k] = done
      BY <1>r, <2>1, <3>1
    <3> HIDE DEF done
    <3> QED
      BY <2>1, <3>2
  <2>3. CASE k # 1
    <3>1. f[k - 1] = done /\ f[k - 1].at = M2R_UNDEF
      BY <1>0, <1>5, <2>3
    <3>2. f[k] = f[k - 1]
      BY <2>1, <3>1, RunnerStops
    <3> HIDE DEF done
    <3> QED
      BY <2>1, <3>1, <3>2
  <2> QED
    BY <2>2, <2>3
<1>6. \A k \in 0 .. N : k \in G
  <2> HIDE DEF G, N
  <2> QED
    BY <1>0, <1>4, <1>5, EveryTurn
<1>7. f[N] = done
  BY <1>0, <1>6
<1> QED
  BY <1>2, <1>7 DEF Running

-----------------------------------------------------------------------------
(* What the runner from p passes on its way to the dominator of b. *)
Passed(idom, b, p) == IF p \in Known(idom) THEN Up(idom, p) \ Up(idom, idom[b]) ELSE {p}
Fits(idom, b, p) == p \in Known(idom) => b \in Known(idom) /\ idom[b] \in Up(idom, p)

(* One runner enters b for the blocks it passes and for no others. *)
LEMMA RunnerPasses ==
  ASSUME NEW nb, NEW R, NEW rpo, NEW idom, Numbering(nb, R, rpo), Tree(nb, R, rpo, idom),
         NEW df \in Tables(nb), NEW b \in 0 .. nb - 1, NEW p \in 0 .. nb - 1, Fits(idom, b, p)
  PROVE  Runner(df, b, p, idom, nb) = Noted(df, b, Passed(idom, b, p))
<1>1. CASE p \in Known(idom)
  <2>1. b \in Known(idom) /\ idom[b] \in Up(idom, p)
    BY <1>1 DEF Fits
  <2>2. Runner(df, b, p, idom, nb) = Noted(df, b, Up(idom, p) \ Up(idom, idom[b]))
    BY <1>1, <2>1, RunnerKnown
  <2> QED
    BY <1>1, <2>2 DEF Passed
<1>2. CASE p \notin Known(idom)
  BY <1>2, RunnerUnknown DEF Passed
<1> QED
  BY <1>1, <1>2

(* The runners from all predecessors pass what one of them passes. *)
PassedBy(idom, b, ps, k) == {x \in DOMAIN idom : \E j \in 1 .. k : x \in Passed(idom, b, ps[j])}

(* Together they enter b for the blocks that one of them passes, in any order. *)
LEMMA RunnersPass ==
  ASSUME NEW nb, NEW R, NEW rpo, NEW idom, Numbering(nb, R, rpo), Tree(nb, R, rpo, idom),
         NEW df \in Tables(nb), NEW b \in 0 .. nb - 1, NEW ps \in Seq(0 .. nb - 1),
         \A k \in 1 .. Len(ps) : Fits(idom, b, ps[k])
  PROVE  Runners(df, b, ps, idom, nb) = Noted(df, b, PassedBy(idom, b, ps, Len(ps)))
<1> DEFINE N == Len(ps)
           S == Tables(nb)
           st == [y \in S \X (1 .. N) |-> Runner(y[1], b, ps[y[2]], idom, nb)]
           Runs(f) == f = [k \in 0 .. N |-> IF k = 0 THEN df ELSE Runner(f[k - 1], b, ps[k], idom, nb)]
           f == CHOOSE f : Runs(f)
<1>0. N \in Nat /\ DOMAIN idom = 0 .. nb - 1 /\ \A k \in 1 .. N : ps[k] \in 0 .. nb - 1
  <2>1. DOMAIN idom = 0 .. nb - 1
    BY TreeKnown
  <2>2. N \in Nat /\ \A k \in 1 .. N : ps[k] \in 0 .. nb - 1
    <3> DEFINE B == 0 .. nb - 1
    <3>1. ps \in Seq(B)
      OBVIOUS
    <3> HIDE DEF B
    <3>2. N \in Nat /\ \A k \in 1 .. N : ps[k] \in B
      BY <3>1
    <3> QED
      BY <3>2 DEF B
  <2> QED
    BY <2>1, <2>2
<1>1. ASSUME NEW t \in S, NEW k \in 1 .. N
      PROVE  Runner(t, b, ps[k], idom, nb) = Noted(t, b, Passed(idom, b, ps[k]))
  BY <1>0, RunnerPasses
<1>2. ASSUME NEW t \in S, NEW k \in 1 .. N
      PROVE  Runner(t, b, ps[k], idom, nb) \in S
  BY <1>1, NotedTable
<1> HIDE DEF S, N
<1>3. PICK g : Turns(g, S, df, N, st)
  <2>1. st \in [S \X (1 .. N) -> S]
    BY <1>2
  <2>2. df \in S
    BY DEF S
  <2> HIDE DEF st
  <2> QED
    BY <1>0, <2>1, <2>2, LoopRuns
<1>4. g \in [0 .. N -> S]
  BY <1>3 DEF Turns
<1>5. ASSUME NEW k \in 0 .. N
      PROVE  g[k] = IF k = 0 THEN df ELSE Runner(g[k - 1], b, ps[k], idom, nb)
  <2>1. CASE k = 0
    BY <1>3, <2>1 DEF Turns
  <2>2. CASE k # 0
    <3>1. k \in 1 .. N /\ k - 1 \in 0 .. N
      BY <1>0, <2>2
    <3>2. g[k - 1] \in S
      BY <1>4, <3>1
    <3>3. st[<< g[k - 1], k >>] = Runner(g[k - 1], b, ps[k], idom, nb)
      BY <3>1, <3>2
    <3> HIDE DEF st
    <3> QED
      BY <1>3, <2>2, <3>3 DEF Turns
  <2> QED
    BY <2>1, <2>2
<1>6. Runs(g)
  BY <1>4, <1>5
<1>7. Runs(f)
  BY <1>6
<1>8. Runners(df, b, ps, idom, nb) = f[N]
  BY DEF Runners, N
<1> HIDE DEF f
<1>9. ASSUME NEW k \in 0 .. N
      PROVE  f[k] = IF k = 0 THEN df ELSE Runner(f[k - 1], b, ps[k], idom, nb)
  BY <1>7, Zenon
<1> DEFINE W(k) == PassedBy(idom, b, ps, k)
           G == {k \in 0 .. N : f[k] = Noted(df, b, W(k))}
<1>10. 0 \in G
  <2>1. f[0] = df
    BY <1>0, <1>9
  <2>2. W(0) = {}
    BY DEF PassedBy
  <2>3. Noted(df, b, {}) = df
    BY DEF Noted, Tables
  <2>4. 0 \in 0 .. N
    BY <1>0
  <2> HIDE DEF W
  <2> QED
    BY <2>1, <2>2, <2>3, <2>4, Zenon
<1>11. ASSUME NEW k \in 1 .. N, k - 1 \in G PROVE k \in G
  <2>1. k \in 0 .. N /\ k - 1 \in 0 .. N /\ f[k - 1] = Noted(df, b, W(k - 1))
    BY <1>0, <1>11
  <2>2. f[k] = Runner(f[k - 1], b, ps[k], idom, nb)
    BY <1>9, <2>1
  <2>3. f[k - 1] \in S
    BY <2>1, NotedTable DEF S
  <2>4. f[k] = Noted(f[k - 1], b, Passed(idom, b, ps[k]))
    BY <1>1, <2>2, <2>3
  <2>5. W(k) = W(k - 1) \cup (Passed(idom, b, ps[k]) \cap DOMAIN idom)
    <3>1. \A j : j \in 1 .. k <=> j \in 1 .. k - 1 \/ j = k
      BY <1>0
    <3> QED
      BY <3>1 DEF PassedBy
  <2>6. f[k] = Noted(df, b, W(k - 1) \cup Passed(idom, b, ps[k]))
    <3> HIDE DEF W
    <3> QED
      BY <2>1, <2>4, NotedTwice
  <2>7. Noted(df, b, W(k - 1) \cup Passed(idom, b, ps[k])) = Noted(df, b, W(k))
    <3>1. DOMAIN df = DOMAIN idom
      BY <1>0, NotedTable
    <3>2. \A x \in DOMAIN df : x \in W(k - 1) \cup Passed(idom, b, ps[k]) <=> x \in W(k)
      <4> HIDE DEF W
      <4> QED
        BY <2>5, <3>1
    <3> HIDE DEF W
    <3> QED
      BY <3>2 DEF Noted
  <2> HIDE DEF W
  <2> QED
    BY <2>1, <2>6, <2>7
<1>12. \A k \in 0 .. N : k \in G
  <2> HIDE DEF G
  <2> QED
    BY <1>0, <1>10, <1>11, EveryTurn
<1> QED
  BY <1>0, <1>8, <1>12 DEF N

(* The entry is above every known block. *)
LEMMA EntryAbove ==
  ASSUME NEW nb, NEW R, NEW rpo, NEW idom, Numbering(nb, R, rpo), Tree(nb, R, rpo, idom),
         NEW x \in Known(idom)
  PROVE  0 \in Up(idom, x)
<1> DEFINE S == {rpo[y] : y \in Up(idom, x)}
<1>1. /\ Up(idom, x) \subseteq Known(idom) /\ Climbing(idom, Up(idom, x)) /\ x \in Up(idom, x)
      /\ \A y \in Known(idom) : y # 0 => rpo[idom[y]] < rpo[y]
      /\ \A y \in Known(idom) : rpo[y] \in Nat
  BY UpClimbs, TreeKnown
<1>2. PICK k \in S : \A j \in S : k <= j
  <2>1. S \in SUBSET Nat /\ S # {}
    BY <1>1
  <2> HIDE DEF S
  <2> QED
    BY <2>1, Smallest
<1>3. PICK y \in Up(idom, x) : rpo[y] = k
  BY <1>2
<1>4. idom[y] \in Up(idom, x)
  BY <1>1, <1>3 DEF Climbing
<1>5. k <= rpo[idom[y]]
  BY <1>2, <1>4
<1> QED
  BY <1>1, <1>3, <1>4, <1>5

(***************************************************************************)
(* The blocks whose dominance ends at b: they are above a predecessor of b *)
(* and not above b itself.                                                 *)
(***************************************************************************)
Ends(R, pr, idom, b) == {x \in R : \E p \in pr[b] \cap R : x \in Up(idom, p) \ Up(idom, idom[b])}

(* Above a block are its dominators. *)
LEMMA AboveDominates ==
  ASSUME NEW nb, NEW R, NEW rpo, NEW preds, NEW pr, NEW post, NEW av, NEW idom,
         Setting(nb, R, rpo, preds, pr, post, av), Swept(nb, R, rpo, pr, av, idom, nb + 1)
  PROVE  /\ Numbering(nb, R, rpo) /\ Tree(nb, R, rpo, idom) /\ Known(idom) = R
         /\ R \subseteq 0 .. nb - 1 /\ nb \in Nat \ {0}
         /\ \A x \in R, a \in 0 .. nb - 1 : a \in Up(idom, x) <=> x \notin av[a][nb]
<1>1. Numbering(nb, R, rpo) /\ nb \in Nat \ {0} /\ R \subseteq 0 .. nb - 1
  BY DEF Setting, Graph, Numbering
<1>2. nb + 1 > 0 /\ Reach(nb + 1, nb) = nb
  BY <1>1 DEF Reach
<1>3. /\ Tree(nb, R, rpo, idom) /\ HasDominators(nb, av, idom) /\ Known(idom) = R
      /\ \A x \in R : Spread(nb, av, idom, x, nb)
  BY <1>2 DEF Swept, Iterating
<1>4. ASSUME NEW x \in R, NEW a \in 0 .. nb - 1
      PROVE  a \in Up(idom, x) <=> x \notin av[a][nb]
  BY <1>3 DEF HasDominators, Spread
<1> QED
  BY <1>1, <1>3, <1>4

(* The dominator of a block is above each of its predecessors. *)
LEMMA PredsFit ==
  ASSUME NEW nb, NEW R, NEW rpo, NEW preds, NEW pr, NEW post, NEW av, NEW idom,
         Setting(nb, R, rpo, preds, pr, post, av), Swept(nb, R, rpo, pr, av, idom, nb + 1),
         NEW b \in 0 .. nb - 1, NEW p \in pr[b]
  PROVE  Fits(idom, b, p)
<1>1. /\ Numbering(nb, R, rpo) /\ Tree(nb, R, rpo, idom) /\ Known(idom) = R
      /\ R \subseteq 0 .. nb - 1 /\ nb \in Nat \ {0}
      /\ \A x \in R, a \in 0 .. nb - 1 : a \in Up(idom, x) <=> x \notin av[a][nb]
  BY AboveDominates
<1>2. Graph(nb, R, rpo, pr) /\ Rounds(nb, pr, av)
  BY DEF Setting
<1> SUFFICES ASSUME p \in R PROVE b \in R /\ idom[b] \in Up(idom, p)
  BY <1>1 DEF Fits
<1>3. b \in R
  BY <1>2 DEF Graph
<1>4. CASE b = 0
  <2>1. idom[0] = 0 /\ p \in Known(idom)
    BY <1>1, TreeKnown
  <2> QED
    BY <1>1, <1>3, <1>4, <2>1, EntryAbove
<1>5. CASE b # 0
  <2>1. idom[b] \in R /\ idom[b] # b /\ b \notin av[idom[b]][nb]
    BY <1>3, <1>5, SweptImmediate
  <2>2. idom[b] \in 0 .. nb - 1 /\ idom[b] \in 0 .. nb
    BY <1>1, <2>1
  <2>3. p \notin av[idom[b]][nb]
    BY <1>1, <1>2, <2>1, <2>2, RoundsEnd
  <2> QED
    BY <1>1, <1>3, <2>2, <2>3
<1> QED
  BY <1>3, <1>4, <1>5

(* Dominance ends where edges join, the entry apart. *)
LEMMA EndsAtJoins ==
  ASSUME NEW nb, NEW R, NEW rpo, NEW preds, NEW pr, NEW post, NEW av, NEW idom,
         Setting(nb, R, rpo, preds, pr, post, av), Swept(nb, R, rpo, pr, av, idom, nb + 1),
         NEW b \in 0 .. nb - 1, b # 0, Ends(R, pr, idom, b) # {}
  PROVE  ~(Len(preds[b]) < 2)
<1>1. /\ Numbering(nb, R, rpo) /\ Tree(nb, R, rpo, idom) /\ Known(idom) = R
      /\ R \subseteq 0 .. nb - 1 /\ nb \in Nat \ {0}
      /\ \A x \in R, a \in 0 .. nb - 1 : a \in Up(idom, x) <=> x \notin av[a][nb]
  BY AboveDominates
<1>2. /\ Graph(nb, R, rpo, pr) /\ Rounds(nb, pr, av)
      /\ preds[b] \in Seq(0 .. nb - 1) /\ pr[b] = {preds[b][k] : k \in 1 .. Len(preds[b])}
  BY DEF Setting, PredsOf
<1>3. PICK x \in R, p \in pr[b] \cap R : x \in Up(idom, p) \ Up(idom, idom[b])
  BY DEF Ends
<1> SUFFICES ASSUME Len(preds[b]) < 2 PROVE FALSE
  OBVIOUS
<1>4. pr[b] = {p}
  <2>1. Len(preds[b]) \in Nat
    BY <1>2
  <2>2. \A k \in 1 .. Len(preds[b]) : k = 1
    BY <2>1
  <2> QED
    BY <1>2, <1>3, <2>2
<1>5. b \in R \ {0}
  BY <1>2, <1>3 DEF Graph
<1>6. p # b
  <2>1. PICK u \in pr[b] \cap R : rpo[u] < rpo[b]
    BY <1>2, <1>5 DEF Graph
  <2>2. rpo[b] \in Nat
    BY <1>1, <1>5, TreeKnown
  <2> QED
    BY <1>4, <2>1, <2>2
<1>7. p \in 0 .. nb - 1 /\ p \in 0 .. nb /\ nb \in 1 .. nb /\ nb - 1 \in 0 .. nb
  BY <1>1, <1>3
<1>8. b \notin av[p][nb]
  <2>1. b \in av[p][nb] => pr[b] \cap av[p][nb - 1] # {}
    BY <1>2, <1>5, <1>7, RoundsEnter
  <2>2. av[p][nb - 1] \subseteq R \ {p}
    BY <1>2, <1>7, RoundsReached
  <2> QED
    BY <1>4, <2>1, <2>2
<1>9. p \in Up(idom, idom[b]) /\ idom[b] \in Known(idom)
  <2>1. Up(idom, b) = {b} \cup Up(idom, idom[b])
    BY <1>1, <1>5, UpStep
  <2>2. p \in Up(idom, b)
    BY <1>1, <1>5, <1>7, <1>8
  <2> QED
    BY <1>1, <1>5, <1>6, <2>1, <2>2, TreeKnown
<1>10. Up(idom, p) \subseteq Up(idom, idom[b])
  BY <1>1, <1>9, UpUp
<1> QED
  BY <1>3, <1>10

(* What step 4 enters for b in the frontiers of the blocks reached. *)
LEMMA JoinNotes ==
  ASSUME NEW nb, NEW R, NEW rpo, NEW preds, NEW pr, NEW post, NEW av, NEW idom,
         Setting(nb, R, rpo, preds, pr, post, av), Swept(nb, R, rpo, pr, av, idom, nb + 1),
         NEW b \in 0 .. nb - 1, NEW df \in Tables(nb), NEW r,
         r = JoinFrontier(df, b, preds[b], idom, nb)
  PROVE  /\ r \in Tables(nb)
         /\ \A x \in R : x \notin Ends(R, pr, idom, b) => r[x] = df[x]
         /\ \A x \in R : x \in Ends(R, pr, idom, b) =>
                           \/ r[x] = NoteFrontier(df[x], b)
                           \/ b = 0 /\ r[x] = df[x]
<1> DEFINE ps == preds[b]
           E == Ends(R, pr, idom, b)
           W == PassedBy(idom, b, ps, Len(ps))
<1>1. /\ Numbering(nb, R, rpo) /\ Tree(nb, R, rpo, idom) /\ Known(idom) = R
      /\ R \subseteq 0 .. nb - 1 /\ nb \in Nat \ {0}
  BY AboveDominates
<1>2. DOMAIN df = 0 .. nb - 1 /\ DOMAIN idom = 0 .. nb - 1
  BY <1>1, NotedTable, TreeKnown
<1>3. CASE Len(ps) < 2
  <2>1. r = df
    BY <1>3 DEF JoinFrontier
  <2>2. E # {} => b = 0
    BY <1>3, EndsAtJoins
  <2> QED
    BY <2>1, <2>2
<1>4. CASE ~(Len(ps) < 2)
  <2>1. /\ ps \in Seq(0 .. nb - 1) /\ pr[b] = {ps[k] : k \in 1 .. Len(ps)}
    BY DEF Setting, PredsOf
  <2>2. \A k \in 1 .. Len(ps) : Fits(idom, b, ps[k])
    BY <2>1, PredsFit
  <2>3. r = Runners(df, b, ps, idom, nb)
    BY <1>4 DEF JoinFrontier
  <2> HIDE DEF ps
  <2>4. r = Noted(df, b, W)
    BY <1>1, <2>1, <2>2, <2>3, RunnersPass
  <2>5. ASSUME NEW x \in R PROVE x \in W <=> x \in E
    <3>1. x \in W <=> \E k \in 1 .. Len(ps) : x \in Passed(idom, b, ps[k])
      BY <1>1, <1>2 DEF PassedBy
    <3>2. x \in W <=> \E p \in pr[b] : x \in Passed(idom, b, p)
      BY <2>1, <3>1
    <3>3. \A p : x \in Passed(idom, b, p) <=> p \in R /\ x \in Up(idom, p) \ Up(idom, idom[b])
      BY <1>1 DEF Passed
    <3> QED
      BY <3>2, <3>3 DEF Ends
  <2>6. r \in Tables(nb)
    BY <2>4, NotedTable
  <2>7. \A x \in R : r[x] = IF x \in W THEN NoteFrontier(df[x], b) ELSE df[x]
    BY <1>1, <1>2, <2>4 DEF Noted
  <2> HIDE DEF W, E
  <2>8. /\ \A x \in R : x \notin E => r[x] = df[x]
        /\ \A x \in R : x \in E => r[x] = NoteFrontier(df[x], b)
    BY <2>5, <2>7
  <2> QED
    BY <2>6, <2>8 DEF E
<1> QED
  BY <1>3, <1>4

(***************************************************************************)
(* The frontier of x as step 4 finds it, the first n blocks considered.    *)
(***************************************************************************)
EndsFrom(R, pr, idom, x, n) == {b \in 0 .. n - 1 : x \in Ends(R, pr, idom, b)}

Found(nb, R, pr, idom, df, n) ==
  /\ df \in Tables(nb)
  /\ \A x \in R : df[x] \subseteq EndsFrom(R, pr, idom, x, n)
  /\ \A x \in R : Cardinality(EndsFrom(R, pr, idom, x, nb)) <= M2R_MAX_DF =>
                     EndsFrom(R, pr, idom, x, n) \ {0} \subseteq df[x]

(* One more block keeps right what the loop has found. *)
LEMMA FoundStep ==
  ASSUME NEW nb, NEW R, NEW rpo, NEW preds, NEW pr, NEW post, NEW av, NEW idom,
         Setting(nb, R, rpo, preds, pr, post, av), Swept(nb, R, rpo, pr, av, idom, nb + 1),
         NEW n \in 1 .. nb, NEW df, Found(nb, R, pr, idom, df, n - 1),
         NEW r, r = JoinFrontier(df, n - 1, preds[n - 1], idom, nb)
  PROVE  Found(nb, R, pr, idom, r, n)
<1> DEFINE b == n - 1
           Fr(x, m) == EndsFrom(R, pr, idom, x, m)
<1>1. R \subseteq 0 .. nb - 1 /\ nb \in Nat \ {0}
  BY AboveDominates
<1>2. b \in 0 .. nb - 1 /\ df \in Tables(nb)
  BY <1>1 DEF Found
<1>3. /\ r \in Tables(nb)
      /\ \A x \in R : x \notin Ends(R, pr, idom, b) => r[x] = df[x]
      /\ \A x \in R : x \in Ends(R, pr, idom, b) =>
                        \/ r[x] = NoteFrontier(df[x], b)
                        \/ b = 0 /\ r[x] = df[x]
  BY <1>2, JoinNotes
<1>4. ASSUME NEW x \in R
      PROVE  /\ Fr(x, n) = Fr(x, n - 1) \cup (IF x \in Ends(R, pr, idom, b) THEN {b} ELSE {})
             /\ b \notin Fr(x, n - 1) /\ Fr(x, n) \subseteq Fr(x, nb)
             /\ IsFiniteSet(Fr(x, nb)) /\ Cardinality(Fr(x, nb)) \in Nat
  <2>1. Fr(x, n) = Fr(x, n - 1) \cup (IF x \in Ends(R, pr, idom, b) THEN {b} ELSE {})
    <3>1. \A c : c \in 0 .. n - 1 <=> c \in 0 .. n - 1 - 1 \/ c = b
      BY <1>1
    <3> QED
      BY <3>1 DEF EndsFrom
  <2>2. b \notin Fr(x, n - 1) /\ Fr(x, n) \subseteq Fr(x, nb) /\ Fr(x, nb) \subseteq 0 .. nb - 1
    BY <1>1 DEF EndsFrom
  <2>3. IsFiniteSet(Fr(x, nb)) /\ Cardinality(Fr(x, nb)) \in Nat
    BY <1>1, <2>2, BlockCount, FS_Subset, FS_CardinalityType
  <2> QED
    BY <2>1, <2>2, <2>3
<1>5. ASSUME NEW x \in R PROVE r[x] \subseteq Fr(x, n)
  <2>1. df[x] \subseteq Fr(x, n - 1)
    BY DEF Found
  <2>2. NoteFrontier(df[x], b) \subseteq df[x] \cup {b}
    BY DEF NoteFrontier
  <2> HIDE DEF b, Fr
  <2> QED
    BY <1>3, <1>4, <2>1, <2>2
<1>6. ASSUME NEW x \in R, Cardinality(Fr(x, nb)) <= M2R_MAX_DF
      PROVE  Fr(x, n) \ {0} \subseteq r[x]
  <2>1. df[x] \subseteq Fr(x, n - 1) /\ Fr(x, n - 1) \ {0} \subseteq df[x]
    BY <1>6 DEF Found
  <2>2. CASE x \notin Ends(R, pr, idom, b)
    <3> HIDE DEF b, Fr
    <3> QED
      BY <1>3, <1>4, <2>1, <2>2
  <2>3. CASE x \in Ends(R, pr, idom, b)
    <3>1. b \in Fr(x, nb) /\ b \notin df[x] /\ df[x] \subseteq Fr(x, nb)
      <4> HIDE DEF b, Fr
      <4> QED
        BY <1>4, <2>1, <2>3
    <3>2. Cardinality(df[x]) < Cardinality(Fr(x, nb)) /\ Cardinality(df[x]) \in Nat
      <4> HIDE DEF b, Fr
      <4>1. IsFiniteSet(df[x]) /\ Cardinality(df[x]) <= Cardinality(Fr(x, nb))
            /\ (Cardinality(df[x]) = Cardinality(Fr(x, nb)) => df[x] = Fr(x, nb))
        BY <1>4, <3>1, FS_Subset
      <4>2. Cardinality(df[x]) \in Nat
        BY <4>1, FS_CardinalityType
      <4> QED
        BY <1>4, <3>1, <4>1, <4>2
    <3>3. ~(Cardinality(df[x]) >= M2R_MAX_DF)
      <4> HIDE DEF b, Fr
      <4> QED
        BY <1>4, <1>6, <3>2, FrontierAssumption
    <3>4. NoteFrontier(df[x], b) = df[x] \cup {b}
      BY <3>3 DEF NoteFrontier
    <3> HIDE DEF b, Fr
    <3> QED
      BY <1>3, <1>4, <2>1, <2>3, <3>4
  <2> QED
    BY <2>2, <2>3
<1> QED
  BY <1>3, <1>5, <1>6 DEF Found

(* The loop over all blocks. *)
LEMMA FrontiersFound ==
  ASSUME NEW nb, NEW R, NEW rpo, NEW preds, NEW pr, NEW post, NEW av, NEW idom,
         Setting(nb, R, rpo, preds, pr, post, av), Swept(nb, R, rpo, pr, av, idom, nb + 1)
  PROVE  Found(nb, R, pr, idom, FrontiersFrom(nb, preds, idom), nb)
<1> DEFINE S == Tables(nb)
           none == [b \in 0 .. nb - 1 |-> {}]
           st == [y \in S \X (1 .. nb) |-> JoinFrontier(y[1], y[2] - 1, preds[y[2] - 1], idom, nb)]
           Runs(f) == f = [n \in 0 .. nb |->
                             IF n = 0 THEN none ELSE JoinFrontier(f[n - 1], n - 1, preds[n - 1], idom, nb)]
           f == CHOOSE f : Runs(f)
<1>0. nb \in Nat \ {0}
  BY AboveDominates
<1>1. none \in S
  BY DEF Tables
<1> HIDE DEF S, none
<1>2. ASSUME NEW t \in S, NEW n \in 1 .. nb
      PROVE  JoinFrontier(t, n - 1, preds[n - 1], idom, nb) \in S
  <2>1. n - 1 \in 0 .. nb - 1
    BY <1>0
  <2> QED
    BY <2>1, JoinNotes DEF S
<1>3. PICK g : Turns(g, S, none, nb, st)
  <2>1. st \in [S \X (1 .. nb) -> S]
    BY <1>2
  <2> HIDE DEF st
  <2> QED
    BY <1>0, <1>1, <2>1, LoopRuns
<1>4. g \in [0 .. nb -> S]
  BY <1>3 DEF Turns
<1>5. ASSUME NEW n \in 0 .. nb
      PROVE  g[n] = IF n = 0 THEN none ELSE JoinFrontier(g[n - 1], n - 1, preds[n - 1], idom, nb)
  <2>1. CASE n = 0
    BY <1>3, <2>1 DEF Turns
  <2>2. CASE n # 0
    <3>1. n \in 1 .. nb /\ n - 1 \in 0 .. nb
      BY <1>0, <2>2
    <3>2. g[n - 1] \in S
      BY <1>4, <3>1
    <3>3. st[<< g[n - 1], n >>] = JoinFrontier(g[n - 1], n - 1, preds[n - 1], idom, nb)
      BY <3>1, <3>2
    <3> HIDE DEF st
    <3> QED
      BY <1>3, <2>2, <3>3 DEF Turns
  <2> QED
    BY <2>1, <2>2
<1>6. Runs(g)
  BY <1>4, <1>5
<1>7. Runs(f)
  BY <1>6
<1>8. FrontiersFrom(nb, preds, idom) = f[nb]
  BY DEF FrontiersFrom, none
<1> HIDE DEF f
<1>9. ASSUME NEW n \in 0 .. nb
      PROVE  f[n] = IF n = 0 THEN none ELSE JoinFrontier(f[n - 1], n - 1, preds[n - 1], idom, nb)
  BY <1>7, Zenon
<1> DEFINE G == {n \in 0 .. nb : Found(nb, R, pr, idom, f[n], n)}
<1>10. 0 \in G
  <2>1. f[0] = none /\ 0 \in 0 .. nb
    BY <1>0, <1>9
  <2>2. \A x : EndsFrom(R, pr, idom, x, 0) = {}
    BY DEF EndsFrom
  <2>3. \A x \in R : none[x] = {}
    BY AboveDominates DEF none
  <2>4. Found(nb, R, pr, idom, none, 0)
    BY <1>1, <2>2, <2>3 DEF Found, S
  <2> QED
    BY <2>1, <2>4
<1>11. ASSUME NEW n \in 1 .. nb, n - 1 \in G PROVE n \in G
  <2>1. n \in 0 .. nb /\ n # 0 /\ Found(nb, R, pr, idom, f[n - 1], n - 1)
    BY <1>0, <1>11
  <2>2. f[n] = JoinFrontier(f[n - 1], n - 1, preds[n - 1], idom, nb)
    BY <1>9, <2>1
  <2>3. Found(nb, R, pr, idom, f[n], n)
    BY <2>1, <2>2, FoundStep
  <2> QED
    BY <2>1, <2>3
<1>12. \A n \in 0 .. nb : n \in G
  <2> HIDE DEF G
  <2> QED
    BY <1>0, <1>10, <1>11, EveryTurn
<1> QED
  BY <1>0, <1>8, <1>12

(* Where the dominance of x ends, in terms of the paths. *)
LEMMA EndsOnPaths ==
  ASSUME NEW nb, NEW R, NEW rpo, NEW preds, NEW pr, NEW post, NEW av, NEW idom,
         Setting(nb, R, rpo, preds, pr, post, av), Swept(nb, R, rpo, pr, av, idom, nb + 1),
         NEW x \in R, NEW b \in 0 .. nb - 1
  PROVE  LET far == b \in R /\ (\E p \in pr[b] \cap R : p \notin av[x][nb]) /\ (x = b \/ b \in av[x][nb])
         IN  /\ x \in Ends(R, pr, idom, b) => far
             /\ b # 0 /\ far => x \in Ends(R, pr, idom, b)
<1> DEFINE far == b \in R /\ (\E p \in pr[b] \cap R : p \notin av[x][nb]) /\ (x = b \/ b \in av[x][nb])
<1>1. /\ Numbering(nb, R, rpo) /\ Tree(nb, R, rpo, idom) /\ Known(idom) = R
      /\ R \subseteq 0 .. nb - 1 /\ nb \in Nat \ {0}
      /\ \A y \in R, a \in 0 .. nb - 1 : a \in Up(idom, y) <=> y \notin av[a][nb]
  BY AboveDominates
<1>2. Graph(nb, R, rpo, pr) /\ Rounds(nb, pr, av)
  BY DEF Setting
<1>3. x \in 0 .. nb - 1
  BY <1>1
<1>4. ASSUME x \in Ends(R, pr, idom, b) PROVE b \in R
  BY <1>2, <1>4 DEF Ends, Graph
<1>5. ASSUME b \in R, b # 0
      PROVE  x \notin Up(idom, idom[b]) <=> x = b \/ b \in av[x][nb]
  <2>1. Up(idom, b) = {b} \cup Up(idom, idom[b]) /\ idom[b] \in Known(idom)
    BY <1>1, <1>5, UpStep, TreeKnown
  <2>2. b \notin Up(idom, idom[b])
    <3>1. \A y \in Up(idom, idom[b]) : rpo[y] <= rpo[idom[b]]
      BY <1>1, <2>1, UpClimbs
    <3>2. rpo[idom[b]] < rpo[b] /\ rpo[b] \in Nat /\ rpo[idom[b]] \in Nat
      BY <1>1, <1>5, <2>1, TreeKnown
    <3> QED
      BY <3>1, <3>2
  <2>3. x \in Up(idom, b) <=> b \notin av[x][nb]
    BY <1>1, <1>3, <1>5
  <2> QED
    BY <2>1, <2>2, <2>3
<1>6. ASSUME NEW p \in R PROVE x \in Up(idom, p) <=> p \notin av[x][nb]
  BY <1>1, <1>3
<1>7. CASE b # 0
  <2>1. x \in Ends(R, pr, idom, b) <=> b \in R /\ \E p \in pr[b] \cap R : p \notin av[x][nb] /\ x \notin Up(idom, idom[b])
    BY <1>4, <1>6 DEF Ends
  <2> QED
    BY <1>5, <1>7, <2>1
<1>8. CASE b = 0
  <2>1. ASSUME x \in Ends(R, pr, idom, b) PROVE far
    <3>1. x # 0
      <4>1. Up(idom, idom[0]) = {0}
        BY <1>1, UpEntry, TreeKnown
      <4> QED
        BY <1>8, <2>1, <4>1 DEF Ends
    <3>2. 0 \in av[x][nb]
      <4>1. x \in 0 .. nb /\ 0 \in 0 .. nb /\ nb \in 0 .. nb
        BY <1>1, <1>3
      <4>2. 0 \in av[x][0]
        BY <1>2, <3>1, <4>1 DEF Rounds
      <4>3. av[x][0] \subseteq av[x][nb]
        BY <1>1, <1>2, <4>1, RoundsGrow
      <4> QED
        BY <4>2, <4>3
    <3>3. \E p \in pr[b] \cap R : p \notin av[x][nb]
      BY <1>6, <2>1 DEF Ends
    <3> QED
      BY <1>4, <1>8, <2>1, <3>2, <3>3
  <2> QED
    BY <1>8, <2>1
<1> QED
  BY <1>7, <1>8

(***************************************************************************)
(* Step 4 (bir_mem2reg.c:397-419) finds the dominance frontier of every    *)
(* block the entry reaches, whenever the frontier fits the table: each     *)
(* block where the dominance of the block ends, and no other.  The entry   *)
(* itself is left out on both sides: it is recorded as its own dominator,  *)
(* where every runner stops, and one back edge to it makes no join.        *)
(***************************************************************************)
THEOREM FrontiersAreExact ==
  ASSUME NEW M, NEW F, Shape(M, F)
  PROVE  LET preds == Step2BuildPreds(M, F)
         IN  DominanceFrontiers(M, F, Step4ComputeDf(F, preds, Step3ComputeDominators(M, F, preds)))
<1> DEFINE nb == F.num
           preds == Step2BuildPreds(M, F)
           pr == PredsOf(preds)
           post == PostOrder(M, F)
           rpo == RpoNum(post)
           R == DOMAIN rpo
           idom == IterateDominators(nb, preds, post, rpo)
           df == FrontiersFrom(nb, preds, idom)
<1>1. PICK av : Setting(nb, R, rpo, preds, pr, post, av) /\ Paths(M, F, av)
  BY ShapeSetting
<1>2. Step4ComputeDf(F, preds, Step3ComputeDominators(M, F, preds)) = df
  BY DEF Step4ComputeDf, Step3ComputeDominators, DominatorsFrom
<1>e. Edges(M, F, pr)
  BY Step2Edges
<1> HIDE DEF preds, pr, post, rpo, R, idom, df
<1>3. Swept(nb, R, rpo, pr, av, idom, nb + 1)
  BY <1>1, IterationFinds DEF idom
<1>4. Graph(nb, R, rpo, pr) /\ Rounds(nb, pr, av)
  BY <1>1 DEF Setting
<1>5. /\ nb \in Nat \ {0} /\ nb \in 0 .. nb /\ F.first \in Nat /\ R \subseteq 0 .. nb - 1
      /\ F.first + 0 = F.first /\ 0 \in 0 .. nb - 1
      /\ \A c \in BlocksOf(F) : c - F.first \in 0 .. nb - 1 /\ F.first + (c - F.first) = c
      /\ \A u \in 0 .. nb - 1 : F.first + u \in BlocksOf(F) /\ (F.first + u) - F.first = u
  <2>1. nb \in Nat \ {0} /\ F.first \in Nat /\ R \subseteq 0 .. nb - 1
    BY <1>4, BlockNumbers DEF Graph, Numbering
  <2> QED
    BY <2>1, BlockNumbers
<1>6. \A x \in 0 .. nb - 1 : F.first + x \in Reachable(M, F) <=> x \in R
  BY <1>1, <1>4, <1>5, ReachedAll DEF Paths, Beside
<1>7. \A a \in 0 .. nb - 1 : \A x \in 0 .. nb - 1 :
         F.first + x \in Around(M, F, F.first + a) <=> x \in av[a][nb]
  BY <1>1, <1>5 DEF Paths, Beside
<1>8. Reachable(M, F) \subseteq BlocksOf(F)
  <2>1. PICK f : Grown(M, F, {}, f) /\ f[F.num] = Reachable(M, F)
    BY ReachableGrown
  <2> QED
    BY <1>5, <2>1, GrownType
<1>9. ASSUME NEW u \in 0 .. nb - 1, NEW v \in 0 .. nb - 1
      PROVE  F.first + u \in PredSet(M, F, F.first + v) <=> u \in pr[v]
  <2>1. F.first + v \in SuccSet(M, F.first + u) <=> Joined(M, F, u, v)
    BY <1>9, SuccJoined
  <2>2. u \in pr[v] <=> Joined(M, F, u, v)
    BY <1>e, <1>9 DEF Edges, Joined
  <2> QED
    BY <1>5, <2>1, <2>2 DEF PredSet
<1>10. ASSUME NEW a \in Reachable(M, F), Cardinality(FrontierOf(M, F, a)) <= M2R_MAX_DF
       PROVE  {F.first + b : b \in df[a - F.first] \ {0}} = FrontierOf(M, F, a) \ {F.first}
  <2> DEFINE x == a - F.first
             Fr == EndsFrom(R, pr, idom, x, nb)
             frontier == FrontierOf(M, F, a)
  <2>1. x \in R /\ x \in 0 .. nb - 1 /\ F.first + x = a
    BY <1>5, <1>6, <1>8
  <2> HIDE DEF x
  <2>2. frontier \subseteq BlocksOf(F)
    BY <1>8 DEF FrontierOf
  <2>3. ASSUME NEW b \in 0 .. nb - 1
        PROVE  F.first + b \in frontier <=>
                 b \in R /\ (\E p \in pr[b] \cap R : p \notin av[x][nb]) /\ (x = b \/ b \in av[x][nb])
    <3>1. F.first + b \in Reachable(M, F) <=> b \in R
      BY <1>6
    <3>2. (\E c \in PredSet(M, F, F.first + b) : c \in Reachable(M, F) /\ c \notin Around(M, F, a))
            <=> \E p \in pr[b] \cap R : p \notin av[x][nb]
      <4>1. ASSUME NEW c \in PredSet(M, F, F.first + b), c \in Reachable(M, F), c \notin Around(M, F, a)
            PROVE  \E p \in pr[b] \cap R : p \notin av[x][nb]
        <5> DEFINE u == c - F.first
        <5>1. u \in 0 .. nb - 1 /\ F.first + u = c
          BY <1>5, <4>1 DEF PredSet
        <5> HIDE DEF u
        <5> QED
          BY <1>6, <1>7, <1>9, <2>1, <4>1, <5>1
      <4>2. ASSUME NEW p \in pr[b] \cap R, p \notin av[x][nb]
            PROVE  \E c \in PredSet(M, F, F.first + b) : c \in Reachable(M, F) /\ c \notin Around(M, F, a)
        <5>1. p \in 0 .. nb - 1
          BY <1>5
        <5>2. F.first + p \in PredSet(M, F, F.first + b)
          BY <1>9, <4>2, <5>1
        <5> QED
          BY <1>6, <1>7, <2>1, <4>2, <5>1, <5>2
      <4> QED
        BY <4>1, <4>2
    <3>3. F.first + b \in Around(M, F, a) <=> b \in av[x][nb]
      BY <1>7, <2>1
    <3>4. a = F.first + b <=> x = b
      BY <1>5, <2>1
    <3> QED
      BY <3>1, <3>2, <3>3, <3>4 DEF FrontierOf
  <2>4. /\ \A b \in Fr : b \in 0 .. nb - 1 /\ F.first + b \in frontier
        /\ \A b \in 0 .. nb - 1 : b # 0 /\ F.first + b \in frontier => b \in Fr
    <3>1. ASSUME NEW b \in 0 .. nb - 1
          PROVE  /\ b \in Fr => F.first + b \in frontier
                 /\ b # 0 /\ F.first + b \in frontier => b \in Fr
      <4>1. b \in Fr <=> x \in Ends(R, pr, idom, b)
        BY DEF EndsFrom
      <4> DEFINE far == b \in R /\ (\E p \in pr[b] \cap R : p \notin av[x][nb]) /\ (x = b \/ b \in av[x][nb])
      <4>2. (x \in Ends(R, pr, idom, b) => far) /\ (b # 0 /\ far => x \in Ends(R, pr, idom, b))
        BY <1>1, <1>3, <2>1, EndsOnPaths
      <4>3. F.first + b \in frontier <=> far
        BY <2>3
      <4> HIDE DEF far, frontier, Fr
      <4> QED
        BY <4>1, <4>2, <4>3
    <3>2. \A b \in Fr : b \in 0 .. nb - 1
      BY DEF EndsFrom
    <3> HIDE DEF Fr, frontier
    <3> QED
      BY <3>1, <3>2
  <2> HIDE DEF Fr, frontier
  <2>5. Cardinality(Fr) <= M2R_MAX_DF
    <3> DEFINE g == [c \in frontier |-> c - F.first]
               T == {g[c] : c \in frontier}
    <3>1. IsFiniteSet(BlocksOf(F))
      <4>1. \A i, j \in Int : IsFiniteSet(i .. j)
        BY FS_Interval
      <4>2. F.first \in Int /\ F.first + F.num - 1 \in Int
        <5>1. F.first \in Nat /\ nb \in Nat
          BY <1>4, BlockNumbers DEF Graph, Numbering
        <5> QED
          BY <1>5, <5>1
      <4>3. BlocksOf(F) = F.first .. F.first + F.num - 1
        BY DEF BlocksOf
      <4> QED
        BY <4>1, <4>2, <4>3
    <3>2. IsFiniteSet(frontier) /\ Cardinality(frontier) \in Nat
      BY <2>2, <3>1, FS_Subset, FS_CardinalityType
    <3>3. g \in Surjection(frontier, T)
      BY DEF Surjection
    <3>4. IsFiniteSet(T) /\ Cardinality(T) <= Cardinality(frontier)
      <4> HIDE DEF g, T
      <4> QED
        BY <3>2, <3>3, FS_Surjection
    <3>5. Fr \subseteq T
      <4>1. ASSUME NEW b \in Fr PROVE b \in T
        <5>1. F.first + b \in frontier /\ (F.first + b) - F.first = b
          BY <1>5, <2>4
        <5>2. g[F.first + b] = b
          BY <5>1
        <5> QED
          BY <5>1, <5>2
      <4> QED
        BY <4>1
    <3> HIDE DEF g, T
    <3>6. Cardinality(Fr) <= Cardinality(T) /\ IsFiniteSet(Fr)
      BY <3>4, <3>5, FS_Subset
    <3>7. Cardinality(Fr) \in Nat /\ Cardinality(T) \in Nat
      BY <3>4, <3>6, FS_CardinalityType
    <3> QED
      BY <1>10, <3>2, <3>4, <3>6, <3>7, FrontierAssumption DEF frontier
  <2>6. df[x] \subseteq Fr /\ Fr \ {0} \subseteq df[x]
    <3>1. Found(nb, R, pr, idom, df, nb)
      BY <1>1, <1>3, FrontiersFound DEF df
    <3> QED
      BY <2>1, <2>5, <3>1 DEF Found, Fr
  <2>7. ASSUME NEW b \in df[x] \ {0} PROVE F.first + b \in frontier \ {F.first}
    BY <1>5, <2>4, <2>6
  <2>8. ASSUME NEW c \in frontier \ {F.first} PROVE \E b \in df[x] \ {0} : c = F.first + b
    <3>1. c - F.first \in 0 .. nb - 1 /\ F.first + (c - F.first) = c
      BY <1>5, <2>2
    <3>2. c - F.first # 0
      BY <1>5, <3>1
    <3>3. c - F.first \in Fr
      BY <2>4, <3>1, <3>2
    <3> QED
      BY <2>6, <3>1, <3>2, <3>3
  <2> QED
    BY <2>7, <2>8 DEF x, frontier
<1>11. DominanceFrontiers(M, F, df)
  BY <1>10 DEF DominanceFrontiers
<1> QED
  BY <1>2, <1>11 DEF preds
=============================================================================
