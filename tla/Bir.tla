-------------------------------- MODULE Bir --------------------------------
(***************************************************************************)
(* Booth's intermediate form, src/src/ir/bir.h: one flat instruction arena *)
(* addressed by absolute index, blocks as slices of it, functions as       *)
(* slices of the block table, and a line table parallel to the arena.      *)
(*                                                                         *)
(*   M.insts, M.lines  functions on 0 .. NumInsts(M)-1                     *)
(*   M.blocks          function on 0 .. NumBlocks(M)-1 to [first, num]     *)
(*   M.funcs           sequence of [first, num, total, dev, np, void]      *)
(*                                                                         *)
(* An operand is one integer, as in the code: a value is the index of its  *)
(* instruction, a constant and BIR_VAL_NONE lie outside the indices, and a *)
(* block, function or global operand is a bare index that nothing but the  *)
(* opcode tells from a value.  The inline and the overflow encoding of an  *)
(* operand list are one sequence here; types are the few kinds the passes  *)
(* tell apart: integers by name, pointers to a private scalar by what they *)
(* point at, "sptr" to a struct, "aptr" to an array, "gptr" for any other; *)
(* the arenas' capacities are left out: filling one sets pool_full and     *)
(* bir_pchk then refuses the module.                                       *)
(***************************************************************************)
EXTENDS Integers, Sequences, FiniteSets

CONSTANT Bits   \* the width of each integer type
IntTypes == << "i32", "i1", "i8", "i64", "f32" >>
ASSUME BitsAssumption ==
    Bits \in [{"i1", "i8", "i32", "i64"} -> Nat \ {0}] /\ Bits["i1"] = 1

(* What a pointer to a private scalar points at. *)
Pointee == [ptr |-> "i32", ptr1 |-> "i1", ptr8 |-> "i8", ptr64 |-> "i64", pptr |-> "gptr"]

NONE == -1
UNDEF == -50
ZERO == -51
Const(c) == -100 - c
IsConst(v) == v < NONE
IsInt(v) == v < ZERO

(* An integer constant, -512 to 511, of integer type t. *)
TypedConst(c, t) == Const(c) - 1024 * ((CHOOSE k \in DOMAIN IntTypes : IntTypes[k] = t) - 1)
ConstVal(v) == ((412 - v) % 1024) - 512
ConstType(v) == IntTypes[((412 - v) \div 1024) + 1]

NumInsts(M) == Cardinality(DOMAIN M.insts)
NumBlocks(M) == Cardinality(DOMAIN M.blocks)

(* The members of a finite set of integers in ascending order. *)
Ascending(S) ==
    LET k == Cardinality(S)
        at[i \in 0 .. k] ==
            IF i = 0 THEN << <<>>, S >>
            ELSE LET p == at[i - 1]
                     m == CHOOSE a \in p[2] : \A b \in p[2] : a <= b
                 IN  << Append(p[1], m), p[2] \ {m} >>
    IN  at[k][1]

Append0(f, x) == [i \in 0 .. Cardinality(DOMAIN f) |->
                     IF i \in DOMAIN f THEN f[i] ELSE x]

(***************************************************************************)
(* Operand j (counted from 0) of this opcode is a block, function or       *)
(* global index and not a value.                                           *)
(***************************************************************************)
IsBlockRef(op, j) ==
    CASE op = "br"                               -> j = 0
      [] op = "br_cond"                          -> j \in 1 .. 3
      [] op = "switch"                           -> j % 2 = 1
      [] op = "phi"                              -> j % 2 = 0
      [] op \in {"call", "fnref", "global_ref"}  -> j = 0
      [] OTHER                                   -> FALSE

Values(I) == {I.ops[j] : j \in {k \in 1 .. Len(I.ops) : ~IsBlockRef(I.op, k - 1)}}

MapValues(I, F(_)) ==
    [I EXCEPT !.ops = [j \in DOMAIN @ |->
        IF IsBlockRef(I.op, j - 1) THEN @[j] ELSE F(@[j])]]

InstsOf(M, b) == M.blocks[b].first .. (M.blocks[b].first + M.blocks[b].num - 1)
BlocksOf(F) == F.first .. (F.first + F.num - 1)

(* The successors of a block, in the order of its terminator's operands. *)
Targets(I) ==
    CASE I.op = "br"      -> << I.ops[1] >>
      [] I.op = "br_cond" -> << I.ops[2], I.ops[3] >>
      [] I.op = "switch"  -> [k \in 1 .. (Len(I.ops) \div 2) |-> I.ops[2 * k]]
      [] OTHER            -> <<>>

Succs(M, b) ==
    LET B == M.blocks[b]
    IN  IF B.num = 0 THEN <<>> ELSE Targets(M.insts[B.first + B.num - 1])

SuccSet(M, b) == {Succs(M, b)[k] : k \in DOMAIN Succs(M, b)}
PredSet(M, F, b) == {p \in BlocksOf(F) : b \in SuccSet(M, p)}

(* Blocks of F that can be reached from its entry. *)
Reachable(M, F) ==
    LET grow[n \in 0 .. F.num] ==
            IF n = 0 THEN {F.first}
            ELSE LET r == grow[n - 1] IN r \cup UNION {SuccSet(M, b) : b \in r}
    IN  IF F.num = 0 THEN {} ELSE grow[F.num]

(***************************************************************************)
(* bir_vchk, the verifier the driver runs after lowering and the inliner   *)
(* runs on its own result: functions do not overlap, every block operand   *)
(* is a block of the function and every value an instruction of it, each   *)
(* phi names each predecessor once, and calls pass the parameters the      *)
(* callee has.                                                             *)
(***************************************************************************)
Range0(M, F) == UNION {InstsOf(M, b) : b \in BlocksOf(F)}

(* vfrng: from the function's first slot to its last. *)
Vfrng(M, F) ==
    LET r == Range0(M, F)
        lo == CHOOSE a \in r : \A b \in r : a <= b
        hi == CHOOSE a \in r : \A b \in r : b <= a
    IN  IF r = {} THEN {} ELSE lo .. hi

PhiPreds(I) == [k \in 1 .. (Len(I.ops) \div 2) |-> I.ops[2 * k - 1]]

VPhiOk(M, F, b, I) ==
    LET ps == PhiPreds(I) IN
    /\ \A j, k \in DOMAIN ps : ps[j] = ps[k] => j = k
    /\ {ps[k] : k \in DOMAIN ps} = PredSet(M, F, b)

VInstOk(M, F, rng, b, I) ==
    /\ I.op = "call" => Len(I.ops) - 1 = M.funcs[I.ops[1] + 1].np
    /\ I.op = "ret" => (F.void <=> I.ops = <<>>)
    /\ \A j \in DOMAIN I.ops :
         LET o == I.ops[j] IN
         IF IsBlockRef(I.op, j - 1)
         THEN I.op \in {"call", "fnref", "global_ref"} \/ o \in BlocksOf(F)
         ELSE o < 0 \/ o \in rng
    /\ I.op = "phi" => VPhiOk(M, F, b, I)

Vchk(M) ==
    /\ \A f, g \in DOMAIN M.funcs : f < g =>
         /\ BlocksOf(M.funcs[f]) \cap BlocksOf(M.funcs[g]) = {}
         /\ Vfrng(M, M.funcs[f]) \cap Vfrng(M, M.funcs[g]) = {}
    /\ \A f \in DOMAIN M.funcs :
         LET F == M.funcs[f]
             rng == Vfrng(M, F)
         IN  \A b \in BlocksOf(F) : \A i \in InstsOf(M, b) :
                 VInstOk(M, F, rng, b, M.insts[i])
=============================================================================
