----------------------------- MODULE BirScalar ------------------------------
(***************************************************************************)
(* The passes around mem2reg: bir_sroa.c and bir_insert.c, bir_cfold.c and *)
(* bir_dce.c.                                                              *)
(***************************************************************************)
EXTENDS BirMem2Reg
LOCAL INSTANCE Bitwise

(***************************************************************************)
(* src/src/ir/bir_sroa.c and bir_insert.c: a struct alloca reached only    *)
(* through constant-index field addresses, each used only to load and      *)
(* store, becomes one scalar alloca per field, inserted in its place.      *)
(***************************************************************************)

CONSTANT StructFields   \* number of fields of the struct type, all scalar
ASSUME FieldsAssumption == StructFields \in Nat \ {0}

(***************************************************************************)
(* bir_insert: new instructions at position pos of block blk.  The tail of *)
(* the arena moves up, later blocks with it, the owning function grows,    *)
(* and every value at or past the point is renumbered.                     *)
(***************************************************************************)
Rv(v, at, n) == IF v >= at THEN v + n ELSE v

(* Mutant: the line table is extended and not moved up. *)
InsertLinesStay(lines, at, n) ==
    [i \in 0 .. Cardinality(DOMAIN lines) + n - 1 |->
        IF i \in DOMAIN lines THEN lines[i] ELSE 0]

(* The lines move with the instructions; a new one has none. *)
InsertLines(lines, at, n) ==
    [i \in 0 .. Cardinality(DOMAIN lines) + n - 1 |->
        IF i < at THEN lines[i] ELSE IF i < at + n THEN 0 ELSE lines[i - n]]

BirInsert(M, blk, pos, src) ==
    LET n == Len(src)
        at == M.blocks[blk].first + pos
        New(i) == i \in at .. at + n - 1
        Ref(I) == MapValues(I, LAMBDA v : Rv(v, at, n))
    IN  [M EXCEPT
           !.insts = [i \in 0 .. NumInsts(M) + n - 1 |->
               IF New(i) THEN src[i - at + 1]
               ELSE Ref(IF i < at THEN @[i] ELSE @[i - n])],
           !.lines = InsertLines(@, at, n),
           !.blocks = [b \in DOMAIN @ |->
               IF b = blk THEN [@[b] EXCEPT !.num = @ + n]
               ELSE IF @[b].first >= at THEN [@[b] EXCEPT !.first = @ + n] ELSE @[b]],
           !.funcs = [f \in DOMAIN @ |->
               IF blk \in BlocksOf(@[f]) THEN [@[f] EXCEPT !.total = @ + n] ELSE @[f]]]

(* The two scans of try_alloca: the struct's field addresses, and the loads
   and stores through them. *)
Geps(M, F, sa) ==
    {i \in Range0(M, F) : M.insts[i].op = "gep" /\ M.insts[i].ops[1] = sa}

AddrSlot(I) == IF I.op = "store" THEN 2 ELSE 1
GepUses(M, F, g) ==
    {i \in Range0(M, F) : /\ M.insts[i].op \in {"load", "store"}
                          /\ M.insts[i].ops[AddrSlot(M.insts[i])] = g}

Field(I) == ConstVal(I.ops[2])

Eligible(M, F, sa) ==
    LET geps == Geps(M, F, sa) IN
    /\ M.insts[sa].op = "alloca" /\ M.insts[sa].ty = "sptr"
    /\ geps # {}
    /\ \A g \in geps : IsInt(M.insts[g].ops[2]) /\ Field(M.insts[g]) \in 0 .. StructFields - 1
    /\ \A i \in Range0(M, F) \ (geps \cup {sa}) : sa \notin Values(M.insts[i])
    /\ \A g \in geps : \A i \in Range0(M, F) \ (GepUses(M, F, g) \cup {g}) :
          g \notin Values(M.insts[i])
    /\ UNION {GepUses(M, F, g) : g \in geps} # {}

(* The rewrite: fields in the order their first address is taken. *)
Split(M, F, sa) ==
    LET geps == Ascending(Geps(M, F, sa))
        fields == ForEach(geps, <<>>, LAMBDA acc, g :
                     IF \E k \in DOMAIN acc : acc[k] = Field(M.insts[g]) THEN acc
                     ELSE Append(acc, Field(M.insts[g])))
        SlotOf(f) == (CHOOSE k \in DOMAIN fields : fields[k] = f) - 1
        n == Len(fields)
        blk == CHOOSE b \in BlocksOf(F) : sa \in InstsOf(M, b)
        new == [k \in 1 .. n |-> [op |-> "alloca", ty |-> "ptr", tag |-> 0, ops |-> <<>>,
                                  sub |-> M.insts[sa].sub]]
        grown == BirInsert(M, blk, sa - M.blocks[blk].first, new)
        Point(g) == {<< i + n, sa + SlotOf(Field(M.insts[g])) >> : i \in GepUses(M, F, g)}
        points == UNION {Point(geps[k]) : k \in DOMAIN geps}
    IN  [grown EXCEPT !.insts = [i \in DOMAIN @ |->
            LET I == @[i]
                to == {p[2] : p \in {q \in points : q[1] = i}}
            IN  IF to = {} THEN I
                ELSE [I EXCEPT !.ops[AddrSlot(I)] = CHOOSE v \in to : TRUE]]]

(* One struct alloca at a time, rescanning, until none is eligible. *)
SroaFunc(M, fi) ==
    LET Todo(m) == {sa \in Range0(m, m.funcs[fi]) : Eligible(m, m.funcs[fi], sa)}
        First(m) == CHOOSE sa \in Todo(m) : \A t \in Todo(m) : sa <= t
    IN  While(M, NumInsts(M), LAMBDA m : Todo(m) = {},
              LAMBDA m : Split(m, m.funcs[fi], First(m)))

Sroa(M) == For(1, Len(M.funcs) + 1, M, SroaFunc)

-----------------------------------------------------------------------------

(***************************************************************************)
(* src/src/ir/bir_cfold.c: constant folding, one forward pass over the     *)
(* blocks in index order.  rw[i] is val_rewrite[]: what stands for the     *)
(* result of instruction i from here on.  Floating point is left out.      *)
(***************************************************************************)

MaskToWidth(v, w) == v % 2^w
SignExtend(v, w) ==
    LET m == MaskToWidth(v, w) IN IF m >= 2^(w - 1) THEN m - 2^w ELSE m

Pow2(n) == 2^n
TruncDiv(a, b) ==
    LET q == (IF a < 0 THEN -a ELSE a) \div (IF b < 0 THEN -b ELSE b)
    IN  IF (a < 0) = (b < 0) THEN q ELSE -q

(* Integer comparison of two constants, both at the width of the first. *)
FoldIcmp(pred, a, b, w) ==
    LET ua == MaskToWidth(a, w)
        ub == MaskToWidth(b, w)
        sa == SignExtend(a, w)
        sb == SignExtend(b, w)
        yes == CASE pred = "eq"  -> ua = ub
                 [] pred = "ne"  -> ua # ub
                 [] pred = "slt" -> sa < sb
                 [] pred = "sle" -> sa <= sb
                 [] pred = "sgt" -> sa > sb
                 [] pred = "sge" -> sa >= sb
                 [] pred = "ult" -> ua < ub
                 [] pred = "ule" -> ua <= ub
                 [] pred = "ugt" -> ua > ub
                 [] OTHER        -> ua >= ub
    IN  IF yes THEN 1 ELSE 0

Foldable == {"add", "sub", "mul", "sdiv", "udiv", "srem", "urem", "and", "or", "xor",
             "shl", "lshr", "ashr"}

(* Integer arithmetic; a division by zero is left for run time. *)
CanFoldInt(op, b) == op \in Foldable /\ (op \in {"sdiv", "udiv", "srem", "urem"} => b # 0)

(* Operands at the width sw of the first, the result at rw. *)
FoldInt(op, a, b, w, rw) ==
    LET sa == SignExtend(a, w)
        sb == SignExtend(b, w)
        ua == MaskToWidth(a, w)
        ub == MaskToWidth(b, w)
        sh == b % w
        r == CASE op = "add"  -> a + b
               [] op = "sub"  -> a - b
               [] op = "mul"  -> a * b
               [] op = "sdiv" -> TruncDiv(sa, sb)
               [] op = "udiv" -> ua \div ub
               [] op = "srem" -> sa - sb * TruncDiv(sa, sb)
               [] op = "urem" -> ua % ub
               [] op = "and"  -> ua & ub
               [] op = "or"   -> ua | ub
               [] op = "xor"  -> ua ^^ ub
               [] op = "shl"  -> a * Pow2(sh)
               [] op = "lshr" -> ua \div Pow2(sh)
               [] OTHER       -> sa \div Pow2(sh)
    IN  MaskToWidth(r, rw)

(* trunc, zext, sext of a constant of width w. *)
FoldConv(op, a, w, rw) ==
    MaskToWidth(CASE op = "sext" -> SignExtend(a, w) [] op = "zext" -> MaskToWidth(a, w)
                  [] OTHER -> a, rw)

(* cfpe: block b loses the edge from `from`; its phis forget the entry. *)
DropEntry(I, from) ==
    LET kept == SelectSeq([k \in 1 .. (Len(I.ops) \div 2) |-> k],
                          LAMBDA k : I.ops[2 * k - 1] # from)
    IN  [I EXCEPT !.ops = [j \in 1 .. 2 * Len(kept) |->
            I.ops[2 * kept[(j + 1) \div 2] - (j % 2)]]]

(* Mutant: the edge goes, the phi entries stay. *)
CfpeForgotten(M, from, b) == M

Cfpe(M, from, b) ==
    IF b \notin DOMAIN M.blocks THEN M
    ELSE [M EXCEPT !.insts = [i \in DOMAIN @ |->
            IF i \in InstsOf(M, b) /\ @[i].op = "phi"
            THEN DropEntry(@[i], from) ELSE @[i]]]

(* try_fold on instruction i of block ab, its operands already rewritten. *)
TryFold(s, i, ab) ==
    LET I == s.M.insts[i]
        c == I.ops[1]
        taken == IsInt(c) /\ ConstVal(c) # 0
        keep == IF taken THEN I.ops[2] ELSE I.ops[3]
        lost == IF taken THEN I.ops[3] ELSE I.ops[2]
        cut == [s.M EXCEPT !.insts[i] = [@ EXCEPT !.op = "br", !.ops = << keep >>]]
        Both == Len(I.ops) = 2 /\ IsInt(I.ops[1]) /\ IsInt(I.ops[2])
        sw == Bits[ConstType(c)]
        Rw(v) == [s EXCEPT !.rw[i] = v]
        RwInt(v) == Rw(TypedConst(v, I.ty))
    IN  CASE I.op = "phi" -> IF Len(I.ops) = 2 THEN Rw(I.ops[2]) ELSE s
          [] I.op = "select" -> IF IsInt(c) THEN Rw(keep) ELSE s
          [] I.op = "br_cond" ->
               IF ~(IsInt(c) \/ c = ZERO) THEN s
               ELSE [s EXCEPT !.M = IF lost # keep THEN Cfpe(cut, ab, lost) ELSE cut]
          [] I.op = "icmp" /\ Both ->
               RwInt(FoldIcmp(I.sub, ConstVal(c), ConstVal(I.ops[2]), sw))
          [] I.op \in Foldable /\ Both ->
               IF CanFoldInt(I.op, ConstVal(I.ops[2]))
               THEN RwInt(FoldInt(I.op, ConstVal(c), ConstVal(I.ops[2]), sw, Bits[I.ty]))
               ELSE s
          [] I.op \in {"trunc", "zext", "sext"} /\ IsInt(c) ->
               RwInt(FoldConv(I.op, ConstVal(c), sw, Bits[I.ty]))
          [] OTHER -> s

RewriteVal(rw, v) == IF v \in DOMAIN rw /\ rw[v] # NONE THEN rw[v] ELSE v

CfRunFunc(M, fi) ==
    LET F == M.funcs[fi]
        Visit(s, i, ab) ==
            TryFold([s EXCEPT !.M.insts[i] = MapValues(@, LAMBDA v : RewriteVal(s.rw, v))],
                    i, ab)
        Block(s, ab) == For(M.blocks[ab].first, M.blocks[ab].first + M.blocks[ab].num,
                            s, LAMBDA x, i : Visit(x, i, ab))
        start == [M |-> M, rw |-> [i \in DOMAIN M.insts |-> NONE]]
    IN  IF F.num = 0 \/ F.total = 0 THEN M
        ELSE For(F.first, F.first + F.num, start, Block).M

Cfold(M) == For(1, Len(M.funcs) + 1, M, CfRunFunc)

-----------------------------------------------------------------------------

(***************************************************************************)
(* src/src/ir/bir_dce.c: blank the blocks the entry cannot reach, drop     *)
(* their entries from the phis, delete unused pure instructions until      *)
(* nothing changes, compact.                                               *)
(***************************************************************************)

PureOps == {"add", "sub", "mul", "sdiv", "udiv", "srem", "urem", "and", "or", "xor",
            "shl", "lshr", "ashr", "icmp", "trunc", "zext", "sext", "ptrtoint", "inttoptr",
            "bitcast", "phi", "alloca", "global_ref", "gep", "thread_id", "select", "fnref"}

(* Mutant: an entry is kept as long as its block is in the function. *)
PliveAlways(M, F, rch, p, b) == TRUE

(* plive: the entry's block is outside the function, or it is reached and
   still branches to b. *)
Plive(M, F, rch, p, b) == p \notin BlocksOf(F) \/ (p \in rch /\ b \in SuccSet(M, p))

Phix(M, F, rch, b, I) ==
    LET kept == SelectSeq([k \in 1 .. (Len(I.ops) \div 2) |-> k],
                          LAMBDA k : Plive(M, F, rch, I.ops[2 * k - 1], b))
    IN  [I EXCEPT !.ops = [j \in 1 .. 2 * Len(kept) |->
            I.ops[2 * kept[(j + 1) \div 2] - (j % 2)]]]

(* rchk: an unreached block keeps its first slot, as `unreachable`. *)
Rchk(M, F) ==
    LET rch == Reachable(M, F)
        gone == {b \in BlocksOf(F) \ rch : b # F.first /\ M.blocks[b].num > 0}
        stub == {M.blocks[b].first : b \in gone}
        Live(b, I) == IF I.op = "phi" THEN Phix(M, F, rch, b, I) ELSE I
        blank == [i \in DOMAIN M.insts |->
                     IF i \in stub
                     THEN [M.insts[i] EXCEPT !.op = "unreachable", !.sub = 0,
                                             !.ops = <<>>, !.ty = "void"]
                     ELSE M.insts[i]]
    IN  [M |-> [M EXCEPT !.insts = [i \in DOMAIN @ |->
                  LET own == {b \in rch : i \in InstsOf(M, b)}
                  IN  IF own = {} THEN blank[i]
                      ELSE Live(CHOOSE b \in own : TRUE, blank[i])]],
         dead |-> UNION {InstsOf(M, b) : b \in gone} \ stub]

(* dce_pass: a use by a live instruction keeps a pure one; so does a
   volatile load's own effect.  At most 99 rounds. *)
DcePass(M, F, dead) ==
    LET All == FuncInsts(M, F)
        Used(d) == UNION {Values(M.insts[i]) : i \in All \ d}
        Pure(I) == I.op \in PureOps \/ (I.op = "load" /\ I.sub = 0)
        Kill(d) == {i \in All \ d : i \notin Used(d) /\ Pure(M.insts[i])}
    IN  While(dead, 99, LAMBDA d : Kill(d) = {}, LAMBDA d : d \cup Kill(d))

(* compact: the survivors, read block by block, are written one after another
   from the function's first slot, in place; then every operand is renumbered. *)
Survivors(M, F, dead) ==
    For(F.first, F.first + F.num, <<>>, LAMBDA acc, b :
        acc \o SelectSeq([k \in 1 .. M.blocks[b].num |-> M.blocks[b].first + k - 1],
                         LAMBDA i : i \notin dead))

Moved(M, base, order) ==
    For(1, Len(order) + 1, M, LAMBDA m, k :
        [m EXCEPT !.insts[base + k - 1] = m.insts[order[k]],
                  !.lines[base + k - 1] = m.lines[order[k]]])

CompactTo(M, F, fi, dead, base, order) ==
    LET renum == Renumber(order, base)
        Alive(b) == Cardinality(InstsOf(M, b) \ dead)
        Lead(b) == base + For(F.first, b, 0, LAMBDA n, c : n + Alive(c))
    IN  [Moved(M, base, order) EXCEPT
           !.insts = [i \in DOMAIN @ |->
               IF i \in base .. (base + Len(order) - 1)
               THEN MapValues(@[i], LAMBDA v : IF v \in DOMAIN renum THEN renum[v] ELSE v)
               ELSE @[i]],
           !.blocks = [b \in DOMAIN @ |->
               IF b \in BlocksOf(F) THEN [first |-> Lead(b), num |-> Alive(b)] ELSE @[b]],
           !.funcs[fi].total = Len(order)]

Compact(M, F, fi, dead) ==
    CompactTo(M, F, fi, dead, M.blocks[F.first].first, Survivors(M, F, dead))

OptRunFunc(M, fi) ==
    LET F == M.funcs[fi]
        r == Rchk(M, F)
        dead == DcePass(r.M, F, r.dead)
    IN  IF F.num = 0 \/ F.total = 0 THEN M
        ELSE IF dead = {} /\ r.M = M THEN M
        ELSE Compact(r.M, F, fi, dead)

Dce(M) ==
    LET end == For(1, Len(M.funcs) + 1, M, OptRunFunc)
    IN  IF end = M THEN M ELSE CloseGaps(end)
=============================================================================
