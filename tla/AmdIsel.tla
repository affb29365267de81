------------------------------ MODULE AmdIsel -------------------------------
(***************************************************************************)
(* src/src/amdgpu/isel.c, BIR to the instructions of a wave of lanes that  *)
(* share a program counter.  A value that may differ between lanes is in a *)
(* vector register, any other in a scalar one; a branch the lanes disagree *)
(* about becomes a change of the mask EXEC of those that take part.  Then  *)
(* the phis (emit.c) and the checks of verify.c; registers stay numbered   *)
(* as they were made, their allocation and the schedule being left out.    *)
(***************************************************************************)
EXTENDS KernelExec

Opd(k, n) == [k |-> k, n |-> n]
(* Physical registers, those made here, literals, blocks, special ones. *)
Sgpr(n) == Opd("s", n)
Vgpr(n) == Opd("v", n)
VregS(n) == Opd("S", n)
VregV(n) == Opd("V", n)
Vreg(n, vec) == IF vec THEN VregV(n) ELSE VregS(n)
Lit(v) == Opd("i", Signed(v % 2^W32, W32))
Label(mb) == Opd("b", mb)
Vcc == Opd("vcc", 0)
Exec == Opd("exec", 0)
InVgpr(o) == o.k \in {"v", "V"}

(* An instruction: its format, what it does, what it defines and uses. *)
Ins(f, op, d, u) == [f |-> f, op |-> op, d |-> d, u |-> u]
V1(op, d, a) == Ins("vop1", op, << d >>, << a >>)
V2(op, d, a, b) == Ins("vop2", op, << d >>, << a, b >>)
V3(op, d, a, b) == Ins("vop3", op, << d >>, << a, b >>)
S1(op, d, a) == Ins("sop1", op, << d >>, << a >>)
S2(op, d, a, b) == Ins("sop2", op, << d >>, << a, b >>)
Jump(op, mb) == Ins("sopp", op, <<>>, << Label(mb) >>)

(***************************************************************************)
(* build_blk_ord: the blocks depth first, the arms of a branch in front of *)
(* the block where they meet, which neither arm is followed into.          *)
(***************************************************************************)
NoBlock == -1
Later(I, supp) ==
    LET meet == I.ops[4] IN
    CASE I.op = "br" -> IF I.ops[1] = supp THEN <<>> ELSE << << I.ops[1], supp >> >>
      [] I.op = "br_cond" /\ Len(I.ops) < 4 -> << << I.ops[3], supp >>, << I.ops[2], supp >> >>
      [] I.op = "br_cond" /\ I.ops[3] = meet -> << << meet, supp >>, << I.ops[2], supp >> >>
      [] I.op = "br_cond" -> << << meet, supp >>, << I.ops[3], supp >>, << I.ops[2], meet >> >>
      [] OTHER -> <<>>
LastInst(M, b) == M.insts[M.blocks[b].first + M.blocks[b].num - 1]
BuildBlkOrd(M, F) ==
    LET Visited(s, b) == \E k \in DOMAIN s.ord : s.ord[k] = b
        Visit(s, w) == [stk |-> s.stk \o Later(LastInst(M, w[1]), w[2]), ord |-> Append(s.ord, w[1])]
        Pop(s, w) == IF Visited(s, w[1]) THEN s ELSE Visit(s, w)
        Turn(s) == Pop([s EXCEPT !.stk = SubSeq(@, 1, Len(@) - 1)], s.stk[Len(s.stk)])
        found == While([stk |-> << << F.first, NoBlock >> >>, ord |-> <<>>], 4 * F.num,
                       LAMBDA s : s.stk = <<>>, Turn)
    IN  found.ord \o SelectSeq([k \in 1 .. F.num |-> F.first + k - 1], LAMBDA b : ~Visited(found, b))

(***************************************************************************)
(* divergence_analysis: what may differ between lanes.                     *)
(***************************************************************************)
Seeds == {"thread_id", "shfl", "shfl_up", "shfl_down", "shfl_xor", "alloca", "mma", "mfrg", "mfma", "atomic_cas"}
         \cup AtomicRmw
Uniform == {"block_id", "block_dim", "grid_dim", "param"}
Untracked == {"br", "br_cond", "ret", "unreachable", "store"}
Spreads(M, I, dv) ==
    LET Div(k) == I.ops[k] \in dv
        FromFork(p) == LET T == LastInst(M, p) IN T.op = "br_cond" /\ T.ops[1] \in dv
    IN  CASE I.op \in Uniform \cup Untracked -> FALSE
          [] I.op = "phi"  -> \E k \in DOMAIN I.ops : IF k % 2 = 0 THEN Div(k) ELSE FromFork(I.ops[k])
          [] I.op = "load" -> Div(1)
          [] I.op = "call" -> \E k \in 2 .. Len(I.ops) : Div(k)
          [] I.op = "switch" -> \E k \in DOMAIN I.ops \ {2} : Div(k)
          [] OTHER -> \E k \in DOMAIN I.ops : Div(k)
Divergent(M, F) ==
    LET all == Range0(M, F)
        seeds == {ix \in all : M.insts[ix].op \in Seeds \/ (F.dev /\ M.insts[ix].op = "param")}
        Wider(dv) == dv \cup {ix \in all : Spreads(M, M.insts[ix], dv)}
    IN  While(seeds, Cardinality(all), LAMBDA dv : Wider(dv) = dv, Wider)

(***************************************************************************)
(* The state of the selection of a function.  code: the block being        *)
(* filled, blks those before it; rf: for every register made, whether it   *)
(* is a vector one; vv, vf, sb, so: a value's register, whether that is a  *)
(* vector one, the scalar pair it is an offset from, its constant place in *)
(* scratch; div: the masks to restore, innermost last; sp: the next pair;  *)
(* r and o as operands are put together.  The rest is fixed: the target,   *)
(* the machine block of each block, the divergent values.                  *)
(***************************************************************************)
Emit(A, I) == [A EXCEPT !.code = Append(@, I)]
Emits(A, s) == [A EXCEPT !.code = @ \o s]
IselRefuse(A) == [A EXCEPT !.err = TRUE]
With(A, o) == [A EXCEPT !.r = o]
Take(A) == [A EXCEPT !.o = Append(@, A.r)]

NewVreg(A, vec) == [A EXCEPT !.rf = Append(@, vec), !.r = Vreg(Len(A.rf) + 1, vec)]
(* n more vector registers; the k-th of them. *)
Temps(A, n) == [A EXCEPT !.rf = @ \o [k \in 1 .. n |-> TRUE]]
Temp(A, k) == VregV(Len(A.rf) + k)
MapBirVal(A, ix, vec) ==
    IF ix \in DOMAIN A.vv THEN A
    ELSE [A EXCEPT !.vv = (ix :> Len(A.rf) + 1) @@ @, !.vf = (ix :> vec) @@ @, !.rf = Append(@, vec)]
(* A value found to be needed on the vector side after all. *)
Promote(A, ix) == [A EXCEPT !.vf[ix] = TRUE, !.rf[A.vv[ix]] = TRUE]

MovV(A, o) == Emit(NewVreg(A, TRUE), V1("mov", Temp(A, 1), o))
ResolveVal(A, v, vec) ==
    CASE v < 0               -> With(A, Lit(IF IsInt(v) THEN ConstVal(v) ELSE 0))
      [] v \notin DOMAIN A.vv -> With(A, Lit(0))
      [] vec /\ ~A.vf[v]     -> MovV(A, VregS(A.vv[v]))
      [] OTHER               -> With(A, Vreg(A.vv[v], A.vf[v]))
EnsureVgpr(A) == IF InVgpr(A.r) THEN A ELSE MovV(A, A.r)
Operand(A, v, vec) == Take(ResolveVal(A, v, vec))
VOperand(A, v, vec) == Take(EnsureVgpr(ResolveVal(A, v, vec)))
Operands(A, vs, vec) == ForEach(vs, A, LAMBDA B, v : Operand(B, v, vec))
(* The operands taken, moved to vector registers. *)
VTaken(A, k) ==
    LET Back(B) == [B EXCEPT !.o[k] = B.r] IN Back(EnsureVgpr(With(A, A.o[k])))
AllVgpr(A) == For(1, Len(A.o) + 1, A, VTaken)
AnyVgpr(A) == \E k \in DOMAIN A.o : InVgpr(A.o[k])
(* The instruction on the vector side if it has to be, or on the scalar one. *)
OnSide(A, ix, div, vec, Vector(_), Scalar(_)) ==
    CASE div -> Vector(AllVgpr(A))
      [] vec -> Vector(AllVgpr(Promote(A, ix)))
      [] OTHER -> Scalar(A)

TypeWidth(M, t) ==
    LET T == M.types[t]
        Wide(U) == CASE U.kind \in {"int", "float"} -> U.w [] U.kind = "ptr" -> W64 [] OTHER -> W32
    IN  IF T.kind = "array" THEN T.n * Wide(M.types[T.in]) ELSE Wide(T)
AddrSpace(M, v) == IF v >= 0 /\ IsPtr(M, M.insts[v].ty) THEN M.types[M.insts[v].ty].as ELSE "global"
Based(A, v) == v \in DOMAIN A.sb

(***************************************************************************)
(* isel_arith: there is no float operation and no division on the scalar   *)
(* side; a quotient is a product with an approximate reciprocal.           *)
(***************************************************************************)
Quotients == {"sdiv", "udiv", "srem", "urem"}
Quotient(A, op, d, x, y) ==
    LET T(k) == Temp(A, k)
        whole == op \in {"sdiv", "udiv"}
    IN  << V1("sitofp", T(1), x), V1("sitofp", T(2), y), V1("rcp", T(3), T(2)), V2("fmul", T(4), T(1), T(3)),
           V1("fptosi", IF whole THEN d ELSE T(5), T(4)) >>
        \o IF whole THEN <<>> ELSE << V3("mul", T(6), T(5), y), V2("sub", d, x, T(6)) >>
FloatQuotient(A, op, d, x, y) ==
    LET T(k) == Temp(A, k) IN
    IF op = "fdiv" THEN << V1("rcp", T(1), y), V2("fmul", d, x, T(1)) >>
    ELSE << V1("rcp", T(1), y), V2("fmul", T(2), x, T(1)), V1("fptosi", T(3), T(2)), V1("sitofp", T(2), T(3)),
            V2("fmul", T(3), T(2), y), V2("fsub", d, x, T(3)) >>
(* A vector shift takes its operands the other way round. *)
VArith(A, op, d, x, y) ==
    CASE op \in Quotients -> Emits(Temps(A, 6), Quotient(A, op, d, x, y))
      [] op \in {"fdiv", "frem"} -> Emits(Temps(A, 3), FloatQuotient(A, op, d, x, y))
      [] op \in {"shl", "lshr", "ashr"} -> Emit(A, V2(op, d, y, x))
      [] op = "mul" -> Emit(A, V3(op, d, x, y))
      [] OTHER -> Emit(A, V2(op, d, x, y))
SmemHazard(A, op) == A.cdna /\ op \in {"add", "sub"} /\ A.o[1].k = "S" /\ A.o[2].k = "S"
IselArith(A, ix, I, div) ==
    LET Place(B) == OnSide(B, ix, div, AnyVgpr(B) \/ SmemHazard(B, I.op) \/ I.op \in FloatBinary \cup Quotients,
                           LAMBDA C : VArith(C, I.op, VregV(C.vv[ix]), C.o[1], C.o[2]),
                           LAMBDA C : Emit(C, S2(I.op, VregS(C.vv[ix]), C.o[1], C.o[2])))
    IN  Place(MapBirVal(Operands(A, I.ops, div), ix, div))

(***************************************************************************)
(* Comparison and choice.                                                  *)
(***************************************************************************)
VCmp(A, sub, x, y) == Emit(A, Ins("vopc", sub, <<>>, << x, y >>))
SCmp(A, sub, x, y) == Emit(A, Ins("sopc", sub, <<>>, << x, y >>))
CndMask(A, ix, no, yes) == Emit(A, Ins("vop2", "cndmask", << VregV(A.vv[ix]) >>, << no, yes, Vcc >>))
CSelect(A, ix, yes, no) == Emit(A, S2("cselect", VregS(A.vv[ix]), yes, no))
(* The lanes of VCC as a value. *)
FromVcc(A, ix) == CndMask(MovV(A, Lit(1)), ix, Lit(0), Temp(A, 1))
IselIcmp(A, ix, I, div) ==
    LET Place(B) == OnSide(B, ix, div, AnyVgpr(B), LAMBDA C : FromVcc(VCmp(C, I.sub, C.o[1], C.o[2]), ix),
                           LAMBDA C : CSelect(SCmp(C, I.sub, C.o[1], C.o[2]), ix, Lit(1), Lit(0)))
    IN  Place(MapBirVal(Operands(A, I.ops, div), ix, div))
(* fcmp_to_vcmp: the negation of the opposite comparison. *)
FcmpToVcmp(sub) == IF sub = "ueq" THEN "uge" ELSE sub
IselFcmp(A, ix, I) ==
    LET Place(B) == FromVcc(Emit(B, Ins("vopc_f32", FcmpToVcmp(I.sub), <<>>, << B.o[1], B.o[2] >>)), ix)
    IN  Place(MapBirVal(VOperand(VOperand(A, I.ops[1], TRUE), I.ops[2], TRUE), ix, TRUE))
NonZero(A, o) == VCmp(A, "ne", Lit(0), o)
IselSelect(A, ix, I, div) ==
    LET Place(B) == OnSide(B, ix, div, AnyVgpr(B),
                           LAMBDA C : CndMask(NonZero(C, C.o[1]), ix, C.o[3], C.o[2]),
                           LAMBDA C : CSelect(SCmp(C, "ne", C.o[1], Lit(0)), ix, C.o[2], C.o[3]))
    IN  Place(MapBirVal(Operands(A, I.ops, div), ix, div))

(***************************************************************************)
(* isel_conversion: a cast keeps the pair the address is an offset from.   *)
(***************************************************************************)
Casts == {"ptrtoint", "inttoptr", "bitcast"}
Resizes == {"trunc", "zext", "sext"}
SourceWidth(M, v) == IF v >= 0 THEN TypeWidth(M, M.insts[v].ty) ELSE W32
VConvert(op, d, x, w) ==
    CASE op = "sext" /\ w < W32 -> Ins("vop3", "bfe", << d >>, << x, Lit(0), Lit(w) >>)
      [] op \in Resizes /\ w < W32 -> V2("and", d, Lit(2^w - 1), x)
      [] op \in Resizes \cup Casts -> V1("mov", d, x)
      [] op = "fabs" -> V2("and", d, Lit(2^(W32 - 1) - 1), x)
      [] OTHER -> V1(op, d, x)
SConvert(op, d, x, w) ==
    CASE op = "sext" /\ w < W32 -> Ins("sop2", "bfe", << d >>, << x, Lit(w), Lit(0) >>)
      [] op \in Resizes /\ w < W32 -> S2("and", d, x, Lit(2^w - 1))
      [] OTHER -> S1("mov", d, x)
IselConversion(A, M, ix, I, div) ==
    LET w == IF I.op = "trunc" THEN TypeWidth(M, I.ty) ELSE SourceWidth(M, I.ops[1])
        based == I.op \in Casts /\ Based(A, I.ops[1])
        Keep(B) == IF based THEN [B EXCEPT !.sb = (ix :> B.sb[I.ops[1]]) @@ @] ELSE B
        Place(B) == OnSide(B, ix, div, AnyVgpr(B) \/ based \/ I.op \notin Resizes \cup Casts,
                           LAMBDA C : Emit(C, VConvert(I.op, VregV(C.vv[ix]), C.o[1], w)),
                           LAMBDA C : Emit(C, SConvert(I.op, VregS(C.vv[ix]), C.o[1], w)))
    IN  Place(Keep(MapBirVal(Operand(A, I.ops[1], div), ix, div)))

(***************************************************************************)
(* isel_load, isel_store: an offset from a scalar pair, or an address;     *)
(* scratch by a known place in the frame where there is one.               *)
(***************************************************************************)
Bus(as) == CASE as = "shared" -> "ds" [] as = "private" -> "scratch" [] OTHER -> "global"
Framed(A, v) == v \in DOMAIN A.so /\ A.so[v] \in 0 .. 4095
TakeAll(A, o) == [A EXCEPT !.o = @ \o o]
Address(A, as, v, div) ==
    CASE Bus(as) = "global" /\ Based(A, v) -> Take(With(VOperand(A, v, TRUE), Sgpr(A.sb[v])))
      [] as = "private" /\ Framed(A, v) -> TakeAll(A, << Sgpr(A.scrfp), Lit(A.so[v]) >>)
      [] as = "private" -> TakeAll(VOperand(A, v, div), << Sgpr(A.scrfp), Lit(0) >>)
      [] OTHER -> Take(With(VOperand(A, v, div), Lit(0)))
IselLoad(A, ix, I, div, as) ==
    LET Read(B) == Emit(B, Ins(Bus(as), "load", << VregV(B.vv[ix]) >>, B.o))
    IN  Read(Address(MapBirVal(A, ix, TRUE), as, I.ops[1], div))
IselStore(A, I, div, as) ==
    LET Write(B) == Emit(B, Ins(Bus(as), "store", <<>>, B.o))
    IN  IF as = "constant" THEN A ELSE Write(Address(VOperand(A, I.ops[1], div), as, I.ops[2], div))

(***************************************************************************)
(* isel_gep: a field's offset, or indices times the element's size.        *)
(***************************************************************************)
Calc(A, vec, op, x, y) ==
    LET To(B) == Emit(B, IF ~vec THEN S2(op, B.r, x, y) ELSE IF op = "mul" THEN V3(op, B.r, x, y) ELSE V2(op, B.r, x, y))
    IN  To(NewVreg(A, vec))
(* The sum so far is operand 1, the next index r. *)
AddIndex(A, vec, size) ==
    LET Sum(B) == [Calc(B, vec, "add", B.o[1], B.r) EXCEPT !.o = <<>>]
    IN  Take(Sum(IF size = 1 THEN A ELSE Calc(A, vec, "mul", A.r, Lit(size))))
GepSum(A, I, div, vec, size, fld, off) ==
    LET Index(B, v) == IF fld THEN With(B, Lit(off)) ELSE ResolveVal(B, v, div)
        Fit(B) == IF vec THEN EnsureVgpr(B) ELSE B
    IN  ForEach(Tail(I.ops), A, LAMBDA B, v : AddIndex(Fit(Index(B, v)), vec, size))
(* The base: of a parameter the offset is zero, made afresh. *)
GepBase(A, M, v, div, vec) ==
    CASE Based(A, v) /\ M.insts[v].op = "param" -> Take(MovV(A, Lit(0)))
      [] Based(A, v) -> VOperand(A, v, TRUE)
      [] vec -> VOperand(A, v, div)
      [] OTHER -> Operand(A, v, div)
(* A place in scratch stays known through constant indices. *)
GepFrame(A, ix, I, size, fld, off) ==
    LET at == I.ops[1]
        Far(v) == IF fld THEN off ELSE ConstVal(v) * size
    IN  IF at \in DOMAIN A.so /\ A.so[at] >= 0 /\ ~Based(A, at) /\ (fld \/ \A k \in 2 .. Len(I.ops) : IsInt(I.ops[k]))
        THEN [A EXCEPT !.so = (ix :> ForEach(Tail(I.ops), A.so[at], LAMBDA o, v : o + Far(v))) @@ @] ELSE A
GepPut(A, ix, I, vec) ==
    LET base == I.ops[1]
        Set(B) == Emit(B, IF vec THEN V1("mov", VregV(B.vv[ix]), B.o[1]) ELSE S1("mov", VregS(B.vv[ix]), B.o[1]))
    IN  Set(IF Based(A, base) THEN [A EXCEPT !.sb = (ix :> A.sb[base]) @@ @] ELSE A)
IselGep(A, M, ix, I, div, fld) ==
    LET off == IF fld THEN Fgep(M, I) ELSE 0
        size == IF fld THEN 1 ELSE Gstr(M, I.ty)
        based == Based(A, I.ops[1])
        vec == based \/ div \/ A.cdna
        Mapped(B) == IF vec THEN Promote(MapBirVal(B, ix, based \/ div), ix) ELSE MapBirVal(B, ix, FALSE)
        Sum(B) == GepSum(B, I, based \/ div, vec, size, fld, off)
    IN  IF size = 0 THEN IselRefuse(A)
        ELSE GepFrame(GepPut(Sum(Mapped(GepBase(A, M, I.ops[1], div, vec))), ix, I, vec), ix, I, size, fld, off)

(* isel_alloca, isel_shared_alloc: the next place in scratch, in shared memory. *)
IselAlloca(A, ix, I, size) ==
    LET off == BszUp(A.scr, 2^I.sub)
        Set(B) == Emit(B, V1("mov", VregV(B.vv[ix]), Lit(off)))
    IN  IF size = 0 THEN IselRefuse(A)
        ELSE Set([MapBirVal(A, ix, TRUE) EXCEPT !.so = (ix :> off) @@ @, !.scr = off + BszUp(size, 4)])
IselSharedAlloc(A, ix, I, size) ==
    LET off == BszUp(A.lds, IF I.sub < 2 THEN 4 ELSE 2^I.sub)
        Set(B) == Emit(B, S1("mov", VregS(B.vv[ix]), Lit(off)))
    IN  IF size = 0 THEN IselRefuse(A) ELSE Set([MapBirVal(A, ix, FALSE) EXCEPT !.lds = off + size])

(***************************************************************************)
(* Branches.  A region [saved, no, merge, cond, else, then]: the mask as   *)
(* it was before the branch in block cond, and which arm is being filled.  *)
(***************************************************************************)
MaxDivRegions == 64
Restore(A, G) == Emit(A, Ins("sop2", "or", << Exec >>, << Exec, G.saved >>))
(* An arm that has an other one falls into it; on a way back all the masks
   narrowed since are restored, the innermost first. *)
IselBranch(A, t) ==
    LET to == A.bmap[t]
        d == Len(A.div)
        Unwind(B, k) == IF A.bmap[A.div[d - k].cond] >= to THEN Restore(B, A.div[d - k]) ELSE B
        Leave(B) == IF to = A.mb + 1 THEN B ELSE Emit(B, Jump("branch", to))
    IN  IF \E k \in 1 .. d : A.div[k].else /\ A.div[k].then /\ A.div[k].merge = t THEN A
        ELSE Leave(IF to <= A.mb THEN For(0, d, A, Unwind) ELSE A)

(* A kernel's block that only returns: the lanes that take it are dropped. *)
BlkIsKret(A, M, b) == A.isk /\ M.blocks[b].num = 1 /\ M.insts[M.blocks[b].first].op = "ret"
Retire(A, no) ==
    Emits(NonZero(A, A.o[1]),
          << Ins("sop2", "andn2", << Exec >>, << Exec, Vcc >>), Jump("cbranch_execnz", A.bmap[no]) >>)
(* Where the mask is saved: a pair for each depth of the 64-wide waves. *)
SaveExec(A) ==
    LET Pair(B) == With(B, Sgpr(B.esave + 2 * Len(B.div))) IN
    IF A.cdna THEN Pair([A EXCEPT !.esave = IF @ = NoBlock THEN BszUp(A.sp, 2) ELSE @]) ELSE NewVreg(A, FALSE)
Fork(A, I, no, merge) ==
    LET Region(B) == [saved |-> B.r, no |-> no, merge |-> merge, cond |-> B.cb, else |-> merge # no, then |-> TRUE]
        Masked(B) == Emits(B, << Ins("sop1", "and_saveexec", << B.r >>, << Vcc >>),
                                 Jump("cbranch_execz", B.bmap[no]) >>)
        Push(B) == IF Len(B.div) < MaxDivRegions THEN [B EXCEPT !.div = Append(@, Region(B))] ELSE B
    IN  Push(Masked(SaveExec(NonZero(A, A.o[1]))))
(* A uniform condition that a vector register holds is read from a lane. *)
FromLane(A) ==
    LET Read(B) == Emit(B, Ins("vop1", "readfirstlane", << B.r >>, << A.r >>)) IN
    IF InVgpr(A.r) THEN Read(NewVreg(A, FALSE)) ELSE A
Choose(A, yes, no) ==
    Emits(SCmp(A, "ne", A.r, Lit(0)), << Jump("cbranch_scc1", A.bmap[yes]), Jump("branch", A.bmap[no]) >>)
IselBrCond(A, M, I) ==
    LET yes == I.ops[2]
        no == I.ops[3]
    IN  CASE I.ops[1] \notin A.dv -> Choose(FromLane(ResolveVal(A, I.ops[1], FALSE)), yes, no)
          [] BlkIsKret(A, M, yes) -> Retire(VOperand(A, I.ops[1], TRUE), no)
          [] OTHER -> Fork(VOperand(A, I.ops[1], TRUE), I, no, IF Len(I.ops) >= 4 THEN I.ops[4] ELSE no)
(* isel_switch: a selector the lanes disagree about is read from one. *)
IselSwitch(A, I) ==
    LET sel == I.ops[1]
        Arm(B, k) == Emit(SCmp(B, "eq", B.r, Lit(IF IsInt(I.ops[k]) THEN ConstVal(I.ops[k]) ELSE I.ops[k])),
                            Jump("cbranch_scc1", B.bmap[I.ops[k + 1]]))
        Cases(B) == For(1, Len(I.ops) \div 2, B, LAMBDA C, k : Arm(C, 2 * k + 1))
        Dispatch(B) == Emit(Cases(B), Jump("branch", B.bmap[I.ops[2]]))
    IN  Dispatch(IF sel \in A.dv THEN FromLane(EnsureVgpr(ResolveVal(A, sel, TRUE))) ELSE ResolveVal(A, sel, FALSE))
IselRet(A, I) ==
    LET Give(B) == Emit(B, V1("mov", Vgpr(0), B.o[1]))
        Home(B) == Emit(B, Ins("sop1", "setpc", <<>>, << Sgpr(30) >>))
    IN  CASE A.isk -> Emit(A, Ins("sopp", "endpgm", <<>>, <<>>))
          [] I.ops = <<>> -> Home(A)
          [] OTHER -> Home(Give(VOperand(A, I.ops[1], TRUE)))
(* isel_phi: two ways in; a value not met yet gets its register here. *)
IselPhi(A, ix, I, div) ==
    LET Met(B, v) == IF v >= 0 THEN MapBirVal(B, v, div) ELSE B
        Pair(B, k) == Operand(TakeAll(B, << Label(B.bmap[I.ops[2 * k - 1]]) >>), I.ops[2 * k], div)
        Pairs(B) == For(1, IF Len(I.ops) >= 4 THEN 3 ELSE 2, B, LAMBDA C, k : Pair(Met(C, I.ops[2 * k]), k))
        Set(B) == Emit(B, Ins("pseudo", "phi", << Vreg(B.vv[ix], div) >>, B.o))
    IN  Set(Pairs(MapBirVal(A, ix, div)))

(***************************************************************************)
(* isel_param: in a kernel a pair of scalar registers for each; a pointer  *)
(* is that pair and the offset zero.                                       *)
(***************************************************************************)
IselParam(A, M, ix, I) ==
    LET at == BszUp(A.sp, 2)
        Fetch(B) == Emit([B EXCEPT !.sp = at + 2],
                         Ins("smem", "load2", << Sgpr(at) >>, << Sgpr(0), Lit(8 * I.sub) >>))
        Vector(B, o) == Emit(Promote(B, ix), V1("mov", VregV(B.vv[ix]), o))
        Low(B) == Emit(B, S1("mov", VregS(B.vv[ix]), Sgpr(at)))
    IN  CASE ~A.isk -> Vector(MapBirVal(A, ix, TRUE), Vgpr(I.sub))
          [] IsPtr(M, I.ty) \/ TypeWidth(M, I.ty) > W32 ->
               Vector(MapBirVal([Fetch(A) EXCEPT !.sb = (ix :> at) @@ @], ix, TRUE), Lit(0))
          [] OTHER -> Low(MapBirVal(Fetch(A), ix, FALSE))
(* isel_thread_model: the sizes of the launch are behind the parameters. *)
GroupSize(A, dim) ==
    << Ins("smem", "load", << A.r >>, << Sgpr(0), Lit(8 * A.np + 12 + 4 * (dim \div 2)) >>),
       IF dim % 2 = 1 THEN S2("lshr", A.r, A.r, Lit(2 * ByteBits)) ELSE S2("and", A.r, A.r, Lit(2^(2 * ByteBits) - 1)) >>
IselThreadModel(A, ix, I) ==
    LET dim == I.sub
        Own(B, vec) == With(B, Vreg(B.vv[ix], vec))
        Mine(vec) == Own(MapBirVal(A, ix, vec), vec)
        Tid(B) == Emit(B, V1("mov", B.r, IF B.isk THEN VregV(B.tid + dim) ELSE Vgpr(dim)))
        Bid(B) == Emit(B, S1("mov", B.r, Sgpr(2 + dim)))
        Gdim(B) == Emit(B, Ins("smem", "load", << B.r >>, << Sgpr(0), Lit(8 * B.np + 4 * dim) >>))
        Bdim(B) == Emits(B, GroupSize(B, dim))
    IN  CASE I.op = "thread_id" -> Tid(Mine(TRUE))
          [] I.op = "block_id" -> Bid(Mine(FALSE))
          [] I.op = "grid_dim" -> Gdim(Mine(FALSE))
          [] OTHER -> Bdim(Mine(FALSE))

(***************************************************************************)
(* isel_atomic: the value, then the address (for a compare and swap after  *)
(* both values, and never from a scalar pair).                             *)
(***************************************************************************)
SharedAtomics == AtomicRmw \ {"atomic_xchg"}
IselAtomic(A, ix, I, div, as) ==
    LET at == I.ops[1]
        Does(B) == Emit(B, Ins(Bus(as), I.op, << VregV(B.vv[ix]) >>, B.o))
        Value(B) == VOperand(B, I.ops[2], TRUE)
        Whole(B) == IF I.op = "atomic_cas" THEN Take(With(VOperand(VOperand(B, I.ops[3], TRUE), at, div), Lit(0)))
                    ELSE Address(B, as, at, div)
    IN  IF as = "shared" /\ I.op \notin SharedAtomics THEN IselRefuse(A)
        ELSE Does(Whole(Value(MapBirVal(A, ix, TRUE))))
IselAtomicLoad(A, ix, I, div) ==
    LET Read(B) == Emit(B, Ins("global", "load", << VregV(B.vv[ix]) >>, << B.o[1], Lit(0) >>))
    IN  Read(MapBirVal(VOperand(A, I.ops[1], div), ix, TRUE))
IselAtomicStore(A, I, div) ==
    LET Write(B) == Emit(B, Ins("global", "store", <<>>, << B.o[1], B.o[2], Lit(0) >>))
    IN  Write(VOperand(VOperand(A, I.ops[1], div), I.ops[2], div))

(* isel_warp: a shuffle reads another lane's register through shared memory. *)
Shuffles == {"shfl", "shfl_up", "shfl_down", "shfl_xor"}
Lane(A, op, to, delta) ==
    LET tid == VregV(A.tid) IN
    CASE op = "shfl" -> V1("mov", to, delta)
      [] op = "shfl_down" -> V2("add", to, tid, delta)
      [] op = "shfl_up" -> V2("sub", to, tid, delta)
      [] OTHER -> V2("xor", to, tid, delta)
Shuffle(A, ix, op) ==
    LET d == VregV(A.vv[ix])
        lane == Temp(A, 1)
        addr == Temp(A, 2)
    IN  Emits(Temps(A, 2), << Lane(A, op, lane, A.o[2]), V2("shl", addr, Lit(2), lane),
                             Ins("ds", "bpermute", << d >>, << addr, A.o[1] >>) >>)
(* The answer of a vote is made on the scalar side in the register that was
   to hold it, then copied to a new vector register. *)
Vote(A, ix, Test(_)) ==
    LET seen == VregS(Len(A.rf) + 1)
        own == VregS(A.vv[ix])
        Copied(B) == [Emit(B, V1("mov", B.r, own)) EXCEPT !.vv[ix] = B.r.n]
    IN  Copied(NewVreg(Promote(Emits([A EXCEPT !.rf = Append(@, FALSE)],
            << Ins("vop1", "readfirstlane", << seen >>, << Vcc >>), Test(seen), S2("cselect", own, Lit(1), Lit(0)) >>),
            ix), TRUE))
IselWarp(A, ix, I) ==
    LET Seen(B) == NonZero(B, B.o[1])
        Pred(B) == Seen(VOperand(B, I.ops[2], TRUE))
        Ballot(B) == Emit(B, V1("mov", VregV(B.vv[ix]), Vcc))
        mapped == MapBirVal(A, ix, TRUE)
    IN  CASE I.op \in Shuffles -> Shuffle(VOperand(VOperand(mapped, I.ops[2], TRUE), I.ops[3], TRUE), ix, I.op)
          [] I.op = "ballot" -> Ballot(Pred(mapped))
          [] I.op = "vote_any" -> Vote(Pred(mapped), ix, LAMBDA s : Ins("sopc", "ne", <<>>, << s, Lit(0) >>))
          [] OTHER -> Vote(Pred(mapped), ix, LAMBDA s : Ins("sopc", "eq", <<>>, << s, Exec >>))

(* isel_umulhi, isel_bitcount: 32 bits only; finding a bit in zero gives -1. *)
IselUMulHi(A, M, ix, I) ==
    LET High(B) == Emit(B, V3("umulhi", VregV(B.vv[ix]), B.o[1], B.o[2]))
    IN  IF TypeWidth(M, I.ty) # W32 THEN IselRefuse(A)
        ELSE High(MapBirVal(VOperand(VOperand(A, I.ops[1], TRUE), I.ops[2], TRUE), ix, TRUE))
BitInsts(op, d, raw, x) ==
    CASE op = "popcount" -> << V3("bcnt", d, x, Lit(0)) >>
      [] op = "brev" -> << V1("brev", d, x) >>
      [] OTHER -> << V1(IF op = "ctz" THEN "ffbl" ELSE "ffbh", raw, x), V2("min", d, Lit(W32), raw) >>
IselBitcount(A, M, ix, I) ==
    LET Count(B) == Emits(Temps(B, 1), BitInsts(I.op, VregV(B.vv[ix]), Temp(B, 1), B.o[1]))
    IN  IF I.ops[1] < 0 \/ SourceWidth(M, I.ops[1]) # W32 THEN IselRefuse(A)
        ELSE Count(MapBirVal(VOperand(A, I.ops[1], TRUE), ix, TRUE))

(***************************************************************************)
(* isel_function: one instruction; calls and what else there is no code    *)
(* for are refused.                                                        *)
(***************************************************************************)
Plain == {"add", "sub", "mul", "and", "or", "xor", "shl", "lshr", "ashr"} \cup Quotients \cup FloatBinary
Converting == Casts \cup Resizes \cup FloatUnary \cup {"sitofp", "uitofp", "fptosi", "fptoui", "fptrunc", "fpext"}
ThreadModel == {"thread_id", "block_id", "block_dim", "grid_dim"}
SelectValue(A, M, ix, I, div) ==
    CASE I.op \in Plain -> IselArith(A, ix, I, div)
      [] I.op = "icmp" -> IselIcmp(A, ix, I, div)
      [] I.op = "fcmp" -> IselFcmp(A, ix, I)
      [] I.op \in Converting -> IselConversion(A, M, ix, I, div)
      [] I.op = "select" -> IselSelect(A, ix, I, div)
      [] I.op = "phi" -> IselPhi(A, ix, I, div)
      [] I.op = "param" -> IselParam(A, M, ix, I)
      [] I.op \in ThreadModel -> IselThreadModel(A, ix, I)
      [] I.op \in WarpOps -> IselWarp(A, ix, I)
      [] I.op = "umulhi" -> IselUMulHi(A, M, ix, I)
      [] I.op \in BitOps -> IselBitcount(A, M, ix, I)
      [] OTHER -> IselRefuse(A)
SelectMemory(A, M, ix, I, div) ==
    CASE I.op = "load" -> IselLoad(A, ix, I, div, AddrSpace(M, I.ops[1]))
      [] I.op = "store" -> IselStore(A, I, div, AddrSpace(M, I.ops[2]))
      [] I.op = "gep" -> IselGep(A, M, ix, I, div, IsFgep(M, I))
      [] I.op = "alloca" -> IselAlloca(A, ix, I, Bsz(M, M.types[I.ty].in))
      [] I.op = "shared_alloc" -> IselSharedAlloc(A, ix, I, Bsz(M, M.types[I.ty].in))
      [] I.op = "atomic_load" -> IselAtomicLoad(A, ix, I, div)
      [] I.op = "atomic_store" -> IselAtomicStore(A, I, div)
      [] OTHER -> IselAtomic(A, ix, I, div, AddrSpace(M, I.ops[1]))
Sopp(op, u) == Ins("sopp", op, <<>>, u)
SelectControl(A, M, I) ==
    CASE I.op = "br" -> IselBranch(A, I.ops[1])
      [] I.op = "br_cond" -> IselBrCond(A, M, I)
      [] I.op = "switch" -> IselSwitch(A, I)
      [] I.op = "ret" -> IselRet(A, I)
      [] I.op = "unreachable" -> Emit(A, Sopp("endpgm", <<>>))
      [] I.op = "trap" -> Emit(A, Sopp("trap", << Lit(2) >>))
      [] OTHER -> IF I.op # "fence" /\ I.sub = 0 THEN Emit(A, Sopp("barrier", <<>>)) ELSE A
Memories == {"load", "store", "gep", "atomic_load", "atomic_store", "atomic_cas"} \cup Allocas \cup AtomicRmw
Controls == {"br", "br_cond", "switch", "ret", "unreachable", "trap", "barrier", "barrier_group", "fence"}
Select(A, M, ix) ==
    LET I == M.insts[ix]
        div == ix \in A.dv
        fresh == [A EXCEPT !.o = <<>>]
    IN  CASE I.op \in Memories -> SelectMemory(fresh, M, ix, I, div)
          [] I.op \in Controls -> SelectControl(fresh, M, I)
          [] OTHER -> SelectValue(fresh, M, ix, I, div)

(* scan_kernel_needs: the dimensions used, whether there is a frame. *)
MaxDim(M, all) ==
    For(1, 3, 0, LAMBDA d, k : IF \E ix \in all : M.insts[ix].op \in ThreadModel /\ M.insts[ix].sub >= k THEN k ELSE d)
HasScratch(M, all) == \E ix \in all : M.insts[ix].op = "alloca"
KernReserved(dims) == BszUp(3 + dims, 2)
(* Before a block: its lanes at the other arm of a region, all of them again
   where the arms meet. *)
Flip(A, k, b) ==
    IF A.div[k].else /\ A.div[k].no = b
    THEN Emits([A EXCEPT !.div[k].then = FALSE],
               << Ins("sop2", "xor", << Exec >>, << Exec, A.div[k].saved >>),
                  Jump("cbranch_execz", A.bmap[A.div[k].merge]) >>)
    ELSE A
Rejoin(A, k, b) ==
    IF A.div[k].merge = b THEN [Restore(A, A.div[k]) EXCEPT !.div = SubSeq(@, 1, Len(@) - 1)] ELSE A
EnterBlock(A, b) ==
    LET d == Len(A.div) IN
    For(0, d, For(1, d + 1, A, LAMBDA B, k : Flip(B, k, b)), LAMBDA B, k : Rejoin(B, d - k, b))
(* In front of a kernel: the thread's numbers are saved, the frame starts at 0. *)
Prologue(A, dims, scratch) ==
    LET Save(B, d) == Emit(NewVreg(B, TRUE), V1("mov", Temp(B, 1), Vgpr(d)))
        Framing(B) == Emit([B EXCEPT !.scrfp = B.sp, !.sp = @ + 1], S1("mov", Sgpr(B.sp), Lit(0)))
        Saved(B) == For(0, dims + 1, [B EXCEPT !.tid = Len(B.rf) + 1], Save)
    IN  IF scratch THEN Framing(Saved(A)) ELSE Saved(A)
FillBlock(A, M, F, b, dims, scratch) ==
    LET at == [A EXCEPT !.mb = A.bmap[b], !.cb = b]
        First(B) == IF b = F.first /\ B.isk THEN Prologue(B, dims, scratch) ELSE B
        Body(B) == For(M.blocks[b].first, M.blocks[b].first + M.blocks[b].num, B, LAMBDA C, ix : Select(C, M, ix))
        Close(B) == [B EXCEPT !.blks = Append(@, B.code), !.code = <<>>]
    IN  Close(Body(First(EnterBlock(at, b))))
Selection(M, F, cdna, ord, reserved) ==
    [code |-> <<>>, blks |-> <<>>, rf |-> <<>>, vv |-> << >>, vf |-> << >>, sb |-> << >>, so |-> << >>,
     div |-> <<>>, sp |-> reserved, esave |-> NoBlock, scr |-> 0, lds |-> 0, tid |-> 0, scrfp |-> 0, err |-> FALSE,
     r |-> Lit(0), o |-> <<>>, cdna |-> cdna, dv |-> Divergent(M, F), isk |-> ~F.dev, np |-> F.np, mb |-> 0, cb |-> 0,
     bmap |-> [b \in {ord[k] : k \in DOMAIN ord} |-> CHOOSE k \in DOMAIN ord : ord[k] = b]]
IselFunction(M, F, cdna) ==
    LET all == Range0(M, F)
        dims == IF F.dev THEN 0 ELSE MaxDim(M, all)
        Filled(ord) == ForEach(ord, Selection(M, F, cdna, ord, IF F.dev THEN 2 ELSE KernReserved(dims)),
                               LAMBDA A, b : FillBlock(A, M, F, b, dims, HasScratch(M, all)))
    IN  Filled(BuildBlkOrd(M, F))

(***************************************************************************)
(* amdgpu_phi_elim: a copy for each way in at the end of the block it      *)
(* comes from.                                                             *)
(***************************************************************************)
Terminators == {"branch", "cbranch_scc1", "cbranch_execz", "cbranch_execnz", "endpgm", "setpc"}
IsPhi(I) == I.op = "phi"
CopiesOf(I) == [k \in 1 .. Len(I.u) \div 2 |->
                   [mb |-> I.u[2 * k - 1].n, i |-> Ins("pseudo", "copy", I.d, << I.u[2 * k] >>)]]
PhiCopies(blks) ==
    LET Phis(blk) == SelectSeq(blk, IsPhi) IN
    ForEach(blks, <<>>, LAMBDA all, blk : ForEach(Phis(blk), all, LAMBDA cs, I : cs \o CopiesOf(I)))
PhiElim(blks) ==
    LET copies == PhiCopies(blks)
        Here(mb) == LET own == SelectSeq(copies, LAMBDA c : c.mb = mb) IN [k \in DOMAIN own |-> own[k].i]
        Cut(blk) == CHOOSE k \in 0 .. Len(blk) :
                        /\ k = 0 \/ blk[k].op \notin Terminators
                        /\ \A j \in k + 1 .. Len(blk) : blk[j].op \in Terminators
        Spliced(blk, new, k) == SubSeq(blk, 1, k) \o new \o SubSeq(blk, k + 1, Len(blk))
        Without(blk) == SelectSeq(blk, LAMBDA I : ~IsPhi(I))
    IN  [mb \in DOMAIN blks |-> Spliced(Without(blks[mb]), Here(mb), Cut(Without(blks[mb])))]
(* rw_ops: every register is of the kind recorded for it by now. *)
RwOpd(rf, o) == IF o.k \in {"S", "V"} THEN Vreg(o.n, rf[o.n]) ELSE o
RwCopy(I) ==
    CASE I.op # "copy" -> I
      [] InVgpr(I.d[1]) -> V1("mov", I.d[1], I.u[1])
      [] InVgpr(I.u[1]) -> V1("readfirstlane", I.d[1], I.u[1])
      [] OTHER -> S1("mov", I.d[1], I.u[1])
RwInst(rf, I) ==
    RwCopy([I EXCEPT !.d = [k \in DOMAIN @ |-> RwOpd(rf, @[k])], !.u = [k \in DOMAIN @ |-> RwOpd(rf, @[k])]])
RwOps(rf, blks) == [mb \in DOMAIN blks |-> [k \in DOMAIN blks[mb] |-> RwInst(rf, blks[mb][k])]]
(* bc_vfy: no vector register where the scalar side reads; the second source
   of the short vector forms is one. *)
VfySop(I) == I.f \in {"sop1", "sop2", "sopc"} => \A k \in DOMAIN I.u : ~InVgpr(I.u[k])
VfyVop2(I) == I.f \in {"vop2", "vopc", "vopc_f32"} /\ Len(I.u) >= 2 => InVgpr(I.u[2])
BcVfy(blks) == \A mb \in DOMAIN blks : \A k \in DOMAIN blks[mb] : VfySop(blks[mb][k]) /\ VfyVop2(blks[mb][k])
Finish(A) ==
    LET code == RwOps(A.rf, PhiElim(A.blks)) IN [ok |-> ~A.err /\ BcVfy(A.blks) /\ BcVfy(code), code |-> code]
(* amd_reach: the device functions some kernel calls; amdgpu_compile. *)
Called(M, fs) == {M.insts[ix].ops[1] + 1 : ix \in {x \in UNION {Range0(M, M.funcs[f]) : f \in fs} : M.insts[x].op = "call"}}
AmdReach(M) ==
    LET kernels == {f \in DOMAIN M.funcs : ~M.funcs[f].dev}
        Grow(fs) == fs \cup Called(M, fs)
    IN  While(kernels, Len(M.funcs), LAMBDA fs : Grow(fs) = fs, Grow)
AmdgpuCompile(M, cdna) ==
    LET fns == [f \in AmdReach(M) |-> Finish(IselFunction(M, M.funcs[f], cdna))]
    IN  [ok |-> \A f \in DOMAIN fns : fns[f].ok, fns |-> fns]

-----------------------------------------------------------------------------
(***************************************************************************)
(* The device: one wave, whose lanes all run the same instruction, those   *)
(* off in exec left alone.  A vector register is a function of the lane.   *)
(***************************************************************************)
KernargBase == 61440
Lanes(s) == DOMAIN s.got
On(s, l) == BitOf(s.exec, l) = 1
Reg(s, o) == IF << o.k, o.n >> \in DOMAIN s.regs THEN s.regs[<< o.k, o.n >>]
             ELSE IF InVgpr(o) THEN [l \in Lanes(s) |-> Undef] ELSE Undef
Word(s, o, l) ==
    CASE o.k = "i" -> o.n % 2^W32
      [] o.k = "vcc" -> s.vcc
      [] o.k = "exec" -> s.exec
      [] InVgpr(o) -> Reg(s, o)[l]
      [] OTHER -> Reg(s, o)
Pair(s, n) ==
    LET lo == Reg(s, Sgpr(n))
        hi == Reg(s, Sgpr(n + 1))
    IN  IF lo < 0 \/ hi < 0 THEN Undef ELSE lo + hi * 2^W32
SetReg(s, o, v) == [s EXCEPT !.regs = (<< o.k, o.n >> :> v) @@ @]
SetV(s, o, f) ==
    IF InVgpr(o) THEN SetReg(s, o, [l \in Lanes(s) |-> IF On(s, l) THEN f[l] ELSE Reg(s, o)[l]])
    ELSE SetReg(s, o, Undef)
(* The scalar side writes no vector register. *)
SetS(s, o, v) ==
    CASE o.k = "exec" -> [s EXCEPT !.exec = v]
      [] InVgpr(o) -> SetReg(s, o, [l \in Lanes(s) |-> Undef])
      [] OTHER -> SetReg(s, o, v)

FindBit(op, a) == IF a = 0 THEN 2^W32 - 1 ELSE BitCount(IF op = "ffbl" THEN "ctz" ELSE "clz", a, W32)
VOp(op, a, b, c) ==
    CASE a < 0 \/ b < 0 \/ c < 0 -> Undef
      [] op = "mov" -> a
      [] op \in {"shl", "lshr", "ashr"} -> Arith(op, "", b, a, W32)
      [] op \in Arithmetic -> Arith(op, "", a, b, W32)
      [] op = "bfe" -> Signed((a \div 2^b) % 2^c, c) % 2^W32
      [] op = "umulhi" -> UMulHi(a, b, W32)
      [] op = "bcnt" -> BitCount("popcount", a, W32) + b
      [] op = "brev" -> BitCount(op, a, W32)
      [] op \in {"ffbl", "ffbh"} -> FindBit(op, a)
      [] op = "min" -> IF a < b THEN a ELSE b
      [] op = "sitofp" -> IntToFlt(Signed(a, W32))
      [] op = "uitofp" -> IntToFlt(a)
      [] op \in {"fptosi", "fptoui"} -> FltToInt(a) % 2^W32
      [] OTHER -> FltOf(op, a, b)
VLane(s, I, l, a) ==
    LET b == IF Len(I.u) > 1 THEN Word(s, I.u[2], l) ELSE 0 IN
    IF I.op = "cndmask" THEN IF BitOf(s.vcc, l) = 1 THEN b ELSE a
    ELSE VOp(I.op, a, b, IF Len(I.u) > 2 THEN Word(s, I.u[3], l) ELSE 0)
VStep(s, I) == SetV(s, I.d[1], [l \in Lanes(s) |-> VLane(s, I, l, Word(s, I.u[1], l))])
FirstLane(s) == IF s.exec = 0 THEN 0 ELSE CHOOSE l \in Lanes(s) : On(s, l) /\ \A k \in 0 .. l - 1 : ~On(s, k)
(* A comparison's answer is one bit for each lane that is on. *)
VTest(I, a, b) ==
    CASE a < 0 \/ b < 0 -> Undef
      [] I.f = "vopc_f32" -> FCompare(I.op, a, b)
      [] OTHER -> Arith("icmp", I.op, a, b, W32)
VCompareStep(s, I) ==
    LET Bit(l) == IF On(s, l) THEN VTest(I, Word(s, I.u[1], l), Word(s, I.u[2], l)) ELSE 0
    IN  IF \E l \in Lanes(s) : Bit(l) < 0 THEN [s EXCEPT !.end = "undef"]
        ELSE [s EXCEPT !.vcc = For(0, Cardinality(Lanes(s)), 0, LAMBDA v, l : v + Bit(l) * 2^l)]

(* A bit field of no width is zero. *)
SOp(op, a, b) ==
    CASE a < 0 \/ b < 0 -> Undef
      [] op = "mov" -> a
      [] op = "bfe" -> 0
      [] op = "andn2" -> Arith("and", "", a, 2^W32 - 1 - b, W32)
      [] OTHER -> Arith(op, "", a, b, W32)
SStep(s, I) ==
    LET a == Word(s, I.u[1], 0)
        b == IF Len(I.u) > 1 THEN Word(s, I.u[2], 0) ELSE 0
    IN  CASE I.f = "sopc" -> [s EXCEPT !.scc = IF a < 0 \/ b < 0 THEN Undef ELSE Arith("icmp", I.op, a, b, W32)]
          [] I.op = "cselect" -> SetS(s, I.d[1], IF s.scc < 0 THEN Undef ELSE IF s.scc = 1 THEN a ELSE b)
          [] I.op = "and_saveexec" -> [SetS(s, I.d[1], s.exec) EXCEPT !.exec = SOp("and", @, a)]
          [] OTHER -> SetS(s, I.d[1], SOp(I.op, a, b))

(* Memory, a lane after the other.  An address in a vector register alone is
   half an address. *)
ScratchSize == 256
AAddr(s, f, o, v, l) ==
    LET base == IF f = "scratch" THEN LocalBase + ScratchSize * l ELSE IF f = "ds" THEN SharedBase
                ELSE IF o.k = "s" THEN Pair(s, o.n) ELSE Undef
        far == IF f = "global" THEN 0 ELSE Word(s, o, l)
    IN  IF v < 0 \/ base < 0 \/ far < 0 THEN Undef ELSE base + v + far
ALane(s, I, l, k) ==
    LET at == AAddr(s, I.f, I.u[k + 1], Word(s, I.u[k], l), l)
        off == IF Len(I.u) > k + 1 THEN Word(s, I.u[k + 2], l) ELSE 0
        where == IF at < 0 THEN Undef ELSE at + off
        v == Word(s, I.u[1], l)
        old == Get(s.mem, where, 4)
        new == IF I.op = "store" THEN v ELSE IF I.op = "atomic_cas" THEN IF old = v THEN Word(s, I.u[2], l) ELSE old
               ELSE AtomicNew(I.op, old, v, W32)
    IN  [s EXCEPT !.got[l] = old, !.mem = IF I.op = "load" THEN @ ELSE Put(@, where, 4, new)]
AStep(s, I) ==
    LET k == CASE I.op = "load" -> 1 [] I.op = "atomic_cas" -> 3 [] OTHER -> 2
        Done(w) == IF I.d = <<>> THEN w ELSE SetV(w, I.d[1], w.got)
    IN  Done(For(0, Cardinality(Lanes(s)), s, LAMBDA w, l : IF On(s, l) THEN ALane(w, I, l, k) ELSE w))
(* ds_bpermute: what a lane reads is another's register. *)
Permute(s, I) ==
    LET n == Cardinality(Lanes(s))
        From(l) == LET a == Word(s, I.u[1], l) IN
                   IF a < 0 \/ ~On(s, (a \div 4) % n) THEN Undef ELSE Word(s, I.u[2], (a \div 4) % n)
    IN  SetV(s, I.d[1], [l \in Lanes(s) |-> From(l)])
(* s_load_dword, s_load_dwordx2. *)
ScalarLoad(s, I) ==
    LET at == Pair(s, I.u[1].n) + I.u[2].n
        lo == SetS(s, I.d[1], Get(s.mem, at, 4))
    IN  IF I.op = "load" THEN lo ELSE SetS(lo, Sgpr(I.d[1].n + 1), Get(s.mem, at + 4, 4))
Taken(s, op) ==
    CASE op = "cbranch_execz" -> s.exec = 0
      [] op = "cbranch_execnz" -> s.exec # 0
      [] op = "cbranch_scc1" -> s.scc = 1
      [] OTHER -> TRUE

AStepOf(s, I) ==
    LET next == [s EXCEPT !.pc = @ + 1] IN
    CASE I.f = "sopp" /\ I.op = "endpgm" -> [s EXCEPT !.end = "ret"]
      [] I.f = "sopp" /\ I.op = "barrier" -> next
      [] I.f = "sopp" /\ I.op = "cbranch_scc1" /\ s.scc < 0 -> [s EXCEPT !.end = "undef"]
      [] I.f = "sopp" /\ I.u # <<>> /\ I.u[1].k = "b" -> IF Taken(s, I.op) THEN [s EXCEPT !.blk = I.u[1].n, !.pc = 1] ELSE next
      [] I.f = "sopp" \/ I.op = "setpc" -> [s EXCEPT !.end = "wrong"]
      [] I.op = "readfirstlane" -> SetS(next, I.d[1], Word(s, I.u[1], FirstLane(s)))
      [] I.op = "bpermute" -> Permute(next, I)
      [] I.f \in {"vop1", "vop2", "vop3"} -> VStep(next, I)
      [] I.f \in {"vopc", "vopc_f32"} -> VCompareStep(next, I)
      [] I.f \in {"sop1", "sop2", "sopc"} -> SStep(next, I)
      [] I.f = "smem" -> ScalarLoad(next, I)
      [] OTHER -> AStep(next, I)
WaveStep(code, s) ==
    CASE s.exec < 0 \/ s.blk \notin DOMAIN code -> [s EXCEPT !.end = "wrong"]
      [] s.pc > Len(code[s.blk]) -> [s EXCEPT !.blk = @ + 1, !.pc = 1]
      [] OTHER -> AStepOf(s, code[s.blk][s.pc])

(* The arguments, then the number of groups and a group's size. *)
Kernargs(args, mem, n) ==
    LET hidden == KernargBase + 8 * Len(args)
        Sizes(m) == For(0, 3, m, LAMBDA a, d : Put(Put(a, hidden + 4 * d, 4, 1), hidden + 12 + 2 * d, 2, IF d = 0 THEN n ELSE 1))
    IN  Sizes(For(0, Len(args), mem, LAMBDA a, k : Put(a, KernargBase + 8 * k, 8, args[k + 1])))
AmdRun(M, em, args, mem, n) ==
    LET code == em.fns[Kernel(M)].code
        regs == << "v", 0 >> :> [l \in 0 .. n - 1 |-> l] @@ << "s", 0 >> :> KernargBase % 2^W32
                @@ << "s", 1 >> :> KernargBase \div 2^W32 @@ << "s", 2 >> :> 0
    IN  While([blk |-> 1, pc |-> 1, regs |-> regs, exec |-> 2^n - 1, vcc |-> 0, scc |-> Undef, end |-> "",
               mem |-> Kernargs(args, mem, n), got |-> [l \in 0 .. n - 1 |-> Undef]],
              20 * Fuel, LAMBDA s : s.end # "", LAMBDA s : WaveStep(code, s))
=============================================================================
