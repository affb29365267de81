------------------------------ MODULE Rv64Emit -------------------------------
(***************************************************************************)
(* src/src/cpu/rv64_emit.c, BIR to 64-bit RISC-V: the slot scheme of the   *)
(* x86 emitter, with the frame hanging off s0.  An offset that does not    *)
(* fit the immediate goes through t2.                                      *)
(***************************************************************************)
EXTENDS KernelExec

CONSTANT RvImm    \* immediates reach from -RvImm to RvImm - 1

ZR == 0
RA == 1
SP == 2
S0 == 8
T0 == 5
T1 == 6
T2 == 7
A0 == 10
FT0 == 32
FT1 == 33
FT2 == 34
FA0 == 42

Fits12(o) == -RvImm <= o /\ o < RvImm
(* The immediate field keeps its low bits: & 0xFFF. *)
Imm12(i) == Imm(((i + RvImm) % (2 * RvImm)) - RvImm)
AddI(d, a, i) == Alu("add", W64, d, R(a), Imm12(i))
Li(d, v) == Mov(d, Imm(v))
Int32(v) == Signed(v % 2^W32, W32)

(* A memory access at s0 + o: near, or the long way through t2. *)
AtSlot(o, Access(_, _)) ==
    IF Fits12(o) THEN << Access(S0, o) >>
    ELSE << Li(T2, o), Alu("add", W64, T2, R(S0), R(T2)), Access(T2, 0) >>
LdSlot(r, o) == AtSlot(o, LAMBDA b, k : Ld(8, r, R(b), k))
StSlot(r, o) == AtSlot(o, LAMBDA b, k : St(8, R(b), k, R(r)))
FstSlot(r, o) == AtSlot(o, LAMBDA b, k : St(4, R(b), k, R(r)))
StFbits(r, o) == AtSlot(o, LAMBDA b, k : St(4, R(b), k, R(r)))

ConstBits(v) == IF IsInt(v) THEN Int32(ConstVal(v)) ELSE 0
LoadVal(fr, r, v) == IF v < 0 THEN << Li(r, ConstBits(v)) >> ELSE LdSlot(r, fr.slot[v])
LoadFval(fr, r, v) ==
    IF v < 0 THEN << Li(T0, ConstBits(v)), Zext(W32, r, R(T0)) >>
    ELSE AtSlot(fr.slot[v], LAMBDA b, k : Ld(4, r, R(b), k))
LdFbits(fr, r, v) ==
    IF v < 0 THEN << Li(r, ConstBits(v)) >> ELSE AtSlot(fr.slot[v], LAMBDA b, k : Ld(4, r, R(b), k))

RvSextTo(r, w) ==
    CASE w >= W64 -> <<>>
      [] w = 1    -> << Alu("and", W64, r, R(r), Imm(1)) >>
      [] w = W32  -> << Sext(W32, r, R(r)) >>
      [] OTHER    -> << Alu("shl", W64, r, R(r), Imm(W64 - w)), Alu("ashr", W64, r, R(r), Imm(W64 - w)) >>
RvZextTo(M, r, w) ==
    CASE w >= W64 -> <<>>
      [] w = 1    -> << Alu("and", W64, r, R(r), Imm(1)) >>
      [] w = W(M, "i8") -> << Alu("and", W64, r, R(r), Imm(2^w - 1)) >>
      [] OTHER    -> << Alu("shl", W64, r, R(r), Imm(W64 - w)), Alu("lshr", W64, r, R(r), Imm(W64 - w)) >>

(* 64 for an i64, 32 for anything narrower; an operation of that width, a
   word operation sign-extending its result. *)
IntW(M, t) == IF M.types[t].kind = "int" /\ W(M, t) < W64 THEN W32 ELSE W64
WordOp(op, w, d, a, b) ==
    << Alu(op, w, d, R(a), R(b)) >> \o (IF w = W64 THEN <<>> ELSE << Sext(w, d, R(d)) >>)

(* The pattern p of n bits repeated over an int. *)
Mask(p, n) == For(0, (W32 + n - 1) \div n, 0, LAMBDA m, k : m + p * 2^(n * k)) % 2^W32
Op64(op, d, a, b) == Alu(op, W64, d, R(a), R(b))
OpI(op, d, a, i) == Alu(op, W64, d, R(a), Imm(i))
RvPopc32 ==
    << OpI("lshr", T1, T0, 1), Li(T2, Mask(1, 2)), Op64("and", T1, T1, T2), Op64("sub", T0, T0, T1),
       OpI("lshr", T1, T0, 2), Li(T2, Mask(3, 4)), Op64("and", T0, T0, T2), Op64("and", T1, T1, T2),
       Op64("add", T0, T0, T1), OpI("lshr", T1, T0, 4), Op64("add", T0, T0, T1),
       Li(T2, Mask(15, 8)), Op64("and", T0, T0, T2), Li(T2, Mask(1, 8)), Op64("mul", T0, T0, T2),
       OpI("lshr", T0, T0, W32 - 8), OpI("and", T0, T0, 255) >>
(* The rounds that swap neighbours, pairs and nibbles; an int here has no more. *)
RvBrev32 == ForEach(<< << 1, 1, 2 >>, << 2, 3, 4 >>, << 4, 15, 8 >> >>, <<>>, LAMBDA c, r : c \o
    << OpI("lshr", T1, T0, r[1]), Li(T2, Mask(r[2], r[3])), Op64("and", T1, T1, T2),
       Op64("and", T0, T0, T2), OpI("shl", T0, T0, r[1]), Op64("or", T0, T0, T1) >>)

-----------------------------------------------------------------------------
(* The frame of the x86 emitter, without its first slots for the parameters. *)
RvFrame(M, F) ==
    LET add(a, ix) ==
            LET I == M.insts[ix]
                o == a.off - 8
                r == -BszUp(BszUp(Bsz(M, M.types[I.ty].in), 8) - o, IF 2^I.sub < 8 THEN 8 ELSE 2^I.sub)
            IN  IF I.op \in Allocas
                THEN [off |-> r, slot |-> (ix :> o) @@ a.slot, region |-> (ix :> r) @@ a.region]
                ELSE [a EXCEPT !.off = o, !.slot = (ix :> o) @@ @]
        all == ForEach(WalkOrder(M, F), [off |-> 0, slot |-> << >>, region |-> << >>], add)
    IN  all @@ [tid |-> all.off - 8, ntid |-> all.off - 16, size |-> BszUp(16 - all.off, 16) + 16]

(* arloc: where an argument travels: a float in fa0.., an integer, or a float
   past the eighth, in a0.., then the stack. *)
OnStack == -1
Arloc(isf, a) ==
    CASE isf /\ a.fi < 8 -> [r |-> FA0 + a.fi, a |-> [a EXCEPT !.fi = @ + 1]]
      [] a.gi < 8        -> [r |-> A0 + a.gi, a |-> [a EXCEPT !.gi = @ + 1]]
      [] OTHER           -> [r |-> OnStack, a |-> a]

(* pslot: the slot of the entry block's param instruction, if it has one. *)
Pslot(M, F, fr, p) ==
    LET at == {ix \in InstsOf(M, F.first) : M.insts[ix].op = "param" /\ M.insts[ix].sub = p}
    IN  IF at = {} THEN 0 ELSE fr.slot[CHOOSE ix \in at : \A j \in at : ix <= j]

Param(M, F, fr, a, p) ==
    LET isf == p < F.np /\ IsFloat(M, ParamType(M, F, p))
        dest == IF p < F.np THEN Pslot(M, F, fr, p) ELSE fr.ntid
        loc == Arloc(isf, a)
        code == CASE dest = 0 -> <<>>
                  [] loc.r = OnStack -> << Li(T2, a.stk), Alu("add", W64, T2, R(S0), R(T2)), Ld(8, T0, R(T2), 0) >>
                                        \o StSlot(T0, dest)
                  [] loc.r >= 32 -> FstSlot(loc.r, dest)
                  [] OTHER -> StSlot(loc.r, dest)
    IN  [loc.a EXCEPT !.code = @ \o code, !.stk = IF loc.r = OnStack THEN @ + 8 ELSE @]
Params(M, F, fr, kern) ==
    For(0, F.np + (IF kern THEN 1 ELSE 0), [gi |-> 0, fi |-> 0, stk |-> 0, code |-> <<>>],
        LAMBDA a, p : Param(M, F, fr, a, p)).code

Prologue(fr) ==
    << AddI(SP, SP, -fr.size), St(8, R(SP), 0, R(RA)), St(8, R(SP), 8, R(S0)), AddI(S0, SP, fr.size) >>
Epilogue(fr) ==
    << Ld(8, RA, R(SP), 0), Ld(8, S0, R(SP), 8), AddI(SP, SP, fr.size), Jr(R(RA)) >>

-----------------------------------------------------------------------------
(* The instructions. *)
Both(fr, I) == LoadVal(fr, T0, I.ops[1]) \o LoadVal(fr, T1, I.ops[2])
FBoth(fr, I) == LoadFval(fr, FT0, I.ops[1]) \o LoadFval(fr, FT1, I.ops[2])

Grid(fr, I, kern, s) ==
    (CASE I.op = "thread_id" /\ kern -> LdSlot(T0, fr.tid)
       [] I.op = "block_dim" /\ kern -> LdSlot(T0, fr.ntid)
       [] I.op \in {"thread_id", "block_id"} -> << Li(T0, 0) >>
       [] OTHER -> << Li(T0, 1) >>) \o StSlot(T0, s)

Binary(fr, I, s) == Both(fr, I) \o << Op64(I.op, T0, T0, T1) >> \o StSlot(T0, s)

(* ctz x is the popcount of ~x & (x - 1); clz smears the top bit down. *)
BitCounting(M, fr, I, s) ==
    LoadVal(fr, T0, I.ops[1]) \o RvZextTo(M, T0, W32) \o
    (CASE I.op = "popcount" -> RvPopc32
       [] I.op = "brev"     -> RvBrev32
       [] I.op = "ctz"      -> << AddI(T1, T0, -1), OpI("xor", T0, T0, -1), Op64("and", T0, T0, T1) >>
                               \o RvZextTo(M, T0, W32) \o RvPopc32
       [] OTHER -> ForEach(SelectSeq(<< 1, 2, 4, 8, 16 >>, LAMBDA n : n < W32), <<>>, LAMBDA c, n : c \o
                       << OpI("lshr", T1, T0, n), Op64("or", T0, T0, T1) >>)
                   \o RvPopc32 \o << Li(T1, W32), Op64("sub", T0, T1, T0) >>)
    \o StSlot(T0, s)

ShiftDivide(M, fr, I, s) == Both(fr, I) \o WordOp(I.op, IntW(M, I.ty), T0, T0, T1) \o StSlot(T0, s)

FloatArith(fr, I, s) ==
    FBoth(fr, I) \o
    (IF I.op # "frem" THEN << Fop(I.op, FT0, R(FT0), R(FT1)) >>
     ELSE << Fop("fdiv", FT2, R(FT0), R(FT1)), Cvt("ftoi", W32, T0, R(FT2)), Cvt("itof", W32, FT2, R(T0)),
             Fop("fmul", FT2, R(FT2), R(FT1)), Fop("fsub", FT0, R(FT0), R(FT2)) >>)
    \o FstSlot(FT0, s)

FcmpOp(sub, d, a, b) == Mi("fcmp", sub, W32, d, R(a), R(b), 0)
Fcmp(fr, I, s) ==
    FBoth(fr, I) \o
    (CASE I.sub \in {"one", "une"} -> << FcmpOp("oeq", T0, FT0, FT1), OpI("xor", T0, T0, 1) >>
       [] I.sub \in {"olt", "ult"} -> << FcmpOp("olt", T0, FT0, FT1) >>
       [] I.sub \in {"ole", "ule"} -> << FcmpOp("ole", T0, FT0, FT1) >>
       [] I.sub \in {"ogt", "ugt"} -> << FcmpOp("olt", T0, FT1, FT0) >>
       [] I.sub \in {"oge", "uge"} -> << FcmpOp("ole", T0, FT1, FT0) >>
       [] OTHER -> << FcmpOp("oeq", T0, FT0, FT1) >>)
    \o StSlot(T0, s)

(* b ^ ((a ^ b) & -cond) *)
Select(M, fr, I, s) ==
    LET blend == << Op64("xor", T1, T1, T2), Op64("and", T1, T1, T0), Op64("xor", T1, T1, T2) >>
    IN  LoadVal(fr, T0, I.ops[1]) \o << Alu("sub", W64, T0, Imm(0), R(T0)) >> \o
        (IF IsFloat(M, I.ty)
         THEN LdFbits(fr, T1, I.ops[2]) \o LdFbits(fr, T2, I.ops[3]) \o blend \o StFbits(T1, s)
         ELSE LoadVal(fr, T1, I.ops[2]) \o LoadVal(fr, T2, I.ops[3]) \o blend \o StSlot(T1, s))

ConvertInst(M, fr, I, s) ==
    LET from == ValType(M, I.ops[1])
        ld == LoadVal(fr, T0, I.ops[1])
        st == StSlot(T0, s)
        fld == LoadFval(fr, FT0, I.ops[1])
        fst == FstSlot(FT0, s)
    IN  CASE I.op = "trunc"  -> ld \o RvSextTo(T0, W(M, I.ty)) \o st
          [] I.op = "sext"   -> ld \o RvSextTo(T0, W(M, from)) \o st
          [] I.op = "zext"   -> ld \o RvZextTo(M, T0, W(M, from)) \o st
          [] I.op = "sitofp" -> ld \o << Cvt("itof", W64, FT0, R(T0)) >> \o fst
          [] I.op = "uitofp" -> ld \o RvZextTo(M, T0, W(M, from)) \o << Cvt("utof", W64, FT0, R(T0)) >> \o fst
          [] I.op = "fptosi" -> fld \o << Cvt("ftoi", W64, T0, R(FT0)) >> \o RvSextTo(T0, W(M, I.ty)) \o st
          [] I.op = "fptoui" -> fld \o << Cvt("ftoi", W64, T0, R(FT0)) >> \o RvZextTo(M, T0, W(M, I.ty)) \o st
          [] I.op \in {"fpext", "fptrunc"} -> fld \o fst
          [] I.op = "bitcast" ->
               (IF IsFloat(M, from) THEN LdFbits(fr, T0, I.ops[1]) ELSE ld)
               \o (IF IsFloat(M, I.ty) THEN StFbits(T0, s) ELSE RvSextTo(T0, W(M, I.ty)) \o st)
          [] I.op = "ptrtoint" -> ld \o RvSextTo(T0, W(M, I.ty)) \o st
          [] OTHER -> ld \o st

FloatMath(fr, I, s) ==
    LET a == I.ops[1]
        one == << Li(T0, FltOne), Zext(W32, FT0, R(T0)) >>
        rnd == [rndne |-> "rnd0", ftrunc |-> "rnd1", floor |-> "rnd2", ceil |-> "rnd3"]
        libm == [sin |-> "sinf", cos |-> "cosf", exp2 |-> "exp2f", log2 |-> "log2f"]
        call == << Fop(libm[I.op], FA0, R(FA0), Nil) >>
    IN  CASE I.op = "rcp" -> one \o LoadFval(fr, FT1, a) \o << Fop("fdiv", FT0, R(FT0), R(FT1)) >> \o FstSlot(FT0, s)
          [] I.op = "rsq" -> LoadFval(fr, FT1, a) \o << Fop("sqrt", FT1, R(FT1), Nil) >> \o one
                             \o << Fop("fdiv", FT0, R(FT0), R(FT1)) >> \o FstSlot(FT0, s)
          [] I.op \in DOMAIN libm ->
               LoadFval(fr, FA0, a) \o
               (IF I.op \in {"sin", "cos"}
                THEN << Li(T0, FltTwoPi), Zext(W32, FT1, R(T0)), Fop("fmul", FA0, R(FA0), R(FT1)) >> ELSE <<>>)
               \o call \o FstSlot(FA0, s)
          [] OTHER -> LoadFval(fr, FT0, a)
                      \o << Fop(IF I.op \in DOMAIN rnd THEN rnd[I.op] ELSE I.op, FT0, R(FT0), Nil) >> \o FstSlot(FT0, s)

Atomic(M, fr, I, ix, s) ==
    LET w == IntW(M, IF I.op = "atomic_store" THEN ValType(M, I.ops[2]) ELSE I.ty)
        n == w \div ByteBits
        ld(d) == << Ld(n, d, R(T1), 0) >> \o (IF w = W64 THEN <<>> ELSE << Sext(w, d, R(d)) >>)
        addr == LoadVal(fr, T1, I.ops[1])
    IN  CASE I.op = "atomic_load"  -> addr \o ld(T0) \o StSlot(T0, s)
          [] I.op = "atomic_store" -> addr \o LoadVal(fr, T2, I.ops[2]) \o << St(n, R(T1), 0, R(T2)) >>
          [] I.op = "atomic_cas"   ->
               addr \o LoadVal(fr, T0, I.ops[2]) \o LoadVal(fr, T2, I.ops[3]) \o ld(A0)
               \o << Cmp("ne", W64, T0, R(A0), R(T0)), Jnz(R(T0), PadLab(ix)), St(n, R(T1), 0, R(T2)),
                     Lab(PadLab(ix)) >> \o StSlot(A0, s)
          [] OTHER ->
               addr \o LoadVal(fr, T2, I.ops[2]) \o
               (IF I.op = "atomic_sub"
                THEN << Alu("sub", W64, T2, Imm(0), R(T2)), Amo("atomic_add", n, T0, R(T1), R(T2)) >>
                ELSE << Amo(I.op, n, T0, R(T1), R(T2)) >>)
               \o StSlot(T0, s)

Gep(M, fr, I, s) ==
    (IF IsFgep(M, I) THEN << Li(T0, Fgep(M, I)) >>
     ELSE LoadVal(fr, T0, I.ops[2]) \o << Li(T1, Gstr(M, I.ty)), Op64("mul", T0, T0, T1) >>)
    \o LoadVal(fr, T1, I.ops[1]) \o << Op64("add", T0, T0, T1) >> \o StSlot(T0, s)

(* The width of an access is the stride of the address; loads sign-extend. *)
LoadInst(M, fr, I, s) ==
    LET n == Gstr(M, ValType(M, I.ops[1])) IN
    LoadVal(fr, T0, I.ops[1]) \o << Ld(n, T0, R(T0), 0) >>
    \o (IF n = 8 THEN <<>> ELSE << Sext(n * ByteBits, T0, R(T0)) >>) \o StSlot(T0, s)
StoreInst(M, fr, I) == Both(fr, I) \o << St(Gstr(M, ValType(M, I.ops[2])), R(T1), 0, R(T0)) >>

Icmp(fr, I, s) ==
    LET lt(sub, a, b) == << Cmp(sub, W64, T0, R(a), R(b)) >>
        flip == << OpI("xor", T0, T0, 1) >>
    IN  Both(fr, I) \o
        (CASE I.sub = "slt" -> lt("slt", T0, T1)
           [] I.sub = "sgt" -> lt("slt", T1, T0)
           [] I.sub = "sle" -> lt("slt", T1, T0) \o flip
           [] I.sub = "sge" -> lt("slt", T0, T1) \o flip
           [] I.sub = "ult" -> lt("ult", T0, T1)
           [] I.sub = "ugt" -> lt("ult", T1, T0)
           [] I.sub = "ule" -> lt("ult", T1, T0) \o flip
           [] I.sub = "uge" -> lt("ult", T0, T1) \o flip
           [] I.sub = "eq"  -> << Op64("sub", T0, T0, T1), Cmp("ult", W64, T0, R(T0), Imm(1)) >>
           [] OTHER         -> << Op64("sub", T0, T0, T1), Cmp("ult", W64, T0, Imm(0), R(T0)) >>)
        \o StSlot(T0, s)

-----------------------------------------------------------------------------
(* emit_phi_copies: on the edge, one copy after another through t0. *)
EmitPhiCopies(M, fr, succ, pred) ==
    ForEach(LeadingPhis(M, succ), <<>>, LAMBDA c, ix :
        LET v == PhiIncoming(M.insts[ix], pred)
        IN  IF v = NONE THEN c ELSE c \o LoadVal(fr, T0, v) \o StSlot(T0, fr.slot[ix]))
Edge(M, fr, succ, pred) == EmitPhiCopies(M, fr, succ, pred) \o << Jmp(BlkLab(succ)) >>

BrCond(M, fr, I, ix, b) ==
    LoadVal(fr, T0, I.ops[1]) \o << Jz(R(T0), PadLab(ix)) >> \o Edge(M, fr, I.ops[2], b)
    \o << Lab(PadLab(ix)) >> \o Edge(M, fr, I.ops[3], b)

RetInst(M, fr, I, f, kern) ==
    IF kern THEN << Jmp(ContLab(f)) >>
    ELSE (CASE I.ops = <<>> -> <<>>
            [] IsFloat(M, ValType(M, I.ops[1])) -> LoadFval(fr, FA0, I.ops[1])
            [] OTHER -> LoadVal(fr, A0, I.ops[1])) \o Epilogue(fr)

(* One argument of a call; those past the registers go to sp + so. *)
Arg(M, F, fr, I, a, k) ==
    LET isf == IsFloat(M, ParamType(M, F, k - 2))
        v == I.ops[k]
        loc == Arloc(isf, a)
        code == CASE loc.r = OnStack -> (IF isf THEN LdFbits(fr, T0, v) ELSE LoadVal(fr, T0, v))
                                        \o << St(8, R(SP), a.so, R(T0)) >>
                  [] loc.r >= 32 -> LoadFval(fr, loc.r, v)
                  [] isf -> LdFbits(fr, loc.r, v)
                  [] OTHER -> LoadVal(fr, loc.r, v)
    IN  [loc.a EXCEPT !.code = @ \o code, !.so = IF loc.r = OnStack THEN @ + 8 ELSE @]
CallInst(M, fr, I, s) ==
    LET F == M.funcs[I.ops[1] + 1]
        args == For(2, Len(I.ops) + 1, [gi |-> 0, fi |-> 0, so |-> 0, code |-> <<>>],
                    LAMBDA a, k : Arg(M, F, fr, I, a, k))
        area == BszUp(args.so, 16)
        move(n) == IF area = 0 THEN <<>> ELSE << AddI(SP, SP, n) >>
    IN  move(-area) \o args.code \o << Jal(RA, FuncLab(I.ops[1] + 1)) >> \o move(area)
        \o (CASE I.ty = "void" -> <<>>
              [] IsFloat(M, I.ty) -> FstSlot(FA0, s)
              [] OTHER -> StSlot(A0, s))

Inst(M, f, fr, kern, b, ix) ==
    LET I == M.insts[ix]
        s == fr.slot[ix]
    IN  CASE I.op \in {"param", "phi", "barrier", "barrier_group"} -> <<>>
          [] I.op \in Allocas -> << Li(T0, fr.region[ix]), Alu("add", W64, T0, R(S0), R(T0)) >> \o StSlot(T0, s)
          [] I.op \in {"thread_id", "block_id", "block_dim", "grid_dim"} -> Grid(fr, I, kern, s)
          [] I.op \in {"add", "sub", "mul", "umulhi", "and", "or", "xor"} -> Binary(fr, I, s)
          [] I.op \in BitOps -> BitCounting(M, fr, I, s)
          [] I.op \in {"shl", "lshr", "ashr", "sdiv", "srem", "udiv", "urem"} -> ShiftDivide(M, fr, I, s)
          [] I.op = "icmp"    -> Icmp(fr, I, s)
          [] I.op = "gep"     -> Gep(M, fr, I, s)
          [] I.op = "load"    -> LoadInst(M, fr, I, s)
          [] I.op = "store"   -> StoreInst(M, fr, I)
          [] I.op \in FloatBinary -> FloatArith(fr, I, s)
          [] I.op \in FloatUnary -> FloatMath(fr, I, s)
          [] I.op = "fcmp"    -> Fcmp(fr, I, s)
          [] I.op = "select"  -> Select(M, fr, I, s)
          [] I.op \in AtomicRmw \cup {"atomic_cas", "atomic_load", "atomic_store"} -> Atomic(M, fr, I, ix, s)
          [] I.op \in WarpOps -> LoadVal(fr, T0, I.ops[2]) \o StSlot(T0, s)
          [] I.op = "br"      -> Edge(M, fr, I.ops[1], b)
          [] I.op = "br_cond" -> BrCond(M, fr, I, ix, b)
          [] I.op = "ret"     -> RetInst(M, fr, I, f, kern)
          [] I.op = "call"    -> CallInst(M, fr, I, s)
          [] OTHER            -> ConvertInst(M, fr, I, s)

LoopHead(fr, f) == << Li(T0, 0) >> \o StSlot(T0, fr.tid) \o << Lab(LoopLab(f)) >> \o LdSlot(T0, fr.tid)
                   \o LdSlot(T1, fr.ntid)
                   \o << Cmp("slt", W64, T0, R(T0), R(T1)), Jz(R(T0), EndLab(f)) >>
LoopTail(fr, f) == << Lab(ContLab(f)) >> \o LdSlot(T0, fr.tid) \o << AddI(T0, T0, 1) >> \o StSlot(T0, fr.tid)
                   \o << Jmp(LoopLab(f)), Lab(EndLab(f)) >>
Body(M, F, f, fr, kern) ==
    For(F.first, F.first + F.num, <<>>, LAMBDA c, b :
        c \o << Lab(BlkLab(b)) >>
        \o ForEach([k \in 1 .. M.blocks[b].num |-> M.blocks[b].first + k - 1], <<>>,
                   LAMBDA d, ix : d \o Inst(M, f, fr, kern, b, ix)))
Rv64Func(M, F, f, fr, kern) ==
    << Lab(FuncLab(f)) >> \o Prologue(fr) \o Params(M, F, fr, kern)
    \o (IF kern THEN LoopHead(fr, f) ELSE <<>>) \o Body(M, F, f, fr, kern)
    \o (IF kern THEN LoopTail(fr, f) ELSE <<>>) \o Epilogue(fr)

Rv64EmitAll(M) ==
    For(1, Len(M.funcs) + 1, <<>>, LAMBDA c, f :
        c \o Rv64Func(M, M.funcs[f], f, RvFrame(M, M.funcs[f]), ~M.funcs[f].dev))

(* The host's call: integers sign-extended in a0.., floats in fa0... *)
Rv64Run(M, code, args, mem, n) ==
    LET F == M.funcs[Kernel(M)]
        place(a, p) ==
            LET t == IF p < F.np THEN ParamType(M, F, p) ELSE "i64"
                v == IF p < F.np THEN args[p + 1] ELSE n
                loc == Arloc(IsFloat(M, t), a)
                x == IF IsFloat(M, t) THEN v ELSE Signed(v, W(M, t)) % 2^W64
            IN  IF loc.r = OnStack THEN [a EXCEPT !.stk = @ + 8, !.mem = Put(@, StackTop + a.stk, 8, x)]
                ELSE [loc.a EXCEPT !.regs = (loc.r :> x) @@ @]
        h == For(0, F.np + 1, [gi |-> 0, fi |-> 0, stk |-> 0, mem |-> << >>,
                               regs |-> (SP :> StackTop) @@ (S0 :> 77) @@ (RA :> 0)], place)
    IN  MRun(code, FuncLab(Kernel(M)), h.regs, h.mem @@ mem)
=============================================================================
