------------------------------- MODULE CpuEmit -------------------------------
(***************************************************************************)
(* src/src/cpu/cpu_emit.c, BIR to x86-64: every value has a slot of the    *)
(* frame; an instruction loads its operands into RAX and RCX, computes and *)
(* writes its slot back.  A kernel's body runs in a loop over the threads. *)
(* Bytes, rel32 fixups and the fixed tables are left out: an encoded       *)
(* instruction is one record, a patched address a label, a full table a    *)
(* refused module.                                                         *)
(***************************************************************************)
EXTENDS KernelExec

RAX == 0
RCX == 1
RDX == 2
RSP == 4
RBP == 5
RSI == 6
RDI == 7
RIP == 16
XMM0 == 32
XMM1 == 33
XMM2 == 34
IntArgRegs == << RDI, RSI, RDX, RCX, 8, 9 >>

LdSlot(r, o) == Ld(8, r, R(RBP), o)
StSlot(r, o) == St(8, R(RBP), o, R(r))
StXmmSlot(r, o) == St(4, R(RBP), o, R(r))
(* mov_imm carries 32 bits, sign-extended. *)
MovImm(r, v) == Mov(r, Imm(Signed(v % 2^W32, W32)))

IntW(M, t) == IF M.types[t].kind = "int" /\ W(M, t) < W64 THEN W32 ELSE W64
PointeeBytes(M, t) == IF IsPtr(M, t) THEN Bsz(M, M.types[t].in) ELSE 4

LoadVal(fr, r, v) ==
    IF v < 0 THEN MovImm(r, IF IsInt(v) THEN ConstVal(v) ELSE 0) ELSE LdSlot(r, fr.slot[v])
LdFval(fr, r, v) ==
    IF v < 0 THEN << MovImm(RAX, ConstVal(v)), Zext(W32, r, R(RAX)) >>
    ELSE << Ld(4, r, R(RBP), fr.slot[v]) >>
LdFbits(fr, r, v) ==
    IF v < 0 THEN Mov(r, Imm(ConstVal(v) % 2^W32)) ELSE Ld(4, r, R(RBP), fr.slot[v])

SextTo(w) == CASE w >= W64 -> <<>>
               [] w = 1    -> << Alu("and", W64, RAX, R(RAX), Imm(1)) >>
               [] OTHER    -> << Sext(w, RAX, R(RAX)) >>
ZextTo(w) == CASE w >= W64 -> <<>>
               [] w = 1    -> << Alu("and", W64, RAX, R(RAX), Imm(1)) >>
               [] OTHER    -> << Zext(w, RAX, R(RAX)) >>

(***************************************************************************)
(* The frame: decrement, then assign; an alloca also claims a region.      *)
(***************************************************************************)
FrameOf(M, F, off0) ==
    LET add(a, ix) ==
            LET I == M.insts[ix]
                o == a.off - 8
                sz == BszUp(Bsz(M, M.types[I.ty].in), 8)
            IN  IF I.op \in Allocas
                THEN LET r == AlignDown(o - sz, IF 2^I.sub < 8 THEN 8 ELSE 2^I.sub)
                     IN  [off |-> r, slot |-> (ix :> o) @@ a.slot, region |-> (ix :> r) @@ a.region]
                ELSE [a EXCEPT !.off = o, !.slot = (ix :> o) @@ @]
        all == ForEach(WalkOrder(M, F), [off |-> off0, slot |-> << >>, region |-> << >>], add)
    IN  all @@ [tid |-> all.off - 8, ntid |-> all.off - 16]

(* The prologue's walk over the arguments: integers, then the hidden thread
   count, from the integer registers and floats from XMM, each class on its
   own counter, the rest from the caller's stack. *)
Param(M, F, fr, a, p) ==
    LET t == IF p < F.np THEN ParamType(M, F, p) ELSE "i64"
        dest == IF p < F.np THEN fr.slot[M.blocks[F.first].first + p] ELSE fr.ntid
        narrow == t \notin {"void"} /\ M.types[t].kind = "int" /\ W(M, t) < W64
        fix == IF narrow THEN SextTo(W(M, t)) ELSE <<>>
        spill == << Ld(8, RAX, R(RBP), a.stk) >> \o (IF IsFloat(M, t) THEN <<>> ELSE fix)
                 \o << StSlot(RAX, dest) >>
    IN  IF IsFloat(M, t)
        THEN IF a.xi < 8 THEN [a EXCEPT !.xi = @ + 1, !.code = Append(@, StXmmSlot(XMM0 + a.xi, dest))]
             ELSE [a EXCEPT !.stk = @ + 8, !.code = @ \o spill]
        ELSE IF a.gi < 6
             THEN [a EXCEPT !.gi = @ + 1, !.code = @ \o
                     (IF narrow THEN << Mov(RAX, R(IntArgRegs[a.gi + 1])) >> \o fix \o << StSlot(RAX, dest) >>
                      ELSE << StSlot(IntArgRegs[a.gi + 1], dest) >>)]
             ELSE [a EXCEPT !.gi = @ + 1, !.stk = @ + 8, !.code = @ \o spill]
Params(M, F, fr, kern) ==
    For(0, F.np + (IF kern THEN 1 ELSE 0), [gi |-> 0, xi |-> 0, stk |-> 16, code |-> <<>>],
        LAMBDA a, p : Param(M, F, fr, a, p)).code

Prologue(M, F, fr, kern) ==
    << Alu("sub", W64, RSP, R(RSP), Imm(8)), St(8, R(RSP), 0, R(RBP)), Mov(RBP, R(RSP)),
       Alu("sub", W64, RSP, R(RSP), Imm(BszUp(-fr.ntid, 16) + 8)) >> \o Params(M, F, fr, kern)
Epilogue == << Mov(RSP, R(RBP)), Ld(8, RBP, R(RSP), 0), Alu("add", W64, RSP, R(RSP), Imm(8)),
               Ld(8, RIP, R(RSP), 0), Alu("add", W64, RSP, R(RSP), Imm(8)), Jr(R(RIP)) >>

-----------------------------------------------------------------------------
(* The instructions, a family to a definition; s is the result's slot. *)
Both(fr, I) == << LoadVal(fr, RAX, I.ops[1]), LoadVal(fr, RCX, I.ops[2]) >>
FBoth(fr, I) == LdFval(fr, XMM0, I.ops[1]) \o LdFval(fr, XMM1, I.ops[2])

Grid(fr, I, kern, s) ==
    << CASE I.op = "thread_id" /\ kern -> LdSlot(RAX, fr.tid)
         [] I.op = "block_dim" /\ kern -> LdSlot(RAX, fr.ntid)
         [] I.op \in {"thread_id", "block_id"} -> MovImm(RAX, 0)
         [] OTHER -> MovImm(RAX, 1),
       StSlot(RAX, s) >>

Binary(fr, I, s) ==
    Both(fr, I) \o
    (IF I.op = "umulhi" THEN << Alu("umulhi", W64, RDX, R(RAX), R(RCX)), StSlot(RDX, s) >>
     ELSE << Alu(I.op, W64, RAX, R(RAX), R(RCX)), StSlot(RAX, s) >>)

(* The pattern p of n bits repeated over an int. *)
Mask(p, n) == For(0, (W32 + n - 1) \div n, 0, LAMBDA m, k : m + p * 2^(n * k)) % 2^W32
E32(op, d, a, b) == Alu(op, W32, d, a, b)
Popcount ==
    << Mov(RCX, R(RAX)), E32("lshr", RCX, R(RCX), Imm(1)), E32("and", RCX, R(RCX), Imm(Mask(1, 2))),
       E32("sub", RAX, R(RAX), R(RCX)),
       Mov(RCX, R(RAX)), E32("and", RAX, R(RAX), Imm(Mask(3, 4))), E32("lshr", RCX, R(RCX), Imm(2)),
       E32("and", RCX, R(RCX), Imm(Mask(3, 4))), E32("add", RAX, R(RAX), R(RCX)),
       Mov(RCX, R(RAX)), E32("lshr", RCX, R(RCX), Imm(4)), E32("add", RAX, R(RAX), R(RCX)),
       E32("and", RAX, R(RAX), Imm(Mask(15, 8))), E32("mul", RAX, R(RAX), Imm(Mask(1, 8))),
       E32("lshr", RAX, R(RAX), Imm(W32 - 8)) >>
(* Swap neighbours, pairs, nibbles; the bswap of a one-byte int is nothing. *)
Brev == ForEach(<< << 1, 1, 2 >>, << 2, 3, 4 >>, << 4, 15, 8 >> >>, <<>>, LAMBDA c, r : c \o
    << Mov(RCX, R(RAX)), E32("lshr", RCX, R(RCX), Imm(r[1])),
       E32("and", RCX, R(RCX), Imm(Mask(r[2], r[3]))), E32("and", RAX, R(RAX), Imm(Mask(r[2], r[3]))),
       E32("shl", RAX, R(RAX), Imm(r[1])), E32("or", RAX, R(RAX), R(RCX)) >>)
(* bsf and bsr give the lowest and the highest set bit; cmovz the answer for
   zero, kept here in RDX. *)
BitCounting(fr, I, s) ==
    << LoadVal(fr, RAX, I.ops[1]), Zext(W32, RAX, R(RAX)) >> \o
    (CASE I.op = "popcount" -> Popcount
       [] I.op = "brev"     -> Brev
       [] I.op = "ctz"      -> << Mov(RCX, Imm(W32)), Mov(RDX, R(RAX)), E32("ctz", RAX, R(RAX), Nil),
                                  CMovNz(RCX, R(RAX), R(RDX)), Mov(RAX, R(RCX)) >>
       [] OTHER             -> << Mov(RCX, Imm(2^W32 - 1)), Mov(RDX, R(RAX)), E32("clz", RAX, R(RAX), Nil),
                                  E32("sub", RAX, Imm(W32 - 1), R(RAX)), CMovNz(RCX, R(RAX), R(RDX)),
                                  Mov(RAX, R(RCX)), Mov(RCX, Imm(W32 - 1)),
                                  E32("sub", RCX, R(RCX), R(RAX)), Mov(RAX, R(RCX)) >>)
    \o << StSlot(RAX, s) >>

Shift(M, fr, I, s) ==
    LET w == IntW(M, I.ty) IN
    Both(fr, I) \o << Alu(I.op, w, RAX, R(RAX), R(RCX)) >> \o SextTo(w) \o << StSlot(RAX, s) >>

Divide(M, fr, I, s) ==
    LET w == IntW(M, I.ty) IN
    Both(fr, I) \o << Alu(I.op, w, RAX, R(RAX), R(RCX)) >>
    \o (IF I.op \in {"sdiv", "srem"} THEN SextTo(w) ELSE <<>>) \o << StSlot(RAX, s) >>

Gep(M, fr, I, s) ==
    (IF IsFgep(M, I) THEN << MovImm(RCX, Fgep(M, I)) >>
     ELSE << LoadVal(fr, RCX, I.ops[2]), MovImm(RAX, Gstr(M, I.ty)), Alu("mul", W64, RCX, R(RCX), R(RAX)) >>)
    \o << LoadVal(fr, RAX, I.ops[1]), Alu("add", W64, RAX, R(RAX), R(RCX)), StSlot(RAX, s) >>

LoadInst(M, fr, I, s) ==
    LET n == Bsz(M, I.ty) IN
    << LoadVal(fr, RAX, I.ops[1]), Ld(n, RAX, R(RAX), 0) >>
    \o (IF IsFloat(M, I.ty) \/ n = 8 THEN <<>> ELSE << Sext(n * ByteBits, RAX, R(RAX)) >>)
    \o << StSlot(RAX, s) >>

StoreInst(M, fr, I) ==
    Both(fr, I) \o << St(PointeeBytes(M, ValType(M, I.ops[2])), R(RCX), 0, R(RAX)) >>

FloatArith(fr, I, s) ==
    FBoth(fr, I) \o
    (IF I.op # "frem" THEN << Fop(I.op, XMM0, R(XMM0), R(XMM1)), StXmmSlot(XMM0, s) >>
     ELSE << Mov(XMM2, R(XMM0)), Fop("fdiv", XMM0, R(XMM0), R(XMM1)), Cvt("ftoi", W32, RAX, R(XMM0)),
             Cvt("itof", W32, XMM0, R(RAX)), Fop("fmul", XMM0, R(XMM0), R(XMM1)), Mov(XMM1, R(XMM2)),
             Fop("fsub", XMM1, R(XMM1), R(XMM0)), StXmmSlot(XMM1, s) >>)

Fcmp(fr, I, s) ==
    FBoth(fr, I) \o << Mi("fcmp", I.sub, W32, RAX, R(XMM0), R(XMM1), 0), StSlot(RAX, s) >>

Select(M, fr, I, s) ==
    IF IsFloat(M, I.ty)
    THEN << LdFbits(fr, RAX, I.ops[3]), LdFbits(fr, RCX, I.ops[2]), LoadVal(fr, RDX, I.ops[1]),
            CMovNz(RAX, R(RCX), R(RDX)), StXmmSlot(RAX, s) >>
    ELSE << LoadVal(fr, RAX, I.ops[3]), LoadVal(fr, RCX, I.ops[2]), LoadVal(fr, RDX, I.ops[1]),
            CMovNz(RAX, R(RCX), R(RDX)), StSlot(RAX, s) >>

ConvertInst(M, fr, I, s) ==
    LET from == ValType(M, I.ops[1])
        ld == << LoadVal(fr, RAX, I.ops[1]) >>
        st == << StSlot(RAX, s) >>
        fst == << StXmmSlot(XMM0, s) >>
    IN  CASE I.op = "trunc"  -> ld \o SextTo(W(M, I.ty)) \o st
          [] I.op = "sext"   -> ld \o SextTo(W(M, from)) \o st
          [] I.op = "zext"   -> ld \o ZextTo(W(M, from)) \o st
          [] I.op = "sitofp" -> ld \o << Cvt("itof", IF W(M, from) > W32 THEN W64 ELSE W32, XMM0, R(RAX)) >> \o fst
          [] I.op = "uitofp" -> ld \o ZextTo(W(M, from)) \o << Cvt("itof", W64, XMM0, R(RAX)) >> \o fst
          [] I.op = "fptosi" -> LdFval(fr, XMM0, I.ops[1]) \o << Cvt("ftoi", W64, RAX, R(XMM0)) >>
                                \o SextTo(W(M, I.ty)) \o st
          [] I.op = "fptoui" -> LdFval(fr, XMM0, I.ops[1]) \o << Cvt("ftoi", W64, RAX, R(XMM0)) >>
                                \o ZextTo(W(M, I.ty)) \o st
          [] I.op \in {"fpext", "fptrunc"} -> LdFval(fr, XMM0, I.ops[1]) \o fst
          [] I.op = "bitcast" ->
               << IF IsFloat(M, from) THEN LdFbits(fr, RAX, I.ops[1]) ELSE LoadVal(fr, RAX, I.ops[1]) >>
               \o (IF IsFloat(M, I.ty) THEN << StXmmSlot(RAX, s) >> ELSE SextTo(W(M, I.ty)) \o st)
          [] I.op = "ptrtoint" -> ld \o SextTo(W(M, I.ty)) \o st
          [] OTHER -> ld \o st

FloatMath(fr, I, s) ==
    LET a == I.ops[1]
        one == << MovImm(RAX, FltOne), Mov(XMM0, R(RAX)) >>
        rnd == [rndne |-> "rnd0", ftrunc |-> "rnd1", floor |-> "rnd2", ceil |-> "rnd3"]
        libm == [sin |-> "sinf", cos |-> "cosf", exp2 |-> "exp2f", log2 |-> "log2f"]
        call == << Fop(libm[I.op], XMM0, R(XMM0), Nil) >>
    IN  CASE I.op = "fabs" -> << LdFbits(fr, RAX, a), E32("and", RAX, R(RAX), Imm(2^(W32 - 1) - 1)),
                                 StXmmSlot(RAX, s) >>
          [] I.op = "rcp"  -> one \o LdFval(fr, XMM1, a) \o
                              << Fop("fdiv", XMM0, R(XMM0), R(XMM1)), StXmmSlot(XMM0, s) >>
          [] I.op = "rsq"  -> LdFval(fr, XMM1, a) \o << Fop("sqrt", XMM1, R(XMM1), Nil) >> \o one \o
                              << Fop("fdiv", XMM0, R(XMM0), R(XMM1)), StXmmSlot(XMM0, s) >>
          [] OTHER -> LdFval(fr, XMM0, a) \o
               (CASE I.op = "sqrt" -> << Fop("sqrt", XMM0, R(XMM0), Nil) >>
                  [] I.op \in DOMAIN rnd -> << Fop(rnd[I.op], XMM0, R(XMM0), Nil) >>
                  [] I.op \in {"sin", "cos"} -> << MovImm(RAX, FltTwoPi), Mov(XMM1, R(RAX)),
                                                  Fop("fmul", XMM0, R(XMM0), R(XMM1)) >> \o call
                  [] OTHER -> call)
               \o << StXmmSlot(XMM0, s) >>

Atomic(M, fr, I, s) ==
    LET w == IntW(M, IF I.op = "atomic_store" THEN ValType(M, I.ops[2]) ELSE I.ty)
        n == w \div ByteBits
        alu == [atomic_add |-> "add", atomic_sub |-> "sub", atomic_and |-> "and", atomic_or |-> "or",
                atomic_xor |-> "xor"]
        addr == << LoadVal(fr, RCX, I.ops[1]) >>
        old == << Ld(n, RAX, R(RCX), 0) >> \o SextTo(w) \o << StSlot(RAX, s) >>
        new == CASE I.op \in DOMAIN alu -> << Alu(alu[I.op], w, RAX, R(RAX), R(RDX)) >>
                 [] I.op = "atomic_xchg" -> << Mov(RAX, R(RDX)) >>
                 [] I.op = "atomic_min" -> << Cmp("sgt", w, 3, R(RAX), R(RDX)), CMovNz(RAX, R(RDX), R(3)) >>
                 [] OTHER -> << Cmp("slt", w, 3, R(RAX), R(RDX)), CMovNz(RAX, R(RDX), R(3)) >>
    IN  CASE I.op = "atomic_load"  -> addr \o old
          [] I.op = "atomic_store" -> addr \o << LoadVal(fr, RAX, I.ops[2]), St(n, R(RCX), 0, R(RAX)) >>
          [] I.op = "atomic_cas"   ->
               addr \o << LoadVal(fr, RAX, I.ops[2]), LoadVal(fr, RDX, I.ops[3]), Ld(n, 3, R(RCX), 0),
                          Cmp("eq", w, 10, R(RAX), R(3)), Mov(11, R(3)), CMovNz(11, R(RDX), R(10)),
                          St(n, R(RCX), 0, R(11)), Mov(RAX, R(3)) >> \o SextTo(w) \o << StSlot(RAX, s) >>
          [] OTHER -> addr \o << LoadVal(fr, RDX, I.ops[2]) >> \o old \o new \o << St(n, R(RCX), 0, R(RAX)) >>

Icmp(fr, I, s) == Both(fr, I) \o << Cmp(I.sub, W64, RAX, R(RAX), R(RCX)), StSlot(RAX, s) >>

-----------------------------------------------------------------------------
(* emit_phi_copies: on the edge, one copy after another through RAX. *)
EmitPhiCopies(M, fr, succ, pred) ==
    ForEach(LeadingPhis(M, succ), <<>>, LAMBDA c, ix :
        LET v == PhiIncoming(M.insts[ix], pred)
        IN  IF v = NONE THEN c ELSE c \o << LoadVal(fr, RAX, v), StSlot(RAX, fr.slot[ix]) >>)
Edge(M, fr, succ, pred) == EmitPhiCopies(M, fr, succ, pred) \o << Jmp(BlkLab(succ)) >>

(* The jump taken before the copies of the true edge. *)
BrCondNoCopies(M, fr, I, ix, b) ==
    << LoadVal(fr, RAX, I.ops[1]), Jz(R(RAX), PadLab(ix)), Jmp(BlkLab(I.ops[2])), Lab(PadLab(ix)) >>
    \o Edge(M, fr, I.ops[3], b)
BrCond(M, fr, I, ix, b) ==
    << LoadVal(fr, RAX, I.ops[1]), Jz(R(RAX), PadLab(ix)) >> \o Edge(M, fr, I.ops[2], b)
    \o << Lab(PadLab(ix)) >> \o Edge(M, fr, I.ops[3], b)

RetInst(fr, I, f, kern) ==
    IF kern THEN << Jmp(ContLab(f)) >>
    ELSE (IF I.ops = <<>> THEN <<>> ELSE << LoadVal(fr, RAX, I.ops[1]) >>) \o Epilogue

(* A call: arguments past the sixth integer or the eighth float are dropped. *)
CallInst(M, fr, I, s) ==
    LET F == M.funcs[I.ops[1] + 1]
        args == For(2, Len(I.ops) + 1, [gi |-> 0, xi |-> 0, code |-> <<>>], LAMBDA a, k :
            IF IsFloat(M, ParamType(M, F, k - 2))
            THEN IF a.xi = 8 THEN a
                 ELSE [a EXCEPT !.xi = @ + 1, !.code = @ \o LdFval(fr, XMM0 + a.xi, I.ops[k])]
            ELSE IF a.gi = 6 THEN a
                 ELSE [a EXCEPT !.gi = @ + 1, !.code = Append(@, LoadVal(fr, IntArgRegs[a.gi + 1], I.ops[k]))])
    IN  args.code \o
        << Alu("and", W64, RSP, R(RSP), Imm(2^W64 - 16)), Alu("sub", W64, RSP, R(RSP), Imm(8)),
           Mi("call", "", 0, 3, R(RSP), Nil, FuncLab(I.ops[1] + 1)) >>
        \o << IF IsFloat(M, I.ty) THEN StXmmSlot(XMM0, s) ELSE StSlot(RAX, s) >>

Inst(M, f, fr, kern, b, ix) ==
    LET I == M.insts[ix]
        s == fr.slot[ix]
    IN  CASE I.op \in {"param", "phi", "barrier", "barrier_group"} -> <<>>
          [] I.op \in Allocas -> << Alu("add", W64, RAX, R(RBP), Imm(fr.region[ix])), StSlot(RAX, s) >>
          [] I.op \in {"thread_id", "block_id", "block_dim", "grid_dim"} -> Grid(fr, I, kern, s)
          [] I.op \in {"add", "sub", "mul", "umulhi", "and", "or", "xor"} -> Binary(fr, I, s)
          [] I.op \in BitOps -> BitCounting(fr, I, s)
          [] I.op \in {"shl", "lshr", "ashr"} -> Shift(M, fr, I, s)
          [] I.op \in {"sdiv", "srem", "udiv", "urem"} -> Divide(M, fr, I, s)
          [] I.op = "icmp"    -> Icmp(fr, I, s)
          [] I.op = "gep"     -> Gep(M, fr, I, s)
          [] I.op = "load"    -> LoadInst(M, fr, I, s)
          [] I.op = "store"   -> StoreInst(M, fr, I)
          [] I.op \in FloatBinary -> FloatArith(fr, I, s)
          [] I.op \in FloatUnary -> FloatMath(fr, I, s)
          [] I.op = "fcmp"    -> Fcmp(fr, I, s)
          [] I.op = "select"  -> Select(M, fr, I, s)
          [] I.op \in AtomicRmw \cup {"atomic_cas", "atomic_load", "atomic_store"} -> Atomic(M, fr, I, s)
          [] I.op \in WarpOps -> << LoadVal(fr, RAX, I.ops[2]), StSlot(RAX, s) >>
          [] I.op = "br"      -> Edge(M, fr, I.ops[1], b)
          [] I.op = "br_cond" -> BrCond(M, fr, I, ix, b)
          [] I.op = "ret"     -> RetInst(fr, I, f, kern)
          [] I.op = "call"    -> CallInst(M, fr, I, s)
          [] OTHER            -> ConvertInst(M, fr, I, s)

(* be_fail: what this back end will not compile. *)
Refused == {"switch", "fnref", "printf", "mma", "inline_asm", "global_ref"}

LoopHead(fr, f) ==
    << MovImm(RAX, 0), StSlot(RAX, fr.tid), Lab(LoopLab(f)), LdSlot(RAX, fr.tid),
       LdSlot(RCX, fr.ntid), Cmp("sge", W64, RAX, R(RAX), R(RCX)), Jnz(R(RAX), EndLab(f)) >>
LoopTail(fr, f) ==
    << Lab(ContLab(f)), LdSlot(RAX, fr.tid), Alu("add", W64, RAX, R(RAX), Imm(1)),
       StSlot(RAX, fr.tid), Jmp(LoopLab(f)), Lab(EndLab(f)) >>
Body(M, F, f, fr, kern) ==
    For(F.first, F.first + F.num, <<>>, LAMBDA c, b :
        c \o << Lab(BlkLab(b)) >>
        \o ForEach([k \in 1 .. M.blocks[b].num |-> M.blocks[b].first + k - 1], <<>>,
                   LAMBDA d, ix : d \o Inst(M, f, fr, kern, b, ix)))
CpuFunc(M, F, f, fr, kern) ==
    << Lab(FuncLab(f)) >> \o Prologue(M, F, fr, kern) \o (IF kern THEN LoopHead(fr, f) ELSE <<>>)
    \o Body(M, F, f, fr, kern) \o (IF kern THEN LoopTail(fr, f) ELSE <<>>) \o Epilogue

CpuEmitAll(M) ==
    For(1, Len(M.funcs) + 1, <<>>, LAMBDA c, f :
        c \o CpuFunc(M, M.funcs[f], f, FrameOf(M, M.funcs[f], -8 * M.funcs[f].np), ~M.funcs[f].dev))
CpuOk(M) == \A i \in DOMAIN M.insts : M.insts[i].op \notin Refused

(* How a host calls the kernel: narrow integers with junk above them, the
   thread count last, the return address on the stack. *)
CpuArgs(M, args, n) ==
    LET F == M.funcs[Kernel(M)]
        place(a, p) ==
            LET t == IF p < F.np THEN ParamType(M, F, p) ELSE "i64"
                v == IF p < F.np THEN args[p + 1] ELSE n
                junk == IF W(M, t) < W64 THEN v + 2^W(M, t) * (170 % 2^(W64 - W(M, t))) ELSE v
            IN  IF IsFloat(M, t) /\ a.xi < 8 THEN [a EXCEPT !.xi = @ + 1, !.regs = (XMM0 + a.xi :> v) @@ @]
                ELSE IF ~IsFloat(M, t) /\ a.gi < 6
                THEN [a EXCEPT !.gi = @ + 1, !.regs = (IntArgRegs[a.gi + 1] :> junk) @@ @]
                ELSE [a EXCEPT !.stk = @ + 8, !.mem = Put(@, StackTop + a.stk, 8, junk)]
    IN  For(0, F.np + 1, [gi |-> 0, xi |-> 0, stk |-> 8, mem |-> Put(<< >>, StackTop, 8, 0),
                          regs |-> (RSP :> StackTop) @@ (RBP :> 77)], place)
CpuRun(M, code, args, mem, n) ==
    LET h == CpuArgs(M, args, n) IN MRun(code, FuncLab(Kernel(M)), h.regs, h.mem @@ mem)
=============================================================================
