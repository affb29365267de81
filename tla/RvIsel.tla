------------------------------- MODULE RvIsel -------------------------------
(***************************************************************************)
(* src/src/tensix/rv_isel.c, BIR to the RV32IM of the Tensix baby cores: a *)
(* stack slot off sp for every instruction, a small pattern per opcode.    *)
(* Arguments and coordinates are read from the block rt_args.h lays out.   *)
(* The immediates reach from -RvReach to RvReach - 1; the fixed tables and *)
(* the ranges of the branches are left out.                                *)
(***************************************************************************)
EXTENDS KernelExec

CONSTANT RvReach

SP == 2
RA == 1
T0 == 5
T1 == 6
T2 == 7
A0 == 10
LocalsBase == 8
FrameAlign == 16
RtArgBase == 1536
ShBase == 2048
ShSize == 64
ShAlign == 16

-----------------------------------------------------------------------------
(* C: the code so far, the slots written[] marks, whether anything was refused. *)
Emit(C, code) == [C EXCEPT !.code = @ \o code]
Refuse(C) == [C EXCEPT !.ok = FALSE]
Need(C, cond) == IF cond THEN C ELSE Refuse(C)

AddI(d, a, i) == Alu("add", W32, d, R(a), Imm(i))
Op(op, d, a, b) == Alu(op, W32, d, R(a), R(b))
OpI(op, d, a, i) == Alu(op, W32, d, R(a), Imm(i))
Less(sub, d, a, b) == Cmp(sub, W32, d, R(a), R(b))

(* ldimm32: addi alone, or lui and an addi that may subtract back down. *)
Ldimm32(r, x) ==
    LET v == Signed(x % 2^W32, W32)
        lo == v % (2 * RvReach)
        back == IF lo >= RvReach THEN lo - 2 * RvReach ELSE lo
    IN  IF -RvReach <= v /\ v < RvReach THEN << Mov(r, Imm(v % 2^W32)) >>
        ELSE << Mov(r, Imm((v - back) % 2^W32)) >> \o (IF back = 0 THEN <<>> ELSE << AddI(r, r, back) >>)

(* fn: the function being emitted, with its first instruction and its frame. *)
SlotOff(fn, ix) == LocalsBase + 4 * (ix - fn.base)
SlotOk(fn, v) == v < 0 \/ SlotOff(fn, v) < RvReach
Ldopnd(fn, v, r) ==
    IF IsInt(v) THEN Ldimm32(r, ConstVal(v))
    ELSE IF v < 0 THEN << Mov(r, Imm(0)) >>
    ELSE << Ld(4, r, R(SP), SlotOff(fn, v)) >>
Stres(fn, r, ix) == << St(4, R(SP), SlotOff(fn, ix), R(r)) >>
Both(fn, I) == Ldopnd(fn, I.ops[1], T0) \o Ldopnd(fn, I.ops[2], T1)

-----------------------------------------------------------------------------
(* rv_popc32, rv_brev32: t0 in and out.  The pattern p of n bits, repeated. *)
Mask(p, n) == For(0, (W32 + n - 1) \div n, 0, LAMBDA m, k : m + p * 2^(n * k)) % 2^W32
Popc32 ==
    << OpI("lshr", T1, T0, 1) >> \o Ldimm32(T2, Mask(1, 2))
    \o << Op("and", T1, T1, T2), Op("sub", T0, T0, T1), OpI("lshr", T1, T0, 2) >> \o Ldimm32(T2, Mask(3, 4))
    \o << Op("and", T0, T0, T2), Op("and", T1, T1, T2), Op("add", T0, T0, T1), OpI("lshr", T1, T0, 4),
          Op("add", T0, T0, T1) >> \o Ldimm32(T2, Mask(15, 8))
    \o << Op("and", T0, T0, T2) >> \o Ldimm32(T2, Mask(1, 8))
    \o << Op("mul", T0, T0, T2), OpI("lshr", T0, T0, W32 - 8), OpI("and", T0, T0, 255) >>
Halves == SelectSeq(<< 1, 2, 4, 8, 16 >>, LAMBDA n : n < W32)
Brev32 == ForEach(Halves, <<>>, LAMBDA c, n : c \o << OpI("lshr", T1, T0, n) >> \o Ldimm32(T2, Mask(2^n - 1, 2 * n))
    \o << Op("and", T1, T1, T2), Op("and", T0, T0, T2), OpI("shl", T0, T0, n), Op("or", T0, T0, T1) >>)
SelBitcount(fn, I) ==
    Ldopnd(fn, I.ops[1], T0) \o
    (CASE I.op = "popcount" -> Popc32
       [] I.op = "brev"     -> Brev32
       [] I.op = "ctz"      -> << AddI(T1, T0, -1), OpI("xor", T0, T0, -1), Op("and", T0, T0, T1) >> \o Popc32
       [] OTHER -> ForEach(Halves, <<>>, LAMBDA c, n : c \o << OpI("lshr", T1, T0, n), Op("or", T0, T0, T1) >>)
                   \o Popc32 \o Ldimm32(T1, W32) \o << Op("sub", T0, T1, T0) >>)

Binops == {"add", "sub", "mul", "umulhi", "sdiv", "udiv", "srem", "urem", "and", "or", "xor", "shl", "lshr", "ashr"}
SelBinop(fn, I) == Both(fn, I) \o << Op(I.op, T0, T0, T1) >>

SelIcmp(fn, I) ==
    LET flip == << OpI("xor", T0, T0, 1) >> IN
    Both(fn, I) \o
    (CASE I.sub = "eq"  -> << Op("xor", T0, T0, T1), Cmp("ult", W32, T0, R(T0), Imm(1)) >>
       [] I.sub = "ne"  -> << Op("xor", T0, T0, T1), Cmp("ult", W32, T0, Imm(0), R(T0)) >>
       [] I.sub = "slt" -> << Less("slt", T0, T0, T1) >>
       [] I.sub = "sle" -> << Less("slt", T0, T1, T0) >> \o flip
       [] I.sub = "sgt" -> << Less("slt", T0, T1, T0) >>
       [] I.sub = "sge" -> << Less("slt", T0, T0, T1) >> \o flip
       [] I.sub = "ult" -> << Less("ult", T0, T0, T1) >>
       [] I.sub = "ule" -> << Less("ult", T0, T1, T0) >> \o flip
       [] I.sub = "ugt" -> << Less("ult", T0, T1, T0) >>
       [] OTHER         -> << Less("ult", T0, T0, T1) >> \o flip)

(* Pointers and ints are both one word: those casts copy.  The others move the
   bits to the top of the word and back. *)
Identities == {"ptrtoint", "inttoptr", "bitcast"}
TypeWid(M, t) == IF M.types[t].kind = "int" THEN W(M, t) ELSE W32
ValWid(M, v) == IF v < 0 THEN W32 ELSE TypeWid(M, M.insts[v].ty)
UpAndDown(w, down) ==
    IF w >= W32 THEN <<>> ELSE << OpI("shl", T0, T0, W32 - w), OpI(down, T0, T0, W32 - w) >>
SelCast(M, fn, I) ==
    Ldopnd(fn, I.ops[1], T0) \o
    (CASE I.op = "zext"  -> UpAndDown(ValWid(M, I.ops[1]), "lshr")
       [] I.op = "sext"  -> UpAndDown(ValWid(M, I.ops[1]), "ashr")
       [] I.op = "trunc" -> UpAndDown(TypeWid(M, I.ty), "lshr")
       [] OTHER          -> <<>>)
Wide64(M, I) == M.types[I.ty].kind = "int" /\ W(M, I.ty) > W32

-----------------------------------------------------------------------------
(* phicoll: the copies of a function, in the order of its phis; ephicp emits
   those of one predecessor and refuses to read a slot that written[] says an
   earlier copy wrote.  Only the batch's own entries of written[] are reset. *)
Phicoll(M, F) ==
    ForEach(SelectSeq(WalkOrder(M, F), LAMBDA ix : M.insts[ix].op = "phi"), <<>>, LAMBDA c, ix :
        c \o [k \in 1 .. Len(M.insts[ix].ops) \div 2 |->
                [pred |-> M.insts[ix].ops[2 * k - 1], phi |-> ix, src |-> M.insts[ix].ops[2 * k]]])
Ephicp(fn, C, b) ==
    LET batch == SelectSeq(fn.copies, LAMBDA p : p.pred = b)
        copy(c, p) == [Emit(Need(c, p.src \notin c.written /\ SlotOk(fn, p.src) /\ SlotOk(fn, p.phi)), Ldopnd(fn, p.src, T0) \o Stres(fn, T0, p.phi))
                       EXCEPT !.written = @ \cup {p.phi}]
    IN  ForEach(batch, [C EXCEPT !.written = @ \ {batch[i].phi : i \in DOMAIN batch}], copy)

SelBr(fn, C, I, b) == Emit(Ephicp(fn, C, b), << Jmp(BlkLab(I.ops[1])) >>)
(* The condition waits in t0 while the copies run. *)
SelBrCond(fn, C, I, b) ==
    Emit(Ephicp(fn, Emit(C, Ldopnd(fn, I.ops[1], T0)), b),
         << Jnz(R(T0), BlkLab(I.ops[2])), Jmp(BlkLab(I.ops[3])) >>)
SelSwitch(fn, C, I, b) ==
    Emit(For(2, Len(I.ops) \div 2 + 1, Ephicp(fn, C, b), LAMBDA c, k :
            Emit(c, Ldopnd(fn, I.ops[1], T0) \o Ldopnd(fn, I.ops[2 * k - 1], T1)
                    \o << Op("sub", T0, T0, T1), Jz(R(T0), BlkLab(I.ops[2 * k])) >>)),
         << Jmp(BlkLab(I.ops[2])) >>)

SelSelect(fn, I, ix) ==
    Ldopnd(fn, I.ops[1], T2) \o Ldopnd(fn, I.ops[3], T0) \o << Jz(R(T2), PadLab(ix)) >>
    \o Ldopnd(fn, I.ops[2], T0) \o << Lab(PadLab(ix)) >>

(* A call to the function itself, or of more than eight arguments, is refused. *)
CallOk(fn, I) == I.ops[1] + 1 # fn.f /\ Len(I.ops) <= 9
SelCall(fn, I, ix) ==
    For(2, Len(I.ops) + 1, <<>>, LAMBDA c, k : c \o Ldopnd(fn, I.ops[k], A0 + k - 2))
    \o << Jal(RA, FuncLab(I.ops[1] + 1)) >> \o Stres(fn, A0, ix)

-----------------------------------------------------------------------------
(* accwid, winsn: the pointee's size picks the access; loads zero-extend. *)
AccWid(M, v) == IF v < 0 THEN 0 ELSE Gstr(M, M.insts[v].ty)
AccOk(M, v) == AccWid(M, v) \in {1, 2, 4}
SelLoad(M, fn, I) == Ldopnd(fn, I.ops[1], T1) \o << Ld(AccWid(M, I.ops[1]), T0, R(T1), 0) >>
SelStore(M, fn, I) == Both(fn, I) \o << St(AccWid(M, I.ops[2]), R(T1), 0, R(T0)) >>

(* natalg, sfldof: a field starts at the natural boundary of its size, a
   union's as well. *)
NatAlg(sz) == IF sz >= 4 THEN 4 ELSE IF sz >= 2 THEN 2 ELSE 1
SfldOf(M, st, k) ==
    LET fs == M.types[st].fs
        place(o, t) == BszUp(o, NatAlg(Bsz(M, t)))
    IN  place(ForEach(SubSeq(fs, 1, k), 0, LAMBDA o, t : place(o, t) + Bsz(M, t)), fs[k + 1])

(* A step into a struct whose result points at something else is a field. *)
BaseTy(M, v) == IF v >= 0 /\ IsPtr(M, M.insts[v].ty) THEN M.types[M.insts[v].ty].in ELSE "void"
StructGep(M, I) ==
    M.types[BaseTy(M, I.ops[1])].kind \in {"struct", "union"} /\ M.types[I.ty].in # BaseTy(M, I.ops[1])
GepOk(M, I) ==
    LET i == I.ops[2] IN
    CASE i = ZERO -> TRUE
      [] i < 0 /\ ~IsInt(i) -> FALSE
      [] StructGep(M, I) -> IsInt(i) /\ ConstVal(i) >= 0
      [] OTHER -> Gstr(M, I.ty) > 0 \/ (IsInt(i) /\ ConstVal(i) = 0)
(* gepoff: t0 moved by a constant. *)
GepOff(off) ==
    CASE off = 0 -> <<>>
      [] -RvReach <= off /\ off < RvReach -> << AddI(T0, T0, off) >>
      [] OTHER -> Ldimm32(T1, off) \o << Op("add", T0, T0, T1) >>
SelGep(M, fn, I) ==
    LET i == I.ops[2]
        k == IF i = ZERO THEN 0 ELSE ConstVal(i)
        sz == Gstr(M, I.ty)
    IN  Ldopnd(fn, I.ops[1], T0) \o
        (CASE i < 0 /\ k = 0 -> <<>>
           [] i < 0 /\ StructGep(M, I) ->
                GepOff(IF k < Len(M.types[BaseTy(M, I.ops[1])].fs) THEN SfldOf(M, BaseTy(M, I.ops[1]), k) ELSE 0)
           [] i < 0 -> GepOff(k * sz)
           [] OTHER -> Ldopnd(fn, i, T1)
                       \o (IF sz = 1 THEN <<>> ELSE Ldimm32(T2, sz) \o << Op("mul", T1, T1, T2) >>)
                       \o << Op("add", T0, T0, T1) >>)

(* The runtime-argument block: four coordinates of three words, then the
   kernel's parameters, a word each. *)
Coords == [thread_id |-> 0, block_id |-> 12, block_dim |-> 24, grid_dim |-> 36]
KargSlots == 32
KargOff(p) == 48 + 4 * p
FromRtArgs(off) == << Mov(T1, Imm(RtArgBase)), Ld(4, T0, R(T1), off) >>

SelRet(fn, I) ==
    (IF I.ops # <<>> THEN Ldopnd(fn, I.ops[1], A0) ELSE << AddI(A0, 0, 0) >>)
    \o << Ld(4, RA, R(SP), 0), AddI(SP, SP, fn.frame), Jr(R(RA)) >>
NoRet == [ops |-> <<>>]

-----------------------------------------------------------------------------
(* The regions of the allocas of one kind, one after the other from 0: how far
   each is, and how far they reach. *)
Regions(M, F, op, align) ==
    ForEach(SelectSeq(WalkOrder(M, F), LAMBDA ix : M.insts[ix].op = op), [off |-> << >>, tot |-> 0, ok |-> TRUE],
        LAMBDA a, ix :
            LET sz == Bsz(M, M.types[M.insts[ix].ty].in)
                at == BszUp(a.tot, align)
            IN  [off |-> (ix :> at) @@ a.off, tot |-> at + sz, ok |-> a.ok /\ sz > 0])

(* What an instruction leaves in t0, for those that only compute. *)
Computes(M, fn, I, ix) ==
    CASE I.op = "param"        -> FromRtArgs(KargOff(I.sub))
      [] I.op \in DOMAIN Coords -> FromRtArgs(Coords[I.op] + 4 * I.sub)
      [] I.op = "load"         -> SelLoad(M, fn, I)
      [] I.op \in Binops       -> SelBinop(fn, I)
      [] I.op \in BitOps       -> SelBitcount(fn, I)
      [] I.op = "icmp"         -> SelIcmp(fn, I)
      [] I.op = "select"       -> SelSelect(fn, I, ix)
      [] I.op = "gep"          -> SelGep(M, fn, I)
      [] I.op = "alloca"       -> << AddI(T0, SP, fn.alcbase + fn.alc.off[ix]) >>
      [] I.op = "shared_alloc" -> Ldimm32(T0, ShBase + fn.sh.off[ix])
      [] OTHER                 -> SelCast(M, fn, I)
Computing == Binops \cup BitOps \cup Identities \cup DOMAIN Coords
    \cup {"param", "load", "icmp", "select", "gep", "alloca", "shared_alloc", "zext", "sext", "trunc"}
Silent == {"phi", "barrier", "barrier_group"}
Plain == Computing \cup Silent \cup {"store", "br", "br_cond", "switch", "call", "ret", "unreachable", "trap"}

InstOk(M, fn, I, ix) ==
    /\ ~Wide64(M, I) /\ I.op \in Plain /\ SlotOk(fn, ix)
    /\ \A k \in DOMAIN I.ops : IsBlockRef(I.op, k - 1) \/ I.op = "phi" \/ SlotOk(fn, I.ops[k])
    /\ CASE I.op = "param"  -> I.sub < KargSlots
         [] I.op = "load"   -> AccOk(M, I.ops[1])
         [] I.op = "store"  -> AccOk(M, I.ops[2])
         [] I.op = "gep"    -> GepOk(M, I)
         [] I.op = "call"   -> CallOk(fn, I)
         [] I.op = "alloca" -> fn.alcbase + fn.alc.off[ix] < RvReach
         [] OTHER           -> TRUE

RvInst(M, fn, C, b, ix) ==
    LET I == M.insts[ix] IN
    IF ~C.ok \/ ~InstOk(M, fn, I, ix) THEN Refuse(C)
    ELSE CASE I.op \in Silent    -> C
           [] I.op \in Computing -> Emit(C, Computes(M, fn, I, ix) \o Stres(fn, T0, ix))
           [] I.op = "store"     -> Emit(C, SelStore(M, fn, I))
           [] I.op = "br"        -> SelBr(fn, C, I, b)
           [] I.op = "br_cond"   -> SelBrCond(fn, C, I, b)
           [] I.op = "switch"    -> SelSwitch(fn, C, I, b)
           [] I.op = "call"      -> Emit(C, SelCall(fn, I, ix))
           [] I.op = "ret"       -> Emit(C, SelRet(fn, I))
           [] OTHER              -> Emit(C, << Trap >>)

(* The frame: the return address and padding, a slot for every instruction,
   the allocas. *)
FnOf(M, F, f, alc, sh, locals) ==
    [f |-> f, base |-> M.blocks[F.first].first, alc |-> alc, sh |-> sh, alcbase |-> locals,
     frame |-> BszUp(locals + alc.tot, FrameAlign), copies |-> Phicoll(M, F)]
Returns(M, F) == \E b \in BlocksOf(F) : \E ix \in InstsOf(M, b) : M.insts[ix].op = "ret"
Blocks(M, F, fn, C) ==
    For(F.first, F.first + F.num, C, LAMBDA c, b :
        ForEach([k \in 1 .. M.blocks[b].num |-> M.blocks[b].first + k - 1],
                Emit(c, << Lab(BlkLab(b)) >>), LAMBDA d, ix : RvInst(M, fn, d, b, ix)))
Body(M, F, fn, C) ==
    Emit(Blocks(M, F, fn, Emit(Need(C, fn.alc.ok /\ fn.sh.ok /\ fn.sh.tot <= ShSize /\ fn.frame < RvReach),
                               << Lab(FuncLab(fn.f)), AddI(SP, SP, -fn.frame), St(4, R(SP), 0, R(RA)) >>)),
         IF Returns(M, F) THEN <<>> ELSE SelRet(fn, NoRet))
RvFunc(M, F, f, C) ==
    Body(M, F, FnOf(M, F, f, Regions(M, F, "alloca", 4), Regions(M, F, "shared_alloc", ShAlign),
                    LocalsBase + 4 * F.total), C)

(* rv_isel_module: the first kernel, then the rest; none is an error. *)
Start == [code |-> <<>>, written |-> {}, ok |-> TRUE]
RvIselModule(M) ==
    LET order == SelectSeq([f \in DOMAIN M.funcs |-> f], LAMBDA f : f # Kernel(M))
    IN  IF \A f \in DOMAIN M.funcs : M.funcs[f].dev THEN Refuse(Start)
        ELSE ForEach(<< Kernel(M) >> \o order, Start, LAMBDA C, f : RvFunc(M, M.funcs[f], f, C))

(***************************************************************************)
(* The launcher: the argument block is written and the first byte of the   *)
(* code called, once for each thread.                                      *)
(***************************************************************************)
RtArgs(M, args, who, mem) ==
    For(0, M.funcs[Kernel(M)].np,
        ForEach(<< "thread_id", "block_id", "block_dim", "grid_dim" >>, mem,
                LAMBDA m, c : Put(m, RtArgBase + Coords[c], 4, who[c])),
        LAMBDA m, p : Put(m, RtArgBase + KargOff(p), 4, args[p + 1]))
Rv32Run(M, C, args, mem, n) ==
    For(0, n, [mem |-> mem, end |-> "ret"],
        LAMBDA a, t : IF a.end # "ret" THEN a
                      ELSE LET s == MRun(C.code, C.code[1].t, (0 :> 0) @@ (SP :> StackTop) @@ (RA :> 0),
                                         RtArgs(M, args, Who(t, n), a.mem))
                           IN  [mem |-> s.mem, end |-> s.end])
=============================================================================
