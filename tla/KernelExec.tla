----------------------------- MODULE KernelExec -----------------------------
(***************************************************************************)
(* What an optimised module means to the back ends: a kernel run once for  *)
(* every thread of a block, on byte-addressed memory, with the layout      *)
(* bir.c computes for its types.  The machine is scaled down and keeps its *)
(* proportions: a byte has ByteBits bits, an int four bytes, a long eight  *)
(* and an address PtrBytes.  Floating point is left uninterpreted: each    *)
(* operation is a fixed function of its operands' bits, so what is checked *)
(* is which operands reach which operation.                                *)
(***************************************************************************)
EXTENDS BirExec

CONSTANTS ByteBits, PtrBytes

(***************************************************************************)
(* M.types: the module's types by name, [kind, w, in, n, fs, as], kind one *)
(* of void, int, float, ptr, array, struct, union; w a scalar's width in   *)
(* bits or a struct's least alignment, in a pointer's target or an array's *)
(* element, n an array's length, fs the fields, as a pointer's address     *)
(* space.                                                                  *)
(***************************************************************************)
ValType(M, v) == IF v >= 0 THEN M.insts[v].ty ELSE IF IsInt(v) THEN ConstType(v) ELSE "i32"
IsPtr(M, t) == M.types[t].kind = "ptr"
IsFloat(M, t) == M.types[t].kind = "float"

(* bsz_al, bsz_up: the largest power of two not above a size or a pointer; a
   size rounded up to an alignment. *)
BszAl(sz) == CHOOSE a \in {1, 2, 4, 8} : a <= sz /\ a <= PtrBytes /\ (2 * a > sz \/ a = PtrBytes)
BszUp(x, a) == ((x + a - 1) \div a) * a

(* bir_bsz and bir_balg at once: the bytes a type takes and their alignment,
   a struct's fields laid out in order. *)
RECURSIVE Layout(_, _)
Layout(M, t) ==
    LET T == M.types[t] IN
    CASE T.kind \in {"int", "float"} ->
           LET w == (T.w + ByteBits - 1) \div ByteBits IN [size |-> w, align |-> BszAl(w)]
      [] T.kind = "ptr"   -> [size |-> PtrBytes, align |-> PtrBytes]
      [] T.kind = "array" -> LET e == Layout(M, T.in) IN [size |-> T.n * e.size, align |-> e.align]
      [] T.kind \in {"struct", "union"} ->
           LET all == ForEach(T.fs, [size |-> 0, align |-> IF T.w > 1 THEN T.w ELSE 1],
                   LAMBDA a, f : LET e == Layout(M, f)
                                     end == e.size + (IF T.kind = "union" THEN 0 ELSE BszUp(a.size, e.align))
                                 IN  [size |-> IF end > a.size THEN end ELSE a.size,
                                      align |-> IF e.align > a.align THEN e.align ELSE a.align])
           IN  [all EXCEPT !.size = BszUp(@, all.align)]
      [] OTHER -> [size |-> 0, align |-> 1]
Bsz(M, t) == Layout(M, t).size
Balg(M, t) == Layout(M, t).align

(* bir_gsz, bir_gstr: how far one step of a gep of this pointer type goes. *)
Gstr(M, t) ==
    LET in == M.types[t].in IN
    CASE ~IsPtr(M, t) -> Bsz(M, t)
      [] M.types[in].kind = "array" /\ M.types[in].n = 0 -> Bsz(M, M.types[in].in)
      [] OTHER -> Bsz(M, in)

(* bir_fgep: a constant index into a struct is a field; its offset. *)
IsFgep(M, I) ==
    LET bt == ValType(M, I.ops[1])
        st == M.types[bt].in
        v == I.ops[2]
    IN  /\ IsPtr(M, bt) /\ M.types[st].kind \in {"struct", "union"} /\ IsInt(v)
        /\ ConstVal(v) \in 0 .. Len(M.types[st].fs) - 1
        /\ IsPtr(M, I.ty) /\ M.types[I.ty].in = M.types[st].fs[ConstVal(v) + 1]
Fgep(M, I) ==
    LET st == M.types[M.types[ValType(M, I.ops[1])].in]
        fs == st.fs
        k == ConstVal(I.ops[2])
        before == ForEach(SubSeq(fs, 1, k), 0,
                          LAMBDA o, f : BszUp(o, Balg(M, f)) + Bsz(M, f))
    IN  IF st.kind = "union" THEN 0 ELSE BszUp(before, Balg(M, fs[k + 1]))

(* Bit width of an address, and of a value of this type. *)
WPtr == PtrBytes * ByteBits
W(M, t) == IF IsPtr(M, t) THEN WPtr ELSE M.types[t].w
W32 == 4 * ByteBits
W64 == 8 * ByteBits

-----------------------------------------------------------------------------
(* Memory: bytes by address; one never written is undefined. *)
Get(mem, a, n) ==
    LET bytes == [k \in 0 .. n - 1 |-> IF a + k \in DOMAIN mem THEN mem[a + k] ELSE Undef]
    IN  IF a < 0 THEN a
        ELSE IF \E k \in 0 .. n - 1 : bytes[k] < 0 THEN Undef
        ELSE For(0, n, 0, LAMBDA v, k : v + bytes[k] * 2^(ByteBits * k))
Put(mem, a, n, v) ==
    IF a < 0 THEN mem
    ELSE [i \in a .. a + n - 1 |-> IF v < 0 THEN Undef
             ELSE (v \div 2^(ByteBits * (i - a))) % 2^ByteBits] @@ mem

(* Float arithmetic on bit patterns, kept abstract: fixed functions that tell
   the operation and the order of the operands apart. *)
FltOps == << "fadd", "fsub", "fmul", "fdiv", "fmax", "fmin", "sqrt", "sinf", "cosf", "exp2f",
             "log2f", "rnd0", "rnd1", "rnd2", "rnd3" >>
Flt(op, a, b) ==
    IF a < 0 \/ b < 0 THEN Undef
    ELSE (7 * (CHOOSE k \in DOMAIN FltOps : FltOps[k] = op) + 3 * a + 5 * b + a * b) % 2^W32
FltOne == 63
FltTwoPi == 70
FltLess(a, b) == Signed(a, W32) < Signed(b, W32)
IntToFlt(a) == (3 * a + 11) % 2^W32
FltToInt(a) == (Signed(a, W32) * 5 + 3) \div 4
FltOf(op, a, b) ==
    CASE a < 0 \/ b < 0 -> Undef
      [] op = "frem" -> Flt("fsub", a, Flt("fmul", IntToFlt(FltToInt(Flt("fdiv", a, b))), b))
      [] op = "rcp"  -> Flt("fdiv", FltOne, a)
      [] op = "rsq"  -> Flt("fdiv", FltOne, Flt("sqrt", a, 0))
      [] op = "fabs" -> a % 2^(W32 - 1)
      [] op = "sin"  -> Flt("sinf", Flt("fmul", a, FltTwoPi), 0)
      [] op = "cos"  -> Flt("cosf", Flt("fmul", a, FltTwoPi), 0)
      [] op = "exp2" -> Flt("exp2f", a, 0)
      [] op = "log2" -> Flt("log2f", a, 0)
      [] op \in {"rndne", "ftrunc", "floor", "ceil"} ->
           Flt([rndne |-> "rnd0", ftrunc |-> "rnd1", floor |-> "rnd2", ceil |-> "rnd3"][op], a, 0)
      [] OTHER -> Flt(op, a, b)
FloatBinary == {"fadd", "fsub", "fmul", "fdiv", "frem", "fmax", "fmin"}
FloatUnary == {"sqrt", "rsq", "rcp", "exp2", "log2", "sin", "cos", "fabs", "floor", "ceil",
               "ftrunc", "rndne"}
FCompare(sub, a, b) ==
    CASE a < 0 \/ b < 0           -> Undef
      [] sub \in {"oeq", "ueq"}   -> IF a = b THEN 1 ELSE 0
      [] sub \in {"one", "une"}   -> IF a # b THEN 1 ELSE 0
      [] sub \in {"olt", "ult"}   -> IF FltLess(a, b) THEN 1 ELSE 0
      [] sub \in {"ogt", "ugt"}   -> IF FltLess(b, a) THEN 1 ELSE 0
      [] sub \in {"ole", "ule"}   -> IF FltLess(b, a) THEN 0 ELSE 1
      [] OTHER                    -> IF FltLess(a, b) THEN 0 ELSE 1

(* The high word of a product, without leaving TLC's integers. *)
UMulHi(a, b, w) ==
    LET h == 2^(w \div 2)
        m == (a % h) * (b \div h) + ((a % h) * (b % h)) \div h
    IN  (a \div h) * (b \div h) + m \div h + ((a \div h) * (b % h) + (m % h)) \div h

BitOf(a, k) == (a \div 2^k) % 2
Bits1(a, w) == {k \in 0 .. w - 1 : BitOf(a, k) = 1}
BitCount(op, a, w) ==
    LET on == Bits1(a, w)
        lo == CHOOSE x \in on : \A y \in on : x <= y
        hi == CHOOSE x \in on : \A y \in on : x >= y
    IN  CASE op = "popcount" -> Cardinality(on)
          [] op = "ctz"      -> IF on = {} THEN w ELSE lo
          [] op = "clz"      -> IF on = {} THEN w ELSE w - 1 - hi
          [] OTHER           -> For(0, w, 0, LAMBDA v, k : v + BitOf(a, k) * 2^(w - 1 - k))
BitOps == {"popcount", "ctz", "clz", "brev"}

AtomicRmw == {"atomic_add", "atomic_sub", "atomic_and", "atomic_or", "atomic_xor",
              "atomic_min", "atomic_max", "atomic_xchg"}
AtomicNew(op, old, v, w) ==
    CASE old < 0 \/ v < 0    -> Undef
      [] op = "atomic_add"   -> (old + v) % 2^w
      [] op = "atomic_sub"   -> (old - v) % 2^w
      [] op = "atomic_and"   -> Arith("and", 0, old, v, w)
      [] op = "atomic_or"    -> Arith("or", 0, old, v, w)
      [] op = "atomic_xor"   -> Arith("xor", 0, old, v, w)
      [] op = "atomic_min"   -> IF Signed(v, w) < Signed(old, w) THEN v ELSE old
      [] op = "atomic_max"   -> IF Signed(v, w) > Signed(old, w) THEN v ELSE old
      [] OTHER               -> v

WarpOps == {"shfl", "shfl_up", "shfl_down", "shfl_xor", "ballot", "vote_any", "vote_all"}

-----------------------------------------------------------------------------
(***************************************************************************)
(* One thread: who it is, its activations, the memory it shares.           *)
(***************************************************************************)
SharedBase == 20480
LocalBase == 40960
GridVal(op, who) == who[op]

KVal(M, fr, v) ==
    CASE v \in {NONE, UNDEF} -> Undef
      [] v = ZERO   -> 0
      [] IsInt(v)   -> ConstVal(v) % 2^W(M, ConstType(v))
      [] v \in DOMAIN fr.env -> fr.env[v]
      [] OTHER      -> Undef

KEnter(M, fr, t) ==
    LET phis == {i \in InstsOf(M, t) : M.insts[i].op = "phi"}
        Incoming(I) == LET at == {k \in DOMAIN I.ops : k % 2 = 1 /\ I.ops[k] = fr.b}
                       IN  IF at = {} THEN Undef ELSE KVal(M, fr, I.ops[1 + CHOOSE k \in at : TRUE])
    IN  [fr EXCEPT !.b = t, !.pc = M.blocks[t].first,
                   !.env = [i \in phis |-> Incoming(M.insts[i])] @@ @]

(* The value of an instruction that only computes. *)
KPure(M, I, who, Op(_)) ==
    LET w == W(M, ValType(M, I.ops[1]))
        to == W(M, I.ty)
        a == Op(1)
        b == IF Len(I.ops) > 1 THEN Op(2) ELSE 0
    IN  CASE a < 0 \/ b < 0            -> Undef
          [] I.op \in Arithmetic       -> Arith(I.op, I.sub, a, b, w)
          [] I.op = "umulhi"           -> UMulHi(a, b, w)
          [] I.op \in BitOps           -> BitCount(I.op, a, w)
          [] I.op \in Conversions      -> Convert(I.op, a, w, to)
          [] I.op \in {"ptrtoint", "inttoptr"} -> a % 2^to
          [] I.op \in FloatBinary \cup FloatUnary -> FltOf(I.op, a, b)
          [] I.op = "fcmp"             -> FCompare(I.sub, a, b)
          [] I.op = "sitofp"           -> IntToFlt(Signed(a, w))
          [] I.op = "uitofp"           -> IntToFlt(a)
          [] I.op \in {"fptosi", "fptoui"} -> FltToInt(a) % 2^to
          [] I.op = "gep"              ->
               IF IsFgep(M, I) THEN (a + Fgep(M, I)) % 2^WPtr
               ELSE (a + Signed(b, W(M, ValType(M, I.ops[2]))) * Gstr(M, I.ty)) % 2^WPtr
          [] I.op \in WarpOps          -> b
          [] OTHER                     -> a
Pure == Arithmetic \cup BitOps \cup Conversions \cup FloatBinary \cup FloatUnary \cup WarpOps
        \cup {"umulhi", "ptrtoint", "inttoptr", "fcmp", "sitofp", "uitofp", "fptosi", "fptoui",
              "gep", "fpext", "fptrunc"}

KStep(M, s) ==
    LET d == Len(s.stk)
        fr == s.stk[d]
        I == M.insts[fr.pc]
        Op(k) == KVal(M, fr, I.ops[k])
        Top(x) == [s EXCEPT !.stk[d] = x]
        Def(v) == Top([fr EXCEPT !.env = (fr.pc :> v) @@ @, !.pc = @ + 1])
        Skip == Top([fr EXCEPT !.pc = @ + 1])
        Goto(t) == Top(KEnter(M, fr, t))
        Stop(why) == [s EXCEPT !.end = why]
        w == W(M, I.ty)
        n == Bsz(M, I.ty)
    IN  CASE I.op = "param"      -> Def(fr.args[I.sub + 1])
          [] I.op = "phi"        -> Skip
          [] I.op = "alloca"     ->
               [Def(s.sp) EXCEPT !.sp = BszUp(@ + Bsz(M, M.types[I.ty].in), PtrBytes)]
          [] I.op = "shared_alloc" -> Def(SharedBase + PtrBytes * fr.pc)
          [] I.op \in {"thread_id", "block_id", "block_dim", "grid_dim"} -> Def(GridVal(I.op, s.who))
          [] I.op \in {"load", "atomic_load"} -> Def(Get(s.mem, Op(1), n))
          [] I.op = "store"      ->
               [Skip EXCEPT !.mem = Put(@, Op(2), Bsz(M, M.types[ValType(M, I.ops[2])].in), Op(1))]
          [] I.op = "atomic_store" -> [Skip EXCEPT !.mem = Put(@, Op(1), Bsz(M, ValType(M, I.ops[2])), Op(2))]
          [] I.op \in AtomicRmw  ->
               LET old == Get(s.mem, Op(1), n)
                   new == IF IsFloat(M, I.ty) /\ I.op = "atomic_add" THEN Flt("fadd", old, Op(2))
                          ELSE AtomicNew(I.op, old, Op(2), w)
               IN  [Def(old) EXCEPT !.mem = Put(@, Op(1), n, new)]
          [] I.op = "atomic_cas" ->
               LET old == Get(s.mem, Op(1), n)
               IN  [Def(old) EXCEPT !.mem = IF old = Op(2) THEN Put(@, Op(1), n, Op(3)) ELSE @]
          [] I.op = "select"     ->
               Def(IF Op(1) < 0 THEN Undef ELSE IF Op(1) # 0 THEN Op(2) ELSE Op(3))
          [] I.op \in {"barrier", "barrier_group"} -> Skip
          [] I.op = "br"         -> Goto(I.ops[1])
          [] I.op = "br_cond"    ->
               IF Op(1) < 0 THEN Stop("undef") ELSE Goto(IF Op(1) # 0 THEN I.ops[2] ELSE I.ops[3])
          [] I.op = "switch"     ->
               LET hit == {k \in 1 .. (Len(I.ops) \div 2 - 1) : Op(2 * k + 1) = Op(1)}
               IN  IF Op(1) < 0 THEN Stop("undef")
                   ELSE Goto(IF hit = {} THEN I.ops[2] ELSE I.ops[2 * (CHOOSE k \in hit : TRUE) + 2])
          [] I.op = "call"       ->
               [s EXCEPT !.stk = Append(@, Frame(M, I.ops[1] + 1, fr.pc,
                            [k \in 1 .. Len(I.ops) - 1 |-> Op(k + 1)]))]
          [] I.op = "ret"        ->
               IF d = 1 THEN Stop("ret")
               ELSE LET v == IF I.ops = <<>> THEN Undef ELSE Op(1)
                    IN  [s EXCEPT !.stk = SubSeq(@, 1, d - 2) \o
                            << [s.stk[d - 1] EXCEPT !.env = (fr.call :> v) @@ @, !.pc = @ + 1] >>]
          [] I.op \in Pure       -> Def(KPure(M, I, s.who, Op))
          [] OTHER               -> Stop("wrong")

(* A block of n threads, one after the other. *)
Who(t, n) == [thread_id |-> t, block_id |-> 0, block_dim |-> n, grid_dim |-> 1]
KThread(M, args, mem, who) ==
    While([stk |-> << Frame(M, Kernel(M), 0, args) >>, mem |-> mem, sp |-> LocalBase, end |-> "",
           who |-> who],
          Fuel, LAMBDA s : s.end # "", LAMBDA s : KStep(M, s))
KRun(M, args, mem, n) ==
    For(0, n, [mem |-> mem, end |-> "ret"],
        LAMBDA a, t : IF a.end # "ret" THEN a
                      ELSE LET s == KThread(M, args, a.mem, Who(t, n))
                           IN  [mem |-> s.mem, end |-> s.end])

-----------------------------------------------------------------------------
(***************************************************************************)
(* The machines the scalar back ends emit for: an instruction list, a      *)
(* register file of address-wide words and the memory above.  One          *)
(* instruction is one record; an operation works on the low w bits of its  *)
(* operands and leaves the rest of the destination clear, as the x86 does, *)
(* and the sign-extending forms of the RISC-V are an operation and a sext. *)
(* Labels stand in the list for the addresses the emitters patch in.       *)
(***************************************************************************)

R(n) == [k |-> "r", x |-> n]
Imm(v) == [k |-> "i", x |-> v]
Nil == Imm(0)

Mi(op, sub, w, d, a, b, t) == [op |-> op, sub |-> sub, w |-> w, d |-> d, a |-> a, b |-> b, t |-> t]
Alu(op, w, d, a, b) == Mi(op, "", w, d, a, b, 0)
Cmp(sub, w, d, a, b) == Mi("icmp", sub, w, d, a, b, 0)
Mov(d, a) == Mi("mov", "", WPtr, d, a, Nil, 0)
Sext(w, d, a) == Mi("sext", "", w, d, a, Nil, 0)
Zext(w, d, a) == Mi("zext", "", w, d, a, Nil, 0)
Ld(bytes, d, a, off) == Mi("ld", "", bytes, d, a, Nil, off)
St(bytes, a, off, v) == Mi("st", "", bytes, 0, a, v, off)
Fop(sub, d, a, b) == Mi("flt", sub, W32, d, a, b, 0)
Cvt(sub, w, d, a) == Mi(sub, "", w, d, a, Nil, 0)
CMovNz(d, a, c) == Mi("cmovnz", "", WPtr, d, a, c, 0)
Jmp(t) == Mi("jmp", "", 0, 0, Nil, Nil, t)
Jz(a, t) == Mi("jz", "", 0, 0, a, Nil, t)
Jnz(a, t) == Mi("jnz", "", 0, 0, a, Nil, t)
Lab(t) == Mi("lab", "", 0, 0, Nil, Nil, t)
Jal(d, t) == Mi("jal", "", 0, d, Nil, Nil, t)
Jr(a) == Mi("jr", "", 0, 0, a, Nil, 0)
Trap == Mi("trap", "", 0, 0, Nil, Nil, 0)
Amo(sub, bytes, d, a, b) == Mi("amo", sub, bytes, d, a, b, 0)

(* The labels: a block, a function, and the places inside one. *)
BlkLab(b) == b
FuncLab(f) == 1000 + f
PadLab(ix) == 2000 + ix
LoopLab(f) == 3000 + f
ContLab(f) == 3100 + f
EndLab(f) == 3200 + f

LabelsOf(code) ==
    [t \in {code[i].t : i \in {j \in DOMAIN code : code[j].op = "lab"}} |->
        CHOOSE i \in DOMAIN code : code[i].op = "lab" /\ code[i].t = t]

(* What an operation on two defined operands gives. *)
MOp(I, a, b) ==
    LET m == 2^I.w IN
    CASE I.op \in Arithmetic -> Arith(I.op, I.sub, a % m, b % m, I.w)
      [] I.op = "umulhi"     -> UMulHi(a % m, b % m, I.w)
      [] I.op \in BitOps     -> BitCount(I.op, a % m, I.w)
      [] I.op = "mov"        -> a % 2^WPtr
      [] I.op = "sext"       -> Signed(a % m, I.w) % 2^WPtr
      [] I.op = "zext"       -> a % m
      [] I.op = "flt"        -> FltOf(I.sub, a % 2^W32, b % 2^W32)
      [] I.op = "fcmp"       -> FCompare(I.sub, a % 2^W32, b % 2^W32)
      [] I.op = "itof"       -> IntToFlt(Signed(a % m, I.w))
      [] I.op = "utof"       -> IntToFlt(a % m)
      [] I.op = "ftoi"       -> FltToInt(a % 2^W32) % m
      [] OTHER               -> Wrong

(* Where the stack of the host's caller ends. *)
StackTop == 61440

MVal(s, o) == IF o.k = "i" THEN o.x % 2^WPtr ELSE IF o.x \in DOMAIN s.regs THEN s.regs[o.x] ELSE Undef

MStep(code, labels, s) ==
    LET I == code[s.pc]
        a == MVal(s, I.a)
        b == MVal(s, I.b)
        Def(v) == [s EXCEPT !.regs = (I.d :> v) @@ @, !.pc = @ + 1]
        Skip == [s EXCEPT !.pc = @ + 1]
        Go(pc) == IF pc = 0 THEN [s EXCEPT !.end = "ret"]
                  ELSE IF pc \notin DOMAIN code THEN [s EXCEPT !.end = "wrong"]
                  ELSE [s EXCEPT !.pc = pc]
        To(t) == Go(IF t \in DOMAIN labels THEN labels[t] ELSE -1)
        at == IF a < 0 THEN a ELSE (a + I.t) % 2^WPtr
    IN  CASE I.op = "lab" -> Skip
          [] I.op = "ld"  -> Def(Get(s.mem, at, I.w))
          [] I.op = "st"  -> [Skip EXCEPT !.mem = Put(@, at, I.w, b)]
          [] I.op = "amo" ->
               LET old == Get(s.mem, a, I.w)
                   w == I.w * ByteBits
               IN  [Def(IF old < 0 THEN old ELSE Signed(old, w) % 2^WPtr) EXCEPT
                       !.mem = Put(@, a, I.w, IF b < 0 THEN b ELSE AtomicNew(I.sub, old, b % 2^w, w))]
          [] I.op = "cmovnz" -> IF b < 0 THEN Def(Undef) ELSE IF b # 0 THEN Def(a) ELSE Skip
          [] I.op = "jmp" -> To(I.t)
          [] I.op \in {"jz", "jnz"} /\ a < 0 -> [s EXCEPT !.end = "undef"]
          [] I.op = "jz"  -> IF a = 0 THEN To(I.t) ELSE Skip
          [] I.op = "jnz" -> IF a # 0 THEN To(I.t) ELSE Skip
          [] I.op = "jal" -> [To(I.t) EXCEPT !.regs = (I.d :> s.pc + 1) @@ @]
          [] I.op = "call" -> [To(I.t) EXCEPT !.mem = Put(@, a, 8, s.pc + 1)]
          [] I.op = "jr"  -> Go(a)
          [] I.op = "trap" -> [s EXCEPT !.end = "wrong"]
          [] OTHER        -> Def(IF a < 0 \/ b < 0 THEN Undef ELSE MOp(I, a, b))

MRun(code, entry, regs, mem) ==
    LET labels == LabelsOf(code)
    IN  While([pc |-> labels[entry], regs |-> regs, mem |-> mem, end |-> ""],
              20 * Fuel, LAMBDA s : s.end # "", LAMBDA s : MStep(code, labels, s))

-----------------------------------------------------------------------------
(* What the emitters of both host targets ask of a function. *)
Allocas == {"alloca", "shared_alloc"}
AlignDown(o, a) == -BszUp(-o, a)
WalkOrder(M, F) == ForEach([k \in 1 .. F.num |-> F.first + k - 1], <<>>,
    LAMBDA s, b : s \o [k \in 1 .. M.blocks[b].num |-> M.blocks[b].first + k - 1])
ParamType(M, F, p) ==
    LET at == {ix \in InstsOf(M, F.first) : M.insts[ix].op = "param" /\ M.insts[ix].sub = p}
    IN  IF at = {} THEN "void" ELSE M.insts[CHOOSE ix \in at : TRUE].ty

PhiIncoming(I, p) ==
    LET at == {k \in DOMAIN I.ops : k % 2 = 1 /\ I.ops[k] = p}
    IN  IF at = {} THEN NONE ELSE I.ops[1 + CHOOSE k \in at : TRUE]
LeadingPhis(M, b) ==
    SelectSeq([k \in 1 .. M.blocks[b].num |-> M.blocks[b].first + k - 1],
              LAMBDA ix : \A j \in M.blocks[b].first .. ix : M.insts[j].op = "phi")
=============================================================================
