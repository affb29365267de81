------------------------------ MODULE NvIsel --------------------------------
(***************************************************************************)
(* src/src/nvidia/isel.c, BIR to the machine form the PTX is printed from: *)
(* typed virtual registers without number, each value in a register of its *)
(* file, a converted copy wherever an operation wants another file.  Phis  *)
(* become copies that phi_fix puts into the predecessors once all blocks   *)
(* are there.  The fixed tables are left out.                              *)
(***************************************************************************)
EXTENDS KernelExec

Mop(k, f, n) == [k |-> k, f |-> f, n |-> n]
RegOp(f, n) == Mop("reg", f, n)
ImmOp(v) == Mop("imm", "", Signed(v % 2^W32, W32))
LblOp(b) == Mop("lbl", "", b)
SpecOp(s, dim) == Mop("spec", s, dim)
IsReg(o) == o.k = "reg"

(* A machine instruction: what it does, the type it is done at, whether that
   is signed, a comparison, a source type or a state space, its operands with
   the defined one first. *)
Nm(op, t, sg, s, o) == [op |-> op, t |-> t, sg |-> sg, s |-> s, o |-> o]

(* The width of a register file. *)
RfWid(f) == CASE f \in {"u16", "f16"} -> 2 * ByteBits
              [] f \in {"u64", "f64"} -> W64
              [] OTHER                -> W32
RfFlt(f) == f \in {"f16", "f32", "f64"}

BirRfile(M, t) ==
    LET T == M.types[t] IN
    CASE T.kind = "int" -> IF T.w <= 1 THEN "u32" ELSE IF T.w <= 2 * ByteBits THEN "u16"
                           ELSE IF T.w <= W32 THEN "u32" ELSE "u64"
      [] T.kind = "float" -> IF T.w <= 2 * ByteBits THEN "f16" ELSE IF T.w <= W32 THEN "f32" ELSE "f64"
      [] T.kind = "ptr" -> "u64"
      [] OTHER -> "u32"
(* The file an instruction's result lives in: a comparison's is a predicate. *)
Predicates == {"icmp", "fcmp", "vote_any", "vote_all"}
DefRf(M, ix) == IF M.insts[ix].op \in Predicates THEN "pred" ELSE BirRfile(M, M.insts[ix].ty)

(***************************************************************************)
(* The state of the selection of one function: the code of the block being *)
(* filled, the next register of each file, the register of each value, the *)
(* frames, the phi copies put off; r, the operand just made, and o, those  *)
(* taken for the instruction being put together.                           *)
(***************************************************************************)
Emit(A, I) == [A EXCEPT !.code = Append(@, I)]
Em(A, op, t, o) == Emit(A, Nm(op, t, FALSE, "", o))
NvRefuse(A) == [A EXCEPT !.err = TRUE]
With(A, o) == [A EXCEPT !.r = o]
Take(A) == [A EXCEPT !.o = Append(@, A.r)]
Drop(A) == [A EXCEPT !.o = <<>>]
(* I at the operands taken; the one it defines is then the last made. *)
Put1(A, I) == With(Drop(Emit(A, [I EXCEPT !.o = A.o])), A.o[1])
Do(A, op, t) == Put1(A, Nm(op, t, FALSE, "", <<>>))

NewVreg(A, f) == [A EXCEPT !.rc[f] = @ + 1, !.r = RegOp(f, A.rc[f])]
NewVal(A, ix, f) == [NewVreg(A, f) EXCEPT !.val = (ix :> RegOp(f, A.rc[f])) @@ @]
MapVal(M, A, ix) == IF ix \in DOMAIN A.val THEN With(A, A.val[ix]) ELSE NewVal(A, ix, DefRf(M, ix))
ValRf(M, A, ix) == IF ix \in DOMAIN A.val THEN A.val[ix].f ELSE DefRf(M, ix)

(* k64: a constant wider than an immediate is put together from its halves. *)
KWide(M, v) ==
    IsInt(v) /\ BirRfile(M, ConstType(v)) = "u64" /\ ConstVal(v) # Signed(ConstVal(v) % 2^W32, W32)
K64(A, v) ==
    LET lo == RegOp("u32", A.rc["u32"])
        R64(k) == RegOp("u64", A.rc["u64"] + k)
        code == << Nm("mov", "u32", FALSE, "", << lo, ImmOp(v) >>),
                   Nm("cvt", "u64", FALSE, "u32", << R64(0), lo >>),
                   Nm("mov", "u64", FALSE, "", << R64(1), ImmOp(v \div 2^W32) >>),
                   Nm("shl", "u64", FALSE, "", << R64(2), R64(1), ImmOp(W32) >>),
                   Nm("or", "u64", FALSE, "", << R64(3), R64(2), R64(0) >>) >>
    IN  [A EXCEPT !.code = @ \o code, !.rc["u32"] = @ + 1, !.rc["u64"] = @ + 4, !.r = R64(3)]

(* rslv_p: the operand of a value; rslv: the same, a predicate made a word. *)
RslvP(M, A, v) ==
    CASE v < 0 /\ KWide(M, v) -> K64(A, ConstVal(v))
      [] v < 0                -> With(A, ImmOp(IF IsInt(v) THEN ConstVal(v) ELSE 0))
      [] OTHER                -> MapVal(M, A, v)
SelpWord(A, d, p) == Em(A, "selp", "u32", << d, ImmOp(1), ImmOp(0), p >>)
MatPred(A) ==
    IF ~(IsReg(A.r) /\ A.r.f = "pred") THEN A
    ELSE SelpWord(NewVreg(A, "u32"), RegOp("u32", A.rc["u32"]), A.r)
Rslv(M, A, v) == MatPred(RslvP(M, A, v))
RslvRf(M, A, v) ==
    LET f == IF v < 0 THEN BirRfile(M, ValType(M, v)) ELSE ValRf(M, A, v)
    IN  IF f = "pred" THEN "u32" ELSE f
MovTo(A, f, d, s) == Em(A, "mov", f, << d, s >>)
(* An operand into a register of its own. *)
Into(A, f) == MovTo(NewVreg(A, f), f, RegOp(f, A.rc[f]), A.r)
InReg(A, f) == IF IsReg(A.r) THEN A ELSE Into(A, f)
MatConst(M, A, v, f) == InReg(Rslv(M, A, v), f)

Promo(f) == CASE f = "u16" -> "u32" [] f = "f16" -> "f32" [] OTHER -> f

(* cvop: the conversions there are; an integer is narrowed as unsigned. *)
Ints == {"u16", "u32", "u64"}
Convertible ==
    {<< "u16", "u32" >>, << "u32", "u16" >>, << "u32", "u64" >>, << "u64", "u32" >>}
    \cup ({"u32", "u64"} \X {"f32", "f64"}) \cup ({"f32", "f64"} \X {"u32", "u64"})
    \cup {p \in {"f16", "f32", "f64"} \X {"f16", "f32", "f64"} : p[1] # p[2]}
CvOp(from, to, sg) ==
    Nm("cvt", to, sg /\ ~(to \in Ints /\ from \in Ints /\ RfWid(to) < RfWid(from)), from, <<>>)
CoCpy(A, d, s, sg) ==
    IF IsReg(s) /\ << s.f, d.f >> \in Convertible THEN Emit(A, [CvOp(s.f, d.f, sg) EXCEPT !.o = << d, s >>])
    ELSE MovTo([A EXCEPT !.err = @ \/ (IsReg(s) /\ s.f # d.f)], d.f, d, s)
(* cofit: A.r in the wanted file, through others where no conversion leads
   straight there. *)
Hop(from, want) ==
    CASE << from, want >> \in Convertible          -> want
      [] from \in {"u16", "f16"}                    -> Promo(from)
      [] want \in {"u16", "f16"} /\ Promo(want) # from -> Promo(want)
      [] OTHER                                      -> want
CoFit(A, want, sg) ==
    For(0, 4, A, LAMBDA B, k :
        LET f == Hop(B.r.f, want) IN
        IF ~IsReg(B.r) \/ B.r.f = want THEN B
        ELSE CoCpy(NewVreg(B, f), RegOp(f, B.rc[f]), B.r, sg))
(* cobit: the same bits in another file. *)
CoBit(A, want) ==
    IF ~IsReg(A.r) \/ A.r.f = want THEN A
    ELSE IF RfWid(A.r.f) # RfWid(want) THEN CoFit(A, want, FALSE)
    ELSE Em(NewVreg(A, want), "movb", want, << RegOp(want, A.rc[want]), A.r >>)

(* The register an operation at file f writes is taken first; Settle narrows
   what it wrote into the value's own. *)
Own(A, f) == IF A.r.f = f THEN A ELSE NewVreg(A, f)
Dest(M, A, ix, f) == Take(Own(MapVal(M, A, ix), f))
Settle(A, ix, sg) == IF A.r = A.val[ix] THEN A ELSE CoCpy(A, A.val[ix], A.r, sg)
WorkRf(M, A, ix, t) == Promo(IF ValRf(M, A, ix) = "pred" THEN BirRfile(M, t) ELSE ValRf(M, A, ix))
Fitted(M, A, v, f, sg) == Take(CoFit(Rslv(M, A, v), f, sg))
Both(M, A, ix, I, f, sg) == Fitted(M, Fitted(M, Dest(M, A, ix, f), I.ops[1], f, sg), I.ops[2], f, sg)

(***************************************************************************)
(* Arithmetic.                                                             *)
(***************************************************************************)
NvOp == [add |-> "add", sub |-> "sub", mul |-> "mul", umulhi |-> "mulhi", sdiv |-> "div", udiv |-> "div",
         srem |-> "rem", urem |-> "rem", and |-> "and", or |-> "or", xor |-> "xor", shl |-> "shl",
         lshr |-> "shr", ashr |-> "shr", fadd |-> "add", fsub |-> "sub", fmul |-> "mul", fdiv |-> "div",
         fmin |-> "min", fmax |-> "max", sqrt |-> "sqrt", rsq |-> "rsq", rcp |-> "rcp", sin |-> "sinr",
         cos |-> "cosr", exp2 |-> "exp2", log2 |-> "log2", fabs |-> "fabs", floor |-> "floor",
         ceil |-> "ceil", ftrunc |-> "ftrunc", rndne |-> "rndne", popcount |-> "popcount", clz |-> "clz",
         brev |-> "brev"]
IArith(M, A, ix, I, sg) ==
    LET f == WorkRf(M, A, ix, I.ty) IN
    Settle(Put1(Both(M, A, ix, I, f, sg), Nm(NvOp[I.op], f, I.op \in {"sdiv", "srem"}, "", <<>>)), ix, sg)
(* Only popcount fits its operand. *)
IBitCount(M, A, ix, I) ==
    LET f == IF RslvRf(M, A, I.ops[1]) = "u64" THEN "u64" ELSE "u32"
        Arg(B) == Rslv(M, Take(MapVal(M, B, ix)), I.ops[1])
        Rev(B) == Em(NewVreg(B, f), "brev", f, << RegOp(f, B.rc[f]), B.r >>)
        x == CASE I.op = "popcount" -> CoFit(Arg(A), f, FALSE)
               [] I.op = "ctz"      -> Rev(Arg(A))
               [] OTHER             -> Arg(A)
    IN  Do(Take(x), IF I.op = "ctz" THEN "clz" ELSE NvOp[I.op], f)
BitOp(M, A, ix, I) ==
    LET f == Promo(BirRfile(M, I.ty))
        sg == I.op = "ashr"
        same == ValRf(M, A, ix) = f
        Fit(B) == IF same THEN CoBit(B, f) ELSE CoFit(B, f, sg)
        Arg(B, k) == IF k = 2 /\ I.op \in {"shl", "lshr", "ashr"} THEN Fitted(M, B, I.ops[k], "u32", FALSE)
                     ELSE Take(Fit(Rslv(M, B, I.ops[k])))
    IN  Settle(Put1(For(1, 3, Dest(M, A, ix, f), Arg), Nm(NvOp[I.op], f, sg, "", <<>>)), ix, FALSE)

Frem(A, f) ==
    LET d == A.o[1]
        x == A.o[2]
        y == A.o[3]
        T(k) == RegOp(f, A.rc[f] + k)
    IN  [Drop(A) EXCEPT !.rc[f] = @ + 2, !.r = d,
            !.code = @ \o << Nm("div", f, FALSE, "", << T(0), x, y >>), Nm("mul", f, FALSE, "", << T(1), T(0), y >>),
                             Nm("sub", f, FALSE, "", << d, x, T(1) >>) >>]
FArith(M, A, ix, I) ==
    LET f == WorkRf(M, A, ix, I.ty)
        Op(B) == IF I.op = "frem" THEN Frem(B, f) ELSE Do(B, NvOp[I.op], f)
    IN  Settle(Op(Both(M, A, ix, I, f, TRUE)), ix, TRUE)
FMinMax(M, A, ix, I) == Settle(Do(Both(M, A, ix, I, "f32", TRUE), NvOp[I.op], "f32"), ix, TRUE)
(* The units work on single floats, but for sqrt and fabs; sin and cos take
   turns in the BIR and radians here. *)
MathOp(M, A, ix, I) ==
    LET f == IF I.op \in {"sqrt", "fabs"} /\ BirRfile(M, I.ty) = "f64" THEN "f64" ELSE "f32"
        Turns(B) == IF I.op \notin {"sin", "cos"} THEN B
                    ELSE Em(NewVreg(B, f), "mul", f, << RegOp(f, B.rc[f]), B.r, ImmOp(FltTwoPi) >>)
    IN  Settle(Do(Take(Turns(CoFit(MatConst(M, Dest(M, A, ix, f), I.ops[1], f), f, TRUE))), NvOp[I.op], f), ix, TRUE)

(***************************************************************************)
(* Comparison and choice.                                                  *)
(***************************************************************************)
Signeds == {"slt", "sle", "sgt", "sge"}
SetP(M, A, ix, I, f, sg, opsg) ==
    Put1(Fitted(M, Fitted(M, Take(MapVal(M, A, ix)), I.ops[1], f, opsg), I.ops[2], f, opsg),
         Nm("setp", f, sg, I.sub, <<>>))
WiderOf(M, A, I, wide, other) ==
    IF wide \in {RslvRf(M, A, I.ops[1]), RslvRf(M, A, I.ops[2])} THEN wide ELSE other
ICmp(M, A, ix, I) ==
    SetP(M, A, ix, I, WiderOf(M, A, I, "u64", "u32"), I.sub \in Signeds, I.sub \in Signeds)
FCmp(M, A, ix, I) == SetP(M, A, ix, I, WiderOf(M, A, I, "f64", "f32"), FALSE, TRUE)
NonZero(A, p) ==
    Emit(A, Nm("setp", IF IsReg(A.r) /\ A.r.f = "u64" THEN "u64" ELSE "u32", FALSE, "ne", << p, A.r, ImmOp(0) >>))
ToPred(A) ==
    LET p == RegOp("pred", A.rc["pred"])
        b == With(NewVreg(A, "pred"), A.r)
        word == IF RfFlt(A.r.f) THEN CoBit(b, IF RfWid(A.r.f) = W64 THEN "u64" ELSE "u32")
                ELSE IF A.r.f = "u16" THEN CoFit(b, "u32", FALSE) ELSE b
    IN  IF IsReg(A.r) /\ A.r.f = "pred" THEN A ELSE With(NonZero(IF IsReg(A.r) THEN word ELSE b, p), p)
(* The condition is resolved first and made a predicate last. *)
Chosen(A, c) == Take(ToPred(With(A, c)))
SelP(M, A, ix, I) ==
    LET f == WorkRf(M, A, ix, I.ty)
        Rest(B) == Chosen(Fitted(M, Fitted(M, B, I.ops[2], f, TRUE), I.ops[3], f, TRUE), B.r)
    IN  Settle(Do(Rest(RslvP(M, Dest(M, A, ix, f), I.ops[1])), "selp", f), ix, TRUE)

(***************************************************************************)
(* Conversions, of the operand just made into d.                           *)
(***************************************************************************)
(* A conversion in file f on the way from s into d's. *)
Via(A, I, d, f, sg) ==
    IF d.f = f THEN Emit(A, [I EXCEPT !.o = << d, A.r >>])
    ELSE CoCpy(Emit(NewVreg(A, f), [I EXCEPT !.o = << RegOp(f, A.rc[f]), A.r >>]), d, RegOp(f, A.rc[f]), sg)
F2I(A, d, srf, sg) ==
    LET f == IF srf \in {"f32", "f64"} THEN srf ELSE "f32"
        to == IF d.f = "u64" THEN "u64" ELSE "u32"
    IN  Via(IF srf = f THEN A ELSE CoFit(A, f, TRUE), Nm("cvt", to, sg, f, <<>>), d, to, sg)
(* sx8: a byte sits in a wider register with nothing said of the bits above
   it: shifted up and back. *)
Sx8Of(A) ==
    LET T(k) == RegOp("u32", A.rc["u32"] + k)
        up == ImmOp(W32 - ByteBits)
    IN  [A EXCEPT !.rc["u32"] = @ + 2, !.r = T(1),
            !.code = @ \o << Nm("shl", "u32", FALSE, "", << T(0), A.r, up >>),
                             Nm("shr", "u32", TRUE, "", << T(1), T(0), up >>) >>]
Sx8(M, A, v) ==
    LET T == M.types[ValType(M, v)] IN
    IF ~IsReg(A.r) \/ T.kind # "int" \/ T.w # ByteBits THEN A ELSE Sx8Of(CoFit(A, "u32", FALSE))
I2F(A, d, rf, sg) ==
    LET srf == IF IsReg(A.r) /\ A.r.f = "u32" THEN "u32" ELSE rf
        f == IF srf = "u64" THEN "u64" ELSE "u32"
        to == IF d.f \in {"f32", "f64"} THEN d.f ELSE "f32"
    IN  Via(IF srf = f THEN A ELSE CoFit(A, "u32", sg), Nm("cvt", to, sg, f, <<>>), d, to, TRUE)
CastTo(A, d, srf) ==
    LET as == IF RfFlt(d.f) THEN d.f ELSE IF RfWid(srf) = W64 THEN "u64"
              ELSE IF RfWid(srf) = 2 * ByteBits THEN "u16" ELSE "u32"
        Copied(B) == CoCpy(B, d, B.r, FALSE)
    IN  CASE ~IsReg(A.r) \/ srf = d.f -> MovTo(A, d.f, d, A.r)
          [] RfWid(srf) = RfWid(d.f)  -> Em(A, "movb", d.f, << d, A.r >>)
          [] OTHER                    -> Copied(CoBit(A, as))
Converted(M, A, d, srf, I) ==
    LET v == I.ops[1]
        Copied(B, sg) == CoCpy(B, d, B.r, sg)
    IN  CASE I.op \in {"fptosi", "fptoui"}  -> F2I(A, d, srf, I.op = "fptosi")
          [] I.op = "sitofp"                -> I2F(Sx8(M, A, v), d, srf, TRUE)
          [] I.op = "uitofp"                -> I2F(A, d, srf, FALSE)
          [] I.op \in {"fptrunc", "fpext"}  -> Copied(CoFit(A, srf, TRUE), TRUE)
          [] I.op = "sext"                  -> Copied(Sx8(M, A, v), TRUE)
          [] I.op \in {"zext", "trunc"}     -> Copied(A, FALSE)
          [] OTHER                          -> CastTo(A, d, srf)
CvtInst(M, A, ix, I) ==
    LET v == I.ops[1]
        From(B) == Converted(M, MatConst(M, B, v, Promo(RslvRf(M, B, v))), B.r, RslvRf(M, B, v), I)
    IN  From(MapVal(M, A, ix))

(***************************************************************************)
(* Memory: a space for each address space, an aggregate as the address of  *)
(* a home in the frame, copied piece by piece.                             *)
(***************************************************************************)
Pas(M, v) == IF v >= 0 /\ IsPtr(M, M.insts[v].ty) THEN M.types[M.insts[v].ty].as ELSE "global"
Space(as) == IF as \in {"shared", "private"} THEN as ELSE "global"
PntSz(M, v) == IF v >= 0 THEN Gstr(M, M.insts[v].ty) ELSE 0
AccType(f, psz) == IF psz = 1 THEN "u8" ELSE IF f \in {"f16", "u16", "f64", "u64", "f32"} THEN f ELSE "u32"
(* The operands taken are the register and the address; the reverse. *)
LdOp(A, as, psz) == Put1(A, Nm("ld", AccType(A.o[1].f, psz), FALSE, Space(as), <<>>))
StOp(A, as, f, psz) == Drop(Emit(A, Nm("st", AccType(f, psz), FALSE, Space(as), A.o)))

Pagg(M, t) == M.types[t].kind \in {"struct", "array"}
AgEa(al, sz) == IF al < 4 /\ sz % 4 = 0 THEN 4 ELSE al
AgStp(off, rem, al) ==
    LET ok == {w \in {1, 2, 4, 8} : w <= al /\ (w = 1 \/ (w <= rem /\ off % w = 0))}
    IN  CHOOSE w \in ok : \A v \in ok : v <= w
AgRf(w) == CASE w = 8 -> "u64" [] w = 2 -> "u16" [] OTHER -> "u32"
AgSteps(sz, al) ==
    While([off |-> 0, s |-> <<>>], sz, LAMBDA x : x.off >= sz,
          LAMBDA x : LET w == AgStp(x.off, sz - x.off, al)
                     IN  [off |-> x.off + w, s |-> Append(x.s, << x.off, w >>)]).s
AgAdd(A, base, off) ==
    IF off = 0 THEN With(A, base)
    ELSE Em(NewVreg(A, "u64"), "add", "u64", << RegOp("u64", A.rc["u64"]), base, ImmOp(off) >>)
MapU64(A, ix) == IF ix \in DOMAIN A.val THEN With(A, A.val[ix]) ELSE NewVal(A, ix, "u64")
LSlot(A, sz, al) == [A EXCEPT !.lcl = BszUp(@, al) + sz]
Lea(A, off) == Em(A, "lealoc", "u64", << A.r, ImmOp(off) >>)
AgHome(M, A, ix, t) == Lea(MapU64(LSlot(A, Bsz(M, t), Balg(M, t)), ix), BszUp(A.lcl, Balg(M, t)))
(* A piece in the register last made goes to dst + off. *)
AgPut(A, dst, off, as) ==
    LET Store(B, v) == StOp([B EXCEPT !.o = << B.r, v >>], as, v.f, 0) IN Store(AgAdd(A, dst, off), A.r)
Pieces(M, t) == AgSteps(Bsz(M, t), AgEa(Balg(M, t), Bsz(M, t)))
AgCpy(M, A, t, dst, das, src, sas) ==
    LET Got(B, p) == LdOp(Take(AgAdd(Take(NewVreg(B, AgRf(p[2]))), src, p[1])), sas, 0)
        Piece(B, p) == IF B.err \/ p[2] = 1 THEN NvRefuse(B) ELSE AgPut(Got(B, p), dst, p[1], das)
    IN  ForEach(Pieces(M, t), A, Piece)

NvLoad(M, A, ix, I) ==
    LET v == I.ops[1]
        Home(B, src) == AgCpy(M, B, I.ty, B.r, "private", src, Pas(M, v))
        Value(B) == LdOp([MapVal(M, B, ix) EXCEPT !.o = << MapVal(M, B, ix).r, B.r >>], Pas(M, v), PntSz(M, v))
        From(B) == IF Pagg(M, I.ty) THEN Home(AgHome(M, B, ix, I.ty), B.r) ELSE Value(B)
    IN  From(MatConst(M, A, v, "u64"))
NvStore(M, A, I) ==
    LET v == I.ops[1]
        p == I.ops[2]
        t == ValType(M, v)
        f == RslvRf(M, A, v)
        To(B) == IF Pagg(M, t) THEN AgCpy(M, Drop(B), t, B.o[1], Pas(M, p), B.r, "private")
                 ELSE StOp(Take(B), Pas(M, p), f, PntSz(M, p))
    IN  To(MatConst(M, Take(MatConst(M, A, p, "u64")), v, IF Pagg(M, t) THEN "u64" ELSE f))
AlgnB(sub) == 2^(IF sub > 12 THEN 12 ELSE sub)
NvAlloca(M, A, ix, I) ==
    Lea(LSlot(MapVal(M, A, ix), Bsz(M, M.types[I.ty].in), AlgnB(I.sub)), BszUp(A.lcl, AlgnB(I.sub)))
(* is_shralloc: the shared block of the kernel starts at address 0; one of no
   length is the dynamic block the launch sizes. *)
ShrAlloc(M, A, ix, I) ==
    LET in == M.types[I.ty].in
        off == BszUp(A.shr, AlgnB(I.sub))
        At(B) == IF M.types[in].kind = "array" /\ M.types[in].n = 0 THEN Em(B, "leadsh", "u64", << B.r >>)
                 ELSE MovTo([B EXCEPT !.shr = off + Bsz(M, in)], "u64", B.r, ImmOp(off))
    IN  At(MapVal(M, A, ix))
NvGep(M, A, ix, I) ==
    LET stride == Gstr(M, I.ty)
        Plus(B, n) == Em(Drop(B), "add", "u64", Append(B.o, ImmOp(n)))
        Scaled(B) == Em(Drop(B), "mad", "u64", << B.o[1], B.r, ImmOp(stride), B.o[2] >>)
        By(B) == CASE IsFgep(M, I) -> Plus(B, Fgep(M, I))
                   [] IsReg(B.r)   -> Scaled(CoFit(B, "u64", TRUE))
                   [] OTHER        -> Plus(B, B.r.n * stride)
    IN  By(Rslv(M, Take(MatConst(M, Take(MapVal(M, A, ix)), I.ops[1], "u64")), I.ops[2]))
LdParam(A, f, k, off) == Em(A, "ldparam", f, << A.r, ImmOp(k), ImmOp(off) >>)
NvParam(M, A, ix, I) ==
    LET Piece(B, p, home) ==
            IF B.err \/ p[2] = 1 THEN NvRefuse(B)
            ELSE AgPut(LdParam(NewVreg(B, AgRf(p[2])), AgRf(p[2]), I.sub, p[1]), home, p[1], "private")
        All(h) == ForEach(Pieces(M, I.ty), h, LAMBDA B, p : Piece(B, p, h.r))
    IN  IF Pagg(M, I.ty) THEN All(AgHome(M, A, ix, I.ty))
        ELSE LdParam(MapVal(M, A, ix), BirRfile(M, I.ty), I.sub, 0)
NvThread(M, A, ix, I) ==
    LET At(B, d) == IF d.f = "u32" THEN MovTo(B, "u32", d, SpecOp(I.op, I.sub))
                    ELSE CoCpy(Into(With(B, SpecOp(I.op, I.sub)), "u32"), d, RegOp("u32", B.rc["u32"]), FALSE)
    IN  At(MapVal(M, A, ix), MapVal(M, A, ix).r)

(***************************************************************************)
(* Control flow.  A label is the block's place in the function.            *)
(***************************************************************************)
Lbl(A, b) == LblOp(b - A.lo + 1)
NvBr(A, b) == Em(A, "bra", "", << Lbl(A, b) >>)
BraP(A, p, b) == Em(A, "brap", "", << p, Lbl(A, b) >>)
BrCond(M, A, I) ==
    LET On(B) == NvBr(BraP(B, B.r, I.ops[2]), I.ops[3]) IN On(ToPred(RslvP(M, A, I.ops[1])))
SwPhi(M, t, self) ==
    \E ix \in InstsOf(M, t) : M.insts[ix].op = "phi" /\ PhiIncoming(M.insts[ix], self) # NONE
Swch(M, A, I, b) ==
    LET Case(B, k, x) ==
            LET p == RegOp("pred", B.rc["pred"])
                eq == Nm("setp", "u32", FALSE, "eq", << p, x, ImmOp(ConstVal(I.ops[2 * k + 1])) >>)
            IN  BraP(Emit(NewVreg(B, "pred"), eq), p, I.ops[2 * k + 2])
        Cases(a) == NvBr(For(1, Len(I.ops) \div 2, a, LAMBDA B, k : Case(B, k, a.r)), I.ops[2])
    IN  IF \E t \in SuccSet(M, b) : SwPhi(M, t, b) THEN NvRefuse(A)
        ELSE Cases(MatConst(M, A, I.ops[1], "u32"))

(* is_phi: a copy [pred, merge, f, d, s] to be made at the end of each
   predecessor; an aggregate's address goes through a register of its own and
   is copied home in the merge block. *)
PhiPairs(I) == [k \in 1 .. Len(I.ops) \div 2 |-> << I.ops[2 * k - 1], I.ops[2 * k] >>]
NvPhi(M, A, ix, I, b) ==
    LET ag == Pagg(M, I.ty)
        f == IF ag THEN "u64" ELSE BirRfile(M, I.ty)
        OwnPhi(v) == v \in InstsOf(M, b) /\ M.insts[v].op = "phi"
        Later(B, p, d) ==
            IF B.r = d THEN B
            ELSE [B EXCEPT !.pc = Append(@, [pred |-> Lbl(B, p).n, merge |-> Lbl(B, b).n, f |-> f, d |-> d, s |-> B.r])]
        Copy(B, p, d) ==
            CASE B.err \/ p[2] = NONE \/ (ag /\ p[2] = ix)              -> B
              [] KWide(M, p[2]) \/ (ag /\ (p[2] < 0 \/ OwnPhi(p[2])))   -> NvRefuse(B)
              [] OTHER -> Later(IF ag THEN MapU64(B, p[2]) ELSE RslvP(M, B, p[2]), p[1], d)
        Copies(B, d) == ForEach(PhiPairs(I), B, LAMBDA C, p : Copy(C, p, d))
        Home(B, at) == AgCpy(M, Copies(AgHome(M, B, ix, I.ty), at), I.ty, B.val[ix], "private", at, "private")
        Made(B) == Copies(B, B.r)
    IN  IF ag THEN Home(MapU64(NewVreg(A, "u64"), ix), RegOp("u64", A.rc["u64"])) ELSE Made(MapVal(M, A, ix))

(***************************************************************************)
(* Atomics, the warp, calls.                                               *)
(***************************************************************************)
NvAtomic(M, A, ix, I) ==
    LET f == BirRfile(M, I.ty)
        as == Pas(M, I.ops[1])
        Arg(B, k) == Take(MatConst(M, B, I.ops[k], RslvRf(M, B, I.ops[k])))
        args == IF I.op = "atomic_cas" THEN 3 ELSE 2
        sp == IF as = "shared" THEN "shared" ELSE "global"
    IN  IF \/ I.op \in {"atomic_min", "atomic_max", "atomic_sub"}
           \/ f \in {"u16", "f16"} \/ as \notin {"shared", "generic", "global"} THEN NvRefuse(A)
        ELSE Put1(For(2, args + 1, Take(MatConst(M, Take(MapVal(M, A, ix)), I.ops[1], "u64")), Arg),
                  Nm(I.op, f, FALSE, sp, <<>>))
(* The lane and the word; a value that is no word is moved out of one. *)
Shuffled(A, op) ==
    LET d == A.o[1]
        t == RegOp("u32", A.rc["u32"])
        Word(B, to) == Em(B, op, "u32", << to, A.o[2], A.o[3] >>)
        B0 == Drop(A)
    IN  CASE d.f = "u32"       -> Word(B0, d)
          [] RfWid(d.f) > W32  -> NvRefuse(B0)
          [] RfWid(d.f) = W32  -> Em(Word(NewVreg(B0, "u32"), t), "movb", d.f, << d, t >>)
          [] OTHER             -> CoCpy(Word(NewVreg(B0, "u32"), t), d, t, FALSE)
Shfl(M, A, ix, I) ==
    Shuffled(Fitted(M, Take(CoBit(MatConst(M, Take(MapVal(M, A, ix)), I.ops[2], "u32"), "u32")),
                    I.ops[3], "u32", FALSE), I.op)
Vote(M, A, ix, I) == Do(Take(ToPred(RslvP(M, Take(MapVal(M, A, ix)), I.ops[2]))), I.op, "u32")
NvRet(M, A, F, I) ==
    LET f == BirRfile(M, ValType(M, I.ops[1]))
        Value(B) == Em(B, "stret", f, << B.r >>)
    IN  IF ~F.dev THEN Em(A, "exit", "", <<>>)
        ELSE Em(IF I.ops = <<>> THEN A ELSE Value(MatConst(M, A, I.ops[1], f)), "ret", "", <<>>)
NvCall(M, A, ix, I) ==
    LET g == M.funcs[I.ops[1] + 1]
        As(B, f) == Take([B EXCEPT !.r.f = f])
        Arg(B, p) == As(MatConst(M, B, I.ops[p + 2], BirRfile(M, ParamType(M, g, p))), BirRfile(M, ParamType(M, g, p)))
        void == M.types[I.ty].kind = "void"
        Call(B) == Em(Drop(B), "call", IF void THEN "" ELSE BirRfile(M, I.ty),
                      << IF void THEN ImmOp(0) ELSE B.r, LblOp(I.ops[1] + 1) >> \o B.o)
        Ready(B) == Call(IF void THEN B ELSE MapVal(M, B, ix))
    IN  Ready(For(0, Len(I.ops) - 1, A, Arg))

(* isel_blk: one instruction. *)
Select(M, A, F, ix, b) ==
    LET I == M.insts[ix] IN
    CASE I.op \in {"add", "sub", "mul", "sdiv", "srem"} -> IArith(M, A, ix, I, TRUE)
      [] I.op \in {"udiv", "urem", "umulhi"}           -> IArith(M, A, ix, I, FALSE)
      [] I.op \in BitOps                               -> IBitCount(M, A, ix, I)
      [] I.op \in {"and", "or", "xor", "shl", "lshr", "ashr"} -> BitOp(M, A, ix, I)
      [] I.op \in {"fadd", "fsub", "fmul", "fdiv", "frem"} -> FArith(M, A, ix, I)
      [] I.op \in {"fmin", "fmax"}                     -> FMinMax(M, A, ix, I)
      [] I.op \in FloatUnary                           -> MathOp(M, A, ix, I)
      [] I.op = "icmp"                                 -> ICmp(M, A, ix, I)
      [] I.op = "fcmp"                                 -> FCmp(M, A, ix, I)
      [] I.op = "select"                               -> SelP(M, A, ix, I)
      [] I.op \in {"sext", "zext", "trunc", "bitcast", "ptrtoint", "inttoptr", "fptosi", "fptoui",
                   "sitofp", "uitofp", "fptrunc", "fpext"} -> CvtInst(M, A, ix, I)
      [] I.op \in {"load", "atomic_load"}              -> NvLoad(M, A, ix, I)
      [] I.op \in {"store", "atomic_store"}            -> NvStore(M, A, I)
      [] I.op = "alloca"                               -> NvAlloca(M, A, ix, I)
      [] I.op = "shared_alloc"                         -> ShrAlloc(M, A, ix, I)
      [] I.op = "gep"                                  -> NvGep(M, A, ix, I)
      [] I.op = "param"                                -> NvParam(M, A, ix, I)
      [] I.op \in {"thread_id", "block_id", "block_dim", "grid_dim"} -> NvThread(M, A, ix, I)
      [] I.op = "br"                                   -> NvBr(A, I.ops[1])
      [] I.op = "br_cond"                              -> BrCond(M, A, I)
      [] I.op = "switch"                               -> Swch(M, A, I, b)
      [] I.op = "phi"                                  -> NvPhi(M, A, ix, I, b)
      [] I.op = "barrier"                              -> Em(A, "barsync", "", <<>>)
      [] I.op = "barrier_group"                        -> Em(A, "membar", "", <<>>)
      [] I.op \in AtomicRmw \cup {"atomic_cas"}        -> NvAtomic(M, A, ix, I)
      [] I.op \in {"shfl", "shfl_up", "shfl_down", "shfl_xor"} -> Shfl(M, A, ix, I)
      [] I.op \in {"ballot", "vote_any", "vote_all"}   -> Vote(M, A, ix, I)
      [] I.op = "ret"                                  -> NvRet(M, A, F, I)
      [] I.op = "call"                                 -> NvCall(M, A, ix, I)
      [] OTHER                                         -> NvRefuse(A)
IselBlk(M, F, A, b) ==
    LET Close(B) == [B EXCEPT !.blks = Append(@, B.code)]
    IN  Close(For(M.blocks[b].first, M.blocks[b].first + M.blocks[b].num, [A EXCEPT !.code = <<>>],
                  LAMBDA B, ix : Select(M, B, F, ix, b)))

(***************************************************************************)
(* phi_fix.                                                                *)
(***************************************************************************)
(* The copies of one predecessor are made last one first: where a later one
   writes what an earlier one reads, the earlier reads a saved copy. *)
LostCopies(A) ==
    LET Lost(B, i) == LET c == B.pc[i] IN
            IsReg(c.s) /\ \E j \in i + 1 .. Len(B.pc) : B.pc[j].pred = c.pred /\ B.pc[j].d = c.s
        Save(B, i, c) ==
            LET t == RegOp(c.s.f, B.rc[c.s.f]) IN
            [NewVreg(B, c.s.f) EXCEPT !.pc = Append([@ EXCEPT ![i].s = t], [c EXCEPT !.f = c.s.f, !.d = t])]
    IN  For(1, Len(A.pc) + 1, A, LAMBDA B, i : IF Lost(B, i) THEN Save(B, i, B.pc[i]) ELSE B)

(* One copy: a predicate is made a word on the way. *)
CopyCode(A, c) ==
    LET t == RegOp("u32", A.rc["u32"])
        word == SelpWord(NewVreg(A, "u32"), t, c.s)
        pred == IsReg(c.s) /\ c.s.f = "pred"
    IN  CASE pred /\ c.f = "pred" -> Emit(word, Nm("setp", "u32", FALSE, "ne", << c.d, t, ImmOp(0) >>))
          [] pred /\ c.d.f = "u32" -> SelpWord(A, c.d, c.s)
          [] pred                  -> MovTo(word, c.f, c.d, t)
          [] IsReg(c.s)            -> CoCpy(A, c.d, c.s, TRUE)
          [] OTHER                 -> MovTo(A, c.f, c.d, c.s)

NeedsBridge(blks, c) ==
    LET code == blks[c.pred]
        n == Len(code)
    IN  n >= 2 /\ code[n - 1].op = "brap" /\ code[n].op = "bra" /\ code[n - 1].o[2].n = c.merge
(* A block between the predecessor and the merge block, for the copies of an
   edge that is taken on a condition. *)
Bridge(A, p) ==
    LET mine == SelectSeq(A.pc, LAMBDA c : c.pred = p /\ NeedsBridge(A.blks, c))
        n == Len(A.blks[p])
        Close(B) == [B EXCEPT !.blks = Append([@ EXCEPT ![p][n - 1].o[2] = LblOp(Len(B.blks) + 1)],
                                              Append(B.code, Nm("bra", "", FALSE, "", << A.blks[p][n - 1].o[2] >>)))]
    IN  Close(ForEach(mine, [A EXCEPT !.code = <<>>], CopyCode))
(* The other copies go before the jump that ends their block. *)
InsertCopy(B, c) ==
    LET n == Len(B.blks[c.pred])
        Before(C) == [C EXCEPT !.blks[c.pred] = SubSeq(@, 1, n - 1) \o C.code \o << @[n] >>]
    IN  IF n = 0 THEN B ELSE Before(CopyCode([B EXCEPT !.code = <<>>], c))
Repaired(A) ==
    LET split == SelectSeq([p \in DOMAIN A.blks |-> p],
                           LAMBDA p : \E k \in DOMAIN A.pc : A.pc[k].pred = p /\ NeedsBridge(A.blks, A.pc[k]))
        rest == SelectSeq([i \in DOMAIN A.pc |-> A.pc[Len(A.pc) + 1 - i]], LAMBDA c : ~NeedsBridge(A.blks, c))
    IN  ForEach(rest, ForEach(split, A, Bridge), InsertCopy)
PhiFix(A) == Repaired(LostCopies(A))

(* fmark: the device functions that a kernel reaches by calls. *)
Callees(M, f) == {M.insts[ix].ops[1] + 1 : ix \in {i \in Range0(M, M.funcs[f]) : M.insts[i].op = "call"}}
FMark(M) ==
    LET kernels == {f \in DOMAIN M.funcs : ~M.funcs[f].dev}
    IN  For(0, Len(M.funcs), kernels, LAMBDA S, k : S \cup UNION {Callees(M, f) : f \in S})

RFiles == {"pred", "u16", "u32", "u64", "f16", "f32", "f64"}
IselFunc(M, fi) ==
    LET F == M.funcs[fi]
        A == [code |-> <<>>, o |-> <<>>, blks |-> <<>>, rc |-> [f \in RFiles |-> 1], val |-> << >>, lcl |-> 0, shr |-> 0,
              pc |-> <<>>, err |-> FALSE, r |-> ImmOp(0), lo |-> F.first]
    IN  PhiFix(For(F.first, F.first + F.num, A, LAMBDA B, b : IselBlk(M, F, B, b)))
(* nv_compile: the machine code of every function kept, by its number. *)
NvCompile(M) ==
    LET Module(code) == [ok  |-> \A f \in DOMAIN code : ~code[f].err,
                         fns |-> [f \in DOMAIN code |-> [blks |-> code[f].blks, lcl |-> code[f].lcl]]]
    IN  Module([f \in FMark(M) |-> IselFunc(M, f)])

-----------------------------------------------------------------------------

(***************************************************************************)
(* The rest of the PTX back end: verify.c, which holds every operand to    *)
(* the file its instruction takes, and what the text emit.c prints does on *)
(* the device: typed registers, one function after its .param words, local *)
(* memory for each activation, a shared window that starts at 0.  A warp   *)
(* has one lane.                                                           *)
(***************************************************************************)

(***************************************************************************)
(* nv_vchk.                                                                *)
(***************************************************************************)
AccFiles(t) == CASE t \in {"u8", "u16"} -> {"u16", "u32"} [] t = "f16" -> {"u16", "f16"} [] OTHER -> {t}
MovFiles(t) == IF t \in {"u16", "f16"} THEN {"u16", "f16"} ELSE {t}
BitFiles(t) == {IF RfWid(t) = W64 THEN "u64" ELSE "u32"}
WarpShfl == {"shfl", "shfl_up", "shfl_down", "shfl_xor"}
(* nv_sig: the files each operand may come from, the defined one first. *)
NvSig(I) ==
    LET t == I.t IN
    CASE I.op \in {"shl", "shr"}       -> << {t}, {t}, {"u32"} >>
      [] I.op \in {"popcount", "clz"}  -> << {"u32"}, {t} >>
      [] I.op = "setp"                 -> << {"pred"}, {t}, {t} >>
      [] I.op = "selp"                 -> << {t}, {t}, {t}, {"pred"} >>
      [] I.op = "mov"                  -> << MovFiles(t), MovFiles(t) >>
      [] I.op = "movb"                 -> IF t \in {"u16", "f16"} THEN << MovFiles(t), MovFiles(t) >>
                                          ELSE << RFiles, RFiles >>
      [] I.op = "cvt"                  -> << {t}, {I.s} >>
      [] I.op = "ld"                   -> << AccFiles(t), {"u64"} >>
      [] I.op = "st"                   -> << {"u64"}, AccFiles(t) >>
      [] I.op = "ldparam"              -> << MovFiles(t), RFiles, RFiles >>
      [] I.op = "atomic_add"           -> << {t}, {"u64"}, {t} >>
      [] I.op \in AtomicRmw \cup {"atomic_cas"} ->
           << BitFiles(t), {"u64"}, BitFiles(t), BitFiles(t) >>
      [] I.op = "brap"                 -> << {"pred"}, RFiles >>
      [] I.op = "ballot"               -> << {"u32"}, {"pred"} >>
      [] I.op \in {"vote_any", "vote_all"} -> << {"pred"}, {"pred"} >>
      [] I.op \in {"lealoc", "leadsh"} -> << {"u64"}, RFiles >>
      [] OTHER                         -> << {t}, {t}, {t}, {t} >>
VInst(I) ==
    CASE I.op \in {"call", "stret"} -> ~IsReg(I.o[1]) \/ I.o[1].f = I.t
      [] I.op = "cvt" /\ ~IsReg(I.o[2]) -> FALSE
      [] OTHER -> \A k \in DOMAIN I.o : IsReg(I.o[k]) => I.o[k].f \in NvSig(I)[k]
NvVchk(code) == \A f \in DOMAIN code.fns : \A b \in DOMAIN code.fns[f].blks :
                    \A k \in DOMAIN code.fns[f].blks[b] : VInst(code.fns[f].blks[b][k])

(***************************************************************************)
(* The device.                                                             *)
(***************************************************************************)
PInt(I, a, b) ==
    LET w == RfWid(I.t)
        op == CASE I.op = "div" -> IF I.sg THEN "sdiv" ELSE "udiv"
                [] I.op = "rem" -> IF I.sg THEN "srem" ELSE "urem"
                [] OTHER -> I.op
    IN  IF I.op = "mulhi" THEN UMulHi(a, b, w) ELSE Arith(op, "", a, b, w)
(* A shift of the whole width or more leaves nothing but the sign. *)
PShift(I, a, b) ==
    LET w == RfWid(I.t) IN
    CASE I.op = "shl" -> IF b >= w THEN 0 ELSE Arith("shl", "", a, b, w)
      [] I.sg         -> Arith("ashr", "", a, IF b >= w THEN w - 1 ELSE b, w)
      [] OTHER        -> IF b >= w THEN 0 ELSE Arith("lshr", "", a, b, w)
PFlt(I, a, b) ==
    CASE I.op \in {"add", "sub", "mul", "div", "min", "max"} -> Flt("f" \o I.op, a, b)
      [] I.op = "sinr" -> Flt("sinf", a, 0)
      [] I.op = "cosr" -> Flt("cosf", a, 0)
      [] OTHER         -> FltOf(I.op, a, b)
PSetp(I, a, b) ==
    IF RfFlt(I.t) THEN FCompare(I.s, a, b) ELSE IF Compare(I.s, a, b, RfWid(I.t)) THEN 1 ELSE 0
PCvt(I, a) ==
    LET from == RfWid(I.s)
        v == IF I.sg THEN Signed(a, from) ELSE a
    IN  CASE RfFlt(I.s) /\ RfFlt(I.t) -> a
          [] RfFlt(I.s)               -> FltToInt(a) % 2^RfWid(I.t)
          [] RfFlt(I.t)               -> IntToFlt(v)
          [] OTHER                    -> v % 2^RfWid(I.t)
PCompute(I, a, b) ==
    CASE a < 0 \/ b < 0          -> Undef
      [] I.op \in {"mov", "movb"} -> a
      [] I.op = "cvt"            -> PCvt(I, a)
      [] I.op = "setp"           -> PSetp(I, a, b)
      [] I.op \in BitOps         -> BitCount(I.op, a, RfWid(I.t))
      [] RfFlt(I.t)              -> PFlt(I, a, b)
      [] I.op \in {"shl", "shr"} -> PShift(I, a, b)
      [] OTHER                   -> PInt(I, a, b)

AccBytes(t) == IF t = "u8" THEN 1 ELSE RfWid(t) \div ByteBits
DynShared == 512
PAddr(I, a) == IF a < 0 THEN a ELSE IF I.s = "shared" THEN SharedBase + a ELSE a
AtomNew(I, old, v) ==
    IF I.op = "atomic_add" /\ RfFlt(I.t) THEN Flt("fadd", old, v)
    ELSE AtomicNew(I.op, old, v, RfWid(I.t))

PFrame(fn, fb, args) == [fn |-> fn, blk |-> 1, pc |-> 1, regs |-> << >>, fb |-> fb, args |-> args, ret |-> Undef]
PStep(code, s) ==
    LET d == Len(s.stk)
        fr == s.stk[d]
        blks == code.fns[fr.fn].blks
        I == blks[fr.blk][fr.pc]
        o == I.o
        W0 == IF I.t \in RFiles THEN RfWid(I.t) ELSE W32
        PVal(x) == CASE x.k = "reg"  -> IF << x.f, x.n >> \in DOMAIN fr.regs THEN fr.regs[<< x.f, x.n >>] ELSE Undef
                     [] x.k = "spec" -> GridVal(x.f, s.who)
                     [] OTHER        -> x.n % 2^W0
        Top(x) == [s EXCEPT !.stk[d] = x]
        Def(v) == Top([fr EXCEPT !.regs = (<< o[1].f, o[1].n >> :> v) @@ @, !.pc = @ + 1])
        Skip == Top([fr EXCEPT !.pc = @ + 1])
        Goto(b) == Top([fr EXCEPT !.blk = b, !.pc = 1])
        Stop(why) == [s EXCEPT !.end = why]
        b == IF Len(o) > 2 THEN PVal(o[3]) ELSE 0
    IN  CASE fr.blk \notin DOMAIN blks -> Stop("wrong")
          [] fr.pc > Len(blks[fr.blk]) -> Goto(fr.blk + 1)
          [] I.op = "ld" -> Def(Get(s.mem, PAddr(I, PVal(o[2])), AccBytes(I.t)))
          [] I.op = "st" -> [Skip EXCEPT !.mem = Put(@, PAddr(I, PVal(o[1])), AccBytes(I.t), PVal(o[2]))]
          [] I.op = "ldparam" ->
               LET a == fr.args[o[2].n + 1]
               IN  Def(IF a < 0 THEN a ELSE (a \div 2^(ByteBits * o[3].n)) % 2^W0)
          [] I.op = "lealoc" -> Def(fr.fb + o[2].n)
          [] I.op = "leadsh" -> Def(DynShared)
          [] I.op = "selp" ->
               LET p == PVal(o[4]) IN Def(IF p < 0 THEN Undef ELSE IF p # 0 THEN PVal(o[2]) ELSE b)
          [] I.op = "mad" -> Def(IF PVal(o[2]) < 0 \/ PVal(o[4]) < 0 THEN Undef
                                 ELSE (Signed(PVal(o[2]), W64) * o[3].n + PVal(o[4])) % 2^W64)
          [] I.op \in AtomicRmw \cup {"atomic_cas"} ->
               LET at == PAddr(I, PVal(o[2]))
                   n == AccBytes(I.t)
                   old == Get(s.mem, at, n)
               IN  [Def(old) EXCEPT !.mem =
                       IF I.op = "atomic_cas" THEN IF old = b THEN Put(@, at, n, PVal(o[4])) ELSE @
                       ELSE Put(@, at, n, AtomNew(I, old, b))]
          [] I.op \in {"ballot", "vote_any", "vote_all"} \cup WarpShfl -> Def(PVal(o[2]))
          [] I.op \in {"barsync", "membar"} -> Skip
          [] I.op = "bra"  -> Goto(o[1].n)
          [] I.op = "brap" ->
               LET p == PVal(o[1]) IN IF p < 0 THEN Stop("undef") ELSE IF p # 0 THEN Goto(o[2].n) ELSE Skip
          [] I.op = "exit" -> Stop("ret")
          [] I.op = "stret" -> Top([fr EXCEPT !.ret = PVal(o[1]), !.pc = @ + 1])
          [] I.op = "call" ->
               LET fb == fr.fb + BszUp(code.fns[fr.fn].lcl, PtrBytes)
               IN  [s EXCEPT !.stk = Append(@, PFrame(o[2].n, fb, [k \in 1 .. Len(o) - 2 |-> PVal(o[k + 2])]))]
          [] I.op = "ret"  ->
               LET up == s.stk[d - 1]
                   J == code.fns[up.fn].blks[up.blk][up.pc]
                   back == [up EXCEPT !.pc = @ + 1]
               IN  [s EXCEPT !.stk = Append(SubSeq(@, 1, d - 2),
                       IF J.t = "" THEN back
                       ELSE [back EXCEPT !.regs = (<< J.o[1].f, J.o[1].n >> :> fr.ret) @@ @])]
          [] OTHER -> Def(PCompute(I, PVal(o[2]), b))

PThread(M, code, args, mem, who) ==
    While([stk |-> << PFrame(Kernel(M), LocalBase, args) >>, mem |-> mem,
           end |-> "", who |-> who],
          4 * Fuel, LAMBDA s : s.end # "", LAMBDA s : PStep(code, s))
NvRun(M, code, args, mem, n) ==
    IF ~NvVchk(code) THEN [mem |-> mem, end |-> "rejected"]
    ELSE For(0, n, [mem |-> mem, end |-> "ret"],
             LAMBDA a, t : IF a.end # "ret" THEN a
                           ELSE LET s == PThread(M, code, args, a.mem, Who(t, n))
                                IN  [mem |-> s.mem, end |-> s.end])
=============================================================================
