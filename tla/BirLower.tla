------------------------------ MODULE BirLower ------------------------------
(***************************************************************************)
(* src/src/ir/bir_lower.c: from the typed syntax tree to BIR.  L is the    *)
(* lowering state, and every operator below returns it as the C function   *)
(* leaves it, its answer in L.v:                                           *)
(*                                                                         *)
(*   insts, blocks   the module so far, in order of emission; a block is   *)
(*                   [first, num] and cur the one being filled             *)
(*   syms            names in scope, newest last: [name, ref, ty], ref the *)
(*                   address of the variable                               *)
(*   brk, cnt, depth the targets of break and continue per nested loop     *)
(*   labels          label name to block                                   *)
(*   srdst           where a call that returns an aggregate may put it     *)
(*   funcs, globals, structs, tlv    the module's functions, its file-     *)
(*                   scope variables, records, and the file's functions    *)
(*                                                                         *)
(* A type is a sequence of words, << "ptr", "i32" >>; its address space,   *)
(* and an alloca's alignment, are left out.  Floating point, vectors,      *)
(* classes, templates, lambdas, textures, the CUDA built-ins and asm are   *)
(* left out as well.                                                       *)
(***************************************************************************)
EXTENDS Sema

CONSTANTS MAX_LOOPS,   \* nested loops whose targets are remembered
          MAX_CASES    \* labels of a switch that get a block: cases[64]

Void == << "void" >>
I1 == << "i1" >>
I32 == << "i32" >>
Ptr(t) == << "ptr" >> \o t
PtrInner(t) == IF IsPtr(t) THEN Tail(t) ELSE <<>>
Aggt(t) == t # <<>> /\ t[1] \in {"arr", "struct"}
Element(t) == IF IsArray(t) THEN Tail(t) ELSE t
Width(t) == IF IntType(t) THEN Bits[t[1]] ELSE 0

At(L, v) == [L EXCEPT !.v = v]
(* Mutant: an error is met, and not counted. *)
LowerErrorForgotten(L) == At(L, NONE)
LowerError(L) == [L EXCEPT !.err = TRUE, !.v = NONE]

EmitSub(L, op, ops, ty, sub) ==
    [L EXCEPT !.insts = Append(@, [op |-> op, ops |-> ops, ty |-> ty, sub |-> sub]),
              !.blocks[L.cur + 1].num = @ + 1,
              !.v = Len(L.insts)]
Emit(L, op, ops, ty) == EmitSub(L, op, ops, ty, 0)

RefType(L, v) ==
    IF v = NONE THEN <<>> ELSE IF IsInt(v) THEN << ConstType(v) >>
    ELSE IF v < 0 THEN Ptr(<< "i8" >>) ELSE L.insts[v + 1].ty
IntConst(c, t) == TypedConst(c, IF IntType(t) THEN t[1] ELSE "i32")

Alloca(L, t) == Emit(L, "alloca", <<>>, Ptr(t))
Store(L, v, a) == At(Emit(L, "store", << v, a >>, Void), v)
LoadFrom(L, a) == Emit(L, "load", << a >>, PtrInner(RefType(L, a)))
Gep(L, base, idx, t) == Emit(L, "gep", << base, idx >>, t)
Agep(L, base, t, i) == Gep(L, base, IntConst(i, I32), Ptr(t))

(* new_block, set_block, block_terminated. *)
NewBlocks(L, k) ==
    [L EXCEPT !.blocks = @ \o [i \in 1 .. k |-> [first |-> Len(L.insts), num |-> 0]]]
SetBlock(L, b) ==
    [L EXCEPT !.cur = b, !.blocks[b + 1].first = IF L.blocks[b + 1].num = 0 THEN Len(L.insts) ELSE @]
Terminated(L) ==
    LET B == L.blocks[L.cur + 1]
    IN  B.num > 0 /\ L.insts[B.first + B.num].op \in {"br", "br_cond", "ret", "unreachable", "switch"}
Jump(L, b) == Emit(L, "br", << b >>, Void)
(* Mutant: a second terminator after a return, a break or a goto. *)
JumpAlways(L, b) == Jump(L, b)
JumpUnlessDone(L, b) == IF Terminated(L) THEN L ELSE Jump(L, b)
BrCond(L, c, t, e, merge) == Emit(L, "br_cond", << c, t, e, merge >>, Void)

Bind(L, name, ref, t) == [L EXCEPT !.syms = Append(@, [name |-> name, ref |-> ref, ty |-> t])]
EndScope(L, outer) == [L EXCEPT !.syms = outer.syms, !.cexps = outer.cexps]

(* coerce_to, stfit, iprom: integer conversions, by the source's signedness. *)
Unsigned(n) == IsUnsignedInt(n.st)
CoerceTo(L, v, t, uns) ==
    LET w == Width(RefType(L, v)) IN
    IF RefType(L, v) = t \/ Width(t) = w THEN At(L, v)
    ELSE IF Width(t) > w THEN Emit(L, IF uns THEN "zext" ELSE "sext", << v >>, t)
    ELSE Emit(L, "trunc", << v >>, t)
Stfit(L, v, t, n) ==
    IF ~IntType(RefType(L, v)) \/ ~IntType(t) THEN At(L, v)
    ELSE CoerceTo(L, v, t, RefType(L, v) = I1 \/ Unsigned(n))
Iprom(L, v, n) ==
    IF ~IntType(RefType(L, v)) \/ Width(RefType(L, v)) >= Bits["i32"] THEN At(L, v)
    ELSE CoerceTo(L, v, I32, RefType(L, v) = I1 \/ Unsigned(n))

BinOpCode(op, uns) ==
    CASE op = "+" -> "add" [] op = "-" -> "sub" [] op = "*" -> "mul"
      [] op = "/" -> IF uns THEN "udiv" ELSE "sdiv"
      [] op = "%" -> IF uns THEN "urem" ELSE "srem"
      [] op = "&" -> "and" [] op = "|" -> "or" [] op = "^" -> "xor"
      [] op = "<<" -> "shl"
      [] op = ">>" -> IF uns THEN "lshr" ELSE "ashr"

CmpPred(op, uns) ==
    CASE op = "==" -> "eq" [] op = "!=" -> "ne"
      [] op = "<" -> IF uns THEN "ult" ELSE "slt"
      [] op = "<=" -> IF uns THEN "ule" ELSE "sle"
      [] op = ">" -> IF uns THEN "ugt" ELSE "sgt"
      [] op = ">=" -> IF uns THEN "uge" ELSE "sge"

(* bin_val: promote both, then widen the narrower one, except in a shift. *)
WidenRight(L, n, l) ==
    IF n.op \notin {"<<", ">>"} /\ Width(RefType(L, l)) > Width(RefType(L, L.v))
    THEN CoerceTo(L, L.v, RefType(L, l), Unsigned(n.kids[2])) ELSE L
WidenLeft(L, n, r) ==
    IF n.op \notin {"<<", ">>"} /\ Width(RefType(L, r)) > Width(RefType(L, L.v))
    THEN CoerceTo(L, L.v, RefType(L, r), Unsigned(n.kids[1])) ELSE L
BinOp(L, n, l) == Emit(L, BinOpCode(n.op, Unsigned(n)), << l, L.v >>, RefType(L, l))
BinFit(L, n, r) == BinOp(WidenRight(At(L, r), n, L.v), n, L.v)
BinBoth(L, n, l) == BinFit(WidenLeft(At(L, l), n, L.v), n, L.v)
BinLeft(L, n, r) == BinBoth(Iprom(L, r, n.kids[2]), n, L.v)
BinVal(L, n, l, r) == BinLeft(Iprom(L, l, n.kids[1]), n, r)

(* Pointer plus or minus an integer is a gep by elements. *)
Negate(L, v) == Emit(L, "sub", << IntConst(0, RefType(L, v)), v >>, RefType(L, v))
Offset(L, op, p, i) ==
    IF op = "-" THEN Gep(Negate(L, i), p, Len(L.insts), RefType(L, p))
    ELSE Gep(L, p, i, RefType(L, p))

(* acpy: an aggregate is copied scalar by scalar; the build evaluates the two
   addresses, arguments of one call, from the right. *)
RECURSIVE Acwlk(_, _, _, _)
AcMember(L, dst, src, t, i) ==
    Acwlk(Agep(Agep(L, src, t, i), dst, t, i), Len(L.insts) + 1, Len(L.insts), t)
Acwlk(L, dst, src, t) ==
    IF ~Aggt(t) THEN Store(Emit(L, "load", << src >>, t), Len(L.insts), dst)
    ELSE LET ts == L.structs[t[2]]
         IN  For(1, Len(ts) + 1, L, LAMBDA s, i : AcMember(s, dst, src, ts[i].ty, i - 1))
Acpy(L, dst, src, t) == At(Acwlk(L, dst, src, t), dst)

(* apld, apsrc: the address behind a value that was loaded whole. *)
Apld(L, v, t) ==
    IF v >= 0 /\ L.insts[v + 1].op = "load" /\ RefType(L, L.insts[v + 1].ops[1]) = Ptr(t)
    THEN L.insts[v + 1].ops[1] ELSE NONE
Apsrc(L, v, t) == IF IsPtr(RefType(L, v)) THEN v ELSE Apld(L, v, t)

(***************************************************************************)
(* Overloads: fcand keeps the functions lowered so far with this name and  *)
(* number of parameters, acost rates one argument, fpick takes the best    *)
(* total and refuses a draw.                                               *)
(***************************************************************************)
Fcand(L, name, np) ==
    {i \in DOMAIN L.funcs : L.funcs[i].name = name /\ Len(L.funcs[i].pts) = np + (IF L.funcs[i].sret THEN 1 ELSE 0)}

(* fdflt: the defaults that complete the call, from the first function of the
   file that has one for every parameter missing. *)
Fdflt(L, name, have) ==
    LET fits == {i \in DOMAIN L.tlv :
                   /\ L.tlv[i].name = name /\ Len(L.tlv[i].params) > have
                   /\ \A k \in have + 1 .. Len(L.tlv[i].params) : ~IsNone(L.tlv[i].params[k].dflt)}
        F == L.tlv[CHOOSE i \in fits : \A j \in fits : i <= j]
    IN  IF fits = {} THEN <<>>
        ELSE [k \in 1 .. Len(F.params) - have |-> F.params[have + k].dflt]

Acost(at, pt) ==
    IF at = pt THEN 4 ELSE IF at = <<>> \/ pt = <<>> THEN 1
    ELSE IF Aggt(pt) /\ PtrInner(at) = pt THEN 3
    ELSE IF PtrInner(at) # <<>> /\ PtrInner(at) = PtrInner(pt) THEN 3
    ELSE IF Aggt(at) \/ Aggt(pt) THEN 0
    ELSE IF IntType(at) /\ IntType(pt) THEN IF Width(pt) >= Width(at) THEN 3 ELSE 2
    ELSE 0

(* One argument of type at against parameter k of F; -1 is not viable. *)
FpickArg(F, k, at, n) ==
    LET pt == IF k \in F.refm THEN PtrInner(F.pts[k]) ELSE F.pts[k]
        agg == Aggt(n.st)
        at2 == IF agg /\ PtrInner(at) # <<>> THEN PtrInner(at) ELSE at
        pt2 == IF agg /\ Aggt(PtrInner(pt)) THEN PtrInner(pt) ELSE pt
    IN  IF k \in F.refm \ F.refq /\ PtrInner(at) # <<>> /\ pt # <<>> /\ PtrInner(at) # pt
        THEN -1 ELSE Acost(at2, pt2)
FpickScore(F, ats, nodes) ==
    For(1, Len(ats) + 1, 0, LAMBDA sc, k :
        LET c == FpickArg(F, k, ats[k], nodes[k]) IN IF sc < 0 \/ c < 0 THEN -1 ELSE sc + c)
Best(score) == {i \in DOMAIN score : score[i] >= 0 /\ \A j \in DOMAIN score : score[j] <= score[i]}
Fpick(L, cand, ats, nodes) ==
    IF Cardinality(cand) = 1 THEN cand
    ELSE Best([i \in cand |-> FpickScore(L.funcs[i], ats, nodes)])

(* islv: something with an address, as far as the symbols go. *)
RECURSIVE Islv(_, _)
Islv(L, n) ==
    CASE n.k \in {"paren", "cast"}       -> Islv(L, n.kids[1])
      [] n.k \in {"subscript", "member"} -> TRUE
      [] n.k = "prefix"                  -> n.op = "*"
      [] n.k = "ident"                   -> Find(L.syms, n.op) # {}
      [] OTHER                           -> FALSE

(* tpure: arms that both can be evaluated. *)
RECURSIVE Tpure(_)
Tpure(n) ==
    /\ CASE n.k \in {"int", "char", "bool", "ident", "cast", "paren", "ternary"} -> TRUE
         [] n.k = "binary"                -> n.op # "=" /\ n.op \notin AssignOps
         [] n.k \in {"prefix", "postfix"} -> n.op \notin {"++", "--", "*"}
         [] n.k = "member"                -> ~n.op.arrow
         [] OTHER                         -> FALSE
    /\ \A i \in DOMAIN n.kids : Tpure(n.kids[i])

(* rtmp: a temporary for a const reference. *)
RtmpStore(L, v) == At(Store(L, v, L.v), L.v)
Rtmp(L, v, t) == LET M == CoerceTo(L, v, t, FALSE) IN RtmpStore(Alloca(M, t), M.v)

(* rfit: a reference argument is the variable itself when the types agree. *)
Rfit(L, v, lv, want, cst) ==
    CASE v = NONE -> LowerError(L)
      [] ~lv /\ (~cst \/ Aggt(want)) -> LowerError(L)
      [] ~lv -> Rtmp(L, v, want)
      [] PtrInner(RefType(L, v)) = want -> At(L, v)
      [] ~cst \/ Aggt(PtrInner(RefType(L, v))) \/ Aggt(want) -> LowerError(L)
      [] OTHER -> Rtmp(LoadFrom(L, v), Len(L.insts), want)

FitArg(L, F, k, v, lv, n) ==
    CASE k \in F.refm -> Rfit(L, v, lv, PtrInner(F.pts[k]), k \in F.refq)
      [] Aggt(PtrInner(F.pts[k])) /\ RefType(L, v) = PtrInner(F.pts[k]) ->
             At(L, Apsrc(L, v, PtrInner(F.pts[k])))
      [] OTHER -> Stfit(L, v, F.pts[k], n)

(***************************************************************************)
(* Expressions.  LowerExpr leaves the value, Lval the address.             *)
(***************************************************************************)
RECURSIVE LowerExpr(_, _)
RECURSIVE Lval(_, _)

(* Arrays and records stand for their address. *)
LoadSym(L, s) == IF Aggt(s.ty) THEN At(L, s.ref) ELSE Emit(L, "load", << s.ref >>, s.ty)
NewestSym(L, name) == L.syms[Newest(Find(L.syms, name))]

(* The first use of a file-scope variable emits its address where the use is,
   and later uses in scope reuse it. *)
GlobalSym(L, g) ==
    Bind(Emit(L, IF L.globals[g].shared THEN "shared_alloc" ELSE "global_ref",
              IF L.globals[g].shared THEN <<>> ELSE << g - 1 >>, Ptr(L.globals[g].ty)),
         L.globals[g].name, Len(L.insts), L.globals[g].ty)
LoadGlobal(L, name) == LoadSym(L, NewestSym(L, name))

LowerIdent(L, name) ==
    CASE name \in DOMAIN L.enums       -> At(L, IntConst(L.enums[name], I32))
      [] Find(L.syms, name) # {}       -> LoadSym(L, NewestSym(L, name))
      [] Find(L.cexps, name) # {}      ->
             LET ce == L.cexps[Newest(Find(L.cexps, name))]
             IN  IF ce.bad THEN LowerError(L) ELSE At(L, IntConst(ce.v, ce.ty))
      [] Find(L.globals, name) # {}    -> LoadGlobal(GlobalSym(L, Newest(Find(L.globals, name))), name)
      [] OTHER                         -> LowerError(L)

(* The address of an element, of a field; a record read through a call or a
   cast goes through a temporary. *)
SubscriptAt(L, base) == Gep(L, base, L.v, Ptr(Element(PtrInner(RefType(L, base)))))
SubscriptOf(L, n) == SubscriptAt(LowerExpr(L, n.kids[2]), L.v)
Subscript(L, n) == SubscriptOf(LowerExpr(L, n.kids[1]), n)

Mtmp(L, n) ==
    IF n.k \notin {"call", "cast"} THEN Lval(L, n)
    ELSE LET M == LowerExpr(L, n) IN
         IF IsPtr(RefType(M, M.v)) THEN M ELSE RtmpStore(Alloca(M, RefType(M, M.v)), M.v)
FieldOf(L, t, name) ==
    LET ts == IF t # <<>> /\ t[1] = "struct" THEN L.structs[t[2]] ELSE <<>>
        at == Find(ts, name)
    IN  IF L.v = NONE \/ at = {} THEN LowerError(L) ELSE Agep(L, L.v, ts[Newest(at)].ty, Newest(at) - 1)
MemberAt(L, name) == FieldOf(L, PtrInner(RefType(L, L.v)), name)
Member(L, n) ==
    MemberAt(IF n.op.arrow THEN LowerExpr(L, n.kids[1]) ELSE Mtmp(L, n.kids[1]), n.op.name)

BitcastTo(L, t) ==
    IF L.v = NONE \/ PtrInner(RefType(L, L.v)) = t THEN L ELSE Emit(L, "bitcast", << L.v >>, Ptr(t))

Lval(L, n) ==
    CASE n.k = "ident"     -> IF Find(L.syms, n.op) = {} THEN LowerError(L) ELSE At(L, NewestSym(L, n.op).ref)
      [] n.k = "subscript" -> Subscript(L, n)
      [] n.k = "prefix" /\ n.op = "*" -> LowerExpr(L, n.kids[1])
      [] n.k = "member"    -> Member(L, n)
      [] n.k = "paren"     -> Lval(L, n.kids[1])
      [] n.k = "cast"      -> BitcastTo(Lval(L, n.kids[1]), BirType(n.op))
      [] OTHER             -> LowerError(L)

(* The value at the address in L.v: an element or an array field that is an
   aggregate stays an address, a record field is loaded whole. *)
Elem(L) == IF Aggt(PtrInner(RefType(L, L.v))) THEN L ELSE LoadFrom(L, L.v)
Field(L) == IF L.v = NONE \/ IsArray(PtrInner(RefType(L, L.v))) THEN L ELSE LoadFrom(L, L.v)

(* Assignment: the address first, then the value, converted to the variable's
   type; the converted value is the result. *)
StoreResult(L, ptr) == Store(L, L.v, ptr)
AssignScalar(L, ptr, n) == StoreResult(Stfit(L, L.v, PtrInner(RefType(L, ptr)), n), ptr)
AssignFrom(L, ptr, src, t) == LoadFrom(Acpy(L, ptr, src, t), ptr)
AssignVal(L, ptr, n, t) ==
    IF Aggt(t) /\ IsPtr(RefType(L, Apsrc(L, L.v, t))) THEN AssignFrom(L, ptr, Apsrc(L, L.v, t), t)
    ELSE AssignScalar(L, ptr, n)
AssignTo(L, ptr, n) == AssignVal(LowerExpr(L, n), ptr, n, PtrInner(RefType(L, ptr)))
Assign(L, n) == LET M == Lval(L, n.kids[1]) IN AssignTo(M, M.v, n.kids[2])

(* Compound assignment: the old value is read before the right-hand side runs,
   and the right-hand side is converted to the variable's type first. *)
CompoundOp(L, n, ptr, old, t) ==
    StoreResult(Emit(L, BinOpCode(CompoundBase(n.op), Unsigned(n)), << old, L.v >>, t), ptr)
Pstep(L, op, ptr, old) ==
    IF op \notin {"+", "-"} \/ ~IntType(RefType(L, L.v)) THEN LowerError(L)
    ELSE StoreResult(Offset(L, op, old, L.v), ptr)
CompoundVal(L, n, ptr, old, t) ==
    IF IsPtr(t) THEN Pstep(L, CompoundBase(n.op), ptr, old)
    ELSE IF CompoundBase(n.op) \in {"<<", ">>"} THEN CompoundOp(L, n, ptr, old, t)
    ELSE CompoundOp(Stfit(L, L.v, t, n.kids[2]), n, ptr, old, t)
CompoundAt(L, n, ptr) ==
    IF Aggt(PtrInner(RefType(L, ptr))) THEN LowerError(L)
    ELSE CompoundVal(LowerExpr(LoadFrom(L, ptr), n.kids[2]), n, ptr, Len(L.insts), PtrInner(RefType(L, ptr)))
Compound(L, n) == LET M == Lval(L, n.kids[1]) IN CompoundAt(M, n, M.v)

(* ++ and --, before and after: which of the two values is the result. *)
Stepped(L, op, old, t) ==
    IF IsPtr(t) THEN Gep(L, old, IntConst(IF op = "++" THEN 1 ELSE -1, I32), t)
    ELSE Emit(L, IF op = "++" THEN "add" ELSE "sub", << old, IntConst(1, t) >>, t)
IncDecAt(L, op, ptr, post) ==
    LET M == StoreResult(Stepped(LoadFrom(L, ptr), op, Len(L.insts), PtrInner(RefType(L, ptr))), ptr)
    IN  IF Aggt(PtrInner(RefType(L, ptr))) THEN LowerError(L)
        ELSE IF post THEN At(M, Len(L.insts)) ELSE M
IncDec(L, n, post) == LET M == Lval(L, n.kids[1]) IN IncDecAt(M, n.op, M.v, post)

(* && and ||: a one-bit slot that holds the short-circuit answer until the
   right-hand side has run. *)
ShortEnd(L, slot, end) == LoadFrom(SetBlock(JumpUnlessDone(StoreResult(L, slot), end), end), slot)
ShortRhs(L, n, slot, rhs, end) == ShortEnd(LowerExpr(SetBlock(L, rhs), n.kids[2]), slot, end)
ShortBranch(L, n, slot, rhs, end) ==
    ShortRhs(BrCond(NewBlocks(L, 2), L.v, IF n.op = "&&" THEN rhs ELSE end,
                    IF n.op = "&&" THEN end ELSE rhs, end), n, slot, rhs, end)
ShortLhs(L, n, slot) == ShortBranch(L, n, slot, Len(L.blocks), Len(L.blocks) + 1)
ShortCircuit(L, n) ==
    ShortLhs(LowerExpr(Store(Alloca(L, I1), IntConst(IF n.op = "&&" THEN 0 ELSE 1, I1), Len(L.insts)),
                       n.kids[1]), n, Len(L.insts))

(* A comparison converts neither side and takes the left one's signedness. *)
Comparison(L, n, l) ==
    EmitSub(L, "icmp", << l, L.v >>, I1, CmpPred(n.op, Unsigned(n.kids[1])))

(* Arithmetic on two values. *)
Arithmetic2(L, n, l, r) ==
    LET lt == RefType(L, l)
        rt == RefType(L, r)
    IN  CASE Aggt(n.kids[1].st) \/ Aggt(n.kids[2].st)      -> LowerError(L)
          [] n.op = "+" /\ IsPtr(lt) /\ IsPtr(rt)         -> LowerError(L)
          [] n.op \in {"+", "-"} /\ IsPtr(lt) /\ ~IsPtr(rt) -> Offset(L, n.op, l, r)
          [] n.op = "+" /\ ~IsPtr(lt) /\ IsPtr(rt)        -> Offset(L, n.op, r, l)
          [] n.op \notin {"+", "-"} /\ (IsPtr(lt) \/ IsPtr(rt)) -> LowerError(L)
          [] OTHER                                        -> BinVal(L, n, l, r)
BinaryRhs(L, n, l) ==
    IF n.op \in Comparisons THEN Comparison(L, n, l) ELSE Arithmetic2(L, n, l, L.v)
BinaryLhs(L, n) == BinaryRhs(LowerExpr(L, n.kids[2]), n, L.v)

LowerBinary(L, n) ==
    CASE n.op = "="              -> Assign(L, n)
      [] n.op \in AssignOps      -> Compound(L, n)
      [] n.op \in {"&&", "||"}   -> ShortCircuit(L, n)
      [] n.op = ","              -> LowerExpr(LowerExpr(L, n.kids[1]), n.kids[2])
      [] OTHER                   -> BinaryLhs(LowerExpr(L, n.kids[1]), n)

Not(L) == EmitSub(L, "icmp", << L.v, IntConst(0, RefType(L, L.v)) >>, I1, "eq")
Complement(L) == Emit(L, "xor", << L.v, IntConst(-1, RefType(L, L.v)) >>, RefType(L, L.v))
LowerPrefix(L, n) ==
    CASE n.op = "&"             -> Lval(L, n.kids[1])
      [] n.op \in {"++", "--"}  -> IncDec(L, n, FALSE)
      [] n.op = "+"             -> LowerExpr(L, n.kids[1])
      [] Aggt(n.kids[1].st)     -> LowerError(L)
      [] n.op = "-"             -> LET M == LowerExpr(L, n.kids[1]) IN Negate(M, M.v)
      [] n.op = "!"             -> Not(LowerExpr(L, n.kids[1]))
      [] n.op = "~"             -> Complement(LowerExpr(L, n.kids[1]))
      [] n.op = "*"             -> LET M == LowerExpr(L, n.kids[1]) IN LoadFrom(M, M.v)
      [] OTHER                  -> LowerError(L)

(* Pure arms are both evaluated and one is selected; otherwise tbrnc branches. *)
Select(L, c, t) == Emit(L, "select", << c, t, L.v >>, RefType(L, t))
SelectElse(L, n, c) == Select(LowerExpr(L, n.kids[3]), c, L.v)
SelectThen(L, n) == SelectElse(LowerExpr(L, n.kids[2]), n, L.v)

Phi(L, tp, tv, ep, ev) ==
    IF tv = NONE \/ ev = NONE \/ RefType(L, tv) = Void \/ RefType(L, ev) = Void THEN At(L, NONE)
    ELSE Emit(L, "phi", << tp, tv, ep, ev >>, RefType(L, tv))
TernEnd(L, tp, tv, end) == Phi(SetBlock(Jump(L, end), end), tp, tv, L.cur, L.v)
TernElse(L, n, eb, end) == TernEnd(LowerExpr(SetBlock(Jump(L, end), eb), n.kids[3]), L.cur, L.v, end)
TernThen(L, n, tb) ==
    TernElse(LowerExpr(SetBlock(BrCond(NewBlocks(L, 3), L.v, tb, tb + 1, tb + 2), tb), n.kids[2]),
             n, tb + 1, tb + 2)
LowerTernary(L, n) ==
    IF Tpure(n.kids[2]) /\ Tpure(n.kids[3]) THEN SelectThen(LowerExpr(L, n.kids[1]), n)
    ELSE LET M == LowerExpr(L, n.kids[1]) IN TernThen(M, n, Len(M.blocks))

CastVal(L, t, n) ==
    LET s == RefType(L, L.v)
        op == CASE IsPtr(s) /\ IsPtr(t)   -> "bitcast"
                [] IsPtr(s)               -> "ptrtoint"
                [] IsPtr(t)               -> "inttoptr"
                [] Width(t) > Width(s)    -> IF Unsigned(n) THEN "zext" ELSE "sext"
                [] Width(t) < Width(s)    -> "trunc"
                [] OTHER                  -> "bitcast"
    IN  IF s = t THEN L ELSE IF Aggt(s) \/ Aggt(t) THEN LowerError(L) ELSE Emit(L, op, << L.v >>, t)

(***************************************************************************)
(* A call: candidates, then the arguments in order, the reference ones as  *)
(* addresses, then the choice, then every argument fitted to its parameter.*)
(***************************************************************************)
Evaluated(A, L, lv) == [L |-> L, vals |-> Append(A.vals, L.v), lvs |-> Append(A.lvs, lv)]
CallArgs(L, args, refm) ==
    For(1, Len(args) + 1, [L |-> L, vals |-> <<>>, lvs |-> <<>>], LAMBDA A, k :
        LET lv == k \in refm /\ Islv(A.L, args[k])
        IN  Evaluated(A, IF lv THEN Lval(A.L, args[k]) ELSE LowerExpr(A.L, args[k]), lv))

Fitted(A, k, L) == [A EXCEPT !.L = L, !.vals[k] = L.v]
FitArgs(A, F, args) ==
    For(1, Len(args) + 1, A, LAMBDA B, k :
        Fitted(B, k, FitArg(B.L, F, k, B.vals[k], B.lvs[k], args[k])))

(* A callee that returns a record gets the caller's variable to put it in, or a
   temporary when the variable is also an argument. *)
Sslot(A, F, dst) ==
    LET t == PtrInner(F.pts[Len(F.pts)]) IN
    IF dst # NONE /\ RefType(A.L, dst) = Ptr(t) /\ \A k \in DOMAIN A.vals : A.vals[k] # dst
    THEN At(A.L, dst) ELSE Alloca(A.L, t)
EmitCallTo(L, fi, vals) == At(Emit(L, "call", << fi - 1 >> \o vals \o << L.v >>, Void), L.v)
EmitCall(A, fi, F, dst) ==
    IF F.sret THEN EmitCallTo(Sslot(A, F, dst), fi, A.vals)
    ELSE Emit(A.L, "call", << fi - 1 >> \o A.vals, F.ret)

CallOne(A, pick, args, dst) ==
    IF Cardinality(pick) # 1 THEN LowerError(A.L)
    ELSE LET fi == CHOOSE i \in pick : TRUE
         IN  EmitCall(FitArgs(A, A.L.funcs[fi], args), fi, A.L.funcs[fi], dst)
CallAmong(A, cand, args, dst) ==
    CallOne(A, Fpick(A.L, cand, [k \in DOMAIN A.vals |-> RefType(A.L, A.vals[k])], args), args, dst)
CallWith(L, cand, args) ==
    IF cand = {} \/ \E i, j \in cand : L.funcs[i].refm # L.funcs[j].refm \/ L.funcs[i].refq # L.funcs[j].refq
    THEN LowerError(L)
    ELSE CallAmong(CallArgs([L EXCEPT !.srdst = NONE], args, L.funcs[CHOOSE i \in cand : TRUE].refm),
                   cand, args, L.srdst)
LowerCall(L, n) ==
    LET all == n.kids \o (IF Fcand(L, n.op, Len(n.kids)) # {} THEN <<>> ELSE Fdflt(L, n.op, Len(n.kids)))
    IN  CallWith(L, Fcand(L, n.op, Len(all)), all)

LowerExpr(L, n) ==
    CASE n.k = "int"       -> At(L, IntConst(n.op, I32))
      [] n.k = "char"      -> At(L, IntConst(n.op, << "i8" >>))
      [] n.k = "bool"      -> At(L, IntConst(n.op, I1))
      [] n.k = "ident"     -> LowerIdent(L, n.op)
      [] n.k = "paren"     -> LowerExpr(L, n.kids[1])
      [] n.k = "member"    -> Field(Member(L, n))
      [] n.k = "subscript" -> Elem(Subscript(L, n))
      [] n.k = "binary"    -> LowerBinary(L, n)
      [] n.k = "prefix"    -> LowerPrefix(L, n)
      [] n.k = "postfix"   -> IncDec(L, n, TRUE)
      [] n.k = "ternary"   -> LowerTernary(L, n)
      [] n.k = "cast"      -> CastVal(LowerExpr(L, n.kids[1]), BirType(n.op), n.kids[1])
      [] n.k = "call"      -> LowerCall(L, n)
      [] OTHER             -> At(L, NONE)

(***************************************************************************)
(* Declarations.                                                           *)
(***************************************************************************)
(* ainit: elements in order, each converted; the missing ones are zero and too
   many is an error.  A flat aggregate: types is what its members are. *)
Zero(t) == IF IsPtr(t) THEN ZERO ELSE IntConst(0, t)
StoreMember(L, els, i, t, a) ==
    IF i > Len(els) THEN Store(L, Zero(t), a)
    ELSE AssignScalar(LowerExpr(L, els[i]), a, els[i])
Awalk(L, base, types, els) ==
    For(1, Len(types) + 1, L, LAMBDA s, i :
        StoreMember(Agep(s, base, types[i], i - 1), els, i, types[i], Len(s.insts)))
Ainit(L, base, types, els) ==
    IF Len(els) > Len(types) THEN LowerError(Awalk(L, base, types, els)) ELSE Awalk(L, base, types, els)

(* rlocal: a reference is another name for the variable; a const one may name
   a temporary. *)
BindRef(L, name, t) ==
    IF L.v < 0 THEN L
    ELSE IF PtrInner(RefType(L, L.v)) # t THEN LowerError(L) ELSE Bind(L, name, L.v, t)
Rlocal(L, n, t) ==
    CASE n.kids = <<>>           -> LowerError(L)
      [] Islv(L, n.kids[1])      -> BindRef(Lval(L, n.kids[1]), n.op.name, t)
      [] "const" \notin n.op.q \/ Aggt(t) -> LowerError(L)
      [] OTHER                   -> LET M == LowerExpr(L, n.kids[1])
                                    IN  BindRef(Rtmp(M, M.v, t), n.op.name, t)

(* An array takes its length from a constant expression. *)
ArrayOf(L, n, t, c) ==
    IF ~c.ok \/ c.v < 0 THEN LowerError(L)
    ELSE IF "shared" \in n.op.q
    THEN Bind(Emit(L, "shared_alloc", <<>>, Ptr(<< "arr" >> \o t)), n.op.name, Len(L.insts), << "arr" >> \o t)
    ELSE LET M == Bind(Alloca(L, << "arr" >> \o t), n.op.name, Len(L.insts), << "arr" >> \o t)
         IN  IF n.kids = <<>> THEN M ELSE Ainit(M, Len(L.insts), [i \in 1 .. c.v |-> t], n.kids[1].kids)

(* The initialiser of a variable in scope already; a record built by a call is
   built in place. *)
InitVal(L, n, t, slot) ==
    IF L.v = slot THEN L
    ELSE IF IsPtr(RefType(L, L.v)) /\ Aggt(t) THEN Acpy(L, slot, L.v, t)
    ELSE AssignScalar(L, slot, n)
Initialise(L, n, t, slot) ==
    CASE n.kids = <<>>          -> L
      [] n.kids[1].k = "init"   -> IF Aggt(t) THEN Ainit(L, slot, [i \in DOMAIN L.structs[t[2]] |-> L.structs[t[2]][i].ty],
                                                        n.kids[1].kids)
                                   ELSE L
      [] OTHER                  -> InitVal([LowerExpr([L EXCEPT !.srdst = IF Aggt(t) THEN slot ELSE @], n.kids[1])
                                               EXCEPT !.srdst = NONE], n.kids[1], t, slot)
Variable(L, n, t) == Initialise(Bind(Alloca(L, t), n.op.name, Len(L.insts), t), n, t, Len(L.insts))

(* A const of constant value is stored as that constant and joins the named
   constants, where it stays until its scope ends. *)
ConstVariable(L, n, t, c) ==
    IF ~c.ok THEN Variable(L, n, t)
    ELSE Store(Bind(Alloca(Cadd(L, n.op.name, c, t, FALSE), t), n.op.name, Len(L.insts), t),
               IntConst(c.v, t), Len(L.insts))

DeclareAs(L, n, t) ==
    CASE "ref" \in n.op.q      -> Rlocal(L, n, t)
      [] ~IsNone(n.op.dim)     -> ArrayOf(L, n, t, Cfold(L, n.op.dim))
      [] "shared" \in n.op.q   -> Bind(Emit(L, "shared_alloc", <<>>, Ptr(t)), n.op.name, Len(L.insts), t)
      [] IsConstDecl(n) /\ n.kids # <<>> -> ConstVariable(L, n, t, Ccvt(Cfold(L, n.kids[1]), t))
      [] OTHER                 -> Variable(L, n, t)
LowerVarDecl(L, n) == DeclareAs(L, n, BirType(n.op.ty))

(***************************************************************************)
(* Statements.                                                             *)
(***************************************************************************)
RECURSIVE LowerStmt(_, _)

(* lower_block_stmts: after a terminator only a label starts code again. *)
BlockStmts(L, stmts) ==
    ForEach(stmts, L, LAMBDA s, st : IF st.k = "label" \/ ~Terminated(s) THEN LowerStmt(s, st) ELSE s)
Scope(L, stmts) == EndScope(BlockStmts(L, stmts), L)

PushLoop(L, brk, cnt) ==
    IF L.depth >= MAX_LOOPS THEN L
    ELSE [L EXCEPT !.brk[L.depth] = brk, !.cnt[L.depth] = cnt, !.depth = @ + 1]
PopLoop(L) == [L EXCEPT !.depth = IF @ > 0 THEN @ - 1 ELSE 0]

(* One arm of an if, into block b and on to the end. *)
Arm(L, st, b, end) == JumpUnlessDone(LowerStmt(SetBlock(L, b), st), end)
IfOn(L, n, b, end) ==
    LET els == HasKid(n, 3)
        M == Arm(BrCond(NewBlocks(L, IF els THEN 3 ELSE 2), L.v, b, IF els THEN b + 1 ELSE end, end),
                 n.kids[2], b, end)
    IN  SetBlock(IF els THEN Arm(M, n.kids[3], b + 1, end) ELSE M, end)
IfAfter(L, n) == IfOn(L, n, Len(L.blocks), Len(L.blocks) + (IF HasKid(n, 3) THEN 2 ELSE 1))

(* if constexpr: only the arm taken is lowered. *)
IfConst(L, n, c) ==
    CASE ~c.ok                     -> LowerError(L)
      [] c.v # 0                   -> EndScope(LowerStmt(L, n.kids[2]), L)
      [] c.v = 0 /\ HasKid(n, 3)   -> EndScope(LowerStmt(L, n.kids[3]), L)
      [] OTHER                     -> L
LowerIf(L, n) ==
    IF n.op = "constexpr" THEN IfConst(L, n, Cfold(L, n.kids[1])) ELSE IfAfter(LowerExpr(L, n.kids[1]), n)

(* Loops. *)
TestOn(L, body, end) == BrCond(L, L.v, body, end, end)
LoopBody(L, st, b, next) == JumpUnlessDone(LowerStmt(SetBlock(L, b), st), next)
EndLoop(L, end) == SetBlock(PopLoop(L), end)

WhileOn(L, n, c) ==   \* cond c, body c + 1, end c + 2
    EndLoop(LoopBody(TestOn(LowerExpr(SetBlock(Jump(PushLoop(NewBlocks(L, 3), c + 2, c), c), c), n.kids[1]),
                            c + 1, c + 2), n.kids[2], c + 1, c), c + 2)
DoOn(L, n, b) ==      \* body b, cond b + 1, end b + 2
    EndLoop(TestOn(LowerExpr(SetBlock(LoopBody(Jump(PushLoop(NewBlocks(L, 3), b + 2, b + 1), b), n.kids[1], b, b + 1),
                                      b + 1), n.kids[2]), b, b + 2), b + 2)

ForInit(L, n) ==
    IF IsNone(n) THEN L ELSE IF n.k = "decl" THEN LowerVarDecl(L, n) ELSE LowerExpr(L, n)
ForTest(L, n, c) ==
    IF IsNone(n) THEN Jump(L, c + 1) ELSE TestOn(LowerExpr(L, n), c + 1, c + 3)
ForStepOn(L, n, c) == Jump(IF IsNone(n) THEN SetBlock(L, c + 2) ELSE LowerExpr(SetBlock(L, c + 2), n), c)
(* Mutant: continue goes to the test, past the step. *)
ForSkipsStep(L, n, c) ==
    EndLoop(ForStepOn(LoopBody(ForTest(SetBlock(Jump(PushLoop(NewBlocks(L, 4), c + 3, c), c), c), n.kids[2], c),
                               n.kids[4], c + 1, c + 2), n.kids[3], c), c + 3)
ForOn(L, n, c) ==     \* cond c, body c + 1, inc c + 2, end c + 3
    EndLoop(ForStepOn(LoopBody(ForTest(SetBlock(Jump(PushLoop(NewBlocks(L, 4), c + 3, c + 2), c), c), n.kids[2], c),
                               n.kids[4], c + 1, c + 2), n.kids[3], c), c + 3)
ForHeaded(L, n) == ForOn(L, n, Len(L.blocks))
LowerFor(L, n) == EndScope(ForHeaded(ForInit(L, n.kids[1]), n), L)

(* A switch on a constant lowers the statements from its label to the first
   break or terminator, in a scope of their own. *)
ConstCase(X, st) ==
    CASE X.stop                        -> X
      [] st.k = "break"                -> [X EXCEPT !.stop = TRUE]
      [] st.k \in {"case", "default"}  -> [X EXCEPT !.stop = Terminated(X.L)]
      [] OTHER                         -> LET M == LowerStmt(X.L, st)
                                          IN  [L |-> M, stop |-> st.k = "return" \/ Terminated(M)]
ConstSwitch(L, body, at) ==
    IF at = 0 THEN L
    ELSE EndScope(ForEach(SubSeq(body, at, Len(body)), [L |-> L, stop |-> FALSE], ConstCase).L, L)

(* Any other: a block per label, up to MAX_CASES, the jump table, then the bodies
   one after the other.  break has a target of its own, continue keeps whatever
   the slot holds; what follows a label past the limit goes on in the block of the
   label before it. *)
IsCaseLabel(st) == st.k \in {"case", "default"}
LabelsUpTo(body, i) == Cardinality({j \in 1 .. i : IsCaseLabel(body[j])})
HasBlock(body, i) == IsCaseLabel(body[i]) /\ LabelsUpTo(body, i) <= MAX_CASES
LabelBlock(body, i, end) == end + LabelsUpTo(body, i)
DefaultBlock(body, end) ==
    LET at == {i \in DOMAIN body : body[i].k = "default" /\ HasBlock(body, i)}
    IN  IF at = {} THEN end ELSE LabelBlock(body, Newest(at), end)
PushSwitch(L, end) ==
    IF L.depth >= MAX_LOOPS THEN L ELSE [L EXCEPT !.brk[L.depth] = end, !.depth = @ + 1]

TableEntry(T, L, b) == [L |-> L, ops |-> T.ops \o << L.v, b >>]
JumpTable(L, body, end) ==
    For(1, Len(body) + 1, [L |-> L, ops |-> << L.v, DefaultBlock(body, end) >>], LAMBDA T, i :
        IF body[i].k # "case" \/ ~HasBlock(body, i) THEN T
        ELSE TableEntry(T, LowerExpr(T.L, body[i].kids[1]), LabelBlock(body, i, end)))
EmitSwitch(T) == Emit(T.L, "switch", T.ops, Void)

CaseBodies(L, body, end) ==
    For(1, Len(body) + 1, L, LAMBDA s, i :
        IF HasBlock(body, i) THEN SetBlock(s, LabelBlock(body, i, end))
        ELSE IF ~IsCaseLabel(body[i]) /\ LabelsUpTo(body, i) > 0 THEN LowerStmt(s, body[i]) ELSE s)
SwitchOn(L, body, end) ==
    SetBlock([JumpUnlessDone(CaseBodies(EmitSwitch(JumpTable(PushSwitch(
                  NewBlocks(L, 1 + Cardinality({i \in DOMAIN body : HasBlock(body, i)})), end),
                  body, end)), body, end), end) EXCEPT !.depth = L.depth], end)
SwitchAfter(L, n) == SwitchOn(L, n.kids[2].kids, Len(L.blocks))
SwitchChosen(L, n, at) ==
    IF at < 0 THEN SwitchAfter(LowerExpr(L, n.kids[1]), n) ELSE ConstSwitch(L, n.kids[2].kids, at)
LowerSwitch(L, n) ==
    LET c == Cfold(L, n.kids[1])
    IN  SwitchChosen(L, n, IF c.ok THEN SwitchLabel(L, n.kids[2].kids, c.v) ELSE -1)

(* find_or_create_label. *)
Labelled(L, name) ==
    IF name \in DOMAIN L.labels THEN L
    ELSE [NewBlocks(L, 1) EXCEPT !.labels = [x \in DOMAIN @ \cup {name} |->
                                               IF x = name THEN Len(L.blocks) ELSE @[x]]]
PlaceLabel(L, b) == SetBlock(JumpUnlessDone(L, b), b)

(* return: a record goes where the caller asked for it. *)
Ret(L, ops) == Emit(L, "ret", ops, Void)
RetVal(L, n) == LET M == Stfit(L, L.v, L.ret, n) IN Ret(M, << M.v >>)
RetRecord(L, t) ==
    Ret(IF L.v \in {NONE, L.slot} THEN L ELSE Acpy(L, L.slot, Apsrc(L, L.v, t), t), <<>>)
LowerReturn(L, n) ==
    CASE n.kids = <<>>              -> Ret(L, <<>>)
      [] L.slot = NONE              -> RetVal(LowerExpr(L, n.kids[1]), n.kids[1])
      [] n.kids[1].k = "init"       ->
           LET ts == L.structs[PtrInner(RefType(L, L.slot))[2]]
           IN  Ret(Ainit(L, L.slot, [i \in DOMAIN ts |-> ts[i].ty], n.kids[1].kids), <<>>)
      [] OTHER                      ->
           RetRecord([LowerExpr([L EXCEPT !.srdst = L.slot], n.kids[1]) EXCEPT !.srdst = NONE],
                     PtrInner(RefType(L, L.slot)))

LowerStmt(L, n) ==
    CASE n.k = "expr"     -> IF n.kids = <<>> THEN L ELSE LowerExpr(L, n.kids[1])
      [] n.k = "block"    -> Scope(L, n.kids)
      [] n.k = "decl"     -> LowerVarDecl(L, n)
      [] n.k = "return"   -> LowerReturn(L, n)
      [] n.k = "if"       -> LowerIf(L, n)
      [] n.k = "for"      -> LowerFor(L, n)
      [] n.k = "while"    -> WhileOn(L, n, Len(L.blocks))
      [] n.k = "dowhile"  -> DoOn(L, n, Len(L.blocks))
      [] n.k = "switch"   -> LowerSwitch(L, n)
      [] n.k = "break"    -> IF L.depth > 0 THEN Jump(L, L.brk[L.depth - 1]) ELSE L
      [] n.k = "continue" -> IF L.depth > 0 THEN Jump(L, L.cnt[L.depth - 1]) ELSE L
      [] n.k = "label"    -> LET M == Labelled(L, n.op) IN PlaceLabel(M, M.labels[n.op])
      [] n.k = "goto"     -> LET M == Labelled(L, n.op) IN Jump(M, M.labels[n.op])
      [] OTHER            -> L

(***************************************************************************)
(* Functions.                                                              *)
(***************************************************************************)
(* pmut: the body may write parameter nm, so it needs a copy. *)
RECURSIVE Names(_, _)
Names(n, nm) ==
    IF n.k \in {"paren", "member", "subscript"} THEN Names(n.kids[1], nm) ELSE n.k = "ident" /\ n.op = nm
RECURSIVE Pmut(_, _)
Pmut(n, nm) ==
    \/ n.k = "binary" /\ (n.op = "=" \/ n.op \in AssignOps) /\ Names(n.kids[1], nm)
    \/ n.k \in {"prefix", "postfix"} /\ n.op \in {"&", "++", "--"} /\ Names(n.kids[1], nm)
    \/ n.k = "call" /\ \E i \in DOMAIN n.kids : Names(n.kids[i], nm)
    \/ \E i \in DOMAIN n.kids : Pmut(n.kids[i], nm)

(* A reference, and a record outside a kernel, is passed as an address; a
   record result is one more parameter. *)
ByAddress(F, p) == p.ref \/ (Aggt(BirType(p.ty)) /\ ~F.kernel)
ParamType(F, p) == IF ByAddress(F, p) THEN Ptr(BirType(p.ty)) ELSE BirType(p.ty)
Sret(F) == Aggt(BirType(F.ret)) /\ ~F.kernel
Signature(F, bb) ==
    [name |-> F.name, sret |-> Sret(F), kernel |-> F.kernel, first |-> bb, num |-> 0, total |-> 0,
     ret |-> IF Sret(F) THEN Void ELSE BirType(F.ret),
     pts |-> [i \in DOMAIN F.params |-> ParamType(F, F.params[i])]
             \o (IF Sret(F) THEN << Ptr(BirType(F.ret)) >> ELSE <<>>),
     refm |-> {i \in DOMAIN F.params : F.params[i].ref},
     refq |-> {i \in DOMAIN F.params : F.params[i].ref /\ F.params[i].cst}]

BindParam(L, F, p, t) ==
    CASE p.ref -> Bind(L, p.name, L.v, t)
      [] ByAddress(F, p) /\ ~Pmut(F.body, p.name) -> Bind(L, p.name, L.v, t)
      [] ByAddress(F, p) -> Bind(Acpy(Alloca(L, t), Len(L.insts), L.v, t), p.name, Len(L.insts), t)
      [] OTHER           -> Bind(Store(Alloca(L, t), L.v, Len(L.insts)), p.name, Len(L.insts), t)
Params(L, F) ==
    For(1, Len(F.params) + 1, L, LAMBDA s, i :
        BindParam(EmitSub(s, "param", <<>>, ParamType(F, F.params[i]), i - 1), F, F.params[i],
                  BirType(F.params[i].ty)))
SretParam(L, F) ==
    IF ~Sret(F) THEN L
    ELSE LET M == EmitSub(L, "param", <<>>, Ptr(BirType(F.ret)), Len(F.params)) IN [M EXCEPT !.slot = M.v]

EndFunc(L, F) ==
    IF Terminated(L) THEN L ELSE Emit(L, IF F.ret = Void THEN "ret" ELSE "unreachable", <<>>, Void)
CloseFunc(L, outer, bb, ib) ==
    [EndScope(L, outer) EXCEPT !.funcs[Len(L.funcs)].num = Len(L.blocks) - bb,
                               !.funcs[Len(L.funcs)].total = Len(L.insts) - ib]
OpenFunc(L, F) ==
    SetBlock(NewBlocks([L EXCEPT !.funcs = Append(@, Signature(F, Len(L.blocks))),
                                 !.labels = [x \in {} |-> 0], !.slot = NONE, !.ret = BirType(F.ret)], 1),
             Len(L.blocks))
LowerFunc(L, F) ==
    CloseFunc(EndFunc(Scope(SretParam(Params(OpenFunc(L, F), F), F), F.body.kids), F),
              L, Len(L.blocks), Len(L.insts))

(***************************************************************************)
(* bir_ltu: the file's records, enumerators, constants and variables are   *)
(* known before its functions are lowered in order.                        *)
(***************************************************************************)
Start(src) ==
    [insts |-> <<>>, blocks |-> <<>>, cur |-> 0, syms |-> <<>>, depth |-> 0,
     brk |-> [i \in 0 .. MAX_LOOPS - 1 |-> 0], cnt |-> [i \in 0 .. MAX_LOOPS - 1 |-> 0],
     labels |-> [x \in {} |-> 0], slot |-> NONE, ret |-> Void, srdst |-> NONE,
     structs |-> [s \in DOMAIN src.structs |-> [i \in DOMAIN src.structs[s] |->
                    [src.structs[s][i] EXCEPT !.ty = BirType(@)]]],
     globals |-> [i \in DOMAIN src.globals |-> [src.globals[i] EXCEPT !.ty = BirType(@)]],
     enums |-> src.enums, cexps |-> <<>>, cdep |-> 0, err |-> FALSE, v |-> NONE,
     cfns |-> SelectSeq(src.funcs, LAMBDA F : F.cexpr), funcs |-> <<>>, tlv |-> src.funcs]
Prescan(src) ==
    ForEach(src.consts, Start(src), LAMBDA L, n :
        LET M == Ccoll(L, n) IN IF M.cexps[Len(M.cexps)].bad /\ "constexpr" \notin n.op.q THEN L ELSE M)

(* The module, its types reduced to the kinds the passes tell apart. *)
PointerName(t) ==
    CASE t = I32 -> "ptr" [] t = I1 -> "ptr1" [] t = << "i8" >> -> "ptr8" [] t = << "i64" >> -> "ptr64"
      [] t[1] = "arr" -> "aptr" [] t[1] = "struct" -> "sptr" [] OTHER -> "pptr"
TypeName(t) ==
    IF IsPtr(t) THEN PointerName(Tail(t)) ELSE IF t # <<>> /\ t[1] = "struct" THEN "struct" ELSE t[1]
Module(L) ==
    [insts |-> [i \in 0 .. Len(L.insts) - 1 |->
                  [op |-> L.insts[i + 1].op, ops |-> L.insts[i + 1].ops, ty |-> TypeName(L.insts[i + 1].ty),
                   sub |-> L.insts[i + 1].sub, tag |-> i + 1]],
     lines |-> [i \in 0 .. Len(L.insts) - 1 |-> i + 1],
     blocks |-> [b \in 0 .. Len(L.blocks) - 1 |-> L.blocks[b + 1]],
     funcs |-> [f \in DOMAIN L.funcs |->
                  [first |-> L.funcs[f].first, num |-> L.funcs[f].num, total |-> L.funcs[f].total,
                   dev |-> ~L.funcs[f].kernel, np |-> Len(L.funcs[f].pts), void |-> L.funcs[f].ret = Void]]]
=============================================================================
