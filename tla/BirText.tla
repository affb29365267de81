------------------------------- MODULE BirText -------------------------------
(***************************************************************************)
(* BIR as text: what bir_print_module writes for --ir, and what bir_parse  *)
(* makes of it for --bir-in through the builder of booth_build.c.  A text  *)
(* is a sequence of functions, a body a sequence of labels and             *)
(* instructions, an instruction the number it defines (-1 for none), its   *)
(* opcode, the dimension in the opcode's name, its tokens and the line of  *)
(* its comment (0 for none).  Values are numbered from the function's      *)
(* first instruction; constants carry no type.                             *)
(*                                                                         *)
(* M.bnames and M.fnames are the names of blocks, <<name, number>> with an *)
(* empty name for none, and of functions.                                  *)
(***************************************************************************)
EXTENDS KernelExec

Tk(k, v) == << [k |-> k, v |-> v] >>
Word(w) == Tk("word", w)
Comma == Word(",")

(* bir_type_str: the type, with what lies too deep and every struct as a bare
   number that nothing reads. *)
TYPE_STR_DEPTH == 4
RECURSIVE TypeStr(_, _, _)
TypeStr(M, t, depth) ==
    LET T == M.types[t] IN
    CASE T.kind = "void"  -> << "void" >>
      [] T.kind = "int"   -> << "i", T.w >>
      [] T.kind = "float" -> << "f", T.w >>
      [] T.kind = "ptr"   -> IF depth < 0 THEN << "ptr", T.as >> ELSE << "ptr", T.as, TypeStr(M, T.in, depth - 1) >>
      [] T.kind = "array" /\ depth >= 0 -> << "[", T.n, TypeStr(M, T.in, depth - 1) >>
      [] OTHER            -> << "type_" >>
Type(M, t) == Tk("type", TypeStr(M, t, TYPE_STR_DEPTH))

PrintVal(v, base) ==
    CASE v = NONE  -> Word("none")
      [] v = UNDEF -> Word("undef")
      [] v = ZERO  -> Word("zeroinit")
      [] IsInt(v)  -> Tk("num", ConstVal(v))
      [] OTHER     -> Tk("%", v - base)

(* A label: the block's name, or bbN when it has none. *)
LabelOf(M, F, b) == IF M.bnames[b][1] # "" THEN M.bnames[b] ELSE << "bb", b - F.first >>

Binary == {"add", "sub", "mul", "sdiv", "udiv", "srem", "urem", "fadd", "fsub", "fmul", "fdiv", "frem",
           "and", "or", "xor", "shl", "lshr", "ashr"}
Casts == {"trunc", "zext", "sext", "fptrunc", "fpext", "fptosi", "fptoui", "sitofp", "uitofp", "bitcast"}
GridOps == {"thread_id", "block_id", "block_dim", "grid_dim"}
ORDERS == << "relaxed", "acquire", "release", "acq_rel", "seq_cst" >>

(* What print_inst writes after the opcode. *)
ValAt(I, base, k) == PrintVal(I.ops[k], base)
TypeAt(M, I, k) == Type(M, ValType(M, I.ops[k]))
Listed(I, base, k, sep) == For(k, Len(I.ops) + 1, <<>>, LAMBDA s, j : s \o (IF j > k THEN sep ELSE <<>>) \o ValAt(I, base, j))
Vals(I, base) == Listed(I, base, 1, Comma)
Volatile(I) == IF I.sub = 1 THEN Word("volatile") ELSE <<>>
PrintScalar(M, base, I) ==
    CASE I.op \in Binary \cup {"umulhi"} -> Type(M, I.ty) \o Vals(I, base)
      [] I.op \in BitOps                 -> TypeAt(M, I, 1) \o Vals(I, base)
      [] I.op \in {"icmp", "fcmp"}       -> Word(I.sub) \o TypeAt(M, I, 1) \o Vals(I, base)
      [] I.op \in Casts \cup {"ptrtoint", "inttoptr"} -> TypeAt(M, I, 1) \o Vals(I, base) \o Word("to") \o Type(M, I.ty)
      [] I.op \in {"alloca", "shared_alloc"} ->
           Type(M, I.ty) \o (IF I.sub > 0 THEN Comma \o Word("align") \o Tk("num", 2^I.sub) ELSE <<>>)
      [] I.op = "load"                   -> Volatile(I) \o Type(M, I.ty) \o Comma \o Vals(I, base)
      [] I.op = "store"                  -> Volatile(I) \o TypeAt(M, I, 1) \o Vals(I, base)
      [] OTHER                           -> Type(M, I.ty) \o Comma \o Vals(I, base)
Scalars == Binary \cup BitOps \cup Casts
    \cup {"umulhi", "icmp", "fcmp", "ptrtoint", "inttoptr", "alloca", "shared_alloc", "load", "store", "gep"}

Arms(n, k, X(_), Y(_)) ==
    For(k, n \div 2, <<>>, LAMBDA s, j : s \o (IF j > 0 THEN Comma ELSE <<>>) \o Word("[")
            \o X(2 * j + 1) \o Word(":") \o Y(2 * j + 2) \o Word("]"))
PrintFlow(M, F, base, I) ==
    LET V(k) == ValAt(I, base, k)
        L(k) == Tk("label", LabelOf(M, F, I.ops[k]))
    IN  CASE I.op = "br"      -> L(1)
          [] I.op = "br_cond" -> V(1) \o Comma \o L(2) \o Comma \o L(3)
                                 \o (IF Len(I.ops) > 3 THEN Word("merge") \o L(4) ELSE <<>>)
          [] I.op = "switch"  -> V(1) \o Comma \o Word("default") \o L(2) \o Arms(Len(I.ops), 1, V, L)
          [] I.op = "phi"     -> Type(M, I.ty) \o Arms(Len(I.ops), 0, L, V)
          [] OTHER            -> IF I.ops = <<>> THEN Tk("type", << "void" >>) ELSE TypeAt(M, I, 1) \o V(1)

PrintDevice(M, base, I) ==
    LET Order == Word(ORDERS[I.sub + 1]) IN
    CASE I.op \in AtomicRmw \cup {"atomic_cas"} -> Order \o Type(M, I.ty) \o Vals(I, base)
      [] I.op = "atomic_load"  -> Order \o Type(M, I.ty) \o Comma \o Vals(I, base)
      [] I.op = "atomic_store" -> Order \o TypeAt(M, I, 1) \o Vals(I, base)
      [] I.op \in WarpOps      -> Type(M, I.ty) \o Vals(I, base)
      [] OTHER                 -> Type(M, I.ty) \o Tk("@", M.fnames[I.ops[1] + 1]) \o Word("(")
                                  \o Listed(I, base, 2, Comma) \o Word(")")

PrintOps(M, F, base, I) ==
    CASE I.op \in Scalars -> PrintScalar(M, base, I)
      [] I.op \in {"br", "br_cond", "switch", "phi", "ret"} -> PrintFlow(M, F, base, I)
      [] I.op \in AtomicRmw \cup WarpOps \cup {"atomic_cas", "atomic_load", "atomic_store", "call"} -> PrintDevice(M, base, I)
      [] I.op = "select"  -> Type(M, I.ty) \o Vals(I, base)
      [] OTHER            -> Listed(I, base, 1, <<>>)

PrintInst(M, F, base, ix) ==
    LET I == M.insts[ix] IN
    [dest |-> IF M.types[I.ty].kind = "void" THEN -1 ELSE ix - base, op |-> I.op,
     dim |-> IF I.op \in GridOps /\ I.sub \in 0 .. 2 THEN I.sub ELSE -1,
     toks |-> PrintOps(M, F, base, I), line |-> M.lines[ix]]

(* A label among the lines. *)
LabelLine(l) == [dest |-> -1, op |-> ":", dim |-> -1, toks |-> Tk("label", l), line |-> 0]

(* The parameters come from the entry's param instructions; one that is gone
   leaves its place empty.  A function without blocks has no body. *)
PrintFunc(M, F, name) ==
    LET base == M.blocks[F.first].first
        Param(p) == LET at == {ix \in InstsOf(M, F.first) : M.insts[ix].op = "param" /\ M.insts[ix].sub = p}
                        ix == CHOOSE i \in at : \A j \in at : i <= j
                    IN  IF at = {} THEN <<>> ELSE Type(M, M.insts[ix].ty) \o Tk("%", ix - base)
        Block(s, b) ==
            For(M.blocks[b].first, M.blocks[b].first + M.blocks[b].num, Append(s, LabelLine(LabelOf(M, F, b))),
                LAMBDA t, ix : IF M.insts[ix].op = "param" THEN t ELSE Append(t, PrintInst(M, F, base, ix)))
    IN  [name |-> name, kernel |-> ~F.dev, params |-> [p \in 1 .. F.np |-> Param(p - 1)],
         body |-> For(F.first, F.first + F.num, <<>>, Block)]

(* bir_print_module. *)
BirPrint(M) == [f \in DOMAIN M.funcs |-> PrintFunc(M, M.funcs[f], M.fnames[f])]

-----------------------------------------------------------------------------
(***************************************************************************)
(* The reader.  P is the module under construction with the reader's own   *)
(* state: vmap, the value of every number seen (a number skipped reads as  *)
(* 0, and nothing is forgotten between functions); line, the line put on   *)
(* what is emitted; labels, the open function's; cur, the open block;      *)
(* ftys, the function types interned so far, and fty, that of each         *)
(* function.                                                               *)
(***************************************************************************)
(* parse_type: what can be read, and the type it is interned as. *)
RECURSIVE Readable(_)
Readable(s) ==
    \/ s[1] \in {"void", "i", "f"}
    \/ s[1] = "ptr" /\ Len(s) = 3 /\ s[2] \in {"private", "shared", "global", "constant", "generic"} /\ Readable(s[3])
    \/ s[1] = "[" /\ Readable(s[3])
Interned(M, s) == CHOOSE t \in DOMAIN M.types : TypeStr(M, t, TYPE_STR_DEPTH) = s

(* The forms parse_inst takes after an opcode: T a type, V an operand of the
   type just read, B, X and F operands of type i1, i32 and f32, S one of the
   first operand's type, L a label, the rest words. *)
BB_MAX_ARGS == 5
FN1 == {"sqrt", "rsq", "rcp", "exp2", "log2", "sin", "cos", "fabs", "floor", "ceil", "ftrunc", "rndne"}
FN2 == {"fmax", "fmin"}
ATOMS == {"atomic_add", "atomic_sub", "atomic_and", "atomic_or", "atomic_xor", "atomic_xchg"}
ArgForm(n) == For(0, n, <<>>, LAMBDA s, k : s \o (IF k > 0 THEN << ",", "V" >> ELSE << "V" >>))
MathForms(op) ==
    CASE op \in Binary                -> {<< "T", "V", ",", "V" >>}
      [] op \in FN1                   -> {<< "F" >>}
      [] op \in FN2                   -> {<< "F", "S" >>, << "F", ",", "S" >>}
      [] op \in Casts                 -> {<< "T", "V", "to", "T" >>}
      [] op = "select"                -> {<< "T", "B", ",", "V", ",", "V" >>}
      [] OTHER                        -> {<< "pred", "T", "V", ",", "V" >>}
FlowForms(op) ==
    CASE op \in ATOMS                 -> {<< "order", "T", "V", ",", "V" >>}
      [] op \in {"alloca", "shared_alloc"} -> {<< "T" >>}
      [] op = "gep"                   -> {<< "T", ",", "V", ",", "X" >>}
      [] op = "load"                  -> {<< "T", ",", "V" >>}
      [] op = "store"                 -> {<< "T", "V", ",", "V" >>}
      [] op = "br"                    -> {<< "L" >>}
      [] op = "br_cond"               -> {<< "B", ",", "L", ",", "L" >>, << "B", ",", "L", ",", "L", "merge", "L" >>}
      [] op = "ret"                   -> {<< "void" >>, << "T", "V" >>}
      [] op = "call"                  -> {<< "T", "@", "(" >> \o ArgForm(n) \o << ")" >> : n \in 0 .. BB_MAX_ARGS}
      [] op \in GridOps \cup {"barrier"} -> {<<>>}
      [] OTHER                        -> {}
Forms(op) == IF op \in Binary \cup FN1 \cup FN2 \cup Casts \cup {"select", "icmp", "fcmp"} THEN MathForms(op) ELSE FlowForms(op)
PREDS == {"eq", "ne", "slt", "sle", "sgt", "sge", "ult", "ule", "ugt", "uge", "oeq", "one", "olt", "ole", "ogt", "oge"}
Operands == {"V", "B", "X", "F", "S"}

(* One token where the form wants this item; a number, a label and a function
   must be known. *)
Fits(P, item, tok) ==
    CASE item = "T"       -> tok.k = "type" /\ Readable(tok.v)
      [] item = "void"    -> tok.k = "type" /\ tok.v = << "void" >>
      [] item \in Operands -> tok.k = "num" \/ (tok.k = "%" /\ tok.v \in DOMAIN P.vmap)
      [] item = "L"       -> tok.k = "label" /\ \E j \in DOMAIN P.labels : P.labels[j] = tok.v
      [] item = "@"       -> tok.k = "@" /\ \E f \in DOMAIN P.fnames : P.fnames[f] = tok.v
      [] item = "pred"    -> tok.k = "word" /\ tok.v \in PREDS
      [] item = "order"   -> tok.k = "word" /\ \E j \in DOMAIN ORDERS : ORDERS[j] = tok.v
      [] OTHER            -> tok.k = "word" /\ tok.v = item
FirstAt(s, x) == CHOOSE j \in DOMAIN s : s[j] = x /\ \A i \in 1 .. j - 1 : s[i] # x

(* read_operand: the type decides what a number is. *)
ConstOf(c, t) == TypedConst(c, IF \E j \in DOMAIN IntTypes : IntTypes[j] = t THEN t ELSE "i64")
ReadOperand(P, tok, t) == IF tok.k = "%" THEN P.vmap[tok.v] ELSE ConstOf(tok.v, t)

(* The items of a form from left to right: the type last read and the operands
   so far. *)
ReadItem(P, item, tok, a) ==
    LET Operand(t) == [a EXCEPT !.ops = Append(@, ReadOperand(P, tok, t))] IN
    CASE item = "T"       -> [a EXCEPT !.ty = Interned(P, tok.v)]
      [] item = "V"       -> Operand(a.ty)
      [] item = "B"       -> Operand("i1")
      [] item = "X"       -> Operand("i32")
      [] item = "F"       -> Operand("f32")
      [] item = "S"       -> Operand(ValType(P, a.ops[1]))
      [] item = "L"       -> [a EXCEPT !.ops = Append(@, P.fblk + FirstAt(P.labels, tok.v) - 1)]
      [] item = "@"       -> [a EXCEPT !.ops = Append(@, FirstAt(P.fnames, tok.v) - 1)]
      [] item = "pred"    -> [a EXCEPT !.sub = tok.v]
      [] item = "order"   -> [a EXCEPT !.sub = FirstAt(ORDERS, tok.v) - 1]
      [] OTHER            -> a

(* emit of the builder. *)
Emit(P, I) == [P EXCEPT !.insts = Append0(@, I), !.lines = Append0(@, P.line)]
Numbered(P, n, v) == [P EXCEPT !.vmap = [i \in DOMAIN @ \cup 0 .. n |-> IF i = n THEN v ELSE IF i \in DOMAIN @ THEN @[i] ELSE 0]]
Fail(P) == [P EXCEPT !.err = TRUE]

(* bb_retv: a function that returns a value has that return type from here on,
   and so has every earlier one that shares its type. *)
Returns(P, t) == IF P.ftys[P.fty[Len(P.fty)]].ret = "void"
                 THEN [P EXCEPT !.ftys[P.fty[Len(P.fty)]].ret = t] ELSE P

Built(l, a, P) ==
    LET ty == CASE l.op \in {"icmp", "fcmp"} -> "i1"
                [] l.op \in GridOps          -> "i32"
                [] l.op \in {"store", "br", "br_cond", "ret", "barrier"} -> "void"
                [] l.op \in FN1 \cup FN2     -> ValType(P, a.ops[1])
                [] OTHER                     -> a.ty
        sub == IF l.op \in GridOps /\ l.dim > 0 THEN l.dim ELSE a.sub
        ops == IF l.op = "br_cond" /\ Len(a.ops) = 3 THEN Append(a.ops, a.ops[3]) ELSE a.ops
    IN  [op |-> l.op, ops |-> ops, ty |-> ty, sub |-> sub]
Place(P, l, a) ==
    LET E == Emit(IF l.op = "ret" /\ a.ops # <<>> THEN Returns(P, a.ty) ELSE P, Built(l, a, P))
    IN  IF l.dest >= 0 THEN Numbered(E, l.dest, NumInsts(P)) ELSE E
ReadForm(P, l, form) ==
    Place(P, l, For(1, Len(form) + 1, [ty |-> "void", ops |-> <<>>, sub |-> 0],
                    LAMBDA a, k : ReadItem(P, form[k], l.toks[k], a)))
Lined(P, l) == IF l.line > 0 THEN [P EXCEPT !.line = l.line] ELSE P
(* parse_inst; what follows a complete instruction on its line starts none. *)
ParseInst(P, l) ==
    LET fit == {f \in Forms(l.op) : Len(f) = Len(l.toks) /\ \A k \in DOMAIN f : Fits(P, f[k], l.toks[k])}
    IN  IF fit = {} THEN Fail(P) ELSE ReadForm(Lined(P, l), l, CHOOSE f \in fit : TRUE)

Open(P, b) == [P EXCEPT !.cur = b, !.blocks[b].first = NumInsts(P)]
Close(P) == [P EXCEPT !.blocks[P.cur].num = NumInsts(P) - P.blocks[P.cur].first]

(* A label opens its block, except the first, whose block is open already. *)
ReadLine(P, l) ==
    CASE P.err       -> P
      [] l.op # ":"  -> [ParseInst(P, l) EXCEPT !.first = FALSE]
      [] P.first     -> [P EXCEPT !.first = FALSE]
      [] OTHER       -> Open(Close(P), P.fblk + FirstAt(P.labels, l.toks[1].v) - 1)

(* bb_func: a function type that returns void and has the same parameters is
   shared. *)
FuncType(P, ptys) ==
    LET same == {j \in DOMAIN P.ftys : P.ftys[j] = [ret |-> "void", params |-> ptys]}
    IN  IF same = {} THEN [P EXCEPT !.ftys = Append(@, [ret |-> "void", params |-> ptys]), !.fty = Append(@, Len(P.ftys) + 1)]
        ELSE [P EXCEPT !.fty = Append(@, CHOOSE j \in same : TRUE)]

(* prescan_blocks reserves a block for every label. *)
LabelsIn(body) == ForEach(body, <<>>, LAMBDA s, l : IF l.op = ":" THEN Append(s, l.toks[1].v) ELSE s)
Reserve(P, ls) ==
    LET n == NumBlocks(P) IN
    [P EXCEPT !.labels = ls, !.fblk = n, !.first = TRUE,
              !.blocks = [b \in 0 .. n + Len(ls) - 1 |-> IF b < n THEN @[b] ELSE [first |-> 0, num |-> 0]],
              !.bnames = [b \in 0 .. n + Len(ls) - 1 |-> IF b < n THEN @[b] ELSE ls[b - n + 1]]]

(* The parameters go into the first block before anything else. *)
ReadParams(P, fn, ptys) ==
    For(1, Len(ptys) + 1, P, LAMBDA S, p :
        Numbered(Emit(S, [op |-> "param", ops |-> <<>>, ty |-> ptys[p], sub |-> p - 1]),
                 fn.params[p][2].v, NumInsts(S)))
FuncEnd(P, fn, ptys) ==
    [P EXCEPT !.funcs = Append(@, [first |-> P.fblk, num |-> Len(P.labels), total |-> NumInsts(P) - P.finst,
                                   dev |-> ~fn.kernel, np |-> Len(ptys), void |-> TRUE])]
ReadBody(P, fn, ptys) ==
    FuncEnd(Close(ForEach(fn.body, ReadParams(Open(P, P.fblk), fn, ptys), ReadLine)), fn, ptys)
(* parse_func. *)
ParseFunc(P, fn) ==
    LET ls == LabelsIn(fn.body)
        ptys == [p \in DOMAIN fn.params |-> Interned(P, fn.params[p][1].v)]
    IN  IF P.err \/ ls = <<>> \/ \E p \in DOMAIN fn.params : fn.params[p] = <<>> \/ ~Readable(fn.params[p][1].v)
        THEN Fail(P)
        ELSE ReadBody(Reserve([FuncType(P, ptys) EXCEPT !.fnames = Append(@, fn.name), !.finst = NumInsts(P)], ls),
                      fn, ptys)

(* bir_parse, and the verifier run_bir_backends puts it through. *)
Blank(types) ==
    Empty @@ [types |-> types, bnames |-> [b \in {} |-> 0], fnames |-> <<>>, vmap |-> [i \in {} |-> 0], line |-> 0,
              labels |-> <<>>, fblk |-> 0, finst |-> 0, cur |-> 0, first |-> TRUE, ftys |-> <<>>, fty |-> <<>>,
              err |-> FALSE]
Finished(P) ==
    [insts |-> P.insts, lines |-> P.lines, blocks |-> P.blocks, bnames |-> P.bnames, fnames |-> P.fnames,
     types |-> P.types,
     funcs |-> [f \in DOMAIN P.funcs |-> [P.funcs[f] EXCEPT !.void = P.ftys[P.fty[f]].ret = "void"]]]
Verified(P) == IF P.err THEN [ok |-> FALSE] ELSE [ok |-> Vchk(Finished(P)), mod |-> Finished(P)]
BirIn(text, types) == Verified(ForEach(text, Blank(types), ParseFunc))

(* The text of what was read: a branch without a merge block has been given
   its false arm. *)
Merged(l) == IF l.op = "br_cond" /\ Len(l.toks) = 5 THEN [l EXCEPT !.toks = @ \o Word("merge") \o << @[5] >>] ELSE l
Filled(text) == [f \in DOMAIN text |-> [text[f] EXCEPT !.body = [k \in DOMAIN @ |-> Merged(@[k])]]]
=============================================================================
