----------------------------- MODULE MetalEmit ------------------------------
(***************************************************************************)
(* The Metal back end: src/src/ir/bir_struct.c finds the ifs and the loops *)
(* a function's blocks were made of, src/src/metal/emit.c writes them down *)
(* as Metal C++, in which a branch is nested, a phi is an assignment and   *)
(* an operator knows the signs of its operands only by their types.  The   *)
(* program is kept as the tree of its statements; the type declarations,   *)
(* dynamic shared memory and the capacities of the pools are left out.     *)
(***************************************************************************)
EXTENDS KernelExec

M2R == INSTANCE BirMem2Reg WITH M2R_MAX_PROMOTE <- 0, M2R_MAX_PREDS <- 64, M2R_MAX_DF <- 0, M2R_MAX_CHANGES <- 0

NoBlock == -1
Node(k) == [k |-> k]

-----------------------------------------------------------------------------
(* The context of bir_structurize: blocks are numbered within the function. *)
Term(M, b) == M.insts[M.blocks[b].first + M.blocks[b].num - 1]
TermOk(M, F, b) ==
    /\ Term(M, b).op \in {"br", "br_cond", "ret", "unreachable"}
    /\ SuccSet(M, b) \subseteq BlocksOf(F)
Less(seq, n) == [k \in DOMAIN seq |-> seq[k] - n]
Context(M, F, preds, post) ==
    [M |-> M, base |-> F.first, nb |-> F.num, preds |-> preds, rpo |-> M2R!RpoNum(post),
     succs |-> [b \in 0 .. F.num - 1 |-> Less(Succs(M, F.first + b), F.first)],
     idom |-> M2R!DominatorsFrom(F.num, preds, post)]
Seen(S, b) == b \in DOMAIN S.rpo
SuccsOf(S, b) == {S.succs[b][k] : k \in DOMAIN S.succs[b]}

(* dominates, is_back_edge: up the chain of immediate dominators. *)
Dominates(S, a, b) ==
    While(b, S.nb + 4, LAMBDA x : x = a \/ x = 0 \/ S.idom[x] = M2R!M2R_UNDEF, LAMBDA x : S.idom[x]) = a
BackEdges(S) == {e \in {<< u, v >> : u \in DOMAIN S.rpo, v \in DOMAIN S.rpo} : e[2] \in SuccsOf(S, e[1]) /\ Dominates(S, e[2], e[1])}

(* analyse_regions: the targets of back edges, the blocks two forward edges reach. *)
Headers(S) == {e[2] : e \in S.back}
FwdEdges(S, v) ==
    {e \in (DOMAIN S.rpo) \X {1, 2} : e[2] \in DOMAIN S.succs[e[1]] /\ S.succs[e[1]][e[2]] = v /\ << e[1], v >> \notin S.back}
Merges(S) == {v \in 0 .. S.nb - 1 : Cardinality(FwdEdges(S, v)) >= 2}

PredsOf(S, b) == {S.preds[b][k] : k \in DOMAIN S.preds[b]}
NaturalLoop(S, h) ==
    LET latches == {p \in PredsOf(S, h) : << p, h >> \in S.back}
        grow(x) == x \cup UNION {PredsOf(S, b) : b \in x \ {h}}
    IN  While({h} \cup latches, S.nb, LAMBDA x : grow(x) = x, grow)
(* Where a loop is left to, and the last of those in the order: its follow. *)
Exits(S, h) ==
    LET in == NaturalLoop(S, h)
    IN  {s \in UNION {SuccsOf(S, b) : b \in in} \ in : Seen(S, s)}
Follow(S, exits) ==
    IF exits = {} THEN NoBlock ELSE CHOOSE s \in exits : \A t \in exits : S.rpo[t] <= S.rpo[s]
Reaches(S, a, b) ==
    LET grow(x) == x \cup UNION {SuccsOf(S, y) : y \in x}
    IN  b \in While({a}, S.nb, LAMBDA x : grow(x) = x, grow)
Reconverges(S, h) == \A s \in Exits(S, h) : Reaches(S, s, S.follow[h])

(* check_reducible. *)
Reducible(S) ==
    \A u \in DOMAIN S.rpo : \A v \in SuccsOf(S, u) : S.rpo[v] <= S.rpo[u] => Dominates(S, v, u)

-----------------------------------------------------------------------------
(* mk_edge_copies: what the phis of s owe to the edge from p. *)
EdgeCopies(S, p, s) ==
    IF p = NoBlock THEN <<>>
    ELSE LET phis == SelectSeq([k \in 1 .. S.M.blocks[S.base + s].num |-> S.M.blocks[S.base + s].first + k - 1],
                               LAMBDA ix : S.M.insts[ix].op = "phi")
             pairs(I) == {k \in 1 .. Len(I.ops) \div 2 : I.ops[2 * k - 1] = S.base + p}
         IN  ForEach(phis, <<>>, LAMBDA c, ix :
                 LET I == S.M.insts[ix] IN
                 IF pairs(I) = {} THEN c
                 ELSE Append(c, [k |-> "copy", d |-> ix, v |-> I.ops[2 * (CHOOSE k \in pairs(I) : \A j \in pairs(I) : k <= j)]]))

IsHeaderIn(loops, b) == \E d \in DOMAIN loops : loops[d].h = b
IsFollowIn(loops, b) == \E d \in DOMAIN loops : loops[d].f = b

(* An edge that ends a chain: back to a header, out to a follow, or on to stop. *)
Continues(S, p, t, loops) == IsHeaderIn(loops, t) /\ << p, t >> \in S.back
Leaves(S, p, t, stop, loops) == Continues(S, p, t, loops) \/ IsFollowIn(loops, t) \/ t = stop
Leave(S, p, t, loops) ==
    EdgeCopies(S, p, t) \o (CASE Continues(S, p, t, loops) -> << Node("continue") >>
                              [] IsFollowIn(loops, t)       -> << Node("break") >>
                              [] OTHER                      -> <<>>)

(* find_merge: the nearest merge the block dominates at once, before stop. *)
FindMerge(S, b, stop) ==
    LET at == {m \in S.merges : S.idom[m] = b /\ Seen(S, m) /\ S.rpo[m] > S.rpo[b]
                                 /\ (stop = NoBlock \/ S.rpo[m] < S.rpo[stop])}
    IN  IF at = {} THEN NoBlock ELSE CHOOSE m \in at : \A n \in at : S.rpo[m] <= S.rpo[n]

(* build_region and build_arm: the chain of blocks from cur up to stop. *)
RECURSIVE BuildRegion(_, _, _, _, _, _)
BuildRegion(S, cur, prev, stop, loops, left) ==
    LET t == Term(S.M, S.base + cur)
        merge == FindMerge(S, cur, stop)
        armStop == IF merge # NoBlock THEN merge ELSE stop
        arm(to) == IF Leaves(S, cur, to, armStop, loops) THEN Leave(S, cur, to, loops)
                   ELSE BuildRegion(S, to, NoBlock, armStop, loops, S.nb + 8)
    IN  IF cur = stop \/ cur = NoBlock THEN <<>>
        ELSE IF left = 0 THEN << Node("bail") >>
        ELSE IF prev # NoBlock /\ IsFollowIn(loops, cur) THEN << Node("break") >>
        ELSE IF cur \in S.headers /\ ~IsHeaderIn(loops, cur)
        THEN EdgeCopies(S, prev, cur)
             \o << [k |-> "loop", body |-> BuildRegion(S, cur, NoBlock, NoBlock,
                                              Append(loops, [h |-> cur, f |-> S.follow[cur]]), S.nb + 8)] >>
             \o BuildRegion(S, S.follow[cur], cur, stop, loops, left - 1)
        ELSE << [k |-> "block", b |-> S.base + cur] >>
             \o (CASE t.op = "ret" -> << [k |-> "ret", b |-> S.base + cur] >>
                   [] t.op = "unreachable" -> << Node("unreachable") >>
                   [] t.op = "br" ->
                        IF Leaves(S, cur, t.ops[1] - S.base, stop, loops)
                        THEN Leave(S, cur, t.ops[1] - S.base, loops)
                        ELSE BuildRegion(S, t.ops[1] - S.base, cur, stop, loops, left - 1)
                   [] OTHER ->
                        << [k |-> "if", c |-> t.ops[1], then |-> arm(t.ops[2] - S.base),
                            else |-> IF merge # NoBlock /\ t.ops[3] - S.base = merge THEN <<>>
                                     ELSE arm(t.ops[3] - S.base)] >>
                        \o BuildRegion(S, merge, cur, stop, loops, left - 1))

(* bir_structurize. *)
Structurable(S) == (\A h \in S.headers : Reconverges(S, h)) /\ Reducible(S)
Tree(S) == IF Structurable(S) THEN BuildRegion(S, 0, NoBlock, NoBlock, <<>>, S.nb + 8) ELSE << Node("bail") >>
WithBackEdges(S) == [back |-> BackEdges(S)] @@ S
AnalyseRegions(S) ==
    [headers |-> Headers(S), merges |-> Merges(S), follow |-> [h \in Headers(S) |-> Follow(S, Exits(S, h))]] @@ S
Structurize(M, F) ==
    IF \E b \in BlocksOf(F) : ~TermOk(M, F, b) THEN << Node("bail") >>
    ELSE Tree(AnalyseRegions(WithBackEdges(Context(M, F, M2R!Step2BuildPreds(M, F), M2R!PostOrder(M, F)))))

-----------------------------------------------------------------------------
(* mt_stmt: how the opcodes are spelled. *)
Operator == [add |-> "+", sub |-> "-", mul |-> "*", sdiv |-> "/", udiv |-> "/", srem |-> "%", urem |-> "%",
             and |-> "&", or |-> "|", xor |-> "^", shl |-> "<<", lshr |-> ">>", ashr |-> ">>",
             fadd |-> "+", fsub |-> "-", fmul |-> "*", fdiv |-> "/"]
CmpOp == [eq |-> "==", oeq |-> "==", ueq |-> "==", ne |-> "!=", one |-> "!=", une |-> "!=",
          slt |-> "<", ult |-> "<", olt |-> "<", sle |-> "<=", ule |-> "<=", ole |-> "<=",
          sgt |-> ">", ugt |-> ">", ogt |-> ">", sge |-> ">=", uge |-> ">=", oge |-> ">="]
Functions == BitOps \cup FloatUnary \cup {"umulhi", "fmax", "fmin", "frem"}
Casts == {"trunc", "zext", "sext", "fptrunc", "fpext", "fptosi", "fptoui", "sitofp", "uitofp", "ptrtoint", "inttoptr"}
Builtins == {"thread_id", "block_id", "block_dim", "grid_dim"}

(* mtarr: the pointer is to an array, and is to be taken for its first element. *)
MtArr(M, v) == v >= 0 /\ IsPtr(M, M.insts[v].ty) /\ M.types[M.types[M.insts[v].ty].in].kind = "array"

(* The right-hand side of the statement. *)
Expr(M, I) ==
    LET e(k, f) == [k |-> k, f |-> f, a |-> I.ops, ty |-> I.ty] IN
    CASE I.op \in DOMAIN Operator  -> e("operator", Operator[I.op])
      [] I.op \in {"icmp", "fcmp"} -> e("operator", CmpOp[I.sub])
      [] I.op \in Functions        -> e("function", I.op)
      [] I.op \in Casts            -> e("cast", "")
      [] I.op = "bitcast"          -> e("as_type", "")
      [] I.op = "gep"              -> IF IsFgep(M, I) THEN [e("field", "") EXCEPT !.a = << I.ops[1], Const(Fgep(M, I)) >>]
                                      ELSE IF MtArr(M, I.ops[1]) THEN e("index", "*") ELSE e("index", "")
      [] I.op = "load"             -> e("deref", "")
      [] I.op \in Builtins         -> e("builtin", I.op)
      [] OTHER                     -> e("select", "")
Silent == {"br", "br_cond", "ret", "unreachable", "param", "phi"}
Computes == DOMAIN Operator \cup Functions \cup Casts \cup Builtins
    \cup {"icmp", "fcmp", "bitcast", "gep", "load", "select", "alloca", "shared_alloc"}
Sayable == Silent \cup Computes \cup {"store", "call", "barrier", "barrier_group"}

Stmt(M, ix) ==
    LET I == M.insts[ix] IN
    CASE I.op \in Silent \cup {"barrier", "barrier_group"} -> <<>>
      [] I.op = "store" -> << [k |-> "store", a |-> I.ops[2], v |-> I.ops[1]] >>
      [] I.op = "call"  -> << [k |-> "call", d |-> ix, f |-> I.ops[1] + 1, a |-> Tail(I.ops)] >>
      [] I.op \in {"alloca", "shared_alloc"} ->
           << [k |-> "set", d |-> ix, e |-> [k |-> "address", f |-> ix, a |-> <<>>, ty |-> I.ty]] >>
      [] OTHER          -> << [k |-> "set", d |-> ix, e |-> Expr(M, I)] >>

(* mt_walk: the tree written down, and whether all of it can be. *)
BlockInsts(M, b) == [k \in 1 .. M.blocks[b].num |-> M.blocks[b].first + k - 1]
RECURSIVE MtWalk(_, _)
MtWalk(M, nodes) ==
    ForEach(nodes, <<>>, LAMBDA c, n : c \o
        CASE n.k = "block" -> ForEach(BlockInsts(M, n.b), <<>>, LAMBDA d, ix : d \o Stmt(M, ix))
          [] n.k = "if"    -> << [n EXCEPT !.then = MtWalk(M, @), !.else = MtWalk(M, @)] >>
          [] n.k = "loop"  -> << [n EXCEPT !.body = MtWalk(M, @)] >>
          [] n.k = "ret"   -> << [k |-> "ret", v |-> Term(M, n.b).ops] >>
          [] OTHER         -> << n >>)
RECURSIVE Walkable(_, _)
Walkable(M, nodes) ==
    \A i \in DOMAIN nodes :
        LET n == nodes[i] IN
        CASE n.k = "block" -> \A ix \in InstsOf(M, n.b) : M.insts[ix].op \in Sayable
          [] n.k = "if"    -> Walkable(M, n.then) /\ Walkable(M, n.else)
          [] n.k = "loop"  -> Walkable(M, n.body)
          [] OTHER         -> n.k # "bail"

(* mt_params: the types of the parameters, in the order of their instructions. *)
MtParams(M, F) ==
    LET ps == SelectSeq(BlockInsts(M, F.first), LAMBDA ix : M.insts[ix].op = "param")
    IN  [k \in DOMAIN ps |-> M.insts[ps[k]].ty]

(* mtstor: storage of its own for every alloca, at the head of the function. *)
MtStor(M, F) ==
    ForEach([k \in 1 .. F.num |-> F.first + k - 1], <<>>, LAMBDA c, b :
        c \o SelectSeq(BlockInsts(M, b), LAMBDA ix : M.insts[ix].op \in {"alloca", "shared_alloc"}))

MetalFunc(M, F, tree) ==
    [ok |-> Walkable(M, tree) /\ (F.dev => \A ix \in UNION {InstsOf(M, b) : b \in BlocksOf(F)} : M.insts[ix].op # "shared_alloc"), kern |-> ~F.dev,
     params |-> MtParams(M, F), stor |-> MtStor(M, F),
     body |-> IF Walkable(M, tree) THEN MtWalk(M, tree) ELSE <<>>]
MetalEmitMsl(M) == ForEach(M.funcs, <<>>, LAMBDA c, F : Append(c, MetalFunc(M, F, Structurize(M, F))))
MetalOk(fns) == \A f \in DOMAIN fns : fns[f].ok

-----------------------------------------------------------------------------
(***************************************************************************)
(* What the program means in Metal C++: narrow integers are promoted to    *)
(* int, an operator works at the wider of its operands, or a shift at its  *)
(* left one, every integer type is signed and bool is a test for zero.  A  *)
(* literal is an int if it fits.  A variable no statement has set is       *)
(* undefined.                                                              *)
(***************************************************************************)
Value(k, w, x) == [k |-> k, w |-> w, x |-> x]
OfType(M, t, x) == Value(M.types[t].kind, W(M, t), x)
Promoted(v) ==
    IF v.k # "int" \/ v.w >= W32 THEN v
    ELSE Value("int", W32, IF v.x < 0 \/ v.w = 1 THEN v.x ELSE Signed(v.x, v.w) % 2^W32)
As(M, t, v) ==
    LET to == M.types[t]
        w == W(M, t)
        n == Signed(v.x, v.w)
    IN  OfType(M, t, CASE v.x < 0 \/ to.kind = "struct" -> v.x
                       [] v.k = "int" /\ to.kind = "float" -> IntToFlt(IF v.w = 1 THEN v.x ELSE n)
                       [] v.k = "float" /\ to.kind = "int" -> FltToInt(v.x) % 2^w
                       [] v.k = "int" /\ w = 1            -> IF v.x = 0 THEN 0 ELSE 1
                       [] v.k = "int" /\ v.w = 1          -> v.x
                       [] v.k = "int"                     -> n % 2^w
                       [] OTHER                           -> v.x % 2^w)
Literal(c) ==
    IF -(2^(W32 - 1)) <= c /\ c < 2^(W32 - 1) THEN Value("int", W32, c % 2^W32) ELSE Value("int", W64, c % 2^W64)

(* What the function sees: v its variables, p its parameters, at the storage of
   its own. *)
Read(M, s, v) ==
    CASE v \in {NONE, ZERO, UNDEF} -> Literal(0)
      [] IsInt(v) -> IF ConstType(v) = "f32" THEN Value("float", W32, ConstVal(v) % 2^W32) ELSE Literal(ConstVal(v))
      [] M.insts[v].op = "param" -> OfType(M, M.insts[v].ty, s.p[M.insts[v].sub + 1])
      [] OTHER -> OfType(M, M.insts[v].ty, IF v \in DOMAIN s.v THEN s.v[v] ELSE Undef)

IntOps == ("+" :> "add") @@ ("-" :> "sub") @@ ("*" :> "mul") @@ ("/" :> "sdiv") @@ ("%" :> "srem")
    @@ ("&" :> "and") @@ ("|" :> "or") @@ ("^" :> "xor") @@ ("<<" :> "shl") @@ (">>" :> "ashr")
FltBin == ("+" :> "fadd") @@ ("-" :> "fsub") @@ ("*" :> "fmul") @@ ("/" :> "fdiv")
IntCmp == ("==" :> "eq") @@ ("!=" :> "ne") @@ ("<" :> "slt") @@ ("<=" :> "sle") @@ (">" :> "sgt") @@ (">=" :> "sge")
FltCmp == ("==" :> "oeq") @@ ("!=" :> "one") @@ ("<" :> "olt") @@ ("<=" :> "ole") @@ (">" :> "ogt") @@ (">=" :> "oge")
Binary(f, a, b) ==
    LET w == IF f \in {"<<", ">>"} \/ a.w >= b.w THEN a.w ELSE b.w
        at(v) == Signed(v.x, v.w) % 2^w
    IN  CASE a.x < 0 \/ b.x < 0 -> Value("int", w, Undef)
          [] f \in DOMAIN IntOps -> IF a.k = "float" THEN Value("float", W32, FltOf(FltBin[f], a.x, b.x))
                                    ELSE Value("int", w, Arith(IntOps[f], 0, at(a), at(b), w))
          [] OTHER -> Value("int", 1, IF a.k = "float" THEN FCompare(FltCmp[f], a.x, b.x)
                                      ELSE Arith("icmp", IntCmp[f], at(a), at(b), w))
Call(op, a, b) ==
    Value(a.k, a.w, CASE a.x < 0 \/ b.x < 0 -> Undef
                      [] op \in BitOps   -> BitCount(op, a.x, a.w)
                      [] op = "umulhi"   -> ((Signed(a.x, a.w) * Signed(b.x, b.w)) \div 2^a.w) % 2^a.w
                      [] OTHER           -> FltOf(op, a.x, b.x))
Moved(a, i, step) == Value("ptr", WPtr, IF a.x < 0 \/ i.x < 0 THEN Undef ELSE (a.x + Signed(i.x, i.w) * step) % 2^WPtr)

Eval(M, s, e) ==
    LET a == Read(M, s, e.a[1])
        b == Read(M, s, e.a[2])
        in == M.types[ValType(M, e.a[1])].in
    IN  CASE e.k = "operator" -> Binary(e.f, Promoted(a), Promoted(b))
          [] e.k = "function" -> Call(e.f, a, IF Len(e.a) = 1 THEN Literal(0) ELSE b)
          [] e.k = "cast"     -> As(M, e.ty, a)
          [] e.k = "as_type"  -> OfType(M, e.ty, a.x)
          [] e.k = "field"    -> Moved(a, b, 1)
          [] e.k = "index"    -> Moved(a, b, IF e.f = "*" THEN Bsz(M, M.types[in].in) ELSE Bsz(M, in))
          [] e.k = "deref"    -> OfType(M, in, Get(s.mem, a.x, Bsz(M, in)))
          [] e.k = "builtin"  -> Value("int", W32, IF s.kern THEN s.who[e.f] ELSE Undef)
          [] e.k = "address"  -> OfType(M, e.ty, s.at[e.f])
          [] OTHER            -> IF a.x < 0 THEN OfType(M, e.ty, Undef) ELSE IF a.x # 0 THEN b ELSE Read(M, s, e.a[3])

Assign(M, s, d, val) == [s EXCEPT !.v = (d :> As(M, M.insts[d].ty, val).x) @@ @]
StoreTo(M, s, a, val) ==
    LET in == M.types[ValType(M, a)].in
    IN  [s EXCEPT !.mem = Put(@, Read(M, s, a).x, Bsz(M, in), As(M, in, val).x)]
(* A function entered: its storage laid out above its caller's. *)
EnterFunc(M, P, args, s) ==
    LET laid == ForEach(P.stor, [at |-> <<>>, sp |-> s.sp], LAMBDA c, ix :
                    IF M.insts[ix].op = "shared_alloc" THEN [c EXCEPT !.at = (ix :> SharedBase + PtrBytes * ix) @@ @]
                    ELSE [at |-> (ix :> c.sp) @@ c.at, sp |-> BszUp(c.sp + Bsz(M, M.types[M.insts[ix].ty].in), PtrBytes)])
    IN  [s EXCEPT !.v = <<>>, !.p = args, !.at = laid.at, !.sp = laid.sp, !.kern = P.kern, !.sig = "", !.val = Undef]

(* The statements one after the other; sig says why the rest are passed over. *)
RECURSIVE Does(_, _, _, _)
Does(M, fns, stmts, from) ==
    ForEach(stmts, from, LAMBDA s, n :
        CASE s.sig # ""     -> s
          [] n.k = "set"    -> Assign(M, s, n.d, Eval(M, s, n.e))
          [] n.k = "copy"   -> Assign(M, s, n.d, Read(M, s, n.v))
          [] n.k = "store"  -> StoreTo(M, s, n.a, Read(M, s, n.v))
          [] n.k = "if"     -> LET c == Read(M, s, n.c).x IN
                               IF c < 0 THEN [s EXCEPT !.sig = "undef"]
                               ELSE Does(M, fns, IF c # 0 THEN n.then ELSE n.else, s)
          [] n.k = "loop"   -> LET out == While(s, Fuel, LAMBDA x : x.sig \notin {"", "continue"},
                                                LAMBDA x : Does(M, fns, n.body, [x EXCEPT !.sig = ""]))
                               IN  [out EXCEPT !.sig = IF @ = "break" THEN "" ELSE IF @ \in {"", "continue"} THEN "fuel" ELSE @]
          [] n.k = "call"   -> LET P == fns[n.f]
                                   out == Does(M, fns, P.body,
                                       EnterFunc(M, P, [k \in DOMAIN n.a |-> As(M, P.params[k], Read(M, s, n.a[k])).x], s))
                                   back == [s EXCEPT !.mem = out.mem, !.sig = IF out.sig \in {"", "ret"} THEN "" ELSE out.sig]
                               IN  IF M.types[M.insts[n.d].ty].kind = "void" THEN back
                                   ELSE Assign(M, back, n.d, OfType(M, M.insts[n.d].ty, out.val))
          [] n.k = "ret"    -> [s EXCEPT !.sig = "ret", !.val = IF n.v = <<>> THEN Undef ELSE Read(M, s, n.v[1]).x]
          [] n.k \in {"break", "continue"} -> [s EXCEPT !.sig = n.k]
          [] OTHER          -> s)

(* A threadgroup of n threads, one after the other. *)
MetalRun(M, fns, args, mem, n) ==
    LET P == fns[Kernel(M)] IN
    For(0, n, [mem |-> mem, end |-> "ret"], LAMBDA r, t :
        IF r.end # "ret" THEN r
        ELSE LET s == Does(M, fns, P.body, EnterFunc(M, P, args,
                          [mem |-> r.mem, sp |-> LocalBase, v |-> <<>>, p |-> <<>>, at |-> <<>>, kern |-> TRUE,
                           who |-> Who(t, n), sig |-> "", val |-> Undef]))
             IN  [mem |-> s.mem, end |-> IF s.sig = "" THEN "ret" ELSE s.sig])
=============================================================================
