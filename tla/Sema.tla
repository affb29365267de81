------------------------------- MODULE Sema ---------------------------------
(***************************************************************************)
(* src/src/fe/sema.c: the walk that types every expression of a function.  *)
(* S holds the file's functions, records and enumerators and the symbols   *)
(* in scope, newest last; CheckExpr returns the node with its type filled  *)
(* in, and CheckStmt leaves the statement in S.node.  Unknown names are    *)
(* taken for ints, as in the code; lowering is what refuses them.          *)
(***************************************************************************)
EXTENDS CAst, Bir, Loops, FiniteSets
LOCAL INSTANCE Bitwise

IntRank(t) ==
    CASE t = << "bool" >>                       -> 1
      [] t \in {<< "char" >>, << "uchar" >>}    -> 2
      [] t \in {<< "int" >>, << "uint" >>}      -> 4
      [] t \in {<< "long" >>, << "ulong" >>}    -> 5
      [] OTHER                                  -> 0

IsInteger(t) == IntRank(t) > 0
IsUnsignedInt(t) == t \in {<< "bool" >>, << "uchar" >>, << "uint" >>, << "ulong" >>}
IsPtr(t) == t # <<>> /\ t[1] = "ptr"
IsArray(t) == t # <<>> /\ t[1] = "arr"
IsScalar(t) == IsInteger(t) \/ IsPtr(t)

IntegerPromote(t) == IF IsInteger(t) /\ IntRank(t) < 4 THEN << "int" >> ELSE t

(* Equal signedness: the larger rank; else the unsigned type unless the
   signed one ranks higher. *)
Unify(a, b) ==
    IF a = b THEN a
    ELSE IF IsUnsignedInt(a) = IsUnsignedInt(b)
    THEN IF IntRank(a) >= IntRank(b) THEN a ELSE b
    ELSE LET u == IF IsUnsignedInt(a) THEN a ELSE b
             s == IF IsUnsignedInt(a) THEN b ELSE a
         IN  IF IntRank(u) >= IntRank(s) THEN u ELSE s

UsualArithConv(a, b) == Unify(IntegerPromote(a), IntegerPromote(b))

Find(syms, name) == {i \in DOMAIN syms : syms[i].name = name}
Newest(at) == CHOOSE i \in at : \A j \in at : j <= i

SymType(syms, name) ==
    LET at == Find(syms, name) IN IF at = {} THEN << "int" >> ELSE syms[Newest(at)].ty

Typed(n, kids, t) == [n EXCEPT !.kids = kids, !.st = t]

BinaryType(op, l, r) ==
    CASE op = "=" \/ op \in AssignOps            -> l
      [] op \in Comparisons \cup {"&&", "||"}    -> << "bool" >>
      [] op = ","                                -> r
      [] IsPtr(l) /\ IsInteger(r) /\ op \in {"+", "-"} -> l
      [] IsInteger(l) /\ IsPtr(r) /\ op = "+"    -> r
      [] IsPtr(l) /\ IsPtr(r) /\ op = "-"        -> << "long" >>
      [] op \in {"<<", ">>"}                     -> IntegerPromote(l)
      [] OTHER                                   -> UsualArithConv(l, r)

PrefixType(op, t) ==
    CASE op \in {"+", "-", "~"} -> IntegerPromote(t)
      [] op = "!"               -> << "bool" >>
      [] op = "&"               -> << "ptr" >> \o t
      [] op = "*"               -> IF IsPtr(t) THEN Tail(t) ELSE << "int" >>
      [] OTHER                  -> t

SubscriptType(t) == IF IsPtr(t) \/ IsArray(t) THEN Tail(t) ELSE << "int" >>

TernaryType(t, e) == IF IsInteger(t) /\ IsInteger(e) THEN UsualArithConv(t, e) ELSE t

(* The record a member is looked up in, and its field of that name. *)
RecordOf(n, t) == IF n.op.arrow /\ IsPtr(t) THEN Tail(t) ELSE t
IsStruct(t) == t # <<>> /\ t[1] = "struct"
FieldsNamed(S, n, t) == IF IsStruct(t) THEN Find(S.structs[t[2]], n.op.name) ELSE {}
MemberType(S, n, t) ==
    LET at == FieldsNamed(S, n, t) IN IF at = {} THEN << "int" >> ELSE S.structs[t[2]][Newest(at)].ty

(* fpick: the newest function of the file that can take so many arguments; one
   without parameters takes any number. *)
Required(F) ==
    LET at == {i \in DOMAIN F.params : IsNone(F.params[i].dflt)} IN IF at = {} THEN 0 ELSE Newest(at)
SemaFpick(S, name, na) ==
    {i \in Find(S.funcs, name) : S.funcs[i].params = <<>>
                                 \/ na \in Required(S.funcs[i]) .. Len(S.funcs[i].params)}
CallType(S, name, na) ==
    LET at == IF SemaFpick(S, name, na) # {} THEN SemaFpick(S, name, na) ELSE Find(S.funcs, name)
    IN  IF at = {} THEN << "int" >> ELSE S.funcs[Newest(at)].ret

(* The type of a node whose children are typed. *)
NodeType(S, n, kids) ==
    CASE n.k = "int"       -> << "int" >>
      [] n.k = "bool"      -> << "bool" >>
      [] n.k = "char"      -> << "char" >>
      [] n.k = "ident"     -> SymType(S.syms, n.op)
      [] n.k = "paren"     -> kids[1].st
      [] n.k = "member"    -> MemberType(S, n, RecordOf(n, kids[1].st))
      [] n.k = "binary"    -> BinaryType(n.op, kids[1].st, kids[2].st)
      [] n.k = "prefix"    -> PrefixType(n.op, kids[1].st)
      [] n.k = "postfix"   -> kids[1].st
      [] n.k = "ternary"   -> TernaryType(kids[2].st, kids[3].st)
      [] n.k = "subscript" -> SubscriptType(kids[1].st)
      [] n.k = "cast"      -> n.op
      [] n.k = "call"      -> CallType(S, n.op, Len(kids))
      [] OTHER             -> << "void" >>

RECURSIVE CheckExpr(_, _)
CheckKids(S, n) == [i \in DOMAIN n.kids |-> CheckExpr(S, n.kids[i])]
Annotate(S, n, kids) == Typed(n, kids, NodeType(S, n, kids))
CheckExpr(S, n) == Annotate(S, n, CheckKids(S, n))

(***************************************************************************)
(* Statements.                                                             *)
(***************************************************************************)
Done(S, n) == [S EXCEPT !.node = n]
AddSym(S, name, t) == [S EXCEPT !.syms = Append(@, [name |-> name, ty |-> t])]

(* check_var_decl: the name is in scope of its own initialiser.  An array whose
   length is a literal or an enumerator is known as a pointer to its element;
   any other length is taken for the initialiser, and the array for a scalar. *)
LengthKnown(S, dim) == dim.k = "int" \/ (dim.k = "ident" /\ dim.op \in DOMAIN S.enums)
DeclType(S, n) ==
    IF ~IsNone(n.op.dim) /\ LengthKnown(S, n.op.dim) THEN << "ptr" >> \o n.op.ty ELSE n.op.ty
CheckDecl(S, n) ==
    IF IsNone(n.op.dim) \/ LengthKnown(S, n.op.dim)
    THEN Done(S, Typed(n, CheckKids(S, n), n.op.ty))
    ELSE Done(S, Typed([n EXCEPT !.op.dim = CheckExpr(S, @)], n.kids, n.op.ty))
CheckVarDecl(S, n) == CheckDecl(AddSym(S, n.op.name, DeclType(S, n)), n)

RECURSIVE CheckStmt(_, _)

(* The children from the i-th on, checked in order. *)
CheckFrom(S, n, i) ==
    For(i, Len(n.kids) + 1, [S EXCEPT !.node = n], LAMBDA s, j :
        LET r == CheckStmt(s, s.node.kids[j])
        IN  [r EXCEPT !.node = [s.node EXCEPT !.kids[j] = r.node]])

Scoped(S, r) == [r EXCEPT !.syms = S.syms]
CheckKid(S, i) == [S EXCEPT !.node.kids[i] = CheckExpr(S, @)]
Then(S, i) == CheckFrom(S, S.node, i)
ForHead(S, n) ==
    LET r == IF n.kids[1].k = "decl" THEN CheckVarDecl(S, n.kids[1])
             ELSE Done(S, CheckExpr(S, n.kids[1]))
    IN  [r EXCEPT !.node = [n EXCEPT !.kids[1] = r.node]]

DoBody(r, n) == Done(r, [n EXCEPT !.kids[1] = r.node])

(* The cases and declarations of a switch body are in the enclosing scope. *)
SwitchBody(S) ==
    LET b == CheckFrom(S, S.node.kids[2], 1) IN [b EXCEPT !.node = [S.node EXCEPT !.kids[2] = b.node]]

CheckStmt(S, n) ==
    CASE n.k \in {"expr", "return", "case"} -> Done(S, [n EXCEPT !.kids = CheckKids(S, n)])
      [] n.k = "decl"     -> CheckVarDecl(S, n)
      [] n.k = "block"    -> Scoped(S, CheckFrom(S, n, 1))
      [] n.k \in {"if", "while"} -> Then(CheckKid(Done(S, n), 1), 2)
      [] n.k = "dowhile"  -> CheckKid(DoBody(CheckStmt(S, n.kids[1]), n), 2)
      [] n.k = "for"      -> Scoped(S, Then(CheckKid(CheckKid(ForHead(S, n), 2), 3), 4))
      [] n.k = "switch"   -> SwitchBody(CheckKid(Done(S, n), 1))
      [] OTHER            -> Done(S, n)

(* What is reported in a checked tree: a condition that is no scalar, a switch
   on something that is no integer, a field the record lacks, an arrow on what
   is no pointer, a call no function of that name can take. *)
BadNode(S, n) ==
    CASE n.k \in {"if", "while"} -> ~IsScalar(n.kids[1].st)
      [] n.k \in {"dowhile", "for"} -> ~IsNone(n.kids[2]) /\ ~IsScalar(n.kids[2].st)
      [] n.k = "switch"  -> ~IsInteger(n.kids[1].st)
      [] n.k = "member"  -> \/ n.op.arrow /\ ~IsPtr(n.kids[1].st)
                            \/ LET t == RecordOf(n, n.kids[1].st)
                               IN  IsStruct(t) /\ FieldsNamed(S, n, t) = {}
      [] n.k = "call"    -> Find(S.funcs, n.op) # {} /\ SemaFpick(S, n.op, Len(n.kids)) = {}
      [] OTHER           -> FALSE
RECURSIVE Reported(_, _)
Reported(S, n) == BadNode(S, n) \/ \E i \in DOMAIN n.kids : Reported(S, n.kids[i])

(* sema_check: the file's declarations first, then each body with its
   parameters in scope. *)
FileScope(src) ==
    [funcs |-> src.funcs, structs |-> src.structs, enums |-> src.enums, node |-> None,
     syms |-> [i \in DOMAIN src.consts |-> [name |-> src.consts[i].op.name, ty |-> src.consts[i].op.ty]]
              \o [i \in DOMAIN src.globals |-> [name |-> src.globals[i].name, ty |-> src.globals[i].ty]]]
CheckFunc(S, F) ==
    CheckStmt([S EXCEPT !.syms = @ \o [i \in DOMAIN F.params |->
                                        [name |-> F.params[i].name, ty |-> F.params[i].ty]]], F.body)

-----------------------------------------------------------------------------

(***************************************************************************)
(* The constant-expression evaluator of src/src/ir/bir_lower.c, for the    *)
(* integers: what array sizes, const locals, if constexpr and a switch on  *)
(* a constant are folded with.  It works in 64-bit signed integers whatever*)
(* the types of the operands, looks names up among the constants only, and *)
(* gives up (ok is FALSE) on what it does not know; lowering then emits    *)
(* code instead.  The evaluator's stack sizes are left out.                *)
(*                                                                         *)
(* L is the lowering state: L.cexps the named constants, newest last,      *)
(* L.enums the enumerators, L.cfns the constexpr functions, L.cdep how     *)
(* many of their calls are open.                                           *)
(***************************************************************************)

CONSTANT MAX_CDEP   \* constexpr calls that may be open at once

CVal(v) == [ok |-> TRUE, v |-> v]
CBad == [ok |-> FALSE, v |-> 0]

TwosComplement(v, w) == LET u == v % 2^w IN IF u >= 2^(w - 1) THEN u - 2^w ELSE u
Int64(v) == TwosComplement(v, Bits["i64"])
CBool(b) == CVal(IF b THEN 1 ELSE 0)

(* resolve_basic: signedness is not part of a BIR type. *)
BasicType(word) ==
    CASE word = "bool" -> "i1" [] word \in {"char", "uchar"} -> "i8"
      [] word \in {"int", "uint"} -> "i32" [] word \in {"long", "ulong"} -> "i64"
      [] OTHER -> word
BirType(t) == [i \in DOMAIN t |-> BasicType(t[i])]

IntType(t) == Len(t) = 1 /\ t[1] \in DOMAIN Bits

(* ccvt: a bool normalises; a narrower type takes any value its signed or its
   unsigned reading holds, unchanged. *)
Ccvt(c, t) ==
    IF ~c.ok \/ ~IntType(t) THEN CBad
    ELSE LET w == Bits[t[1]] IN
         IF w = 1 THEN CBool(c.v # 0)
         ELSE IF w < Bits["i64"] /\ c.v \notin -(2^(w - 1)) .. (2^w - 1) THEN CBad
         ELSE c

Cun(op, c) ==
    CASE ~c.ok    -> CBad
      [] op = "+" -> c
      [] op = "-" -> CVal(Int64(0 - c.v))
      [] op = "~" -> CVal(Int64(-1 - c.v))
      [] op = "!" -> CBool(c.v = 0)
      [] OTHER    -> CBad

Quotient(a, b) == LET q == (IF a < 0 THEN -a ELSE a) \div (IF b < 0 THEN -b ELSE b)
                  IN  IF (a < 0) = (b < 0) THEN q ELSE -q
Word64(v) == v % 2^Bits["i64"]

(* Both operands of && and || are values by now. *)
Cbin(op, l, r) ==
    CASE ~l.ok \/ ~r.ok -> CBad
      [] op = "+"  -> CVal(Int64(l.v + r.v))
      [] op = "-"  -> CVal(Int64(l.v - r.v))
      [] op = "*"  -> CVal(Int64(l.v * r.v))
      [] op \in {"/", "%"} /\ (r.v = 0 \/ (r.v = -1 /\ Int64(0 - l.v) = l.v /\ l.v # 0)) -> CBad
      [] op = "/"  -> CVal(Quotient(l.v, r.v))
      [] op = "%"  -> CVal(l.v - r.v * Quotient(l.v, r.v))
      [] op = "&"  -> CVal(Int64(Word64(l.v) & Word64(r.v)))
      [] op = "|"  -> CVal(Int64(Word64(l.v) | Word64(r.v)))
      [] op = "^"  -> CVal(Int64(Word64(l.v) ^^ Word64(r.v)))
      [] op \in {"<<", ">>"} /\ r.v \notin 0 .. (Bits["i64"] - 1) -> CBad
      [] op = "<<" -> CVal(Int64(l.v * 2^r.v))
      [] op = ">>" -> CVal(l.v \div 2^r.v)
      [] op = "==" -> CBool(l.v = r.v)
      [] op = "!=" -> CBool(l.v # r.v)
      [] op = "<"  -> CBool(l.v < r.v)
      [] op = ">"  -> CBool(l.v > r.v)
      [] op = "<=" -> CBool(l.v <= r.v)
      [] op = ">=" -> CBool(l.v >= r.v)
      [] op = "&&" -> CBool(l.v # 0 /\ r.v # 0)
      [] op = "||" -> CBool(l.v # 0 \/ r.v # 0)
      [] OTHER     -> CBad

(* cadd, cfind, cname: a constant hides an enumerator; variables are not asked. *)
Cadd(L, name, c, t, bad) ==
    [L EXCEPT !.cexps = Append(@, [name |-> name, v |-> c.v, ty |-> t, bad |-> bad])]
Cname(L, name) ==
    LET at == Find(L.cexps, name) IN
    IF at # {} THEN IF L.cexps[Newest(at)].bad THEN CBad ELSE CVal(L.cexps[Newest(at)].v)
    ELSE IF name \in DOMAIN L.enums THEN CVal(L.enums[name]) ELSE CBad

NumRequired(F) == Cardinality({i \in DOMAIN F.params : IsNone(F.params[i].dflt)})

(* cffnd: the one constexpr function of this name that takes so many arguments. *)
Cffnd(L, name, na) ==
    LET at == {i \in DOMAIN L.cfns : /\ L.cfns[i].name = name
                                     /\ na \in NumRequired(L.cfns[i]) .. Len(L.cfns[i].params)}
    IN  IF Cardinality(at) = 1 THEN at ELSE {}

RECURSIVE Cfold(_, _)
RECURSIVE CfRun(_, _)

(* cfargv, cfbnd: every argument and default is folded in the caller's names,
   then bound; neither they nor the result are converted to the declared type. *)
Cfargv(L, F, args) ==
    [i \in DOMAIN F.params |-> Cfold(L, IF i \in DOMAIN args THEN args[i] ELSE F.params[i].dflt)]
Cfbnd(L, F, vals) ==
    For(1, Len(vals) + 1, L, LAMBDA s, i : Cadd(s, F.params[i].name, vals[i], << "i32" >>, FALSE))

(* A function body under evaluation: the state, and whether it still folds,
   has returned, or is leaving a switch. *)
Body(L) == [L |-> L, ok |-> TRUE, don |-> FALSE, brk |-> FALSE, v |-> 0]
CfStep(X, st) == IF ~X.ok \/ X.don \/ X.brk THEN X ELSE CfRun(X, st)
Returned(X) == IF X.ok /\ X.don THEN CVal(X.v) ELSE CBad

(* cfret: a body that is one return statement is its expression. *)
CfBody(L, F) ==
    IF Len(F.body.kids) = 1 /\ F.body.kids[1].k = "return"
    THEN IF F.body.kids[1].kids = <<>> THEN CBad ELSE Cfold(L, F.body.kids[1].kids[1])
    ELSE Returned(CfRun(Body(L), F.body))

Bound(L, F, vals) ==
    IF \E i \in DOMAIN vals : ~vals[i].ok THEN CBad
    ELSE CfBody([Cfbnd(L, F, vals) EXCEPT !.cdep = @ + 1], F)

Ccall(L, n) ==
    LET at == Cffnd(L, n.op, Len(n.kids)) IN
    IF L.cdep >= MAX_CDEP \/ at = {} THEN CBad
    ELSE LET F == L.cfns[CHOOSE i \in at : TRUE] IN Bound(L, F, Cfargv(L, F, n.kids))

(* cfevl and cleaf. *)
Cpick(L, n, c) ==
    IF ~c.ok THEN CBad ELSE Cfold(L, n.kids[IF c.v # 0 THEN 2 ELSE 3])
Cfold(L, n) ==
    CASE n.k \in {"int", "char"} -> CVal(n.op)
      [] n.k = "bool"    -> CBool(n.op # 0)
      [] n.k = "ident"   -> Cname(L, n.op)
      [] n.k = "paren"   -> Cfold(L, n.kids[1])
      [] n.k = "ternary" -> Cpick(L, n, Cfold(L, n.kids[1]))
      [] n.k = "cast"    -> Ccvt(Cfold(L, n.kids[1]), BirType(n.op))
      [] n.k = "prefix"  -> Cun(n.op, Cfold(L, n.kids[1]))
      [] n.k = "binary"  -> Cbin(n.op, Cfold(L, n.kids[1]), Cfold(L, n.kids[2]))
      [] n.k = "call"    -> Ccall(L, n)
      [] OTHER           -> CBad

(* ccoll, strict: a declaration that does not fold leaves its name unusable. *)
Declared(L, n, c) == Cadd(L, n.op.name, c, BirType(n.op.ty), ~c.ok)
Ccoll(L, n) == Declared(L, n, Ccvt(Cfold(L, n.kids[1]), BirType(n.op.ty)))

(* cfblk: the constants of the block end with it. *)
CfBlk(X, st) == [ForEach(st.kids, X, CfStep) EXCEPT !.L = X.L]

(* The first case label of this value, else the first default, else 0; -1 when
   a label before it does not fold.  cfsw and tswa choose alike. *)
SwitchLabel(L, body, v) ==
    LET cases == {i \in DOMAIN body : body[i].k = "case"}
        hits == {i \in cases : LET c == Cfold(L, body[i].kids[1]) IN ~c.ok \/ c.v = v}
        dfls == {i \in DOMAIN body : body[i].k = "default"}
        first == IF hits = {} THEN 0 ELSE CHOOSE i \in hits : \A j \in hits : i <= j
    IN  IF hits # {} THEN IF Cfold(L, body[first].kids[1]).ok THEN first ELSE -1
        ELSE IF dfls # {} THEN CHOOSE i \in dfls : \A j \in dfls : i <= j ELSE 0

CfFrom(X, body, at) ==
    [For(at, IF at < 1 THEN at ELSE Len(body) + 1, X, LAMBDA Y, i :
            IF body[i].k \in {"case", "default"} THEN Y ELSE CfStep(Y, body[i]))
        EXCEPT !.brk = FALSE, !.ok = @ /\ at >= 0]
CfSw(X, st, c) ==
    IF ~c.ok THEN [X EXCEPT !.ok = FALSE]
    ELSE CfFrom(X, st.kids[2].kids, SwitchLabel(X.L, st.kids[2].kids, c.v))

CfArm(X, st, c) ==
    IF ~c.ok THEN [X EXCEPT !.ok = FALSE]
    ELSE IF c.v # 0 THEN CfRun(X, st.kids[2])
    ELSE IF HasKid(st, 3) THEN CfRun(X, st.kids[3]) ELSE X

CfReturn(X, c) == [X EXCEPT !.don = TRUE, !.ok = c.ok, !.v = c.v]

CfRun(X, st) ==
    CASE st.k = "return" -> CfReturn(X, IF st.kids = <<>> THEN CVal(0) ELSE Cfold(X.L, st.kids[1]))
      [] st.k = "block"  -> CfBlk(X, st)
      [] st.k = "break"  -> [X EXCEPT !.brk = TRUE]
      [] st.k = "switch" -> CfSw(X, st, Cfold(X.L, st.kids[1]))
      [] st.k = "if"     -> CfArm(X, st, Cfold(X.L, st.kids[1]))
      [] st.k = "decl" /\ IsConstDecl(st) -> [X EXCEPT !.L = Ccoll(@, st)]
      [] OTHER           -> [X EXCEPT !.ok = FALSE]
=============================================================================
