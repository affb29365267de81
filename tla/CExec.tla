------------------------------- MODULE CExec --------------------------------
(***************************************************************************)
(* What a kernel of the C subset means, by the language and not by the     *)
(* compiler: the reference the lowered module is compared against.  It     *)
(* types values as it goes and shares nothing with sema or with lowering.  *)
(*                                                                         *)
(* C is a running program: mem and top the memory, env the names in scope  *)
(* ([name, at, ty], newest last), out the stores to globals, v and t the   *)
(* value and type last computed (a record is the tuple of its members),    *)
(* sig how control is leaving ("" when it is not), lab the label sought,   *)
(* fuel the loop turns and calls left.                                     *)
(***************************************************************************)
EXTENDS CAst, Loops, FiniteSets, TLC
LOCAL INSTANCE Bitwise

CONSTANTS Bits, Fuel

GlobalAt(g) == -100 - 100 * g
IsGlobalAt(a) == a <= -50

(***************************************************************************)
(* Types and values.                                                       *)
(***************************************************************************)
Signeds == << "char", "int", "long" >>
Unsigneds == << "uchar", "uint", "ulong" >>
Words == << "i8", "i32", "i64" >>
IsIn(kinds, t) == \E k \in DOMAIN kinds : t = << kinds[k] >>
SizeOf(t) == IF t = << "bool" >> THEN 1
             ELSE IF IsIn(Signeds, t) THEN Bits[Words[CHOOSE k \in 1 .. 3 : Signeds[k] = t[1]]]
             ELSE Bits[Words[CHOOSE k \in 1 .. 3 : Unsigneds[k] = t[1]]]
IsNumber(t) == t = << "bool" >> \/ IsIn(Signeds, t) \/ IsIn(Unsigneds, t)
IsNegatable(t) == IsIn(Signeds, t)
PointsTo(t) == Tail(t)

Fit(v, t) ==
    IF ~IsNumber(t) THEN v
    ELSE IF t = << "bool" >> THEN IF v # 0 THEN 1 ELSE 0
    ELSE LET u == v % 2^SizeOf(t)
         IN  IF IsNegatable(t) /\ u >= 2^(SizeOf(t) - 1) THEN u - 2^SizeOf(t) ELSE u

Promoted(t) == IF IsNumber(t) /\ SizeOf(t) < Bits["i32"] THEN << "int" >> ELSE t
Common(a, b) ==
    LET x == Promoted(a)
        y == Promoted(b)
    IN  IF x = y THEN x
        ELSE IF SizeOf(x) # SizeOf(y) THEN IF SizeOf(x) > SizeOf(y) THEN x ELSE y
        ELSE IF IsNegatable(x) THEN y ELSE x

Div(a, b) == LET q == (IF a < 0 THEN -a ELSE a) \div (IF b < 0 THEN -b ELSE b)
             IN  IF (a < 0) = (b < 0) THEN q ELSE -q
Compared(op, a, b) ==
    CASE op = "==" -> a = b [] op = "!=" -> a # b [] op = "<" -> a < b
      [] op = ">" -> a > b [] op = "<=" -> a <= b [] op = ">=" -> a >= b
Calculated(op, a, b, w) ==
    CASE op = "+" -> a + b [] op = "-" -> a - b [] op = "*" -> a * b
      [] op = "/" -> Div(a, b) [] op = "%" -> a - b * Div(a, b)
      [] op = "&" -> (a % 2^w) & (b % 2^w)
      [] op = "|" -> (a % 2^w) | (b % 2^w)
      [] op = "^" -> (a % 2^w) ^^ (b % 2^w)
      [] op = "<<" -> a * 2^b
      [] op = ">>" -> a \div 2^b

Undefined(op, a, b, t) ==
    \/ op \in {"/", "%"} /\ (b = 0 \/ (b = -1 /\ a = -(2^(SizeOf(t) - 1))))
    \/ op \in {"<<", ">>"} /\ b \notin 0 .. SizeOf(t) - 1

(***************************************************************************)
(* Memory.                                                                 *)
(***************************************************************************)
Is(C, v, t) == [C EXCEPT !.v = v, !.t = t]
Signal(C, s) == [C EXCEPT !.sig = s]
Running(C) == C.sig = ""

Held(C, a) == a \in DOMAIN C.mem \/ IsGlobalAt(a)
Cell(C, a) == IF a \in DOMAIN C.mem THEN C.mem[a] ELSE 0
Members(C, t) == IF t[1] = "struct" THEN C.src.structs[t[2]] ELSE <<>>

(* The object at C.v, of type C.t, read. *)
Read(C, a, t) ==
    IF t[1] = "arr" THEN Is(C, a, << "ptr" >> \o Tail(t))
    ELSE IF t[1] = "struct"
    THEN IF \A i \in DOMAIN Members(C, t) : Held(C, a + i - 1)
         THEN Is(C, [i \in DOMAIN Members(C, t) |-> Cell(C, a + i - 1)], t) ELSE Signal(C, "undef")
    ELSE IF Held(C, a) THEN Is(C, Cell(C, a), t) ELSE Signal(C, "undef")
Rvalue(C) == IF Running(C) THEN Read(C, C.v, C.t) ELSE C

Write(C, a, v, t) ==
    [C EXCEPT !.mem = (a :> v) @@ @,
              !.out = IF IsGlobalAt(a) THEN Append(@, << a, IF IsNumber(t) THEN v % 2^SizeOf(t) ELSE v >>) ELSE @]
WriteAll(C, a, v, t) ==
    IF t[1] # "struct" THEN Write(C, a, Fit(v, t), t)
    ELSE For(1, Len(v) + 1, C, LAMBDA D, i : Write(D, a + i - 1, v[i], Members(C, t)[i].ty))
(* Store the value in C.v into the object at a; it is also the result. *)
Assigned(C, a, t) == IF Running(C) THEN Is(WriteAll(C, a, C.v, t), Fit(C.v, t), t) ELSE C

New(C, k) == [C EXCEPT !.top = @ + k]
Name(C, name, a, t) == [C EXCEPT !.env = Append(@, [name |-> name, at |-> a, ty |-> t])]
Room == 10

(***************************************************************************)
(* Expressions.                                                            *)
(***************************************************************************)
RECURSIVE Do(_, _, _)
Ev(C, n) == Do(C, n, "value")     \* the value of an expression
Loc(C, n) == Do(C, n, "place")    \* the object an expression designates
Exec(C, n) == Do(C, n, "run")     \* a statement

Named(C, name) == {i \in DOMAIN C.env : C.env[i].name = name}
Latest(at) == CHOOSE i \in at : \A j \in at : j <= i
IsPointer(t) == t[1] = "ptr"

FieldAt(C, t, name) ==
    LET i == CHOOSE k \in DOMAIN Members(C, t) : Members(C, t)[k].name = name
    IN  Is(C, C.v + i - 1, Members(C, t)[i].ty)
FieldOf(C, name, arrow) ==
    IF ~Running(C) THEN C ELSE FieldAt(C, IF arrow THEN PointsTo(C.t) ELSE C.t, name)
FieldVal(C, name) ==
    LET i == CHOOSE k \in DOMAIN Members(C, C.t) : Members(C, C.t)[k].name = name
    IN  IF Running(C) THEN Is(C, C.v[i], Members(C, C.t)[i].ty) ELSE C
Indexed(C, base, t) == IF Running(C) THEN Is(C, base + C.v, PointsTo(t)) ELSE C
IndexBy(C, n) == IF Running(C) THEN Indexed(Ev(C, n), C.v, C.t) ELSE C
Deref(C) == IF Running(C) THEN Is(C, C.v, PointsTo(C.t)) ELSE C

Place(C, n) ==
    CASE n.k = "ident"     -> LET e == C.env[Latest(Named(C, n.op))] IN Is(C, e.at, e.ty)
      [] n.k = "paren"     -> Loc(C, n.kids[1])
      [] n.k = "subscript" -> IndexBy(Ev(C, n.kids[1]), n.kids[2])
      [] n.k = "prefix"    -> IF n.op = "*" THEN Deref(Ev(C, n.kids[1])) ELSE Ev(C, n)
      [] n.k = "member"    -> FieldOf(IF n.op.arrow THEN Ev(C, n.kids[1]) ELSE Loc(C, n.kids[1]),
                                      n.op.name, n.op.arrow)

RECURSIVE IsLvalue(_)
IsLvalue(n) ==
    CASE n.k = "paren"  -> IsLvalue(n.kids[1])
      [] n.k = "member" -> n.op.arrow \/ IsLvalue(n.kids[1])
      [] OTHER          -> n.k \in {"ident", "subscript"} \/ (n.k = "prefix" /\ n.op = "*")

(* Two values combined. *)
Combined(C, op, l, lt, r, rt) ==
    LET t == IF op \in {"<<", ">>"} THEN Promoted(lt) ELSE Common(lt, rt)
        a == Fit(l, t)
        b == IF op \in {"<<", ">>"} THEN r ELSE Fit(r, t)
    IN  IF op \in Comparisons THEN Is(C, IF Compared(op, a, b) THEN 1 ELSE 0, << "bool" >>)
        ELSE IF Undefined(op, a, b, t) THEN Signal(C, "undef")
        ELSE Is(C, Fit(Calculated(op, a, b, SizeOf(t)), t), t)
Combine(C, op, l, lt) ==
    CASE ~Running(C) -> C
      [] IsPointer(lt) /\ IsPointer(C.t) ->
           Is(C, IF op = "-" THEN l - C.v ELSE IF Compared(op, l, C.v) THEN 1 ELSE 0,
              IF op = "-" THEN << "long" >> ELSE << "bool" >>)
      [] IsPointer(lt)  -> Is(C, IF op = "-" THEN l - C.v ELSE l + C.v, lt)
      [] IsPointer(C.t) -> Is(C, l + C.v, C.t)
      [] OTHER          -> Combined(C, op, l, lt, C.v, C.t)

(* old op= rhs, at a of type t; ++ and -- are += 1 and -= 1. *)
Update(C, op, n, a, t) ==
    IF Running(C) THEN Assigned(Combine(Ev(C, n), op, C.v, t), a, t) ELSE C
UpdateAt(C, op, n) == IF Running(C) THEN Update(Rvalue(C), op, n, C.v, C.t) ELSE C
One == Node("int", 1, <<>>)
Bump(op) == IF op = "++" THEN "+" ELSE "-"
Restore(C, old, t) == IF Running(C) THEN Is(C, old, t) ELSE C
PostOf(C, op, a, t) == IF Running(C) THEN Restore(Update(C, op, One, a, t), C.v, t) ELSE C
Post(C, op) == IF Running(C) THEN PostOf(Rvalue(C), op, C.v, C.t) ELSE C

AssignTo(C, n) == IF Running(C) THEN Assigned(Ev(C, n), C.v, C.t) ELSE C
Truth(C) == IF Running(C) THEN Is(C, IF C.v # 0 THEN 1 ELSE 0, << "bool" >>) ELSE C
Short(C, n) ==   \* the left-hand side is in C
    IF ~Running(C) \/ (C.v # 0) = (n.op = "||") THEN C ELSE Truth(Ev(C, n.kids[2]))
BinaryWith(C, n) == IF Running(C) THEN Combine(Ev(C, n.kids[2]), n.op, C.v, C.t) ELSE C
Binary(C, n) ==
    CASE n.op = "="            -> AssignTo(Loc(C, n.kids[1]), n.kids[2])
      [] n.op \in AssignOps    -> UpdateAt(Loc(C, n.kids[1]), CompoundBase(n.op), n.kids[2])
      [] n.op \in {"&&", "||"} -> Short(Truth(Ev(C, n.kids[1])), n)
      [] n.op = ","            -> LET D == Ev(C, n.kids[1]) IN IF Running(D) THEN Ev(D, n.kids[2]) ELSE D
      [] OTHER                 -> BinaryWith(Ev(C, n.kids[1]), n)

Unary(C, op) ==
    LET t == Promoted(C.t) IN
    CASE ~Running(C) -> C
      [] op = "-"    -> Is(C, Fit(0 - C.v, t), t)
      [] op = "~"    -> Is(C, Fit(-1 - C.v, t), t)
      [] op = "+"    -> Is(C, C.v, t)
      [] op = "!"    -> Is(C, IF C.v = 0 THEN 1 ELSE 0, << "bool" >>)
Address(C) == IF Running(C) THEN Is(C, C.v, << "ptr" >> \o C.t) ELSE C
Prefix(C, n) ==
    CASE n.op = "&"            -> Address(Loc(C, n.kids[1]))
      [] n.op = "*"            -> Rvalue(Deref(Ev(C, n.kids[1])))
      [] n.op \in {"++", "--"} -> UpdateAt(Loc(C, n.kids[1]), Bump(n.op), One)
      [] OTHER                 -> Unary(Ev(C, n.kids[1]), n.op)

(* The type a ternary has whichever arm runs: that of its arms together, found
   by running the other arm on the side. *)
Other(C, n) == LET D == Ev(C, n) IN IF Running(D) THEN D.t ELSE C.t
TernaryAs(C, D, n) ==   \* D: the arm that ran, C: before it
    IF ~Running(D) \/ ~IsNumber(D.t) THEN D
    ELSE LET t == Other(C, n)
             u == IF t = D.t THEN t ELSE Common(D.t, t)
         IN  Is(D, Fit(D.v, u), u)
Ternary(C, n) ==
    IF ~Running(C) THEN C
    ELSE IF C.v # 0 THEN TernaryAs(C, Ev(C, n.kids[2]), n.kids[3])
    ELSE TernaryAs(C, Ev(C, n.kids[3]), n.kids[2])

(***************************************************************************)
(* Calls.  The best candidate has the parameter types of the arguments; a  *)
(* single one converts them.  References bind to the object when the types *)
(* agree, to a temporary otherwise.                                        *)
(***************************************************************************)
Takes(F, k) == k <= Len(F.params) /\ \A i \in k + 1 .. Len(F.params) : ~IsNone(F.params[i].dflt)

Passed(X, C, addr) == [C |-> C, vals |-> Append(X.vals, [v |-> C.v, t |-> C.t, addr |-> addr])]
Arguments(C, args, refs) ==
    For(1, Len(args) + 1, [C |-> C, vals |-> <<>>], LAMBDA X, i :
        IF ~Running(X.C) THEN X
        ELSE IF i \in refs /\ IsLvalue(args[i]) THEN Passed(X, Loc(X.C, args[i]), TRUE)
        ELSE Passed(X, Ev(X.C, args[i]), FALSE))

BindArg(C, p, a) ==
    IF p.ref /\ a.addr /\ a.t = p.ty THEN Name(C, p.name, a.v, p.ty)
    ELSE LET D == IF a.addr THEN Read(C, a.v, a.t) ELSE Is(C, a.v, a.t)
         IN  IF Running(D) THEN Name(WriteAll(New(D, Room), C.top, Fit(D.v, p.ty), p.ty), p.name, C.top, p.ty)
             ELSE D
EnterWith(C, F, vals) ==
    For(1, Len(F.params) + 1, [C EXCEPT !.env = C.file, !.fuel = @ - 1], LAMBDA D, i :
        IF Running(D) THEN BindArg(D, F.params[i], vals[i]) ELSE D)

Returned(C, env, t) ==
    CASE C.sig = "return" -> [C EXCEPT !.sig = "", !.env = env, !.v = Fit(@, t), !.t = t]
      [] C.sig = ""       -> [C EXCEPT !.env = env, !.sig = IF t = << "void" >> THEN "" ELSE "undef"]
      [] OTHER            -> C
Invoke(X, F, env) ==
    IF ~Running(X.C) THEN X.C
    ELSE IF X.C.fuel = 0 THEN Signal(X.C, "fuel")
    ELSE LET D == EnterWith(X.C, F, X.vals)
         IN  IF Running(D) THEN Returned(Exec(D, F.body), env, F.ret) ELSE D

Candidates(C, n) == {i \in DOMAIN C.src.funcs : C.src.funcs[i].name = n.op /\ Takes(C.src.funcs[i], Len(n.kids))}
Exact(C, cand, vals) ==
    {i \in cand : \A k \in DOMAIN vals : vals[k].t = C.src.funcs[i].params[k].ty}
Chosen(X, cand) ==
    IF Cardinality(cand) > 1 THEN Exact(X.C, cand, X.vals) ELSE cand
WithDefaults(X, F, k) ==
    For(k + 1, Len(F.params) + 1, X, LAMBDA Y, i :
        IF Running(Y.C) THEN Passed(Y, Ev([Y.C EXCEPT !.env = Y.C.file], F.params[i].dflt), FALSE) ELSE Y)
CallOf(X, cand, k, env) ==
    IF ~Running(X.C) THEN X.C
    ELSE LET F == X.C.src.funcs[CHOOSE i \in Chosen(X, cand) : TRUE]
         IN  Invoke(WithDefaults(X, F, k), F, env)
Refs(C, cand) ==
    LET F == C.src.funcs[CHOOSE i \in cand : TRUE] IN {k \in DOMAIN F.params : F.params[k].ref}
Call(C, n) ==
    LET cand == Candidates(C, n) IN CallOf(Arguments(C, n.kids, Refs(C, cand)), cand, Len(n.kids), C.env)

Cast(C, t) == IF Running(C) THEN Is(C, Fit(C.v, t), t) ELSE C

Value(C, n) ==
    CASE n.k = "int"       -> Is(C, n.op, << "int" >>)
      [] n.k = "char"      -> Is(C, n.op, << "char" >>)
      [] n.k = "bool"      -> Is(C, n.op, << "bool" >>)
      [] n.k = "ident"     -> IF Named(C, n.op) = {} THEN Is(C, C.src.enums[n.op], << "int" >>)
                              ELSE Rvalue(Loc(C, n))
      [] n.k = "paren"     -> Ev(C, n.kids[1])
      [] n.k = "subscript" -> Rvalue(Loc(C, n))
      [] n.k = "member"    -> IF IsLvalue(n) THEN Rvalue(Loc(C, n)) ELSE FieldVal(Ev(C, n.kids[1]), n.op.name)
      [] n.k = "binary"    -> Binary(C, n)
      [] n.k = "prefix"    -> Prefix(C, n)
      [] n.k = "postfix"   -> Post(Loc(C, n.kids[1]), Bump(n.op))
      [] n.k = "ternary"   -> Ternary(Ev(C, n.kids[1]), n)
      [] n.k = "cast"      -> Cast(Ev(C, n.kids[1]), n.op)
      [] n.k = "call"      -> Call(C, n)

(***************************************************************************)
(* Statements.                                                             *)
(***************************************************************************)
Zeros(C, a, ts) == For(1, Len(ts) + 1, C, LAMBDA D, i : Write(D, a + i - 1, 0, ts[i]))
Fill(C, a, ts, els) ==
    For(1, Len(els) + 1, Zeros(C, a, ts), LAMBDA D, i :
        IF Running(D) THEN Assigned(Ev(D, els[i]), a + i - 1, ts[i]) ELSE D)
MemberTypes(C, t) == [i \in DOMAIN Members(C, t) |-> Members(C, t)[i].ty]

Object(C, n, ts) ==   \* its name is in scope, its storage below C.top
    CASE n.kids = <<>>          -> C
      [] n.kids[1].k = "init"   -> Fill(C, C.top - Room, ts, n.kids[1].kids)
      [] OTHER                  -> Assigned(Ev(C, n.kids[1]), C.top - Room, n.op.ty)
DeclareArray(C, n) ==
    LET D == Ev(C, n.op.dim)
        t == << "arr" >> \o n.op.ty
    IN  Object(Name(New(D, Room), n.op.name, D.top, t), n, [i \in 1 .. D.v |-> n.op.ty])
DeclareRef(C, n) ==
    IF IsLvalue(n.kids[1]) THEN LET D == Loc(C, n.kids[1]) IN IF Running(D) THEN Name(D, n.op.name, D.v, D.t) ELSE D
    ELSE Object(Name(New(C, Room), n.op.name, C.top, n.op.ty), n, <<>>)
Declare(C, n) ==
    CASE "ref" \in n.op.q  -> DeclareRef(C, n)
      [] ~IsNone(n.op.dim) -> DeclareArray(C, n)
      [] OTHER             -> Object(Name(New(C, Room), n.op.name, C.top, n.op.ty), n, MemberTypes(C, n.op.ty))

(* Statements from the i-th on; a goto to a label among them restarts there. *)
LabelIn(stmts, name) == {i \in DOMAIN stmts : stmts[i].k = "label" /\ stmts[i].op = name}
After(C, stmts, i) ==
    CASE C.sig = "" -> [C |-> C, i |-> i + 1]
      [] C.sig = "goto" /\ LabelIn(stmts, C.lab) # {} ->
           IF C.fuel = 0 THEN [C |-> Signal(C, "fuel"), i |-> i]
           ELSE [C |-> [C EXCEPT !.sig = "", !.fuel = @ - 1], i |-> CHOOSE k \in LabelIn(stmts, C.lab) : TRUE]
      [] OTHER -> [C |-> C, i |-> i]
Sequence(C, stmts, i) ==
    While([C |-> C, i |-> i], (Fuel + 1) * (Len(stmts) + 1),
          LAMBDA X : ~Running(X.C) \/ X.i > Len(stmts),
          LAMBDA X : After(Exec(X.C, stmts[X.i]), stmts, X.i)).C
Leave(C, env) == [C EXCEPT !.env = env]
Block(C, stmts) == Leave(Sequence(C, stmts, 1), C.env)

Choose(C, n) ==
    IF ~Running(C) THEN C
    ELSE IF C.v # 0 THEN Leave(Exec(C, n.kids[2]), C.env)
    ELSE IF HasKid(n, 3) THEN Leave(Exec(C, n.kids[3]), C.env) ELSE C

(* A loop: its test, its body, its step; first says whether the test comes
   before the body the first time. *)
Turned(C) == IF C.sig = "continue" THEN Signal(C, "") ELSE C
StepOf(C, step) == IF Running(C) /\ ~IsNone(step) THEN Ev(C, step) ELSE C
Broken(C) == IF C.sig = "break" THEN Signal(C, "") ELSE C
Turn(C, step, body) == StepOf(Turned(Leave(Exec([C EXCEPT !.fuel = @ - 1], body), C.env)), step)
Test(C, test) ==   \* v is 0 when the loop is over
    IF C.fuel = 0 THEN Signal(C, "fuel") ELSE IF IsNone(test) THEN Is(C, 1, << "bool" >>) ELSE Ev(C, test)
Tested(C, test) == IF Running(C) THEN Test(C, test) ELSE C
Loop(C, test, step, body, first) ==
    Broken(While(IF first THEN Tested(C, test) ELSE Is(C, 1, << "bool" >>), Fuel + 1,
                 LAMBDA D : ~Running(D) \/ D.v = 0,
                 LAMBDA D : Tested(Turn(D, step, body), test)))

Start1(C, n) == IF IsNone(n) THEN C ELSE IF n.k = "decl" THEN Declare(C, n) ELSE Ev(C, n)
ForLoop(C, n) == IF Running(C) THEN Loop(C, n.kids[2], n.kids[3], n.kids[4], TRUE) ELSE C

(* The statements of a switch from the label chosen. *)
CaseOf(C, body) ==
    LET hit == {i \in DOMAIN body : body[i].k = "case" /\ Ev(C, body[i].kids[1]).v = C.v}
        dfl == {i \in DOMAIN body : body[i].k = "default"}
    IN  IF hit # {} THEN CHOOSE i \in hit : TRUE ELSE IF dfl # {} THEN CHOOSE i \in dfl : TRUE ELSE Len(body) + 1
Switch(C, body) ==
    IF Running(C) THEN Broken(Leave(Sequence(C, body, CaseOf(C, body)), C.env)) ELSE C

Return(C, n) ==
    IF n.kids = <<>> THEN Signal(C, "return")
    ELSE LET D == Ev(C, n.kids[1]) IN IF Running(D) THEN Signal(D, "return") ELSE D

Run(C, n) ==
    CASE n.k = "expr"     -> IF n.kids = <<>> THEN C ELSE Ev(C, n.kids[1])
      [] n.k = "decl"     -> Declare(C, n)
      [] n.k = "block"    -> Block(C, n.kids)
      [] n.k = "return"   -> Return(C, n)
      [] n.k = "if"       -> Choose(Ev(C, n.kids[1]), n)
      [] n.k = "while"    -> Loop(C, n.kids[1], None, n.kids[2], TRUE)
      [] n.k = "dowhile"  -> Loop(C, n.kids[2], None, n.kids[1], FALSE)
      [] n.k = "for"      -> Leave(ForLoop(Start1(C, n.kids[1]), n), C.env)
      [] n.k = "switch"   -> Switch(Ev(C, n.kids[1]), n.kids[2].kids)
      [] n.k \in {"break", "continue"} -> Signal(C, n.k)
      [] n.k = "goto"     -> [C EXCEPT !.sig = "goto", !.lab = n.op]
      [] OTHER            -> C

(***************************************************************************)
(* A kernel run on arguments: what it stores to global memory, in order,   *)
(* and how it ends.                                                        *)
(***************************************************************************)
Boot(src) ==
    [mem |-> << >>, top |-> 10000, out |-> <<>>, sig |-> "", lab |-> "", v |-> 0, t |-> << "int" >>,
     fuel |-> Fuel, src |-> src, file |-> <<>>,
     env |-> [g \in DOMAIN src.globals |->
                [name |-> src.globals[g].name, at |-> GlobalAt(g - 1), ty |-> src.globals[g].ty]]]
FileScope(C) == [C EXCEPT !.file = C.env]
KernelOf(src) == src.funcs[CHOOSE i \in DOMAIN src.funcs : src.funcs[i].kernel]
Launch(C, F, args) ==
    Exec(EnterWith(C, F, [i \in DOMAIN F.params |-> [v |-> args[i], t |-> F.params[i].ty, addr |-> FALSE]]), F.body)
Main(C, args) == Launch(FileScope(Sequence(C, C.src.consts, 1)), KernelOf(C.src), args)

Do(C, n, how) ==
    CASE how = "value" -> Value(C, n) [] how = "place" -> Place(C, n)
      [] how = "run" -> Run(C, n)     [] how = "main" -> Main(C, n)

Finish(C) ==
    [out |-> C.out, end |-> CASE C.sig \in {"", "return"} -> "ret" [] C.sig = "fuel" -> "" [] OTHER -> C.sig]
Meaning(src, args) == Finish(Do(Boot(src), args, "main"))
=============================================================================
