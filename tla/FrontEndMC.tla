----------------------------- MODULE FrontEndMC -----------------------------
(***************************************************************************)
(* FrontEnd on files with a kernel k(int *out, int a, int b), in families, *)
(* one for each part of the language, as syntax trees that are written out *)
(* as source.  Integers are narrow -- bool 1 bit, char 2, int 3, long 4 -- *)
(* so that conversions and wrap-around happen within the inputs.           *)
(***************************************************************************)
EXTENDS FrontEnd, CAst
LOCAL INSTANCE Bitwise
Seqs == INSTANCE SequencesExt
C == INSTANCE CExec WITH Fuel <- 9

(* Families are sequences: trees of different shapes are not comparable. *)
Each(s, Op(_)) == [i \in DOMAIN s |-> Op(s[i])]
Pairs(s, t, Op(_, _)) ==
    [k \in 1 .. Len(s) * Len(t) |-> Op(s[((k - 1) \div Len(t)) + 1], t[((k - 1) % Len(t)) + 1])]

Lit(v) == Node("int", v, <<>>)
Id(x) == Node("ident", x, <<>>)
Bin(op, l, r) == Node("binary", op, << l, r >>)
Prefix(op, e) == Node("prefix", op, << e >>)
Post(op, e) == Node("postfix", op, << e >>)
Cond(c, x, y) == Node("ternary", "", << c, x, y >>)
At(e, i) == Node("subscript", "", << e, i >>)
Dot(e, f) == Node("member", [name |-> f, arrow |-> FALSE], << e >>)
Arrow(e, f) == Node("member", [name |-> f, arrow |-> TRUE], << e >>)
CastTo(t, e) == Node("cast", << t >>, << e >>)
Call(f, args) == Node("call", f, args)
Do(e) == Node("expr", "", << e >>)
Block(ss) == Node("block", "", ss)
List(es) == Node("init", "", es)
DeclOf(x, t, q, dim, init) == Node("decl", [name |-> x, ty |-> t, q |-> q, dim |-> dim], init)
Decl(x, t, e) == DeclOf(x, << t >>, {}, None, << e >>)
ConstInt(x, e) == DeclOf(x, << "int" >>, {"const"}, None, << e >>)
Array(x, n, init) == DeclOf(x, << "int" >>, {}, n, init)
If(c, s, e) == Node("if", "", << c, s, e >>)
IfConstexpr(c, s, e) == Node("if", "constexpr", << c, s, e >>)
Loop(c, s) == Node("while", "", << c, s >>)
DoWhile(s, c) == Node("dowhile", "", << s, c >>)
ForI(n, s) == Node("for", "", << Decl("i", "int", Lit(0)), Bin("<", Id("i"), n), Post("++", Id("i")), s >>)
Switch(c, ss) == Node("switch", "", << c, Block(ss) >>)
Case(v) == Node("case", "", << v >>)
Default == Node("default", "", <<>>)
Break == Node("break", "", <<>>)
Again == Node("continue", "", <<>>)
Label(l) == Node("label", l, <<>>)
Goto(l) == Node("goto", l, <<>>)
Return(es) == Node("return", "", es)
a == Id("a")
b == Id("b")
x == Id("x")
y == Id("y")
p == Id("p")
q == Id("q")
Set(l, e) == Do(Bin("=", l, e))
Out(i, e) == Set(At(Id("out"), Lit(i)), e)

Param(n, t) == [name |-> n, ty |-> t, ref |-> FALSE, cst |-> FALSE, dflt |-> None]
IntParam(n) == Param(n, << "int" >>)
Device(n, ps, t, ss) == [name |-> n, params |-> ps, ret |-> t, body |-> Block(ss), kernel |-> FALSE, cexpr |-> FALSE]
Constexpr(n, ps, ss) == [Device(n, ps, << "int" >>, ss) EXCEPT !.cexpr = TRUE]
KernelOf(ss) ==
    [Device("k", << Param("out", << "ptr", "int" >>), IntParam("a"), IntParam("b") >>, << "void" >>, ss)
        EXCEPT !.kernel = TRUE]
IntField(n) == [name |-> n, ty |-> << "int" >>]
PairT == << "struct", "P" >>
File(fs) == [structs |-> "P" :> << IntField("x"), IntField("y") >>, enums |-> "E" :> 2,
             consts |-> << ConstInt("G", Bin("+", Id("E"), Lit(1))) >>, globals |-> <<>>, funcs |-> fs]
Alone(ss) == File(<< KernelOf(ss) >>)

(***************************************************************************)
(* Control: every way of leaving or going round, in every loop.            *)
(***************************************************************************)
Leaving == << Break, Again, Return(<<>>), Goto("end"), Out(1, x) >>
Guarded == Each(Leaving, LAMBDA s : If(Bin("==", x, b), s, None))
           \o Each(Leaving, LAMBDA s : If(Bin("<", x, b), Block(<< Out(2, a) >>), Block(<< s >>)))
Loops == Seqs!FlattenSeq(Each(Guarded, LAMBDA g :
    LET body == Block(<< Do(Post("++", x)), g, Out(0, x) >>)
    IN  << ForI(a, body), Loop(Bin("<", x, a), body), DoWhile(body, Bin("<", x, a)) >>))
Control == Each(Loops, LAMBDA l :
    Alone(<< Decl("x", "int", Lit(0)), l, Out(3, x), Label("end"), Out(2, x) >>))

(* A loop in a loop, and a value nobody uses. *)
Idle ==
    << Alone(<< Decl("x", "int", Lit(0)),
                ForI(a, Block(<< Do(x), Loop(Bin("<", x, b), Do(Prefix("++", x))), Out(1, Id("i")) >>)), Out(0, x) >>) >>

(* A loop in a loop, and a backward goto. *)
Nested ==
    Pairs(<< Break, If(Bin("==", x, Id("i")), Again, Break) >>, << Out(1, Id("i")), If(x, Break, None) >>, LAMBDA s, t :
        Alone(<< Decl("x", "int", Lit(0)),
                 ForI(a, Block(<< Loop(Bin("<", x, b), Block(<< Do(Prefix("++", x)), s >>)), t >>)), Out(0, x) >>))
    \o << Alone(<< Decl("x", "int", Lit(0)), Label("top"), Do(Post("++", x)), If(Bin("<", x, a), Goto("top"), None), Out(0, x) >>) >>

(***************************************************************************)
(* Conditions with side effects.                                           *)
(***************************************************************************)
Less == Bin("<", a, b)
Counts == Bin("<", Post("++", x), b)
Conditions == Pairs(<< Less, Counts >>, << Counts, Prefix("!", Less) >>, LAMBDA c, d : Bin("&&", c, d))
              \o Pairs(<< Less, Counts >>, << Counts, Prefix("!", Less) >>, LAMBDA c, d : Bin("||", c, d))
Conditional ==
    Each(Conditions, LAMBDA c :
        Alone(<< Decl("x", "int", a), If(c, Out(0, a), Out(0, b)), Out(1, x), Decl("y", "bool", c), Out(2, y), Out(3, x) >>))
    \o Each(Conditions, LAMBDA c :
        Alone(<< Decl("x", "int", a), Out(0, Cond(c, Bin("=", x, b), Post("--", x))), Out(1, x) >>))
    \o Each(<< Bin("&&", Counts, Less), Bin("||", Counts, Bin("==", x, b)) >>, LAMBDA c :
        Alone(<< Decl("x", "int", a), Loop(c, Out(1, x)), Out(0, x) >>))

(***************************************************************************)
(* Conversions: a value through two types, then operators on the two.      *)
(***************************************************************************)
Types == << "char", "uchar", "int", "uint", "long", "ulong" >>
Operators == [char |-> "+", uchar |-> "*", int |-> "-", uint |-> "/", long |-> "%", ulong |-> ">>"]
Converted ==
    Pairs(Types, Types, LAMBDA s, t : Alone(
        << Decl("x", s, a), Decl("y", t, x), Out(0, y), Out(1, Bin(Operators[s], x, Bin("|", y, b))),
           Decl("z", "long", Bin("^", y, x)), Out(2, Bin(">>", Id("z"), Lit(1))), Out(3, CastTo(s, b)) >>))
    \o Each(Types, LAMBDA t : Alone(
        << Decl("x", t, a), Do(Bin("+=", x, b)), Out(0, x), Do(Post("--", x)), Out(1, Bin("-", Lit(0), x)),
           Do(Bin("<<=", x, Lit(1))), Out(2, x), Out(3, Prefix("!", x)) >>))

(***************************************************************************)
(* Switches, chosen at run time and at compile time.                       *)
(***************************************************************************)
SwitchOn(v, s, t) ==
    Alone(<< Switch(v, << Case(Lit(2)), s, Break, Case(Id("G")), t, Break, Default, Out(2, b) >>), Out(3, a) >>)
Search == ForI(a, Block(<< If(Bin("==", Id("i"), b), Break, None), Out(1, Id("i")) >>))
Switched ==
    Pairs(<< a, b, Bin("+", a, b) >>, << Out(0, a), If(b, Out(0, b), Return(<<>>)) >>, LAMBDA v, s : SwitchOn(v, s, Search))
    \o Each(<< Id("E"), Id("G"), Lit(1) >>, LAMBDA v : SwitchOn(v, Out(0, a), Out(1, b)))

(* Ways out of a switch in one loop and in two, and out of what is in the switch. *)
Second(s) == If(Bin("==", Id("i"), Lit(1)), s, None)
WaysOut == << Second(Break), Second(Return(<<>>)), Second(Goto("end")),
              Loop(Bin("<", x, b), Block(<< Do(Prefix("++", x)), If(Bin("==", x, Lit(2)), Again, Second(Break)), Out(2, x) >>)),
              Switch(x, << Case(Lit(1)), Second(Break), Out(2, x), Break, Default, Break >>) >>
RoundOf(s) ==
    ForI(a, Block(<< Switch(b, << Case(Lit(1)), Do(Post("++", x)), s, Out(0, x), Break, Default, Out(1, Id("i")), s, Break >>), Out(3, x) >>))
Ending(t) == Alone(<< Decl("x", "int", Lit(0)), t, Out(2, x), Label("end"), Out(1, x) >>)
SwitchLoops ==
    Each(WaysOut, LAMBDA s : Ending(RoundOf(s)))
    \o Each(WaysOut, LAMBDA s : Ending(Loop(Bin("<", x, a), Block(<< Do(Post("++", x)), RoundOf(s), If(Bin("==", x, b), Break, None) >>))))

(***************************************************************************)
(* Constant expressions, arrays, scopes.                                   *)
(***************************************************************************)
Prev == Constexpr("pr", << IntParam("n") >>, << Return(<< Bin("-", Id("n"), Lit(1)) >>) >>)
Pick == Constexpr("pk", << IntParam("n") >>,
    << If(Bin(">", Id("n"), Lit(2)), Return(<< Lit(1) >>), None),
       Switch(Id("n"), << Case(Lit(1)), Return(<< Lit(3) >>), Case(Id("E")), Break, Default, Return(<< Lit(0) >>) >>),
       Return(<< Lit(2) >>) >>)
Lengths == << Lit(3), Id("E"), Id("G"), Bin("-", Id("G"), Lit(1)), Call("pr", << Lit(2) >>), Call("pk", << Lit(2) >>) >>
WithConstexpr(ss) == File(<< Prev, Pick, KernelOf(ss) >>)
Folded ==
    Each(Lengths, LAMBDA n : WithConstexpr(
        << Array("v", n, << List(<< a >>) >>), Set(At(Id("v"), Lit(0)), Bin("+", At(Id("v"), Lit(0)), b)),
           Out(0, At(Id("v"), Lit(0))) >>))
    \o Pairs(<< "pr", "pk" >>, << Lit(0), Lit(1), Id("E"), Id("G") >>, LAMBDA f, m : WithConstexpr(
        << ConstInt("n", Call(f, << m >>)), IfConstexpr(Bin("<", Id("n"), Lit(2)), Out(0, a), Out(0, Id("n"))),
           Block(<< Decl("x", "int", Id("n")), Do(Post("++", x)), Out(1, x), Decl("a", "int", x), Out(2, a) >>), Out(3, a) >>))

(***************************************************************************)
(* Pointers and records.                                                   *)
(***************************************************************************)
Pair(init) == DeclOf("p", PairT, {}, None, << List(init) >>)
PairQ == DeclOf("q", PairT, {}, None, <<>>)
PtrTo(n, t, e) == DeclOf(n, << "ptr" >> \o t, {}, None, << e >>)
Memory == Each(<<
    << Decl("x", "int", a), PtrTo("p", << "int" >>, Prefix("&", x)), Do(Bin("+=", Prefix("*", p), b)), Out(0, x),
       Do(Post("++", Id("out"))), Set(Prefix("*", Id("out")), b), Out(1, Prefix("*", p)) >>,
    << Array("v", Lit(2), << List(<< a, b >>) >>), PtrTo("p", << "int" >>, Id("v")), Set(At(Id("v"), Bin("&", a, Lit(1))), Lit(1)),
       Out(0, Prefix("*", Bin("+", p, Lit(1)))), Out(1, Prefix("*", p)) >>,
    << Pair(<< a, b >>), PairQ, Set(q, p), Set(Dot(q, "x"), Dot(p, "y")), Out(0, Dot(q, "x")), Out(1, Dot(p, "x")) >>,
    << Pair(<< a >>), PtrTo("q", PairT, Prefix("&", p)), Do(Post("++", Arrow(q, "y"))), Set(Arrow(q, "x"), b),
       Out(0, Dot(p, "x")), Out(1, Dot(p, "y")) >>,
    << Pair(<< a, b >>), DeclOf("y", << "int" >>, {"ref"}, None, << Dot(p, "y") >>), Set(y, a), Out(0, Dot(p, "y")) >> >>, Alone)

(***************************************************************************)
(* Calls: overloads, defaults, references, records by value and returned.  *)
(***************************************************************************)
Ref(t) == [Param("r", t) EXCEPT !.ref = TRUE]
Make == Device("mk", << IntParam("u"), IntParam("v") >>, PairT,
    << Pair(<< Id("u"), Id("v") >>), Return(<< p >>) >>)
Swap == Device("sw", << Param("p", PairT) >>, PairT, << Return(<< Call("mk", << Dot(p, "y"), Dot(p, "x") >>) >>) >>)
Raise == Device("up", << Param("p", PairT) >>, << "int" >>, << Do(Post("++", Dot(p, "x"))), Return(<< Dot(p, "x") >>) >>)
Minus == Device("f", << IntParam("u"), [IntParam("v") EXCEPT !.dflt = Lit(1)] >>, << "int" >>,
    << If(Bin("==", Id("u"), Id("v")), Return(<< Lit(0) >>), None), Return(<< Bin("-", Id("u"), Id("v")) >>) >>)
Incr == Device("g", << Ref(<< "int" >>) >>, << "void" >>, << Do(Post("++", Id("r"))) >>)
Twice == Device("h", << [Ref(<< "int" >>) EXCEPT !.cst = TRUE] >>, << "int" >>, << Return(<< Bin("*", Id("r"), Lit(2)) >>) >>)
Over(t, e) == Device("o", << Param("u", << t >>) >>, << "int" >>, << Return(<< e >>) >>)
Called == <<
    File(<< Minus, Incr, Twice, KernelOf(<< Decl("x", "int", Call("f", << a >>)), Do(Call("g", << x >>)), Out(0, Call("f", << x, b >>)),
                                         Out(1, Call("h", << Bin("+", x, Lit(1)) >>)), Out(2, Call("h", << x >>)) >>) >>),
    File(<< Make, Swap, KernelOf(<< DeclOf("p", PairT, {}, None, << Call("mk", << a, b >>) >>), Set(p, Call("sw", << p >>)),
                                  Out(0, Dot(p, "x")), Out(1, Dot(p, "y")), Out(2, Dot(Call("mk", << b, a >>), "y")) >>) >>),
    File(<< Make, Raise, KernelOf(<< Pair(<< a, b >>), Out(0, Call("up", << p >>)), Out(1, Dot(p, "x")),
                                   Out(2, Call("up", << Call("mk", << b, a >>) >>)) >>) >>),
    File(<< Over("int", Id("u")), Over("long", Lit(3)), Over("char", Lit(2)),
            KernelOf(<< Decl("x", "char", b), Out(0, Call("o", << a >>)), Out(1, Call("o", << CastTo("long", a) >>)), Out(2, Call("o", << x >>)) >>) >>),
    File(<< Incr, KernelOf(<< ForI(b, Block(<< Do(Call("g", << a >>)), Out(0, a) >>)) >>) >>) >>

(***************************************************************************)
(* Grouping: operators of neighbouring levels, and of one level, nested    *)
(* either way; what the unary and the postfix operators apply to.          *)
(***************************************************************************)
Neighbours == << << "|", "^" >>, << "^", "&" >>, << "&", ">>" >>, << ">>", "+" >>, << "+", "*" >>, << "-", "-" >>, << "-", "+" >>,
                 << "/", "*" >>, << "*", "%" >>, << ">>", "<<" >> >>
Mixed == Seqs!FlattenSeq(Each(Neighbours, LAMBDA o : <<
    Bin(o[1], Bin(o[2], a, b), x), Bin(o[1], a, Bin(o[2], x, b)), Bin(o[2], Bin(o[1], a, x), b), Bin(o[2], a, Bin(o[1], b, x)) >>))
Equal == Bin("==", a, x)
Order == <<
    Bin("&", Bin("==", a, b), x), Bin("==", a, Bin("&", b, x)), Bin("==", Bin("<", a, x), Less), Bin("<", Bin("<<", a, Lit(1)), b),
    Bin("&&", Less, Bin("||", Equal, Bin("<", x, a))), Bin("||", Bin("&&", Less, Equal), Bin("<", x, a)),
    Bin("||", Less, Bin("&&", Equal, Bin("<", x, a))), Bin("&&", Bin("||", Less, Equal), Bin("!=", x, b)),
    Cond(Bin("||", Less, Equal), a, Cond(Equal, b, x)), Cond(Cond(Less, a, x), b, x), Cond(Less, Bin(",", a, b), x), Cond(Prefix("!", Less), a, b),
    Prefix("!", Bin("==", a, b)), Bin("==", Prefix("-", a), b), Prefix("-", Bin("+", a, b)), Prefix("~", Bin("*", Prefix("-", a), x)),
    CastTo("int", Bin("+", a, b)), Bin("+", CastTo("uint", a), b), CastTo("int", Prefix("-", x)), CastTo("long", Bin("<<", a, Lit(1))) >>
Grouped ==
    Each([k \in 1 .. Len(Mixed \o Order) \div 4 |-> SubSeq(Mixed \o Order, (4 * k) - 3, 4 * k)], LAMBDA es :
        Alone(<< Decl("x", "int", Bin("|", Bin("^", a, b), Lit(1))) >> \o [i \in DOMAIN es |-> Out(i - 1, es[i])]))
    \o Each(<<
        << If(a, If(b, Out(0, a), Out(0, b)), None), Out(1, a) >>,
        << If(a, If(Less, Out(0, a), None), Out(0, b)), Out(1, a) >>,
        << Array("v", Lit(2), << List(<< a, b >>) >>), PtrTo("p", << "int" >>, Id("v")), Out(0, Prefix("*", Post("++", p))), Out(1, Prefix("*", p)),
           Do(Post("++", Prefix("*", p))), Out(2, At(Id("v"), Lit(1))), Out(3, Prefix("-", At(Id("v"), Lit(0)))) >>,
        << Pair(<< a, b >>), PtrTo("q", PairT, Prefix("&", p)), PtrTo("r", << "int" >>, Prefix("&", Arrow(q, "y"))), Out(0, Prefix("*", Id("r"))),
           Out(1, Dot(Prefix("*", q), "x")), Out(2, Prefix("!", Arrow(q, "x"))) >>,
        << Decl("x", "int", a), Decl("y", "int", b), Do(Bin("=", x, Bin("+=", y, Bin("=", a, Lit(2))))), Out(0, x), Out(1, y), Out(2, a) >> >>, Alone)

(***************************************************************************)
(* Files that are no programs.                                             *)
(***************************************************************************)
Illegal ==
    Each(<< << Out(0, Call("f", << a, b, a >>)) >>, << Out(0, Call("f", <<>>)) >>, << Out(0, Id("zz")) >>, << Set(Id("zz"), a) >>,
            << Out(0, Call("zz", << a >>)) >>, << Out(0, Arrow(a, "x")) >>, << Array("v", a, <<>>) >>,
            << Block(<< Decl("x", "int", a) >>), Out(0, x) >>,
            << Switch(Id("out"), << Default, Out(0, a) >>) >>, << DeclOf("q", << "struct", "Zz" >>, {}, None, <<>>), Out(0, a) >>,
            << Pair(<< a, b >>), Out(0, Dot(p, "z")) >>, << Pair(<< a, b >>), If(p, Out(0, a), None) >>,
            << Pair(<< a, b >>), Loop(p, Break) >>, << Pair(<< a, b >>), Switch(p, << Default, Out(0, a) >>) >> >>,
         LAMBDA ss : File(<< Minus, KernelOf(ss) >>))
    \o << File(<< Device("f", << IntParam("u"), Param("v", << "long" >>) >>, << "int" >>, << Return(<< Id("u") >>) >>),
                  Device("f", << Param("u", << "long" >>), IntParam("v") >>, << "int" >>, << Return(<< Id("v") >>) >>),
                  KernelOf(<< Out(0, Call("f", << a, b >>)) >>) >>) >>

(* No programs either, and compiled: a break or a continue of nothing, a label
   nowhere or twice in a switch, an array of no elements, a constant assigned. *)
Accepted ==
    Each(<< << Break, Out(0, a) >>, << Again, Out(0, a) >>, << Array("v", Lit(0), <<>>), Out(0, a) >>,
            << Switch(a, << Case(Lit(2)), Break, Case(Lit(2)), Out(0, b), Break >>) >>, << ConstInt("n", a), Set(Id("n"), b), Out(0, Id("n")) >> >>, Alone)
Nowhere == Alone(<< Goto("no"), Out(0, a) >>)

(***************************************************************************)
(* Programs the compiler gets wrong: continue in a switch, a scope that    *)
(* does not end with the switch or is not seen by a constant, break in a   *)
(* constant switch, loops and labels past the limits, comparisons without  *)
(* conversions, and conversions at the wrong moment.                       *)
(***************************************************************************)
SwitchOf(v, ss) == Alone(<< Decl("x", "int", Lit(0)), Switch(v, ss), Out(3, x) >>)
Deep(n) ==
    Alone(<< Decl("x", "int", Lit(0)),
             For(1, n, Loop(Bin("<", x, a), Block(<< Do(Post("++", x)), Break >>)), LAMBDA s, k : Loop(Bin("<", x, a), Block(<< s, Out(1, x) >>))) >>)
Labels(k) == Seqs!FlattenSeq([i \in 1 .. k |-> << Case(Lit(k - i)), Out(0, Lit(i)), Break >>])
Comparing(s, t) == Alone(<< Decl("x", s, a), Decl("y", t, b), Out(0, Bin("<", x, y)), Out(1, Bin("==", y, x)) >>)
Break3 == Switch(Id("G"), << Case(Lit(3)), If(a, Break, None), Out(0, b), Break >>)
AtTheLimits == << SwitchOf(a, Labels(MAX_CASES)), SwitchOf(a, << Default, Out(2, b), Break >> \o Labels(MAX_CASES - 1)), Deep(MAX_LOOPS),
                  Comparing("long", "long"), Comparing("ulong", "long") >>
Miscompiled == << Deep(MAX_LOOPS + 1), Comparing("char", "int"), Comparing("int", "uint"),
    Ending(RoundOf(Second(Again))),
    Alone(<< Out(0, Bin("&&", a, Lit(2))) >>),
    Alone(<< Out(0, CastTo("bool", a)) >>),
    Alone(<< Decl("x", "char", a), Out(0, Prefix("-", x)) >>),
    Alone(<< Decl("x", "char", a), Do(Bin("/=", x, b)), Out(0, x) >>),
    File(<< Twice, KernelOf(<< Out(0, Call("h", << Less >>)) >>) >>),
    Alone(<< ConstInt("n", Lit(2)), Block(<< Decl("n", "int", a), Switch(Id("n"), << Case(Lit(2)), Out(0, b), Break, Default, Out(1, b), Break >>) >>) >>),
    Alone(<< Break3 >>), Alone(<< ForI(b, Block(<< Break3, Out(1, a) >>)) >>) >>
(* One case that goes on into the next, one past MAX_CASES, an inner x that stays. *)
Malformed == <<
    SwitchOf(a, << Case(Lit(2)), Out(0, a), Case(Lit(3)), Out(1, b), Break >>), SwitchOf(a, Labels(MAX_CASES + 1)),
    Alone(<< Decl("x", "int", a), Switch(a, << Default, Break, Case(Lit(2)), Decl("x", "int", b), Out(0, x), Break >>), Out(1, x) >>) >>
(* A constant that has its value whatever is divided by nothing. *)
NeverDivided == Alone(<< ConstInt("n", Bin("&&", Lit(0), Bin("/", Lit(1), Lit(0)))), Array("v", Bin("+", Id("n"), Lit(1)), <<>>), Out(0, a) >>)

(* A program of which any one bracket or semicolon may be missing. *)
Brittle ==
    Alone(<< Decl("x", "int", Bin("*", a, Bin("+", b, a))), ForI(a, Block(<< If(Less, Block(<< Out(0, x) >>), None), Out(1, b) >>)),
             Loop(Less, Break), Switch(a, << Case(Lit(1)), Break >>), Out(2, b) >>)

-----------------------------------------------------------------------------
(***************************************************************************)
(* A file as the tokens a programmer would write, with the parentheses     *)
(* the grammar of C asks for and no others.                                *)
(***************************************************************************)

Tok(t) == << [t |-> t, v |-> ""] >>
Name(s) == << [t |-> "ident", v |-> s] >>
Number(i) == << [t |-> "number", v |-> i] >>

(* Sequences of token sequences, one after the other. *)
Cat(ss) == ForEach(ss, <<>>, LAMBDA toks, s : toks \o s)
Toks(ts) == [i \in DOMAIN ts |-> Tok(ts[i])[1]]
Sep(ss, t) == ForEach(ss, <<>>, LAMBDA toks, s : IF toks = <<>> THEN s ELSE toks \o Tok(t) \o s)
Map(s, Op(_)) == [i \in DOMAIN s |-> Op(s[i])]

(***************************************************************************)
(* Types.  The file begins with typedef int T.                             *)
(***************************************************************************)
Spelling ==
    [void |-> << "void" >>, bool |-> << "bool" >>, char |-> << "char" >>, uchar |-> << "unsigned", "char" >>,
     int |-> << "int" >>, uint |-> << "unsigned" >>, long |-> << "long" >>, ulong |-> << "unsigned", "long" >>]
Bare(t) == SelectSeq(t, LAMBDA w : w # "ptr")
Stars(t) == Map(SelectSeq(t, LAMBDA w : w = "ptr"), LAMBDA w : Tok("*")[1])
Specifier(t) == IF Bare(t)[1] = "struct" THEN Name(Bare(t)[2]) ELSE Toks(Spelling[Bare(t)[1]])
TypeToks(t) == Specifier(t) \o Stars(t)

(***************************************************************************)
(* Expressions, by the levels of the grammar, from the comma's to a        *)
(* primary's.                                                              *)
(***************************************************************************)
OpLevel(op) ==
    CASE op \in {"*", "/", "%"} -> 13 [] op \in {"+", "-"} -> 12 [] op \in {"<<", ">>"} -> 11
      [] op \in {"<", ">", "<=", ">="} -> 10 [] op \in {"==", "!="} -> 9 [] op = "&" -> 8 [] op = "^" -> 7
      [] op = "|" -> 6 [] op = "&&" -> 5 [] op = "||" -> 4 [] op = "," -> 1 [] OTHER -> 2
ASSIGN == 2
TERNARY == 3
UNARY == 14
POSTFIX == 15
Level(n) ==
    CASE n.k = "binary"                                  -> OpLevel(n.op)
      [] n.k = "ternary"                                 -> TERNARY
      [] n.k = "init"                                    -> ASSIGN
      [] n.k = "prefix"                                  -> UNARY
      [] n.k = "cast" /\ n.op \in {<< "int" >>, << "uint" >>} -> UNARY
      [] n.k \in {"call", "subscript", "member", "postfix", "cast"} -> POSTFIX
      [] OTHER                                           -> 16

RECURSIVE Bare0(_)
Expr(n, level) == IF Level(n) < level THEN Tok("(") \o Bare0(n) \o Tok(")") ELSE Bare0(n)
Args(ns) == Sep(Map(ns, LAMBDA n : Expr(n, ASSIGN)), ",")

(* Four ways to write a cast. *)
CastToks(t, e) ==
    CASE t = << "int" >>  -> Tok("(") \o Name("T") \o Tok(")") \o Expr(e, UNARY)
      [] t = << "uint" >> -> Toks(<< "(", "unsigned", ")" >>) \o Expr(e, UNARY)
      [] t = << "long" >> -> Toks(<< "long", "(" >>) \o Expr(e, ASSIGN) \o Tok(")")
      [] OTHER            -> Toks(<< "static_cast", "<" >>) \o TypeToks(t) \o Toks(<< ">", "(" >>) \o Expr(e, 1) \o Tok(")")
BinaryToks(n) ==
    IF OpLevel(n.op) = ASSIGN
    THEN Expr(n.kids[1], UNARY) \o Tok(n.op) \o Expr(n.kids[2], ASSIGN)
    ELSE Expr(n.kids[1], OpLevel(n.op)) \o Tok(n.op) \o Expr(n.kids[2], OpLevel(n.op) + 1)
Bare0(n) ==
    CASE n.k = "int"       -> Number(n.op)
      [] n.k = "ident"     -> Name(n.op)
      [] n.k = "binary"    -> BinaryToks(n)
      [] n.k = "ternary"   -> Expr(n.kids[1], TERNARY + 1) \o Tok("?") \o Expr(n.kids[2], 1) \o Tok(":") \o Expr(n.kids[3], TERNARY)
      [] n.k = "prefix"    -> Tok(n.op) \o Expr(n.kids[1], UNARY)
      [] n.k = "postfix"   -> Expr(n.kids[1], POSTFIX) \o Tok(n.op)
      [] n.k = "subscript" -> Expr(n.kids[1], POSTFIX) \o Tok("[") \o Expr(n.kids[2], 1) \o Tok("]")
      [] n.k = "member"    -> Expr(n.kids[1], POSTFIX) \o Tok(IF n.op.arrow THEN "->" ELSE ".") \o Name(n.op.name)
      [] n.k = "call"      -> Name(n.op) \o Tok("(") \o Args(n.kids) \o Tok(")")
      [] n.k = "cast"      -> CastToks(n.op, n.kids[1])
      [] n.k = "init"      -> Tok("{") \o Args(n.kids) \o Tok("}")
Opt(n) == IF IsNone(n) THEN <<>> ELSE Expr(n, 1)

(***************************************************************************)
(* Declarations.  One that follows another of the same type is written as  *)
(* its next declarator.  A loop counter is a T.                            *)
(***************************************************************************)
DeclSpec(n) ==
    (IF "const" \in n.op.q THEN Tok("const") ELSE <<>>)
    \o (IF n.op.name = "i" THEN Name("T") ELSE Specifier(n.op.ty))
DeclName(n) ==
    Stars(n.op.ty) \o (IF "ref" \in n.op.q THEN Tok("&") ELSE <<>>) \o Name(n.op.name)
    \o (IF IsNone(n.op.dim) THEN <<>> ELSE Tok("[") \o Expr(n.op.dim, ASSIGN) \o Tok("]"))
    \o (IF n.kids = <<>> THEN <<>> ELSE Tok("=") \o Expr(n.kids[1], ASSIGN))
DeclToks(n) == DeclSpec(n) \o DeclName(n) \o Tok(";")
Joins(m, n) == m.k = "decl" /\ n.k = "decl" /\ Bare(m.op.ty) = Bare(n.op.ty) /\ m.op.q = {} /\ n.op.q = {}

(***************************************************************************)
(* Statements.                                                             *)
(***************************************************************************)
RECURSIVE Stmt(_)
Under(t, n) == Tok(t) \o Tok("(") \o Expr(n, 1) \o Tok(")")
Braced(ts) == Tok("{") \o ts \o Tok("}")
Plain == {"expr", "block", "break", "continue", "return", "goto"}
StmtSeq(ss) ==
    Cat([i \in DOMAIN ss |->
           IF i > 1 /\ Joins(ss[i - 1], ss[i]) THEN DeclName(ss[i]) \o Tok(IF i < Len(ss) /\ Joins(ss[i], ss[i + 1]) THEN "," ELSE ";")
           ELSE IF i < Len(ss) /\ Joins(ss[i], ss[i + 1]) THEN DeclSpec(ss[i]) \o DeclName(ss[i]) \o Tok(",")
           ELSE Stmt(ss[i])])
ThenToks(s, e) == IF IsNone(e) \/ s.k \in Plain THEN Stmt(s) ELSE Braced(Stmt(s))
Stmt(n) ==
    CASE n.k = "none"     -> Tok(";")
      [] n.k = "expr"     -> Expr(n.kids[1], 1) \o Tok(";")
      [] n.k = "decl"     -> DeclToks(n)
      [] n.k = "block"    -> Braced(StmtSeq(n.kids))
      [] n.k = "if"       -> (IF n.op = "constexpr" THEN Tok("if") \o Under("constexpr", n.kids[1]) ELSE Under("if", n.kids[1]))
                             \o ThenToks(n.kids[2], n.kids[3])
                             \o (IF IsNone(n.kids[3]) THEN <<>> ELSE Tok("else") \o Stmt(n.kids[3]))
      [] n.k = "while"    -> Under("while", n.kids[1]) \o Stmt(n.kids[2])
      [] n.k = "dowhile"  -> Tok("do") \o Stmt(n.kids[1]) \o Under("while", n.kids[2]) \o Tok(";")
      [] n.k = "for"      -> Toks(<< "for", "(" >>) \o Stmt(n.kids[1]) \o Opt(n.kids[2]) \o Tok(";") \o Opt(n.kids[3]) \o Tok(")") \o Stmt(n.kids[4])
      [] n.k = "switch"   -> Under("switch", n.kids[1]) \o Stmt(n.kids[2])
      [] n.k = "case"     -> Tok("case") \o Expr(n.kids[1], TERNARY) \o Tok(":")
      [] n.k = "default"  -> Toks(<< "default", ":" >>)
      [] n.k = "label"    -> Name(n.op) \o Tok(":")
      [] n.k = "goto"     -> Tok("goto") \o Name(n.op) \o Tok(";")
      [] n.k = "return"   -> Tok("return") \o Args(n.kids) \o Tok(";")
      [] OTHER            -> Toks(<< n.k, ";" >>)

(***************************************************************************)
(* Files.                                                                  *)
(***************************************************************************)
ParamToks(pm) ==
    (IF pm.cst THEN Tok("const") ELSE <<>>) \o TypeToks(pm.ty) \o (IF pm.ref THEN Tok("&") ELSE <<>>) \o Name(pm.name)
    \o (IF IsNone(pm.dflt) THEN <<>> ELSE Tok("=") \o Expr(pm.dflt, ASSIGN))
FuncToks(F) ==
    Tok(IF F.kernel THEN "__global__" ELSE IF F.cexpr THEN "constexpr" ELSE "__device__") \o TypeToks(F.ret) \o Name(F.name)
    \o Tok("(") \o Sep(Map(F.params, ParamToks), ",") \o Tok(")") \o Stmt(F.body)
RecordToks(s, fields) ==
    Tok("struct") \o Name(s)
    \o Braced(Cat(Map(fields, LAMBDA f : TypeToks(f.ty) \o Name(f.name) \o Tok(";")))) \o Tok(";")
(* An enumerator of value n follows one of value n - 1. *)
EnumToks(e, v) ==
    Tok("enum") \o Name("Tag")
    \o Braced(Name("Before") \o Tok("=") \o Number(v - 1) \o Tok(",") \o Name(e)) \o Tok(";")
Tokens(file) ==
    Tok("typedef") \o Tok("int") \o Name("T") \o Tok(";")
    \o Cat(Map(Seqs!SetToSeq(DOMAIN file.structs), LAMBDA s : RecordToks(s, file.structs[s])))
    \o Cat(Map(Seqs!SetToSeq(DOMAIN file.enums), LAMBDA e : EnumToks(e, file.enums[e])))
    \o Cat(Map(file.consts, DeclToks)) \o Cat(Map(file.funcs, FuncToks))
(* The places of brackets and semicolons; those of the semicolons of records. *)
Punctuation == {"(", ")", "[", "]", "{", "}", ";"}
Places(ts) == SelectSeq([i \in DOMAIN ts |-> i], LAMBDA i : ts[i].t \in Punctuation)
EndsRecord(ts, i) == ts[i].t = ";" /\ ts[i - 1].t = "}"
Without(ts, i) == Seqs!RemoveAt(ts, i)
(* A comma before the last parenthesis. *)
CommaLast(ts) ==
    LET at == Seqs!Max({i \in DOMAIN ts : ts[i].t = ")"}) IN SubSeq(ts, 1, at - 1) \o Tok(",") \o SubSeq(ts, at, Len(ts))

-----------------------------------------------------------------------------
(***************************************************************************)
(* Source files, for the preprocessor: what is written, and the tree it    *)
(* stands for.  A word is a number, a keyword or sign, or a name.          *)
(***************************************************************************)
Digits == "0" :> 0 @@ "1" :> 1 @@ "2" :> 2 @@ "3" :> 3 @@ "4" :> 4 @@ "5" :> 5 @@ "6" :> 6 @@ "7" :> 7
Signs == {"(", ")", "[", "]", "{", "}", ";", ",", "=", "+", "-", "*", "/", "%", "<", ">", "<=", ">=", "==", "!=", "!", "~", "&", "|", "^",
          "&&", "||", "<<", ">>", "#", "##", "...", "//", "/*", "*/", " ", "int", "if", "else", "static_assert"}
Written(w) == IF w \in DOMAIN Digits THEN Number(Digits[w])[1] ELSE IF w \in Signs THEN Tok(w)[1] ELSE Name(w)[1]
(* A line: its words, then tokens as they are. *)
LineOf(ws, ts, spl) == [words |-> ws, more |-> ts, spl |-> spl]
Line(ws) == LineOf(ws, <<>>, FALSE)
Spliced(ws) == LineOf(ws, <<>>, TRUE)
Typed(line) == [toks |-> Map(line.words, Written) \o line.more, spl |-> line.spl]
Quoted(name) == LineOf(<< "#", "include" >>, << [t |-> "string", v |-> name] >>, FALSE)
Angled(name) == LineOf(<< "#", "include" >>, << [t |-> "angle", v |-> name] >>, FALSE)

Main == << "here", "k.cu" >>
Sources(files, defs) == [files |-> files, main |-> Main, paths |-> << "inc", "sys" >>, defs |-> defs]
(* A file in lines of at most LineWidth tokens. *)
LineWidth == 24
InLines(ts) == [l \in 1 .. (Len(ts) + LineWidth - 1) \div LineWidth |-> SubSeq(ts, ((l - 1) * LineWidth) + 1, Seqs!Min({Len(ts), l * LineWidth}))]
OnLines(ts) == Sources(Main :> Map(InLines(ts), LAMBDA line : [toks |-> line, spl |-> FALSE]), <<>>)

(* The lines of a kernel's body, those after the kernel, the headers, the flags,
   the other functions of the file, and what the body stands for. *)
Body(lines, stmts) == [lines |-> lines, after |-> <<>>, headers |-> <<>>, defs |-> <<>>, fs |-> <<>>, stmts |-> stmts]
Among(hs, lines, stmts) == [Body(lines, stmts) EXCEPT !.headers = hs]
Opening(fs) == Seqs!Front(Tokens(File(fs \o << KernelOf(<<>>) >>)))
InFile(c) == << LineOf(<<>>, Opening(c.fs), FALSE) >> \o c.lines \o << Line(<< "}" >>) >> \o c.after
FileOf(c) == File(c.fs \o << KernelOf(c.stmts) >>)
TypedFiles(files) == [f \in DOMAIN files |-> Map(files[f], Typed)]
Source(c) == Sources(TypedFiles(c.headers @@ Main :> InFile(c)), c.defs)
Define(ws) == Line(<< "#", "define" >> \o ws)
IfLine(ws) == Line(<< "#", "if" >> \o ws)
Elif(ws) == Line(<< "#", "elif" >> \o ws)
Endif == Line(<< "#", "endif" >>)
Else == Line(<< "#", "else" >>)
PutWords(i, ws) == << "out", "[", i, "]", "=" >> \o ws \o << ";" >>
Put(i, ws) == Line(PutWords(i, ws))

(* Chains of conditions in the arms of another. *)
Flags == << "0", "1" >>
Arms(o, c, d) ==
    Body(<< IfLine(<< o >>), IfLine(<< c >>), Put("0", << "1" >>), Elif(<< d >>), Put("0", << "2" >>), Else, Put("0", << "3" >>), Endif,
             Else, Line(<< "#", "error" >>), Line(<< "#", "nonsense" >>), IfLine(<< "1" >>), Put("0", << "4" >>), Elif(<< d >>), Put("0", << "5" >>), Endif,
             Endif, Put("1", << "a" >>) >>,
          << Out(0, Lit(IF c = "1" THEN 1 ELSE IF d = "1" THEN 2 ELSE 3)), Out(1, a) >>)
NotTaken(c, d) ==
    Body(<< IfLine(<< "0" >>), IfLine(<< c >>), Put("0", << "1" >>), Elif(<< d >>), Line(<< "#", "error" >>), Else, Line(<< "#", "nonsense" >>), Endif,
             Elif(<< d >>), Put("0", << "2" >>), Elif(<< "1" >>), Put("0", << "3" >>), Else, Put("0", << "4" >>), Endif, Put("1", << "a" >>) >>,
          << Out(0, Lit(IF d = "1" THEN 2 ELSE 3)), Out(1, a) >>)
Conditioned == Pairs(Flags, Flags, LAMBDA c, d : Arms("1", c, d)) \o Pairs(Flags, Flags, NotTaken)

(* Expressions: two operators on numbers, grouped either way, and what an
   integer constant expression is worth. *)
RECURSIVE Worth(_)
Applied(op, l, r) ==
    CASE op = "+" -> l + r [] op = "-" -> l - r [] op = "*" -> l * r [] op = "/" -> l \div r [] op = "%" -> l % r
      [] op = "<<" -> l * 2^r [] op = ">>" -> l \div 2^r [] op = "&" -> l & r [] op = "|" -> l | r [] op = "^" -> l ^^ r
      [] op = "<" -> (IF l < r THEN 1 ELSE 0) [] op = "==" -> (IF l = r THEN 1 ELSE 0)
      [] op = "&&" -> (IF l # 0 /\ r # 0 THEN 1 ELSE 0) [] op = "||" -> (IF l # 0 \/ r # 0 THEN 1 ELSE 0)
Worth(n) == IF n.k = "int" THEN n.op ELSE Applied(n.op, Worth(n.kids[1]), Worth(n.kids[2]))
BinaryOps == << "+", "-", "*", "/", "%", "<<", ">>", "&", "|", "^", "<", "==", "&&", "||" >>
Divides(op) == op \in {"/", "%"}
Known(n) == n.k = "int" \/ (Worth(n.kids[1]) >= 0 /\ (Worth(n.kids[2]) > 0 \/ ~Divides(n.op)))
Triples == << << 6, 3, 1 >>, << 1, 3, 1 >> >>
Trees(op, op2) ==
    SelectSeq(Each(Triples, LAMBDA v : Bin(op, Bin(op2, Lit(v[1]), Lit(v[2])), Lit(v[3])))
              \o Each(Triples, LAMBDA v : Bin(op, Lit(v[1]), Bin(op2, Lit(v[2]), Lit(v[3])))), Known)
Misjudged(n) ==
    << LineOf(<< "#", "if" >>, Tok("(") \o Expr(n, 1) \o Tok(")") \o Tok("!=") \o Number(Worth(n)), FALSE), Put("0", << "7" >>), Endif >>
Evaluated ==
    Each(BinaryOps, LAMBDA op :
        Body(Cat(Map(Seqs!FlattenSeq(Map(BinaryOps, LAMBDA o : Trees(op, o))), Misjudged)) \o << Put("1", << "b" >>) >>, << Out(1, b) >>))
Tests == <<
    << << "defined", "(", "A", ")" >>, TRUE >>, << << "defined", " ", "B" >>, FALSE >>, << << "!", "defined", "B", "&&", "A" >>, TRUE >>,
    << << "-", "1", "<", "0" >>, TRUE >>, << << "2", "-", "-", "1", "==", "3" >>, TRUE >>, << << "~", "0", "==", "-", "1" >>, TRUE >>,
    << << "!", "A", "+", "1", "==", "0" >>, FALSE >>, << << "M", "==", "-", "2" >>, TRUE >>, << << "B" >>, FALSE >>, << << "F" >>, FALSE >>,
    << << "__BARRACUDA__", "||", "(", "A", "/", "2" >>, TRUE >>, << << "-", "7", "/", "2", "==", "-", "3" >>, TRUE >>, << << "!", "!", "A" >>, TRUE >>, << << "-", "~", "0", "==", "1" >>, TRUE >>,
    << << "A", "//" >>, TRUE >>, << << "A", "==", "5", "/*", "*/" >>, TRUE >> >>
Tested(t) == << IfLine(t[1]), IF t[2] THEN Line(<<>>) ELSE Put("0", << "7" >>), Else, IF t[2] THEN Put("0", << "6" >>) ELSE Line(<<>>), Endif >>
Asked ==
    << Body(<< Define(<< "A", " ", "5" >>), Define(<< "M", " ", "-", "2" >>), Define(<< "F", "(", "x", ")", "1" >>) >>
             \o Cat(Map(Tests, Tested)) \o << Put("1", << "b" >>) >>, << Out(1, b) >>) >>

(* Macros. *)
Add == Define(<< "ADD", "(", "u", ",", " ", "v", ")", " ", "u", "+", "v" >>)
Cat2 == Define(<< "CAT", "(", "u", ",", "v", ")", "u", " ", "##", " ", "v" >>)
Expanding == <<
    Body(<< Define(<< "A", " ", "B" >>), Define(<< "B", " ", "a" >>), Put("0", << "A" >>), Line(<< "#", "undef", "B" >>),
             Define(<< "B", " ", "b" >>), Put("1", << "A", "+", "B" >>) >>, << Out(0, a), Out(1, Bin("+", b, b)) >>),
    Body(<< Define(<< "b", " ", "(", "b", "+", "1", ")" >>), Put("2", << "b" >>), Define(<< "a", " ", "a" >>), Define(<< "x", " ", "y" >>), Define(<< "y", " ", "x" >>), Line(<< "int", "x", "=", "a", ";" >>),
             Put("0", << "x" >>), Put("1", << "x", "+", "x" >>) >>, << Out(2, Bin("+", b, Lit(1))), Decl("x", "int", a), Out(0, x), Out(1, Bin("+", x, x)) >>),
    Body(<< Add, Put("0", << "ADD", "(", "(", "a", ",", "b", ")", ",", " ", "b", ")" >>), Put("1", << "ADD", " ", "(", "b", ",", "a", ")", "-", "b" >>) >>
          \o << Put("2", << "b" >>) >>, << Out(0, Bin("+", Bin(",", a, b), b)), Out(1, Bin("-", Bin("+", b, a), b)), Out(2, b) >>),
    Body(<< Define(<< "f", "(", "u", ")", "3" >>), Line(<< "int", "f", "=", "a", ";" >>), Put("0", << "f" >>), Put("1", << "f", "(", "f", ")" >>) >>,
          << Decl("f", "int", a), Out(0, Id("f")), Out(1, Lit(3)) >>),
    Body(<< Add, Define(<< "SUB", "(", "u", ",", "v", ")", "(", "u", "-", "v", ")" >>), Put("0", << "ADD", "(", "SUB", "(", "a", ",", "b", ")", ",", "a", ")" >>),
             Line(<< "out", "[", "1", "]", "=", "ADD", "(", "a", ",", "//", "ADD", "(" >>), Line(<< "SUB", "(", "b", "," >>), Line(<< "1", "/*", ",", "*/", ")", ")", ";" >>) >>,
          << Out(0, Bin("+", Bin("-", a, b), a)), Out(1, Bin("+", a, Bin("-", b, Lit(1)))) >>),
    [Body(<< Define(<< "CALL", "(", "g", ",", "...", ")", "g", "(", "__VA_ARGS__", ")" >>), Define(<< "DROP", "(", "...", ")" >>),
            Define(<< "FIRST", "(", "u", ",", "...", ")", "u", "__VA_ARGS__" >>), Line(<< "DROP", "(", "7", ",", "7", ")" >>),
            Put("0", << "CALL", "(", "f", ",", "a", ",", "b", ")" >>), Put("1", << "FIRST", "(", "a", ")", "+", "FIRST", "(", "b", ",", "+", "1", ")" >>) >>,
        << Out(0, Call("f", << a, b >>)), Out(1, Bin("+", Bin("+", a, b), Lit(1))) >>) EXCEPT !.fs = << Minus >>],
    Body(<< Cat2, Define(<< "xy", " ", "b" >>), Line(<< "CAT", "(", "ou", ",", "t", ")", "[", "0", "]", "=", "CAT", "(", "x", ",", "y", ")", ";" >>),
             Put("1", << "CAT", "(", ",", "a", ")" >>), Put("2", << "a", "CAT", "(", "<", ",", "<", ")", "1" >>), Line(<< "int", "CAT", "(", "z", ",", "1", ")", "=", "b", ";" >>),
             Put("3", << "z1" >>) >>, << Out(0, b), Out(1, a), Out(2, Bin("<<", a, Lit(1))), Decl("z1", "int", b), Out(3, Id("z1")) >>),
    Body(<< Define(<< "CHECK", "(", "e", ")", "static_assert", "(", "e", ",", "#", "e", ")" >>), Line(<< "CHECK", "(", "1", "<", "2", ")", ";" >>),
             Put("0", << "a" >>) >>, << Out(0, a) >>),
    Body(<< Define(<< "A", " ", "1" >>), Define(<< "A", " ", "2" >>), Define(<< "G0", "(", ")", "A" >>), Put("0", << "G0", "(", ")" >>),
             Put("1", << "__LINE__" >>) >>, << Out(0, Lit(2)), Out(1, Lit(6)) >>),
    Body(<< [Define(<< "SUM", "(", "u", ")", " ", "u", "+" >>) EXCEPT !.spl = TRUE], Line(<< "b", "//", "why" >>),
             Spliced(<< "out", "[", "0", "]", "=" >>), Line(<< "SUM", "(", "a", ")", ";" >>), Put("1", << "__LINE__" >>) >>,
          << Out(0, Bin("+", a, b)), Out(1, Lit(6)) >>),
    Body(<< Add, Line(<< "/*", "ADD", "(", "}" >>), Line(<< "ADD", "(", "*/", "out", "[", "0", "]", "=", "a", ";", "//", "ADD", "(", "}" >>),
             Define(<< "S", " ", "a", "/*", "7", "*/", "+", "b", "//", "why" >>), Put("1", << "S" >>) >>, << Out(0, a), Out(1, Bin("+", a, b)) >>),
    Body(<< Line(<< "#" >>), Line(<< "#", "pragma", "unroll" >>), Line(<< "#", "warning", "ADD", "(" >>), Line(<< "#", "ifndef", "__CUDACC__" >>), Put("0", << "7" >>),
             Line(<< "#", "endif" >>), Line(<< "#", "ifdef", "__CUDACC__" >>), Put("0", << "b" >>), Endif >>, << Out(0, b) >>),
    [Body(<< Put("0", << "A", "+", "B" >>) >>, << Out(0, Bin("+", Lit(1), a)) >>)
        EXCEPT !.defs = << [name |-> "A", value |-> <<>>], [name |-> "B", value |-> Name("a")] >>] >>

(* Headers: where they are looked for, and how often they are read. *)
H(d, n) == << d, n >>
Guarded1(g, lines) == << Line(<< "#", "ifndef", g >>), Define(<< g >>) >> \o lines \o << Endif >>
Once(lines) == << Line(<< "#", "pragma", "once" >>) >> \o lines
Included == <<
    Among(H("here", "h") :> << Define(<< "V", " ", "a" >>) >> @@ H("inc", "h") :> << Define(<< "V", " ", "b" >>) >> @@ H("sys", "h") :> << Define(<< "V", " ", "7" >>) >>,
          << Quoted("h"), Put("0", << "V" >>), Line(<< "#", "undef", "V" >>), Angled("h"), Put("1", << "V" >>) >>, << Out(0, a), Out(1, b) >>),
    Among(H("sys", "n") :> << Quoted("m") >> @@ H("sys", "m") :> << Define(<< "V", " ", "a" >>) >> @@ H("inc", "m") :> << Define(<< "V", " ", "7" >>) >>,
          << Angled("n"), Put("0", << "V" >>), Angled("none"), Quoted("none"), Put("1", << "__LINE__" >>) >>, << Out(0, a), Out(1, Lit(6)) >>),
    Among(H("here", "p") :> Once(<< Quoted("q"), Define(<< "PV", " ", "QV" >>), Put("0", << "b" >>) >>)
          @@ H("here", "q") :> Once(<< Quoted("p"), Define(<< "QV", " ", "a" >>) >>),
          << Quoted("p"), Quoted("q"), Put("1", << "PV" >>) >>, << Out(0, b), Out(1, a) >>),
    Among(H("here", "p") :> Guarded1("P_H", << Quoted("q"), Line(PutWords("0", << "b" >>)) >>) @@ H("here", "q") :> Guarded1("Q_H", << Quoted("p"), Put("1", << "a" >>) >>),
          << Quoted("p"), Quoted("q"), Quoted("p") >>, << Out(1, a), Out(0, b) >>),
    Among(H("here", "s") :> << Put("0", << "N" >>) >>, << Define(<< "N", " ", "a" >>), Quoted("s"), Line(<< "#", "undef", "N" >>), Define(<< "N", " ", "b" >>), Quoted("s") >>,
          << Out(0, a), Out(0, b) >>) >>

Preprocessed == Conditioned \o Evaluated \o Asked \o Expanding \o Included

(* Files the preprocessor must refuse: the kernel itself is in order. *)
Twice4(n, m) == Define(<< n, " ", m, "+", m, "+", m, "+", m >>)
Self == H("here", "self") :> << Quoted("self") >>
Broken == <<
    << Line(<< "#", "error" >>) >>, << IfLine(<< "1" >>) >>, << IfLine(<< "0" >>), Else >>, << Endif >>, << Else >>, << Line(<< "#", "nonsense" >>) >>,
    << IfLine(<< "1" >>), Elif(<< "1" >>), Endif, Endif >>, << Line(<< "#", "include", " ", "h" >>) >>, << Line(<< "#", "define", " ", "1" >>) >>,
    << Add, Put("0", << "ADD", "(", "a" >>) >>, << Add, Line(<< "ADD", "(" >>), Line(<<>>), Line(<<>>), Line(<<>>), Line(<< "a", ",", "b", ")", ";" >>) >>,
    << Define(<< "FIRST", "(", "u", ",", "...", ")", "u" >>), Put("0", << "FIRST", "(", "a", ",", "1", ",", "2", ",", "3", ",", "4", ")" >>) >>,
    << Define(<< "F", "(", "u", ",", "v", ",", "w", ",", "x", ")", "u" >>) >>, << Quoted("self") >>,
    << IfLine(<< "1" >>), IfLine(<< "1" >>), IfLine(<< "1" >>), IfLine(<< "1" >>), Endif, Endif, Endif, Endif >>,
    [i \in 1 .. 10 |-> Define(<< << "A1", "A2", "A3", "A4", "A5", "A6", "A7", "A8", "A9", "A10" >>[i], " ", "1" >>)],
    << Twice4("A", "a"), Twice4("B", "A"), Twice4("C", "B"), Twice4("D", "C"), Put("0", << "D" >>) >> >>
Refused ==
    Each(Broken, LAMBDA lines : Among(Self, lines \o << Put("0", << "a" >>) >>, << Out(0, a) >>))
    \o << [Body(<< Put("0", << "a" >>) >>, << Out(0, a) >>) EXCEPT !.after = << Line(<< "/*", "never" >>) >>] >>

-----------------------------------------------------------------------------
TestBits == [i1 |-> 1, i8 |-> 2, i32 |-> 3, i64 |-> 4]
TestInputs == {[tape |-> <<>>, args |-> << GlobalAddr(9), n, m >>] : n \in {0, 2, 3, 7}, m \in {1, 3}}

Gpu == {"BE_F_NOCALL", "BE_F_REACH"}
(* A file as its tokens in lines, behind what leads and less the one at lost
   or with one more comma; or written out. *)
CaseOf(file, flags, target, legal) ==
    [file |-> file, off |-> flags, be |-> target, legal |-> legal, known |-> {},
     lead |-> <<>>, lost |-> 0, comma |-> FALSE, written |-> <<>>]
OnGpu(file, legal, flaws) == [CaseOf(file, {}, Gpu, legal) EXCEPT !.known = flaws]
Lacking(file, ts) ==
    Each(Places(ts), LAMBDA i : [OnGpu(file, FALSE, IF EndsRecord(ts, i) THEN {"accepted"} ELSE {}) EXCEPT !.lost = i])
(* f(a, b,), and a variable that is written and never read. *)
TwoArgs == File(<< Minus, KernelOf(<< Out(0, Call("f", << a, b >>)) >>) >>)
OneMore == [OnGpu(TwoArgs, FALSE, {"accepted"}) EXCEPT !.comma = TRUE]
Writing == [Alone(<< Set(Id("seen"), b), Out(0, a) >>) EXCEPT !.globals = << [name |-> "seen", ty |-> << "int" >>] >>]
Unread ==
    [OnGpu(Writing, TRUE, {"refused"}) EXCEPT !.lead = Tok("__device__") \o Tok("int") \o Name("seen") \o Tok(";")]
WrittenOut(c, legal) == [OnGpu(FileOf(c), legal, {}) EXCEPT !.written = << c >>]
Printed(u, ts) ==
    u.lead \o (IF u.lost # 0 THEN Without(ts, u.lost) ELSE IF u.comma THEN CommaLast(ts) ELSE ts)
SourceOf(u) == IF u.written # <<>> THEN Source(u.written[1]) ELSE OnLines(Printed(u, Tokens(u.file)))
Job(u) ==
    [src |-> SourceOf(u), off |-> u.off, be |-> u.be, known |-> u.known,
     want |-> [i \in IF u.legal THEN TestInputs ELSE {} |-> C!Meaning(u.file, i.args)]]
Programs == Control \o Nested \o Conditional \o Converted \o Switched \o Folded \o Memory \o Called \o Grouped \o SwitchLoops \o AtTheLimits
AllJobs ==
    Each(Each(Programs, LAMBDA f : CaseOf(f, {}, Gpu, TRUE))
           \o Each(Called \o Memory, LAMBDA f : CaseOf(f, {"mem2reg", "dce"}, {}, TRUE))
           \o Each(Illegal, LAMBDA f : CaseOf(f, {}, Gpu, FALSE))
           \o Lacking(Brittle, Tokens(Brittle))
           \o Each(Accepted, LAMBDA f : OnGpu(f, FALSE, {"accepted"}))
           \o Each(Miscompiled, LAMBDA f : OnGpu(f, TRUE, {"miscompiled"}))
           \o Each(Malformed, LAMBDA f : OnGpu(f, TRUE, {"miscompiled", "malformed"}))
           \o << OnGpu(Nowhere, FALSE, {"accepted", "malformed"}), OnGpu(NeverDivided, TRUE, {"refused"}), OneMore, Unread >>
           \o Each(Preprocessed, LAMBDA c : WrittenOut(c, TRUE))
           \o Each(Refused, LAMBDA c : WrittenOut(c, FALSE)), Job)
TestJobs == AllJobs

(* Nested statements with --no-mem2reg, for a target with calls: blocks are
   numbered when they are opened, their instructions when they are filled. *)
IdleJobs == Each(Idle, LAMBDA f : Job(CaseOf(f, {"mem2reg"}, {}, TRUE)))
=============================================================================
