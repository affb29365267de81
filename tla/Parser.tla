------------------------------ MODULE Parser --------------------------------
(***************************************************************************)
(* src/src/fe/parser.c on the tokens of the language CAst has trees for:   *)
(* records, enumerations, type names, variables and functions, every       *)
(* statement, and the integer expressions.  Templates, lambdas, namespaces,*)
(* inline assembly and the literals of other types are left out.           *)
(*                                                                         *)
(* P holds the tokens, the position, whether an error was reported, the    *)
(* names registered as types, and what was parsed last: n, the nodes (none *)
(* where the code returns 0, several for a chain of declarators), ty and q,*)
(* the type and the qualifiers of a type specifier.                        *)
(***************************************************************************)
EXTENDS CAst, Loops, TLC

Peek(P, k) == P.toks[IF P.pos + k > Len(P.toks) THEN Len(P.toks) ELSE P.pos + k]
Kind(P, k) == Peek(P, k).t
Cur(P) == Kind(P, 0)
Advance(P) == IF P.pos <= Len(P.toks) THEN [P EXCEPT !.pos = @ + 1] ELSE P
Skip(P, k) == [P EXCEPT !.pos = @ + k]
ParseError(P) == [P EXCEPT !.err = TRUE]
Match(P, t) == IF Cur(P) = t THEN Advance(P) ELSE P
Expect(P, t) == IF Cur(P) = t THEN Advance(P) ELSE ParseError(P)

Nothing(P) == [P EXCEPT !.n = <<>>]
Give(P, node) == [P EXCEPT !.n = << node >>]
Word(tok) == IF tok.t = "ident" THEN tok.v ELSE tok.t

(* reg_tname, is_utype, btnams. *)
RegName(P, name) == [P EXCEPT !.names = @ \cup {name}]
BuiltinNames == {"size_t", "ptrdiff_t", "int8_t", "uint8_t", "int32_t", "uint32_t", "int64_t", "uint64_t"}
IsRegType(P, tok) == tok.v \in P.names \cup BuiltinNames

Storage == {"static", "extern", "register", "inline", "typedef", "virtual", "explicit", "mutable", "_Noreturn"}
Cuda == {"__global__", "__device__", "__host__", "__shared__", "__constant__", "__managed__",
         "__grid_constant__", "__restrict__", "__forceinline__", "__noinline__", "__launch_bounds__"}
Scalars == {"void", "bool", "char", "short", "int", "float", "double", "auto"}
Tagged == {"struct", "union", "class"}
TypeKeyword == Scalars \cup Tagged
               \cup {"long", "signed", "unsigned", "enum", "const", "volatile", "constexpr", "decltype"}
(* cuda_flag_for, storage_flag_for. *)
Flag(t) ==
    CASE t = "&" -> "ref" [] t = "__shared__" -> "shared" [] t = "__global__" -> "kernel" [] OTHER -> t
Noted(P) == [P EXCEPT !.q = @ \cup {Flag(Cur(P))}]
Qualifier == Storage \cup {"const", "volatile", "constexpr"}

(* sync_past_semi, sync_to_next_decl, skpar. *)
RECURSIVE SyncPastSemi(_)
SyncPastSemi(P) ==
    CASE Cur(P) \in {"eof", "}"} -> P
      [] Cur(P) = ";"            -> Advance(P)
      [] OTHER                   -> SyncPastSemi(Advance(P))

Begins == Storage \cup Cuda \cup {"if", "for", "while", "do", "return", "struct", "class", "enum"}
RECURSIVE SyncToNextDecl(_)
SyncToNextDecl(P) ==
    CASE Cur(P) \in {"eof", "{"} \cup Begins -> P
      [] Cur(P) \in {";", "}"}               -> Advance(P)
      [] OTHER                               -> SyncToNextDecl(Advance(P))

RECURSIVE SkipParens(_, _)
SkipParens(P, depth) ==
    CASE Cur(P) = "eof"               -> P
      [] Cur(P) = "("                 -> SkipParens(Advance(P), depth + 1)
      [] Cur(P) = ")" /\ depth > 1    -> SkipParens(Advance(P), depth - 1)
      [] Cur(P) = ")"                 -> Advance(P)
      [] OTHER                        -> SkipParens(Advance(P), depth)

(***************************************************************************)
(* Expressions: Pratt's method.  An operator has a left and a right power. *)
(***************************************************************************)
PrefixOps == {"!", "~", "+", "-", "*", "&", "++", "--"}
PREFIX == 150

Infix(t) ==
    CASE t = ","                     -> << 10, 11 >>
      [] t \in {"="} \cup AssignOps  -> << 21, 20 >>
      [] t = "?"                     -> << 31, 30 >>
      [] t = "||"                    -> << 40, 41 >>
      [] t = "&&"                    -> << 50, 51 >>
      [] t = "|"                     -> << 60, 61 >>
      [] t = "^"                     -> << 70, 71 >>
      [] t = "&"                     -> << 80, 81 >>
      [] t \in {"==", "!="}          -> << 90, 91 >>
      [] t \in {"<", ">", "<=", ">="} -> << 100, 101 >>
      [] t \in {"<<", ">>"}          -> << 110, 111 >>
      [] t \in {"+", "-"}            -> << 120, 121 >>
      [] t \in {"*", "/", "%"}       -> << 130, 131 >>
      [] OTHER                       -> << -1, -1 >>

CanStartUnary == PrefixOps \cup {"number", "charlit", "ident", "(", "true", "false", "sizeof"}

(* A name in parentheses is a cast if it is a type's and an operand follows. *)
LooksLikeCast(P) ==
    /\ Cur(P) = "("
    /\ \/ Kind(P, 1) \in TypeKeyword \cup {"__device__", "__host__"}
       \/ /\ Kind(P, 1) = "ident"
          /\ \/ Kind(P, 2) = "*"
             \/ /\ Kind(P, 2) = ")" /\ IsRegType(P, Peek(P, 1))
                /\ Kind(P, 3) \in CanStartUnary \cup {"{"}
             \/ /\ Kind(P, 2) = "&" /\ Kind(P, 3) = ")" /\ IsRegType(P, Peek(P, 1))

(* The parser calls itself, for the part named by what. *)
RECURSIVE Sub(_, _, _)
SubExpr(P, min) == Sub(P, "expr", min)
SubType(P) == Sub(P, "type", 0)
SubDecl(P) == Sub(P, "decl", 0)
SubStmt(P) == Sub(P, "stmt", 0)

(* What may follow the words of a type: a star makes it a pointer. *)
RECURSIVE Decorations(_, _, _)
Decorate(P, noted) ==
    CASE Cur(P) = "*"       -> [P EXCEPT !.ty = << "ptr" >> \o @]
      [] Cur(P) \in noted   -> Noted(P)
      [] OTHER              -> P
Decorations(P, toks, noted) ==
    IF Cur(P) \in toks THEN Decorations(Advance(Decorate(P, noted)), toks, noted) ELSE P
Pointers(P) == Decorations(P, {"*"}, {})
CastType(P) == Decorations(Pointers(SubType(P)), {"&", "&&"}, {})

(* Expressions separated by commas up to a closing token: each has parsed its own n. *)
RECURSIVE ExprList(_, _, _)
ListNext(P, close, acc) ==
    IF Cur(P) = "," THEN ExprList(Advance(P), close, acc \o P.n) ELSE [P EXCEPT !.n = acc \o P.n]
ExprList(P, close, acc) ==
    IF Cur(P) \in {close, "eof"} THEN [P EXCEPT !.n = acc] ELSE ListNext(SubExpr(P, 21), close, acc)
Enclosed(P, close) == Expect(ExprList(Advance(P), close, <<>>), close)

InitList(P) == Give(P, Node("init", "", P.n))
CastNode(P, t) == Give(P, Node("cast", t, P.n))

(* T(e), static_cast<T>(e), (T)e. *)
OneOrList(P, t) == CastNode(IF Len(P.n) = 1 THEN P ELSE InitList(P), t)
Functional(P) == OneOrList(Enclosed(P, ")"), P.ty)
AngleOperand(P, t) == CastNode(Expect(SubExpr(Expect(P, "("), 0), ")"), t)
AngleClose(P) == AngleOperand(Expect(P, ">"), P.ty)
AngleCast(P) == AngleClose(CastType(Expect(Advance(P), "<")))

Parenthesised(P) ==
    LET In == Expect(SubExpr(Advance(P), 0), ")") IN Give(In, Node("paren", "", In.n))
CastOr(P, back) ==
    IF Cur(P) = ")" /\ P.ty # <<>> THEN CastNode(SubExpr(Advance(P), PREFIX), P.ty)
    ELSE Parenthesised([back EXCEPT !.err = P.err])
Paren(P) ==
    IF LooksLikeCast(P) THEN CastOr(CastType(Advance(P)), P)
    ELSE Parenthesised(P)

PrefixNode(P, op) == Give(P, Node("prefix", op, P.n))
AggregateOf(P, name) == CastNode(InitList(Enclosed(P, "}")), << "name", name >>)

(* parse_primary. *)
ParsePrimary(P) ==
    CASE Cur(P) = "number"       -> Give(Advance(P), Node("int", Peek(P, 0).v, <<>>))
      [] Cur(P) = "charlit"      -> Give(Advance(P), Node("char", Peek(P, 0).v, <<>>))
      [] Cur(P) \in {"true", "false"}
                                 -> Give(Advance(P), Node("bool", IF Cur(P) = "true" THEN 1 ELSE 0, <<>>))
      [] Cur(P) = "ident" /\ Kind(P, 1) = "(" /\ IsRegType(P, Peek(P, 0))
                                 -> Functional(SubType(P))
      [] Cur(P) = "ident" /\ Kind(P, 1) = "{"
                                 -> AggregateOf(Advance(P), Peek(P, 0).v)
      [] Cur(P) = "ident"        -> Give(Advance(P), Node("ident", Peek(P, 0).v, <<>>))
      [] Cur(P) \in {"static_cast", "const_cast", "reinterpret_cast", "dynamic_cast"} -> AngleCast(P)
      [] Cur(P) \in TypeKeyword /\ Kind(P, 1) = "(" -> Functional(SubType(P))
      [] Cur(P) = "("            -> Paren(P)
      [] Cur(P) = "{"            -> InitList(Enclosed(P, "}"))
      [] Cur(P) \in PrefixOps    -> PrefixNode(SubExpr(Advance(P), PREFIX), Cur(P))
      [] OTHER                   -> Nothing(Advance(ParseError(P)))
(* parse_expr: postfix operators bind tightest; an infix one is taken while its
   left power is at least min. *)
RECURSIVE Climb(_, _)
CallNode(P, callee) == Give(P, Node("call", callee.op, P.n))
Subscript(P, base) == Expect(Give(P, Node("subscript", "", base \o P.n)), "]")
Member(P, base, arrow) == Give(Advance(P), Node("member", [name |-> Word(Peek(P, 0)), arrow |-> arrow], base))
Postfix(P, t) ==
    CASE t \in {"++", "--"} -> Give(Advance(P), Node("postfix", t, P.n))
      [] t = "("            -> CallNode(Enclosed(P, ")"), P.n[1])
      [] t = "["            -> Subscript(SubExpr(Advance(P), 0), P.n)
      [] t \in {".", "->"}  -> Member(Advance(P), P.n, t = "->")
TernaryNode(P, kids) == Give(P, Node("ternary", "", kids \o P.n))
TernaryElse(P, kids) == TernaryNode(SubExpr(Expect(P, ":"), Infix("?")[2]), kids \o P.n)
BinaryNode(P, op, lhs) == Give(P, Node("binary", op, lhs \o P.n))
Operation(P, t) ==
    IF t = "?" THEN TernaryElse(SubExpr(Advance(P), 0), P.n)
    ELSE BinaryNode(SubExpr(Advance(P), Infix(t)[2]), t, P.n)
Climb(P, min) ==
    CASE P.n = <<>> \/ Cur(P) \in {"eof", ";", "}"}              -> P
      [] Cur(P) \in {"++", "--", "(", "[", ".", "->"}           -> Climb(Postfix(P, Cur(P)), min)
      [] Infix(Cur(P))[1] >= 0 /\ Infix(Cur(P))[1] >= min       -> Climb(Operation(P, Cur(P)), min)
      [] OTHER                                                  -> P
ParseExpr(P, min) == Climb(ParsePrimary(P), min)

(***************************************************************************)
(* Type specifiers: qualifiers, the words of one type, qualifiers.         *)
(***************************************************************************)
RECURSIVE Qualifiers(_, _), BaseType(_, _, _)
LaunchBounds(P) ==
    IF Cur(P) # "(" THEN P
    ELSE LET Fewest(Q) == IF Cur(Q) = "," THEN SubExpr(Advance(Q), 21) ELSE Q
         IN  Expect(Fewest(SubExpr(Advance(P), 21)), ")")
Qualifiers(P, leading) ==
    CASE Cur(P) = "__launch_bounds__" /\ leading -> Qualifiers(LaunchBounds(Advance(P)), TRUE)
      [] Cur(P) \in (Cuda \ {"__launch_bounds__"}) \cup Qualifier -> Qualifiers(Advance(Noted(P)), leading)
      [] OTHER -> P

Unsigned == [char |-> "uchar", short |-> "ushort", int |-> "uint", long |-> "ulong", llong |-> "ullong"]
Typed0(P, w, uns) == [P EXCEPT !.ty = << IF uns /\ w \in DOMAIN Unsigned THEN Unsigned[w] ELSE w >>]
LongType(P, uns) ==
    CASE Cur(P) = "long"   -> Typed0(Advance(P), "llong", uns)
      [] Cur(P) = "double" -> Typed0(Advance(P), "ldouble", uns)
      [] OTHER             -> Typed0(P, "long", uns)
TagName(P, k) ==
    IF Cur(P) = "ident" THEN [Advance(P) EXCEPT !.ty = << k, Peek(P, 0).v >>] ELSE [P EXCEPT !.ty = << k, "" >>]
BaseType(P, uns, got) ==
    CASE Cur(P) \in {"unsigned", "signed"}  -> BaseType(Advance(P), Cur(P) = "unsigned", TRUE)
      [] Cur(P) \in {"const", "volatile"}   -> BaseType(Advance(Noted(P)), uns, got)
      [] Cur(P) \in Scalars                 -> Typed0(Advance(P), Cur(P), uns)
      [] Cur(P) = "long"                    -> LongType(Advance(P), uns)
      [] Cur(P) \in Tagged \cup {"enum"}    -> TagName(Advance(P), Cur(P))
      [] Cur(P) = "ident" /\ ~got           -> [Advance(P) EXCEPT !.ty = << "name", Peek(P, 0).v >>]
      [] OTHER                              -> IF got THEN Typed0(P, "int", uns) ELSE [P EXCEPT !.ty = <<>>]
ParseTypeSpec(P) ==
    LET Trailing(Q) == IF Q.ty = <<>> THEN Q ELSE Qualifiers(Q, FALSE)
    IN  Trailing(BaseType(Qualifiers([P EXCEPT !.q = {}], TRUE), FALSE, FALSE))

(***************************************************************************)
(* Declarations.                                                           *)
(***************************************************************************)
StartsDeclaration(P) ==
    \/ Cur(P) \in TypeKeyword \cup Storage \cup Cuda
    \/ Cur(P) = "ident" /\ Kind(P, 1) \in {"ident", "*", "&", "<"}

(* Statements up to a closing brace; one that makes no progress is skipped. *)
RECURSIVE Statements(_, _)
Progress(P, from, acc) ==
    Statements(IF P.n = <<>> /\ P.pos = from THEN SyncPastSemi(ParseError(P)) ELSE P, acc \o P.n)
Statements(P, acc) ==
    IF Cur(P) \in {"}", "eof"} THEN Give(Expect(P, "}"), Node("block", "", acc))
    ELSE Progress(SubStmt(P), P.pos, acc)
ParseBlock(P) == Statements(Expect(P, "{"), <<>>)

(* parse_param_list.  The brackets of an array parameter are dropped. *)
RECURSIVE ParamList(_, _), DropBrackets(_)
DropBrackets(P) ==
    IF Cur(P) # "[" THEN P
    ELSE LET Length(Q) == IF Cur(Q) = "]" THEN Q ELSE SubExpr(Q, 0)
         IN  DropBrackets(Expect(Length(Advance(P)), "]"))
Param(P, name, dflt) ==
    [name |-> name, ty |-> P.ty, ref |-> "ref" \in P.q, cst |-> "const" \in P.q, dflt |-> dflt]
ParamNext(P, acc) == IF Cur(P) = "," THEN ParamList(Advance(P), acc) ELSE [P EXCEPT !.n = acc]
ParamDefault(P, D, name, acc) == ParamNext(P, Append(acc, Param(D, name, IF P.n = <<>> THEN None ELSE P.n[1])))
ParamNamed(P, name, acc) ==
    IF Cur(P) = "=" THEN ParamDefault(SubExpr(Advance(P), 21), P, name, acc)
    ELSE ParamNext(P, Append(acc, Param(P, name, None)))
ParamName(P, acc) ==
    IF Cur(P) = "ident" THEN ParamNamed(DropBrackets(Advance(P)), Peek(P, 0).v, acc)
    ELSE ParamNamed(DropBrackets(P), "", acc)
ParamList(P, acc) ==
    IF Cur(P) \in {")", "eof"} THEN [P EXCEPT !.n = acc]
    ELSE ParamName(Decorations(SubType(P), {"*", "&", "&&", "const", "__restrict__"}, {"&", "const"}), acc)
ParseParamList(P) ==
    IF Cur(P) = "void" /\ Kind(P, 1) = ")" THEN Nothing(Advance(P)) ELSE ParamList(P, <<>>)

(* parse_declaration.  A declarator's type is the specifier's, with its own stars. *)
DeclNode(P, name, dim, init) == Node("decl", [name |-> name, ty |-> P.ty, q |-> P.q, dim |-> dim], init)
RECURSIVE Declarators(_, _), Dims(_, _)
Dims(P, dims) ==
    IF Cur(P) # "[" THEN [P EXCEPT !.n = dims]
    ELSE LET Length(Q) == IF Cur(Q) = "]" THEN Nothing(Q) ELSE SubExpr(Q, 0)
             Close(Q) == Dims(Expect(Q, "]"), dims \o Q.n)
         IN  Close(Length(Advance(P)))
Initialiser(P, first) ==
    CASE Cur(P) = "="          -> SubExpr(Advance(P), 21)
      [] Cur(P) = "{" /\ first -> InitList(Enclosed(P, "}"))
      [] OTHER                 -> Nothing(P)
SemiOrSync(P) == IF Cur(P) = ";" THEN Advance(P) ELSE SyncPastSemi(ParseError(P))
NextDeclarator(P, base, chain) ==
    IF Cur(P) = "," THEN Declarators(Pointers([Advance(P) EXCEPT !.ty = base]), chain)
    ELSE [SemiOrSync(P) EXCEPT !.n = chain]
Declared(P, D, name, dims, chain) ==
    NextDeclarator(P, SelectSeq(D.ty, LAMBDA w : w # "ptr"),
                   Append(chain, DeclNode(D, name, IF dims = <<>> THEN None ELSE dims[1], P.n)))
Declarator(P, D, name, chain) == Declared(Initialiser(P, chain = <<>>), D, name, P.n, chain)
Declarators(P, chain) ==
    IF Cur(P) = "ident" THEN Declarator(Dims(Advance(P), <<>>), P, Peek(P, 0).v, chain)
    ELSE Declarator(Dims(P, <<>>), P, "", chain)
Variables(P, name) == Declarators(IF "typedef" \in P.q THEN RegName(P, name) ELSE P, <<>>)

(* A function, or its declaration. *)
FuncNode(P, D, name, params) ==
    Give(P, Node(IF P.n = <<>> THEN "funcdecl" ELSE "func",
                 [name |-> name, params |-> params, ret |-> D.ty, q |-> D.q], P.n))
FuncBody(P) == IF Cur(P) = "{" THEN Statements(Advance(P), <<>>) ELSE Nothing(Match(P, ";"))
FuncTail(P) == Decorations(P, {"const", "noexcept", "override", "final"}, {})
Function(P, D, name) ==
    FuncNode(FuncBody(FuncTail(Expect(P, ")"))), D, name, P.n)

(* Records and enumerations: their names are types from the brace on. *)
RECURSIVE Members(_, _), Enumerators(_, _)
Members(P, acc) ==
    CASE Cur(P) \in {"}", "eof"} -> [P EXCEPT !.n = acc]
      [] Cur(P) \in {"public", "private", "protected"} -> Members(Match(Advance(P), ":"), acc)
      [] OTHER -> LET More(Q) == Members(Q, acc \o Q.n) IN More(SubDecl(P))
EnumValue(P) == IF Cur(P) = "=" THEN SubExpr(Advance(P), 21) ELSE Nothing(P)
EnumNext(P, acc) == IF Cur(P) = "," THEN Enumerators(Advance(P), acc) ELSE [P EXCEPT !.n = acc]
Enumerator(P, name, acc) == EnumNext(P, Append(acc, Node("enumerator", name, P.n)))
Enumerators(P, acc) ==
    CASE Cur(P) \in {"}", "eof"} -> [P EXCEPT !.n = acc]
      [] Cur(P) = "ident"        -> Enumerator(EnumValue(Advance(P)), Peek(P, 0).v, acc)
      [] OTHER                   -> Enumerator(EnumValue(P), "", acc)
DefNode(P, kind, name) == Give(Match(Expect(P, "}"), ";"), Node(kind, name, P.n))
Definition(P, tag) ==
    IF tag[1] = "enum" THEN DefNode(Enumerators(Advance(P), <<>>), "enumdef", tag[2])
    ELSE DefNode(Members(Advance(P), <<>>), "structdef", tag[2])

Named(P) ==
    IF Kind(P, 1) = "(" THEN Function(ParseParamList(Skip(P, 2)), P, Peek(P, 0).v)
    ELSE Variables(P, Peek(P, 0).v)
AfterType(P) == IF Cur(P) = "ident" THEN Named(P) ELSE Give(Match(P, ";"), Node("type", P.ty, <<>>))
Declares(P) ==
    CASE P.ty = <<>> -> Nothing(Advance(ParseError(P)))
      [] P.ty[1] \in Tagged \cup {"enum"} /\ Cur(P) = "{" -> Definition(RegName(P, P.ty[2]), P.ty)
      [] OTHER -> AfterType(Decorations(Pointers(P), {"const", "&", "&&", "__restrict__"}, {"&"}))
ParseDeclaration(P) == Declares(SubType(P))

(***************************************************************************)
(* Statements.                                                             *)
(***************************************************************************)
Condition(P) == Expect(SubExpr(Expect(P, "("), 0), ")")

(* hasin: a semicolon before the parenthesis closes. *)
HasInit(P) ==
    LET RECURSIVE from(_, _)
        from(i, d) ==
            CASE Kind(P, i) = "eof" \/ (Kind(P, i) = ")" /\ d = 0) -> FALSE
              [] Kind(P, i) = ";" /\ d = 0                          -> TRUE
              [] Kind(P, i) \in {"(", "[", "{"}                     -> from(i + 1, d + 1)
              [] Kind(P, i) \in {")", "]", "}"}                     -> from(i + 1, d - 1)
              [] OTHER                                              -> from(i + 1, d)
    IN  from(0, 0)
Wrap(P, init) == IF init = <<>> THEN P ELSE Give(P, Node("block", "", init \o P.n))

(* if ([init;] cond) stmt [else stmt]: an else belongs to the nearest if. *)
IfNode(P, op, kids) == Give(P, Node("if", op, kids \o P.n))
IfElse(P, op, cond) ==
    IF Cur(P) = "else" THEN IfNode(SubStmt(Advance(P)), op, cond \o P.n)
    ELSE IfNode(Nothing(P), op, cond \o P.n)
IfThen(P, op) == IfElse(SubStmt(Expect(P, ")")), op, P.n)
IfCond(P, op, init) == Wrap(IfThen(SubExpr(P, 0), op), init)
IfHead(P, op) == IF HasInit(P) THEN LET In == SubStmt(P) IN IfCond(In, op, In.n) ELSE IfCond(P, op, <<>>)
ParseIf(P) ==
    IF Cur(P) = "constexpr" THEN IfHead(Expect(Advance(P), "("), "constexpr") ELSE IfHead(Expect(P, "("), "")

Loop(P, kind, head) == Give(P, Node(kind, "", head \o P.n))
ParseWhile(P) == LET C == Condition(P) IN Loop(SubStmt(C), "while", C.n)
DoUntil(P, body) == Loop(Expect(P, ";"), "dowhile", body)
ParseDo(P) == LET B == SubStmt(P) IN DoUntil(Condition(Expect(B, "while")), B.n)

Absent(P) == Give(P, None)
ForBody(P, head) == Loop(SubStmt(Expect(P, ")")), "for", head \o P.n)
ForStep(P, head) == ForBody(IF Cur(P) = ")" THEN Absent(P) ELSE SubExpr(P, 0), head)
ForCond(P, head) == LET C == IF Cur(P) = ";" THEN Absent(P) ELSE SubExpr(P, 0) IN ForStep(Expect(C, ";"), head \o C.n)
ForInit(P) ==
    CASE Cur(P) = ";"         -> Absent(Advance(P))
      [] StartsDeclaration(P) -> SubDecl(P)
      [] OTHER                -> Match(SubExpr(P, 0), ";")
ParseFor(P) == LET I == ForInit(Expect(P, "(")) IN ForCond(I, I.n)

SwitchOn(P, init) == LET C == Expect(SubExpr(P, 0), ")") IN Wrap(Loop(ParseBlock(C), "switch", C.n), init)
SwitchHead(P) == IF HasInit(P) THEN LET In == SubStmt(P) IN SwitchOn(In, In.n) ELSE SwitchOn(P, <<>>)

Ends(P, t, kind) == Give(Expect(P, t), Node(kind, "", P.n))
GotoNode(P) ==
    IF Cur(P) = "ident" THEN Give(Expect(Advance(P), ";"), Node("goto", Peek(P, 0).v, <<>>))
    ELSE Ends(Nothing(P), ";", "goto")
ParseStmt(P) ==
    CASE Cur(P) = "{"        -> ParseBlock(P)
      [] Cur(P) = ";"        -> Absent(Advance(P))
      [] Cur(P) = "if"       -> ParseIf(Advance(P))
      [] Cur(P) = "for"      -> ParseFor(Advance(P))
      [] Cur(P) = "while"    -> ParseWhile(Advance(P))
      [] Cur(P) = "do"       -> ParseDo(Advance(P))
      [] Cur(P) = "switch"   -> SwitchHead(Expect(Advance(P), "("))
      [] Cur(P) = "case"     -> Ends(SubExpr(Advance(P), 0), ":", "case")
      [] Cur(P) = "default"  -> Ends(Nothing(Advance(P)), ":", "default")
      [] Cur(P) = "return"   -> Ends(IF Kind(P, 1) = ";" THEN Nothing(Advance(P)) ELSE SubExpr(Advance(P), 0), ";", "return")
      [] Cur(P) \in {"break", "continue"} -> Ends(Nothing(Advance(P)), ";", Cur(P))
      [] Cur(P) = "goto"     -> GotoNode(Advance(P))
      [] Cur(P) = "ident" /\ Kind(P, 1) = ":" -> Give(Skip(P, 2), Node("label", Peek(P, 0).v, <<>>))
      [] OTHER               -> Ends(SubExpr(P, 0), ";", "expr")

(* An assertion is skipped, whatever it says. *)
StaticAssert(P) == Nothing(Match(IF Cur(P) = "(" THEN SkipParens(P, 0) ELSE P, ";"))
ParseDeclOrStmt(P) ==
    CASE Cur(P) = "static_assert" -> StaticAssert(Advance(P))
      [] StartsDeclaration(P)     -> SubDecl(P)
      [] OTHER                    -> ParseStmt(P)

Sub(P, what, min) ==
    CASE what = "expr" -> ParseExpr(P, min) [] what = "type" -> ParseTypeSpec(P)
      [] what = "decl" -> ParseDeclaration(P) [] what = "stmt" -> ParseDeclOrStmt(P)

(* parser_parse. *)
RECURSIVE Units(_, _)
UnitNext(P, from, acc) ==
    Units(IF P.n = <<>> /\ P.pos = from THEN SyncToNextDecl(ParseError(P)) ELSE P, acc \o P.n)
Units(P, acc) ==
    IF Cur(P) = "eof" THEN [P EXCEPT !.n = acc] ELSE UnitNext(SubStmt(P), P.pos, acc)
Parse(toks) ==
    Units([toks |-> toks, pos |-> 1, err |-> FALSE, names |-> {}, n |-> <<>>, ty |-> <<>>, q |-> {}], <<>>)

-----------------------------------------------------------------------------

(***************************************************************************)
(* The first pass of sema_check and of bir_ltu over the parsed file: its   *)
(* records, enumerators, type names, constants, variables and functions,   *)
(* with every type name replaced by the type it stands for.                *)
(***************************************************************************)

WithoutPtrs(t) == SelectSeq(t, LAMBDA w : w # "ptr")
Tags == {"struct", "union", "class"}

(* resolve_typespec.  A name nobody declared is an int to sema; lowering
   refuses the file. *)
FixedNames == [size_t |-> "ulong", ptrdiff_t |-> "long", int32_t |-> "int", uint32_t |-> "uint", uint8_t |-> "uchar"]
Meant(T, base) ==
    CASE base[1] \in Tags                           -> << "struct", base[2] >>
      [] base[1] = "enum"                           -> << "int" >>
      [] base[1] # "name"                           -> base
      [] base[2] \in DOMAIN FixedNames              -> << FixedNames[base[2]] >>
      [] base[2] \in DOMAIN T                       -> T[base[2]]
      [] OTHER                                      -> << "int" >>
Resolve(T, t) == SelectSeq(t, LAMBDA w : w = "ptr") \o Meant(T, WithoutPtrs(t))
Unknown(T, t) ==
    WithoutPtrs(t)[1] = "name" /\ WithoutPtrs(t)[2] \notin DOMAIN T \cup DOMAIN FixedNames

(* The trees of the file, with the types of their declarations and casts resolved. *)
RECURSIVE ResolveIn(_, _)
ResolveOp(T, n) ==
    CASE n.k = "cast" -> Resolve(T, n.op)
      [] n.k = "decl" -> [n.op EXCEPT !.ty = Resolve(T, @), !.dim = ResolveIn(T, @)]
      [] OTHER        -> n.op
ResolveIn(T, n) == Node(n.k, ResolveOp(T, n), [i \in DOMAIN n.kids |-> ResolveIn(T, n.kids[i])])

RECURSIVE UnknownIn(_, _)
UnknownIn(T, n) ==
    \/ n.k = "cast" /\ Unknown(T, n.op)
    \/ n.k = "decl" /\ Unknown(T, n.op.ty)
    \/ \E i \in DOMAIN n.kids : UnknownIn(T, n.kids[i])

(* collect_typedef_def, and the names of records and enumerations. *)
NameOf(n, T) ==
    CASE n.k = "structdef"                       -> n.op :> << "struct", n.op >>
      [] n.k = "enumdef"                         -> n.op :> << "int" >>
      [] n.k = "decl" /\ "typedef" \in n.op.q    -> n.op.name :> Resolve(T, n.op.ty)
      [] OTHER                                   -> << >>
TypeNames(nodes) == ForEach(nodes, << >>, LAMBDA T, n : NameOf(n, T) @@ T)

Among(nodes, kind) == SelectSeq(nodes, LAMBDA n : n.k = kind)

(* collect_struct_def. *)
FieldOf(T, n) == [name |-> n.op.name, ty |-> Resolve(T, n.op.ty)]
Structs(T, nodes) ==
    ForEach(Among(nodes, "structdef"), << >>,
            LAMBDA s, n : (n.op :> [i \in DOMAIN n.kids |-> FieldOf(T, n.kids[i])]) @@ s)

(* collect_enum: only a literal sets the next value. *)
Numbered(s, e) ==
    LET v == IF Len(e.kids) = 1 /\ e.kids[1].k = "int" THEN e.kids[1].op ELSE s.next
    IN  [next |-> v + 1, vals |-> (e.op :> v) @@ s.vals]
Enums(nodes) ==
    ForEach(Among(nodes, "enumdef"), << >>,
            LAMBDA s, n : ForEach(n.kids, [next |-> 0, vals |-> s], Numbered).vals)

(* collect_global_var and the constants of Prescan. *)
FileVariables(nodes) == SelectSeq(Among(nodes, "decl"), LAMBDA n : "typedef" \notin n.op.q)
Consts(T, nodes) ==
    LET ns == SelectSeq(FileVariables(nodes), IsConstDecl) IN [i \in DOMAIN ns |-> ResolveIn(T, ns[i])]
Globals(T, nodes) ==
    LET ns == SelectSeq(FileVariables(nodes), LAMBDA n : ~IsConstDecl(n))
    IN  [i \in DOMAIN ns |-> [name |-> ns[i].op.name, ty |-> Resolve(T, ns[i].op.ty), shared |-> "shared" \in ns[i].op.q]]

(* collect_func_decl. *)
FuncOf(T, n) ==
    [name |-> n.op.name, ret |-> Resolve(T, n.op.ret), body |-> ResolveIn(T, n.kids[1]),
     kernel |-> "kernel" \in n.op.q, cexpr |-> "constexpr" \in n.op.q,
     params |-> [i \in DOMAIN n.op.params |-> [n.op.params[i] EXCEPT !.ty = Resolve(T, @), !.dflt = ResolveIn(T, @)]]]
Functions(T, nodes) == LET ns == Among(nodes, "func") IN [i \in DOMAIN ns |-> FuncOf(T, ns[i])]

Unresolved(T, nodes) ==
    \E i \in DOMAIN nodes :
        \/ UnknownIn(T, nodes[i])
        \/ nodes[i].k = "func" /\ (Unknown(T, nodes[i].op.ret)
                                   \/ \E p \in DOMAIN nodes[i].op.params : Unknown(T, nodes[i].op.params[p].ty))

FileWith(T, nodes) ==
    [structs |-> Structs(T, nodes), enums |-> Enums(nodes), consts |-> Consts(T, nodes),
     globals |-> Globals(T, nodes), funcs |-> Functions(T, nodes), unk |-> Unresolved(T, nodes)]
CollectFile(nodes) == FileWith(TypeNames(nodes), nodes)
=============================================================================
