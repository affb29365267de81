------------------------------ MODULE Preproc -------------------------------
(***************************************************************************)
(* src/src/fe/preproc.c, from the files a compilation reads to the text    *)
(* the lexer reads, and the comments the lexer drops.                      *)
(*                                                                         *)
(* Text is a sequence of tokens as in Parser; white space is the token " " *)
(* where it matters (before an argument, after a macro's name) and nothing *)
(* elsewhere.  A file is a sequence of physical lines [toks, spl], spl     *)
(* when the line ends in a backslash.  A path is << directory, name >>.    *)
(* Keywords are not macro names here, and the pass for the host compiler   *)
(* (keepinc) is left out.                                                  *)
(***************************************************************************)
EXTENDS Loops, SequencesExt, TLC
LOCAL INSTANCE Bitwise

CONSTANTS PP_MAX_MACROS, PP_MAX_PARAMS, PP_MAX_ARGS, PP_MAX_COND_DEPTH, PP_MAX_FILE_DEPTH,
          PP_MAX_EXPAND_DEPTH, PP_MAX_JOIN,
          PP_OUT_MAX    \* out_max, in tokens

Op(t) == [t |-> t, v |-> ""]
Ident(s) == [t |-> "ident", v |-> s]
Num(i) == [t |-> "number", v |-> i]
Space == Op(" ")
Newline == Op("nl")
IsIdent(tok) == tok.t = "ident"
Is(ts, i, t) == i <= Len(ts) /\ ts[i].t = t
(* The first place from i on that holds t, or the one past the end. *)
RECURSIVE Place(_, _, _)
Place(ts, i, t) == IF i > Len(ts) \/ ts[i].t = t THEN i ELSE Place(ts, i + 1, t)

(* The first place from i on that holds no white space. *)
RECURSIVE SkipSpace(_, _)
SkipSpace(ts, i) == IF Is(ts, i, " ") THEN SkipSpace(ts, i + 1) ELSE i
From(ts, i) == SubSeq(ts, i, Len(ts))
RECURSIVE TrimRight(_)
TrimRight(ts) == IF ts # <<>> /\ Last(ts).t = " " THEN TrimRight(Front(ts)) ELSE ts

PpError(pp) == [pp EXCEPT !.err = TRUE]

(* pp_emit_str: a text that does not fit ends the run. *)
Emit(pp, ts) ==
    IF Len(pp.out) + Len(ts) < PP_OUT_MAX THEN [pp EXCEPT !.out = @ \o ts]
    ELSE [PpError(pp) EXCEPT !.ovflw = TRUE]
(* pp_eatnl: one line break for each physical line. *)
EmitLines(pp, n) == Emit(pp, [i \in 1 .. n |-> Newline])

(* stripc: a line comment, or one nobody closes on the line, takes the rest. *)
RECURSIVE StripC(_)
StripC(ts) ==
    IF ts = <<>> \/ ts[1].t = "//" THEN <<>>
    ELSE IF ts[1].t = "/*"
    THEN IF Place(ts, 1, "*/") > Len(ts) THEN <<>> ELSE << Space >> \o StripC(From(ts, Place(ts, 1, "*/") + 1))
    ELSE << ts[1] >> \o StripC(Tail(ts))

-----------------------------------------------------------------------------
(***************************************************************************)
(* Macros.  params is <<>> and fn FALSE for an object-like macro.          *)
(***************************************************************************)
ObjectMacro(body) == [fn |-> FALSE, params |-> <<>>, varia |-> FALSE, body |-> body]
SameText(s, r) == Len(s) = Len(r) /\ \A i \in DOMAIN s : s[i].t = r[i].t /\ s[i].v = r[i].v
SameMacro(m, n) ==
    SameText(m.body, n.body) /\ m.fn = n.fn /\ Len(m.params) = Len(n.params) /\ m.varia = n.varia
Found(pp, tok) == IsIdent(tok) /\ tok.v \in DOMAIN pp.macros

(* pp_define_macro: an identical definition is not stored again. *)
DefineMacro(pp, name, m) ==
    IF name \in DOMAIN pp.macros /\ SameMacro(pp.macros[name], m) THEN pp
    ELSE IF name \notin DOMAIN pp.macros /\ Cardinality(DOMAIN pp.macros) >= PP_MAX_MACROS THEN PpError(pp)
    ELSE [pp EXCEPT !.macros = (name :> m) @@ @]
UndefMacro(pp, name) == [pp EXCEPT !.macros = [x \in DOMAIN @ \ {name} |-> @[x]]]

(***************************************************************************)
(* The conditional stack.                                                  *)
(***************************************************************************)
Top(pp) == pp.cond[Len(pp.cond)]
IsActive(pp) == pp.cond = <<>> \/ Top(pp).active
PushCond(pp, active) ==
    IF Len(pp.cond) >= PP_MAX_COND_DEPTH THEN PpError(pp)
    ELSE [pp EXCEPT !.cond = Append(@, [parent |-> IsActive(pp), active |-> IsActive(pp) /\ active,
                                        seen |-> IsActive(pp) /\ active])]
SetTop(pp, c) == [pp EXCEPT !.cond = Append(Front(@), c)]
FlipElse(pp) ==
    IF pp.cond = <<>> THEN PpError(pp)
    ELSE SetTop(pp, [Top(pp) EXCEPT !.active = Top(pp).parent /\ ~Top(pp).seen, !.seen = TRUE])
FlipElif(pp, val) ==
    IF pp.cond = <<>> THEN PpError(pp)
    ELSE SetTop(pp, [Top(pp) EXCEPT !.active = Top(pp).parent /\ ~Top(pp).seen /\ val,
                                    !.seen = @ \/ (Top(pp).parent /\ val)])
PopCond(pp) == IF pp.cond = <<>> THEN PpError(pp) ELSE [pp EXCEPT !.cond = Front(@)]

(***************************************************************************)
(* #if expressions: tokens to operators and numbers, to postfix, to a      *)
(* value.  A unary sign is written "u+" or "u-".                           *)
(***************************************************************************)
Prec ==
    [o \in {"||"} |-> 1] @@ [o \in {"&&"} |-> 2] @@ [o \in {"|"} |-> 3] @@ [o \in {"^"} |-> 4] @@ [o \in {"&"} |-> 5]
    @@ [o \in {"==", "!="} |-> 6] @@ [o \in {"<", ">", "<=", ">="} |-> 7] @@ [o \in {"<<", ">>"} |-> 8]
    @@ [o \in {"+", "-"} |-> 9] @@ [o \in {"*", "/", "%"} |-> 10] @@ [o \in {"!", "~", "u-", "u+"} |-> 11]
IsUnary(o) == Prec[o] = 11

(* What strtoll makes of a macro's body: its first number, signed, or 0. *)
Leading(body) ==
    CASE body # <<>> /\ body[1].t = "number"                       -> body[1].v
      [] Len(body) > 1 /\ body[1].t = "-" /\ body[2].t = "number" -> -body[2].v
      [] Len(body) > 1 /\ body[1].t = "+" /\ body[2].t = "number" -> body[2].v
      [] OTHER                                                     -> 0
IdentValue(pp, tok) == IF Found(pp, tok) /\ ~pp.macros[tok.v].fn THEN Leading(pp.macros[tok.v].body) ELSE 0

(* expr_tokenize; operand is prev_was_operand.  What is no operator is skipped;
   a comment is not stripped here, and its marks read as operators. *)
Marks == ("//" :> << Op("/"), Op("/") >>) @@ ("/*" :> << Op("/"), Op("*") >>) @@ ("*/" :> << Op("*"), Op("/") >>)
RECURSIVE ExprTokenize(_, _, _, _)
PastName(ts, at) == SkipSpace(ts, IF at <= Len(ts) /\ IsIdent(ts[at]) THEN at + 1 ELSE at)
DefinedAt(pp, ts, at, past, out) ==
    ExprTokenize(pp, From(ts, past), Append(out, Num(IF at <= Len(ts) /\ Found(pp, ts[at]) THEN 1 ELSE 0)), TRUE)
PastClose(ts, past) == IF Is(ts, past, ")") THEN past + 1 ELSE past
Defined(pp, ts, i, out) ==
    IF Is(ts, i, "(") THEN DefinedAt(pp, ts, SkipSpace(ts, i + 1), PastClose(ts, PastName(ts, SkipSpace(ts, i + 1))), out)
    ELSE DefinedAt(pp, ts, i, PastName(ts, i), out)
ExprTokenize(pp, ts, out, operand) ==
    IF ts = <<>> THEN out
    ELSE LET c == ts[1] IN
         CASE c.t = "number"             -> ExprTokenize(pp, Tail(ts), Append(out, c), TRUE)
           [] IsIdent(c) /\ c.v = "defined"       -> Defined(pp, ts, SkipSpace(ts, 2), out)
           [] IsIdent(c) /\ c.v # "defined" -> ExprTokenize(pp, Tail(ts), Append(out, Num(IdentValue(pp, c))), TRUE)
           [] c.t \in {"(", ")"}         -> ExprTokenize(pp, Tail(ts), Append(out, c), c.t = ")")
           [] c.t \in {"+", "-"}         -> ExprTokenize(pp, Tail(ts), Append(out, IF operand THEN c ELSE Op("u" \o c.t)), FALSE)
           [] c.t \in DOMAIN Prec        -> ExprTokenize(pp, Tail(ts), Append(out, c), FALSE)
           [] c.t \in DOMAIN Marks       -> ExprTokenize(pp, Marks[c.t] \o Tail(ts), out, operand)
           [] OTHER                      -> ExprTokenize(pp, Tail(ts), out, operand)

(* expr_evaluate, the shunting yard: S is [out, ops]. *)
RECURSIVE PopWhile(_, _, _)
PopWhile(S, prec, strictly) ==
    IF S.ops = <<>> \/ Last(S.ops).t = "(" THEN S
    ELSE IF Prec[Last(S.ops).t] > prec \/ (~strictly /\ Prec[Last(S.ops).t] = prec)
    THEN PopWhile([out |-> Append(S.out, Last(S.ops)), ops |-> Front(S.ops)], prec, strictly)
    ELSE S
PushOp(S, t) == [S EXCEPT !.ops = Append(@, t)]
DropOpen(S) == IF S.ops # <<>> THEN [S EXCEPT !.ops = Front(@)] ELSE S
Shunt(S, t) ==
    CASE t.t = "number" -> [S EXCEPT !.out = Append(@, t)]
      [] t.t = "("      -> PushOp(S, t)
      [] t.t = ")"      -> DropOpen(PopWhile(S, 0, FALSE))
      [] OTHER          -> PushOp(PopWhile(S, Prec[t.t], IsUnary(t.t)), t)
Flushed(S) == S.out \o SelectSeq(Reverse(S.ops), LAMBDA t : t.t # "(")
Postfix(toks) == Flushed(ForEach(toks, [out |-> <<>>, ops |-> <<>>], Shunt))

(* int64_t; And, Or and Xor at the width of the values that occur. *)
Truth(p) == IF p THEN 1 ELSE 0
Magnitude(a) == IF a < 0 THEN -a ELSE a
Quot(a, b) == LET q == Magnitude(a) \div Magnitude(b) IN IF (a < 0) = (b < 0) THEN q ELSE -q
Low16(a) == a % 2^16
High16(a) == IF a >= 2^15 THEN a - 2^16 ELSE a
Unary(o, a) ==
    CASE o = "!" -> Truth(a = 0) [] o = "~" -> -a - 1 [] o = "u-" -> -a [] o = "u+" -> a
Binary(o, a, b) ==
    CASE o = "+" -> a + b [] o = "-" -> a - b [] o = "*" -> a * b
      [] o = "/" -> (IF b = 0 THEN 0 ELSE Quot(a, b))
      [] o = "%" -> (IF b = 0 THEN 0 ELSE a - b * Quot(a, b))
      [] o = "<" -> Truth(a < b) [] o = ">" -> Truth(a > b) [] o = "<=" -> Truth(a <= b) [] o = ">=" -> Truth(a >= b)
      [] o = "==" -> Truth(a = b) [] o = "!=" -> Truth(a # b)
      [] o = "&&" -> Truth(a # 0 /\ b # 0) [] o = "||" -> Truth(a # 0 \/ b # 0)
      [] o = "&" -> High16(Low16(a) & Low16(b)) [] o = "|" -> High16(Low16(a) | Low16(b))
      [] o = "^" -> High16(Low16(a) ^^ Low16(b))
      [] o = "<<" -> a * 2^b [] o = ">>" -> a \div 2^b
Apply(vs, t) ==
    LET n == Len(vs) IN
    CASE t.t = "number"                    -> Append(vs, t.v)
      [] t.t # "number" /\ IsUnary(t.t)    -> IF n < 1 THEN vs ELSE Append(Front(vs), Unary(t.t, vs[n]))
      [] OTHER                             -> IF n < 2 THEN vs ELSE Append(SubSeq(vs, 1, n - 2), Binary(t.t, vs[n - 1], vs[n]))
NonZero(vs) == vs # <<>> /\ vs[1] # 0
EvalExpr(pp, ts) == NonZero(ForEach(Postfix(ExprTokenize(pp, ts, <<>>, FALSE)), <<>>, Apply))

-----------------------------------------------------------------------------
(***************************************************************************)
(* Expansion.  X is [out, err, bcmt, in]: the text so far, whether a call  *)
(* was refused, whether the next text starts inside a block comment, and   *)
(* whether this one is in a comment that was left open before ("resumed")  *)
(* or that it opened itself.                                               *)
(***************************************************************************)

(* The arguments from place i on: their texts as written, and the place after
   the closing parenthesis, 0 when there is none.  Comments are not special. *)
RECURSIVE Arguments(_, _, _, _, _)
Arguments(ts, i, depth, arg, args) ==
    IF i > Len(ts) THEN [next |-> 0, args |-> args]
    ELSE LET t == ts[i].t IN
         CASE t = ")" /\ depth = 0 -> [next |-> i + 1, args |-> Append(args, arg)]
           [] t = "," /\ depth = 0 -> Arguments(ts, i + 1, depth, <<>>, Append(args, arg))
           [] OTHER -> Arguments(ts, i + 1, depth + (IF t = "(" THEN 1 ELSE IF t = ")" THEN -1 ELSE 0), Append(arg, ts[i]), args)

ParamIndex(m, tok) == IF IsIdent(tok) THEN SelectInSeq(m.params, LAMBDA p : p = tok.v) ELSE 0
VLast(m, k) == m.varia /\ k = Len(m.params)
(* varg: the arguments a parameter stands for, with their commas. *)
ArgText(m, k, args) ==
    For(k, (IF VLast(m, k) \/ k > Len(args) THEN Len(args) ELSE k) + 1, <<>>, LAMBDA s, a : s \o (IF a > k THEN << Op(",") >> ELSE <<>>) \o args[a])

(* ##: the texts meet without white space, and two words become one. *)
Spell(tok) == IF tok.t = "number" THEN ToString(tok.v) ELSE tok.v
Glue(s, r) ==
    IF s = <<>> \/ r = <<>> \/ r[1].t = " " THEN s \o r
    ELSE IF IsIdent(Last(s)) /\ r[1].t \in {"ident", "number"} THEN Front(s) \o << Ident(Last(s).v \o Spell(r[1])) >> \o Tail(r)
    ELSE IF Last(s).t = "number" /\ r[1].t = "number" THEN Front(s) \o << Num((10 * Last(s).v) + r[1].v) >> \o Tail(r)
    ELSE IF {Last(s).t, r[1].t} \cap {"ident", "number", "string"} # {} THEN s \o r
    ELSE Front(s) \o << Op(Last(s).t \o r[1].t) >> \o Tail(r)

(* The body with its parameters replaced, from place j on; paste when ## came
   just before. *)
RECURSIVE Substitute(_, _, _, _, _)
Put(s, r, paste) == IF paste THEN Glue(s, r) ELSE s \o r
Stringify(m, args, k, s) ==
    IF k > 0 /\ k <= Len(args) THEN Append(s, [t |-> "string", v |-> ArgText(m, k, args)]) ELSE s
Replace(m, args, k, tok) == IF k > 0 /\ (k <= Len(args) \/ VLast(m, k)) THEN ArgText(m, k, args) ELSE << tok >>
Substitute(m, args, j, s, paste) ==
    IF j > Len(m.body) THEN s
    ELSE IF Is(m.body, j, "##") THEN Substitute(m, args, SkipSpace(m.body, j + 1), TrimRight(s), TRUE)
    ELSE IF Is(m.body, j, "#") /\ Is(m.body, j + 1, "ident")
    THEN Substitute(m, args, j + 2, Stringify(m, args, ParamIndex(m, m.body[j + 1]), s), FALSE)
    ELSE Substitute(m, args, j + 1, Put(s, Replace(m, args, ParamIndex(m, m.body[j]), m.body[j]), paste), FALSE)

Copy(X, ts) == [X EXCEPT !.out = @ \o ts]

(* pp_expand_text.  Arguments are not expanded before they are substituted;
   blocked holds the macros being expanded. *)
RECURSIVE ExpandText(_, _, _, _, _)
RECURSIVE Scan(_, _, _, _, _, _)
GivenArgs(m, args) == IF args = << <<>> >> /\ m.params = <<>> THEN <<>> ELSE args
CallMacro(pp, ts, name, A, blocked, depth, X) ==
    IF A.next = 0 THEN [X EXCEPT !.err = TRUE]
    ELSE Scan(pp, ts, A.next, blocked, depth,
              IF Len(A.args) > PP_MAX_ARGS THEN [X EXCEPT !.err = TRUE]
              ELSE ExpandText(pp, Substitute(pp.macros[name], GivenArgs(pp.macros[name], A.args), 1, <<>>, FALSE),
                              blocked \cup {name}, depth + 1, X))
ScanIdent(pp, ts, i, open, blocked, depth, X) ==
    IF Found(pp, ts[i]) /\ ts[i].v \notin blocked /\ pp.macros[ts[i].v].fn /\ Is(ts, open, "(")
    THEN CallMacro(pp, ts, ts[i].v, Arguments(ts, open + 1, 0, <<>>, <<>>), blocked, depth, X)
    ELSE Scan(pp, ts, i + 1, blocked, depth,
              CASE ts[i].v = "__LINE__" -> Copy(X, << Num(pp.line) >>)
                [] ts[i].v = "__FILE__" -> Copy(X, << [t |-> "string", v |-> pp.file] >>)
                [] Found(pp, ts[i]) /\ ts[i].v \notin blocked /\ ~pp.macros[ts[i].v].fn ->
                     ExpandText(pp, pp.macros[ts[i].v].body, blocked \cup {ts[i].v}, depth + 1, X)
                [] OTHER -> Copy(X, << ts[i] >>))
InAfter(in, t) == IF in = "" THEN (IF t = "/*" THEN t ELSE "") ELSE IF t = "*/" THEN "" ELSE in
Scan(pp, ts, i, blocked, depth, X) ==
    IF i > Len(ts) THEN [X EXCEPT !.bcmt = @ \/ X.in = "/*", !.in = ""]
    ELSE IF X.in = "" /\ ts[i].t = "//" THEN Copy(X, From(ts, i))
    ELSE IF X.in = "" /\ IsIdent(ts[i]) THEN ScanIdent(pp, ts, i, SkipSpace(ts, i + 1), blocked, depth, X)
    ELSE Scan(pp, ts, i + 1, blocked, depth,
              [Copy(X, << ts[i] >>) EXCEPT !.in = InAfter(@, ts[i].t), !.bcmt = @ /\ ~(X.in = "resumed" /\ ts[i].t = "*/")])
ExpandText(pp, ts, blocked, depth, X) ==
    IF depth > PP_MAX_EXPAND_DEPTH THEN Copy(X, ts)
    ELSE Scan(pp, ts, 1, blocked, depth, [X EXCEPT !.in = IF X.bcmt THEN "resumed" ELSE ""])

EmitExpanded(pp, X) == Emit([pp EXCEPT !.err = X.err, !.bcmt = X.bcmt], X.out)
ExpandAndEmit(pp, ts) == EmitExpanded(pp, ExpandText(pp, ts, {}, 0, [out |-> <<>>, err |-> pp.err, bcmt |-> pp.bcmt, in |-> ""]))

-----------------------------------------------------------------------------
(***************************************************************************)
(* Lines.                                                                  *)
(***************************************************************************)
Lines(pp) == pp.files[pp.file]
AtEnd(pp) == pp.pos > Len(Lines(pp))

(* pp_collect_line: the last physical line of the logical line at pos. *)
RECURSIVE LastOf(_, _)
LastOf(lines, i) == IF lines[i].spl /\ i < Len(lines) THEN LastOf(lines, i + 1) ELSE i
Joined(lines, i, j) == For(i, j + 1, <<>>, LAMBDA ts, k : ts \o lines[k].toks)

(* ocall: does the text end inside the arguments of a function-like macro? *)
RECURSIVE OpenCall(_, _, _, _, _)
Opens(pp, ts, i, open) == Found(pp, ts[i]) /\ pp.macros[ts[i].v].fn /\ Is(ts, open, "(")
Nesting(t, depth) == IF depth = 0 THEN 0 ELSE IF t = "(" THEN depth + 1 ELSE IF t = ")" THEN depth - 1 ELSE depth
OpenCall(pp, ts, i, depth, bcmt) ==
    IF i > Len(ts) \/ (~bcmt /\ ts[i].t = "//") THEN depth > 0
    ELSE IF bcmt \/ ts[i].t = "/*" THEN OpenCall(pp, ts, i + 1, depth, ts[i].t # "*/")
    ELSE IF depth = 0 /\ Opens(pp, ts, i, SkipSpace(ts, i + 1)) THEN OpenCall(pp, ts, SkipSpace(ts, i + 1) + 1, 1, FALSE)
    ELSE OpenCall(pp, ts, i + 1, Nesting(ts[i].t, depth), FALSE)

(* A text line with the lines its last call runs on to. *)
RECURSIVE JoinCalls(_, _, _, _)
JoinUpTo(pp, ts, from, to, joins) == JoinCalls(pp, StripC(ts) \o << Space >> \o Joined(Lines(pp), from, to), to, joins + 1)
JoinCalls(pp, ts, last, joins) ==
    IF joins < PP_MAX_JOIN /\ last < Len(Lines(pp)) /\ OpenCall(pp, ts, 1, 0, pp.bcmt)
    THEN JoinUpTo(pp, ts, last + 1, LastOf(Lines(pp), last + 1), joins)
    ELSE [toks |-> IF joins > 0 THEN StripC(ts) ELSE ts, last |-> last]
EmitText(pp, J) ==
    EmitLines(ExpandAndEmit([pp EXCEPT !.line = J.last, !.pos = J.last + 1], J.toks), J.last + 1 - pp.pos)
LogicalLine(pp, last) == JoinCalls(pp, Joined(Lines(pp), pp.pos, last), last, 0)
TextLine(pp) == EmitText(pp, LogicalLine(pp, LastOf(Lines(pp), pp.pos)))

-----------------------------------------------------------------------------
(***************************************************************************)
(* Directives.  rest is what follows the directive's name on the physical  *)
(* line, whole what follows it on the logical line; pos has moved past the *)
(* lines the handler reads.                                                *)
(***************************************************************************)
NameAt(rest, i) == IF Is(rest, i, "ident") THEN rest[i].v ELSE ""
NameIn(rest) == NameAt(rest, SkipSpace(rest, 1))

(* The parameters from place i on: names, and __VA_ARGS__ for "...". *)
RECURSIVE Params(_, _, _)
ParamAt(ts, at, next, ps) ==
    IF ts[at].t = "..." THEN [at |-> next, ps |-> Append(ps, "__VA_ARGS__"), varia |-> TRUE]
    ELSE IF Is(ts, next, ",") THEN Params(ts, SkipSpace(ts, next + 1), Append(ps, ts[at].v))
    ELSE [at |-> next, ps |-> Append(ps, ts[at].v), varia |-> FALSE]
Params(ts, at, ps) ==
    IF at > Len(ts) \/ Len(ps) >= PP_MAX_PARAMS \/ ts[at].t \notin {"...", "ident"}
    THEN [at |-> at, ps |-> ps, varia |-> FALSE]
    ELSE ParamAt(ts, at, SkipSpace(ts, at + 1), ps)
Body(ts, i) == TrimRight(StripC(From(ts, SkipSpace(ts, i))))
DefineFunction(pp, name, whole, P) ==
    IF Len(P.ps) >= PP_MAX_PARAMS /\ P.at <= Len(whole) /\ whole[P.at].t # ")" THEN PpError(pp)
    ELSE DefineMacro(pp, name, [fn |-> TRUE, params |-> P.ps, varia |-> P.varia, body |-> Body(whole, Place(whole, P.at, ")") + 1)])
DirDefine(pp, whole, i) ==
    IF ~Is(whole, i, "ident") THEN PpError(pp)
    ELSE IF Is(whole, i + 1, "(") THEN DefineFunction(pp, whole[i].v, whole, Params(whole, SkipSpace(whole, i + 2), <<>>))
    ELSE DefineMacro(pp, whole[i].v, ObjectMacro(Body(whole, i + 1)))

(* pp_dir_include: the directory of the including file for a quoted name, then
   the include paths.  A header nobody has is a warning. *)
Candidates(pp, tok) == (IF tok.t = "string" THEN << pp.file[1] >> ELSE <<>>) \o pp.paths
Hits(pp, tok) == SelectSeq(Candidates(pp, tok), LAMBDA d : << d, tok.v >> \in DOMAIN pp.files)
EnterFile(pp, path) ==
    IF path \in pp.once THEN pp
    ELSE IF Len(pp.stack) >= PP_MAX_FILE_DEPTH THEN PpError(pp)
    ELSE [pp EXCEPT !.stack = Append(@, [file |-> pp.file, pos |-> pp.pos]), !.file = path, !.pos = 1]
FirstHit(pp, hits, name) == IF hits = <<>> THEN pp ELSE EnterFile(pp, << hits[1], name >>)
DirInclude(pp, rest, i) ==
    IF ~Is(rest, i, "string") /\ ~Is(rest, i, "angle") THEN PpError(pp) ELSE FirstHit(pp, Hits(pp, rest[i]), rest[i].v)
PopFile(pp) ==
    EmitLines([pp EXCEPT !.stack = Front(@), !.file = Last(pp.stack).file, !.pos = Last(pp.stack).pos], 1)

DirPragma(pp, rest) == IF NameIn(rest) = "once" THEN [pp EXCEPT !.once = @ \cup {pp.file}] ELSE pp

(* pp_process_directive: one that is not active only keeps the stack.  The
   directives that read the logical line move past all of it. *)
Whole == {"define", "if", "elif", "error"}
Conditionals == {"ifdef", "ifndef", "if"}
Ignored == {"warning", "line", ""}
Directive(pp, dir, rest, whole) ==
    CASE dir \in Conditionals /\ ~IsActive(pp) -> PushCond(pp, FALSE)
      [] dir = "ifdef" /\ IsActive(pp)  -> PushCond(pp, NameIn(rest) \in DOMAIN pp.macros)
      [] dir = "ifndef" /\ IsActive(pp) -> PushCond(pp, NameIn(rest) \notin DOMAIN pp.macros)
      [] dir = "if" /\ IsActive(pp)     -> PushCond(pp, EvalExpr(pp, whole))
      [] dir = "elif"    -> IF pp.cond # <<>> /\ Top(pp).parent THEN FlipElif(pp, EvalExpr(pp, whole)) ELSE pp
      [] dir = "else"    -> FlipElse(pp)
      [] dir = "endif"   -> PopCond(pp)
      [] dir \notin Conditionals \cup {"elif", "else", "endif"} ->
         CASE ~IsActive(pp)  -> pp
           [] IsActive(pp) /\ dir = "define"  -> DirDefine(pp, whole, SkipSpace(whole, 1))
           [] IsActive(pp) /\ dir = "undef"   -> UndefMacro(pp, NameIn(rest))
           [] IsActive(pp) /\ dir = "include" -> DirInclude(pp, rest, SkipSpace(rest, 1))
           [] IsActive(pp) /\ dir = "pragma"  -> DirPragma(pp, rest)
           [] IsActive(pp) /\ dir \in Ignored -> pp
           [] OTHER          -> PpError(pp)
ReadsWhole(pp, dir) ==
    IF dir = "elif" THEN pp.cond # <<>> /\ Top(pp).parent ELSE dir \in Whole /\ IsActive(pp)
DirName(line, at) ==
    CASE Is(line, at, "ident") -> line[at].v
      [] at <= Len(line) /\ line[at].t \in {"if", "else", "number"} -> line[at].t
      [] OTHER -> ""
EndLine(before, pp, lines) == IF Len(pp.stack) > Len(before.stack) THEN pp ELSE EmitLines(pp, lines)
DoDirective(pp, dir, rest, last) ==
    EndLine(pp, Directive([pp EXCEPT !.pos = last + 1], dir, rest, rest \o Joined(Lines(pp), pp.pos + 1, last)), last + 1 - pp.pos)
NamedDirective(pp, dir, rest) ==
    DoDirective(pp, dir, rest, IF ReadsWhole(pp, dir) THEN LastOf(Lines(pp), pp.pos) ELSE pp.pos)
DirectiveLine(pp, line, at) == NamedDirective(pp, DirName(line, at), From(line, at + 1))

(* pp_process.  The lines of an inactive block are skipped one at a time. *)
ProcessLine(pp, line, hash) ==
    IF Is(line, hash, "#") THEN DirectiveLine(pp, line, SkipSpace(line, hash + 1))
    ELSE IF ~IsActive(pp) THEN EmitLines([pp EXCEPT !.pos = @ + 1], 1)
    ELSE TextLine(pp)
NextLine(pp, line) == ProcessLine(pp, line, SkipSpace(line, 1))
MaxLines == 1000    \* the bounded depth of inclusion ends the loop before
Finished(pp) == pp.ovflw \/ (AtEnd(pp) /\ pp.stack = <<>>)
ProcessStep(pp) == IF AtEnd(pp) THEN PopFile(pp) ELSE NextLine(pp, Lines(pp)[pp.pos].toks)
Unterminated(pp) == [pp EXCEPT !.err = @ \/ (pp.cond # <<>> /\ ~pp.ovflw)]
Process(pp) == Unterminated(While(pp, MaxLines, Finished, ProcessStep))

(* pp_init and the definitions comp_tu adds for a device compilation, a few of
   each kind. *)
Predefined ==
    [n \in {"__BARRACUDA__", "__CUDACC__"} |-> ObjectMacro(<< Num(1) >>)]
    @@ ("CHAR_BIT" :> ObjectMacro(<< Num(8) >>))
PpInit(source) ==
    [files |-> source.files, file |-> source.main, paths |-> source.paths, pos |-> 1, line |-> 1, macros |-> Predefined,
     cond |-> <<>>, stack |-> <<>>, once |-> {}, out |-> <<>>, err |-> FALSE, bcmt |-> FALSE, ovflw |-> FALSE]
(* -D name[=value] *)
WithFlags(pp, defs) == ForEach(defs, pp, LAMBDA p, d : DefineMacro(p, d.name, ObjectMacro(IF d.value = <<>> THEN << Num(1) >> ELSE d.value)))
Preprocess(source) == Process(WithFlags(PpInit(source), source.defs))

(* lexer_tokenize: white space and comments go, and a comment nobody closes is
   an error; L is [toks, in], in the kind of comment it is in. *)
LexToken(L, tok) ==
    CASE L.in = "//" -> [L EXCEPT !.in = IF tok.t = "nl" THEN "" ELSE @]
      [] L.in = "/*" -> [L EXCEPT !.in = IF tok.t = "*/" THEN "" ELSE @]
      [] L.in = "" /\ tok.t \in {"//", "/*"} -> [L EXCEPT !.in = tok.t]
      [] L.in = "" /\ tok.t \in {" ", "nl"}  -> L
      [] OTHER       -> [L EXCEPT !.toks = Append(@, tok)]
Lexed(L) == [toks |-> Append(L.toks, Op("eof")), bad |-> L.in = "/*"]
Tokenize(text) == Lexed(ForEach(text, [toks |-> <<>>, in |-> ""], LexToken))
=============================================================================
