---------------------------- MODULE BirPipelineMC ---------------------------
(* The lowered modules the passes are run on, assembled from blocks. *)
EXTENDS BirPipeline

KernelOf(blocks) == Fn(FALSE, 1, TRUE, blocks)

(* The entry block's first five instructions. *)
P == 0
X == 1
Y == 2
S == 3
OUT == 4
Prologue == << In("param", <<>>, "i32", 0), In("alloca", <<>>, "ptr", 2),
               In("alloca", <<>>, "ptr", 2), In("alloca", <<>>, "sptr", 2),
               In("global_ref", << 0 >>, "gptr", 0) >>

Store(v, a) == In("store", << v, a >>, "void", 0)
LoadI(a) == In("load", << a >>, "i32", 0)
Put(c) == << Store(Const(c), X) >>
Show == << LoadI(X), Store(Rel(1), OUT) >>
Inc == << LoadI(X), In("add", << Rel(1), Const(1) >>, "i32", 0), Store(Rel(1), X) >>
CopyXY == << LoadI(X), Store(Rel(1), Y) >>
CopyYX == << LoadI(Y), Store(Rel(1), X) >>

Ret == << In("ret", <<>>, "void", 0) >>
Goto(b) == << In("br", << b >>, "void", 0) >>
Tape == In("load", << OUT >>, "i32", 1)
If(b, c) == << Tape, In("br_cond", << Rel(1), b, c, c >>, "void", 0) >>
IfX(k, b, c) == << LoadI(X), In("icmp", << Rel(1), Const(k) >>, "i32", "eq"),
                   In("br_cond", << Rel(1), b, c >>, "void", 0) >>
Switch(d, b, c) == << Tape, In("switch", << Rel(1), d, Const(1), b, Const(2), c >>, "void", 0) >>

(* Every graph of four blocks with these terminators and no edge to the entry,
   each block showing X and then running a body. *)
Terms == {Ret} \cup {Goto(b) : b \in 1 .. 3} \cup {If(1, 2), If(3, 1), Switch(2, 3, 3)}
GraphPrograms(entries, body) ==
    {Assemble(<< KernelOf(<< Prologue \o Put(0) \o e, Show \o body[1] \o t1,
                             Show \o body[2] \o t2, Show \o body[3] \o t3 >>) >>) :
        e \in entries, t1 \in Terms, t2 \in Terms, t3 \in Terms}
StoreGraphs == GraphPrograms({If(1, 2), If(3, 1), IfX(1, 3, 2)}, << Put(1), Put(2), <<>> >>)
SwapGraphs == GraphPrograms({If(1, 2), IfX(0, 1, 2)}, << Inc, CopyXY, CopyYX >>)

(* Two words, an operation on them, the result shown: and a branch on it. *)
Words == -2 .. 3
Sums == {<< "add", 0 >>, << "sub", 0 >>, << "sdiv", 0 >>, << "srem", 0 >>, << "udiv", 0 >>,
         << "ashr", 0 >>, << "icmp", "eq" >>, << "icmp", "slt" >>, << "icmp", "ult" >>}
SumPrograms ==
    {Assemble(<< KernelOf(<<
        Prologue \o << Store(Const(a), X), Store(Const(b), Y), LoadI(X), LoadI(Y),
                       In(o[1], << Rel(2), Rel(1) >>, IF o[1] = "icmp" THEN "i1" ELSE "i32", o[2]), Store(Rel(1), OUT),
                       In("br_cond", << Rel(2), 1, 2 >>, "void", 0) >>,
        Put(3) \o Goto(2), Show \o Ret >>) >>) : o \in Sums, a \in Words, b \in Words}

(* Field f of the struct: stored to, shown, shown through a chosen address
   and through a computed index; a scalar whose address is chosen. *)
Gep(i) == In("gep", << S, i >>, "ptr", 0)
PutF(f, c) == << Gep(Const(f)), Store(Const(c), Rel(1)) >>
ShowF(f) == << Gep(Const(f)), LoadI(Rel(1)), Store(Rel(1), OUT) >>
ShowPick == << Gep(Const(0)), Gep(Const(1)), Tape,
               In("select", << Rel(1), Rel(3), Rel(2) >>, "ptr", 0),
               LoadI(Rel(1)), Store(Rel(1), OUT) >>
ShowAt == << Tape, Gep(Rel(1)), LoadI(Rel(1)), Store(Rel(1), OUT) >>
StoreEither == << Tape, In("select", << Rel(1), X, Y >>, "ptr", 0), Store(Const(2), Rel(1)) >> \o Show
Puts == {PutF(0, 1), PutF(1, 2), PutF(0, 2)}
Shows == {ShowF(0), ShowF(1), ShowPick, ShowAt, StoreEither}
StructPrograms ==
    {Assemble(<< KernelOf(<< Prologue \o PutF(0, 1) \o q \o If(1, 2), r \o Goto(2), t \o Ret >>) >>) :
        q \in Puts, r \in Puts \cup Shows, t \in Shows}

(* Device functions: straight-line, with two returns, with a loop and a local
   of its own, with an effect and no result, calling others, calling itself. *)
RetV(v) == << In("ret", << v >>, "void", 0) >>
Param == In("param", <<>>, "i32", 0)
CallF(f, v) == In("call", << f, v >>, "i32", 0)
Global == In("global_ref", << 0 >>, "gptr", 0)
Input(g) == In("load", << g >>, "i32", 1)
Devices == <<
    Fn(TRUE, 1, FALSE, << << Param, In("add", << 0, Const(1) >>, "i32", 0) >> \o RetV(1) >>),
    Fn(TRUE, 1, FALSE, << << Param, In("icmp", << 0, Const(2) >>, "i32", "eq"),
                             In("br_cond", << 1, 1, 2 >>, "void", 0) >>,
                          RetV(Const(0)), RetV(0) >>),
    Fn(TRUE, 1, FALSE, << << Param, In("alloca", <<>>, "ptr", 2), Global, Store(0, 1) >> \o Goto(1),
                          << Input(2), In("br_cond", << Rel(1), 2, 3 >>, "void", 0) >>,
                          << LoadI(1), In("add", << Rel(1), Const(1) >>, "i32", 0),
                             Store(Rel(1), 1) >> \o Goto(1),
                          << LoadI(1) >> \o RetV(Rel(1)) >>),
    Fn(TRUE, 1, TRUE, << << Param, Global, Store(0, 1) >> \o Ret >>),
    Fn(TRUE, 1, FALSE, << << Param, CallF(0, 0), CallF(1, 1), CallF(3, 2) >> \o RetV(2) >>),
    Fn(TRUE, 1, FALSE, << << Param, Global, Input(1), In("br_cond", << 2, 1, 2 >>, "void", 0) >>,
                          << CallF(5, 0) >> \o RetV(Rel(1)), RetV(0) >>) >>

(* X := f(X), or f's effect alone. *)
Call(f) == IF f = 3 THEN << LoadI(X), CallF(3, Rel(1)) >>
           ELSE << LoadI(X), CallF(f, Rel(1)), Store(Rel(1), X) >>
Join == << In("phi", << 1, P, 2, Const(2) >>, "i32", 0), Store(Rel(1), OUT) >>
CallPrograms ==
    {Assemble(Append(Devices, KernelOf(<<
        Prologue \o Put(1) \o p \o If(1, 2), q \o Goto(3), r \o Goto(3), Join \o Show \o t, Ret >>))) :
        p \in {<<>>} \cup {Call(f) : f \in 0 .. 5}, q \in {<<>>} \cup {Call(f) : f \in 0 .. 5},
        r \in {<<>>, Call(1)}, t \in {Ret, If(1, 4)}}

(* AMD and NVIDIA, Tensix, the targets with real calls. *)
Gpu == {"BE_F_NOCALL", "BE_F_REACH"}
Tensix == {"BE_F_NOCALL"}
Host == {}
JobsOf(programs, no, feats) == {[mod |-> p, off |-> no, be |-> feats] : p \in programs}
TestJobs ==
    JobsOf(StoreGraphs, {}, Gpu) \cup JobsOf(SwapGraphs, {}, Host)
    \cup JobsOf(SumPrograms, {}, Host) \cup JobsOf(StructPrograms, {}, Gpu)
    \cup JobsOf(CallPrograms, {}, Gpu) \cup JobsOf(CallPrograms, {}, Tensix)
    \cup UNION {JobsOf(StructPrograms, {p}, Host) : p \in {"sroa", "mem2reg", "cfold", "dce"}}
TestInputs == {[tape |-> t, args |-> << 1 >>] : t \in {<< 1, 0, 2 >>, << 0, 2, 1 >>}}
TestBits == [i1 |-> 1, i8 |-> 1, i32 |-> 2, i64 |-> 3]
=============================================================================
