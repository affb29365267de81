------------------------------ MODULE BackEndMC ------------------------------
(* The modules the back ends are run on, and what they are run with. *)
EXTENDS BackEnd

(* The types of the programs. *)
Ty(kind, w, in, n, fs, as) == [kind |-> kind, w |-> w, in |-> in, n |-> n, fs |-> fs, as |-> as]
Scalar(kind, bits) == Ty(kind, bits, "void", 0, <<>>, "")
Ptr(as, to) == Ty("ptr", 0, to, 0, <<>>, as)

(* bb is the number of bits in a byte. *)
TypesOf(bb) == [void |-> Ty("void", 0, "void", 0, <<>>, ""),
          i1 |-> Ty("int", 1, "void", 0, <<>>, ""), i8 |-> Scalar("int", 1 * bb),
          i32 |-> Scalar("int", 4 * bb), i64 |-> Scalar("int", 8 * bb), f32 |-> Scalar("float", 4 * bb),
          g8 |-> Ptr("global", "i8"), g32 |-> Ptr("global", "i32"), g64 |-> Ptr("global", "i64"),
          gf |-> Ptr("global", "f32"), gg |-> Ptr("global", "g32"),
          p32 |-> Ptr("private", "i32"), parr |-> Ptr("private", "arr"),
          prec |-> Ptr("private", "rec"), p8 |-> Ptr("private", "i8"),
          p64 |-> Ptr("private", "i64"), pg |-> Ptr("private", "g32"),
          s32 |-> Ptr("shared", "i32"), sarr |-> Ptr("shared", "arr"),
          arr |-> Ty("array", 0, "i32", 3, <<>>, ""),
          quad |-> Ty("array", 0, "i32", 4, <<>>, ""), squad |-> Ptr("shared", "quad"),
          rec |-> Ty("struct", 0, "void", 0, << "i8", "i64", "i32" >>, ""),
          uni |-> Ty("union", 0, "void", 0, << "i8", "i32" >>, ""), puni |-> Ptr("private", "uni"),
          pair |-> Ty("struct", 0, "void", 0, << "i32", "i32" >>, ""), ppair |-> Ptr("private", "pair"),
          box |-> Ty("struct", 8, "void", 0, << "i8", "uni", "i8" >>, ""), pbox |-> Ptr("private", "box"),
          row |-> Ty("struct", 0, "void", 0, << "i8", "i32", "arr" >>, ""), prow |-> Ptr("private", "row")]


I32(op, ops, sub) == In(op, ops, "i32", sub)
C(v) == Const(v)
Store(v, a) == In("store", << v, a >>, "void", 0)
Ret == << In("ret", <<>>, "void", 0) >>
Goto(b) == << In("br", << b >>, "void", 0) >>
If(v, b, c) == << In("br_cond", << v, b, c >>, "void", 0) >>
Icmp1(sub, a, b) == In("icmp", << a, b >>, "i1", sub)
Phi(ops, t) == In("phi", ops, t, 0)

(* Every kernel starts like this: thread tid has a == in[tid], b == in[tid+1]
   and writes its answer to out[tid]. *)
OUT == 0
INP == 1
K == 2
TID == 3
DST == 4
A == 6
B == 9
Entry == << In("param", <<>>, "g32", 0), In("param", <<>>, "g32", 1), In("param", <<>>, "i32", 2),
            I32("thread_id", <<>>, 0), In("gep", << OUT, TID >>, "g32", 0),
            In("gep", << INP, TID >>, "g32", 0), I32("load", << Rel(1) >>, 0),
            I32("add", << TID, C(1) >>, 0), In("gep", << INP, Rel(1) >>, "g32", 0),
            I32("load", << Rel(1) >>, 0) >>
Answer == << Store(Rel(1), DST) >> \o Ret

(* A program: the device functions before the kernel, and the kernel's blocks
   without its beginning. *)
With(fns, blocks) == [fns |-> fns, blocks |-> blocks]
Flow(blocks) == With(<<>>, blocks)
Straight(body) == Flow(<< body \o Answer >>)
ModuleOf(p, bb) ==
    Assemble(Append(p.fns, Fn(FALSE, 3, TRUE, << Entry \o Head(p.blocks) >> \o Tail(p.blocks))))
    @@ [types |-> TypesOf(bb)]

Wide(v) == In("sext", << v >>, "i64", 0)
Narrow == I32("trunc", << Rel(1) >>, 0)
F(v) == In("bitcast", << v >>, "f32", 0)
Back == I32("bitcast", << Rel(1) >>, 0)
Bool == I32("zext", << Rel(1) >>, 0)

Ints == {"add", "sub", "mul", "sdiv", "srem", "udiv", "urem", "and", "or", "xor", "shl", "lshr", "ashr"}
IntPrograms ==
    {Straight(<< I32(op, << A, B >>, 0) >>) : op \in Ints}
    \cup {Straight(<< Wide(A), Wide(B), In(op, << Rel(2), Rel(1) >>, "i64", 0), Narrow >>) :
            op \in Ints \cup {"umulhi"}}
    \cup {Straight(<< I32(op, << A >>, 0) >>) : op \in Cpu!BitOps}
    \cup {Straight(<< Icmp1(sub, A, B), Bool >>) :
            sub \in {"eq", "ne", "slt", "sle", "sgt", "sge", "ult", "ule", "ugt", "uge"}}
    \cup {Straight(<< I32(op, << A, C(3) >>, 0), I32("sub", << C(-5), Rel(1) >>, 0) >>) :
            op \in {"shl", "sdiv", "and"}}
FloatPrograms ==
    {Straight(<< F(A), F(B), In(op, << Rel(2), Rel(1) >>, "f32", 0), Back >>) : op \in Cpu!FloatBinary}
    \cup {Straight(<< F(A), In(op, << Rel(1) >>, "f32", 0), Back >>) : op \in Cpu!FloatUnary}
    \cup {Straight(<< F(A), F(B), In("fcmp", << Rel(2), Rel(1) >>, "i1", sub), Bool >>) :
            sub \in {"oeq", "one", "olt", "ole", "ogt", "oge"}}
    \cup {Straight(<< F(A), In("fsub", << TypedConst(5, "f32"), Rel(1) >>, "f32", 0), Back >>)}
Byte(op) == << In("trunc", << A >>, "i8", 0), I32(op, << Rel(1) >>, 0) >>
ConversionPrograms ==
    {Straight(Byte(op)) : op \in {"sext", "zext"}}
    \cup {Straight(<< In("zext", << A >>, "i64", 0), In("lshr", << Rel(1), TypedConst(2, "i64") >>, "i64", 0),
                      Narrow >>),
          Straight(<< In("sitofp", << A >>, "f32", 0), Back >>),
          Straight(<< In("uitofp", << A >>, "f32", 0), Back >>),
          Straight(<< F(A), I32("fptosi", << Rel(1) >>, 0) >>),
          Straight(<< F(A), I32("fptoui", << Rel(1) >>, 0) >>),
          Straight(<< Icmp1("slt", A, B), I32("select", << Rel(1), A, B >>, 0) >>),
          Straight(<< F(A), F(B), Icmp1("slt", A, K), In("select", << Rel(1), Rel(3), Rel(2) >>, "f32", 0), Back >>)}
MemoryPrograms ==
    {Straight(<< In("alloca", <<>>, "parr", 2), In("gep", << Rel(1), C(0) >>, "p32", 0), Store(A, Rel(1)),
                 In("gep", << Rel(3), C(2) >>, "p32", 0), Store(B, Rel(1)),
                 I32("load", << Rel(4) >>, 0), I32("load", << Rel(3) >>, 0),
                 I32("sub", << Rel(2), Rel(1) >>, 0) >>),
     Straight(<< In("alloca", <<>>, "prec", 3), In("gep", << Rel(1), C(0) >>, "p8", 0),
                 In("trunc", << A >>, "i8", 0), Store(Rel(1), Rel(2)),
                 In("gep", << Rel(4), C(1) >>, "p64", 0), Wide(B), Store(Rel(1), Rel(2)),
                 In("gep", << Rel(7), C(2) >>, "p32", 0), Store(K, Rel(1)),
                 In("load", << Rel(8) >>, "i8", 0), I32("sext", << Rel(1) >>, 0),
                 In("load", << Rel(7) >>, "i64", 0), Narrow, I32("load", << Rel(6) >>, 0),
                 I32("add", << Rel(2), Rel(1) >>, 0), I32("sub", << Rel(1), Rel(5) >>, 0) >>),
     Straight(<< In("alloca", <<>>, "pbox", 3), In("gep", << Rel(1), C(1) >>, "puni", 0),
                 In("gep", << Rel(1), C(1) >>, "p32", 0), Store(A, Rel(1)),
                 In("gep", << Rel(3), C(0) >>, "p8", 0), In("load", << Rel(1) >>, "i8", 0),
                 I32("sext", << Rel(1) >>, 0) >>),
     Straight(<< In("alloca", <<>>, "pg", 3), Store(DST, Rel(1)), In("load", << Rel(2) >>, "g32", 0),
                 Store(A, Rel(1)), I32("load", << DST >>, 0), I32("add", << Rel(1), B >>, 0) >>),
     Straight(<< In("shared_alloc", <<>>, "s32", 2), Store(A, Rel(1)), In("barrier", <<>>, "void", 0),
                 I32("load", << Rel(3) >>, 0) >>)}
    \cup {Straight(<< I32(op, << DST, A >>, 0), I32("add", << Rel(1), B >>, 0) >>) : op \in Cpu!AtomicRmw}
    \cup {Straight(<< I32("atomic_cas", << DST, C(c), A >>, 0) >>) : c \in {0, 7}}
    \cup {Straight(<< In("atomic_store", << DST, B >>, "void", 0), I32("atomic_load", << DST >>, 0),
                      I32("sub", << C(1), Rel(1) >>, 0) >>)}
WarpPrograms == {Straight(<< I32(op, << C(-1), A >>, 0) >>) : op \in Cpu!WarpOps}

(* Control flow: a diamond, an early return, a counted loop, two loop phis of
   which one feeds the other on a later edge, a loop left from its middle. *)
Diamond == Flow(<< << Icmp1("slt", A, B) >> \o If(Rel(1), 1, 2),
    << I32("add", << A, C(3) >>, 0) >> \o Goto(3), << I32("mul", << B, C(2) >>, 0) >> \o Goto(3),
    << Phi(<< 1, 12, 2, 14 >>, "i32"), Phi(<< 1, A, 2, C(9) >>, "i32"),
       I32("sub", << Rel(2), Rel(1) >>, 0) >> \o Answer >>)
EarlyReturn == Flow(<< << Icmp1("eq", TID, C(1)) >> \o If(Rel(1), 1, 2),
    Ret, << I32("add", << A, B >>, 0) >> \o Answer >>)
CountedLoop == Flow(<< Goto(1),
    << Phi(<< 0, C(0), 2, 16 >>, "i32"), Phi(<< 0, A, 2, 15 >>, "i32"), Icmp1("slt", Rel(2), TID) >> \o If(Rel(1), 2, 3),
    << I32("add", << 12, B >>, 0), I32("add", << 11, C(1) >>, 0) >> \o Goto(1),
    << I32("add", << 12, 11 >>, 0) >> \o Answer >>)
BreakLoop == Flow(<< Goto(1),
    << Phi(<< 0, C(1), 3, 12 >>, "i32"), Phi(<< 0, TID, 3, 18 >>, "i32"), Icmp1("sgt", Rel(1), C(4)) >> \o If(Rel(1), 4, 2),
    << I32("and", << 12, A >>, 0), Icmp1("eq", Rel(1), C(3)) >> \o If(Rel(1), 4, 3),
    << I32("add", << 12, C(1) >>, 0) >> \o Goto(1),
    << Phi(<< 1, 11, 2, 15 >>, "i32"), I32("sub", << Rel(1), 12 >>, 0) >> \o Answer >>)
(* The same with the phis in the other order: one reads the other. *)
LatePhi == Flow(<< Goto(1),
    << Phi(<< 0, TID, 2, 15 >>, "i32"), Phi(<< 0, C(1), 2, 11 >>, "i32"), Icmp1("sgt", Rel(2), C(4)) >> \o If(Rel(1), 3, 2),
    << I32("add", << 11, C(1) >>, 0) >> \o Goto(1),
    << I32("sub", << 12, A >>, 0) >> \o Answer >>)
(* A loop in a loop, the inner one with two arms that meet and a way out of
   its middle. *)
NestedLoop == Flow(<< Goto(1),
    << Phi(<< 0, C(0), 9, 33 >>, "i32"), Phi(<< 0, A, 9, 32 >>, "i32"), Icmp1("slt", Rel(2), C(2)) >> \o If(Rel(1), 2, 10),
    Goto(3),
    << Phi(<< 2, C(0), 8, 30 >>, "i32"), Phi(<< 2, 12, 8, 29 >>, "i32"), Icmp1("sge", Rel(2), C(2)) >> \o If(Rel(1), 9, 4),
    << I32("and", << 17, C(3) >>, 0), Icmp1("eq", Rel(1), C(3)) >> \o If(Rel(1), 9, 5),
    << Icmp1("slt", 17, B) >> \o If(Rel(1), 6, 7),
    << I32("add", << 17, B >>, 0) >> \o Goto(8), << I32("sub", << 17, C(5) >>, 0) >> \o Goto(8),
    << Phi(<< 6, 25, 7, 27 >>, "i32"), I32("add", << 16, C(1) >>, 0) >> \o Goto(3),
    << Phi(<< 3, 17, 4, 20 >>, "i32"), I32("add", << 11, C(1) >>, 0) >> \o Goto(1),
    << I32("sub", << 12, 11 >>, 0) >> \o Answer >>)
FlowPrograms == {Diamond, EarlyReturn, CountedLoop, BreakLoop, NestedLoop}

(* Three turns that exchange two values. *)
Exchange == Flow(<< Goto(1),
    << Phi(<< 0, A, 2, 12 >>, "i32"), Phi(<< 0, B, 2, 11 >>, "i32"), Phi(<< 0, C(0), 2, 16 >>, "i32"),
       Icmp1("slt", 13, C(3)), In("br_cond", << Rel(1), 2, 3, 3 >>, "void", 0) >>,
    << I32("add", << 13, C(1) >>, 0) >> \o Goto(1), << I32("sub", << 11, 12 >>, 0) >> \o Answer >>)
(* Sums of bytes that overflow, compared; the sign of a truth value. *)
ByteSum == << In("trunc", << A >>, "i8", 0), In("trunc", << B >>, "i8", 0), In("add", << Rel(2), Rel(1) >>, "i8", 0) >>
ByteLess(sub) == Straight(ByteSum \o << Icmp1(sub, Rel(1), TypedConst(1, "i8")), Bool >>)
Truth == Straight(<< Icmp1("slt", A, B), I32("sext", << Rel(1) >>, 0) >>)

(* A device function of integers and floats, called twice. *)
Callee(np) == Fn(TRUE, np, FALSE, << [p \in 1 .. np |-> In("param", <<>>, IF p % 2 = 0 THEN "f32" ELSE "i32", p - 1)]
    \o << I32("bitcast", << 1 >>, 0), I32("sub", << 0, Rel(1) >>, 0), I32("sub", << Rel(1), np - (IF np % 2 = 0 THEN 2 ELSE 1) >>, 0),
          In("ret", << Rel(1) >>, "void", 0) >> >>)
CallTwice(np) == With(<< Callee(np) >>, <<
    << F(B), I32("call", << 0 >> \o [p \in 1 .. np |-> IF p % 2 = 0 THEN 10 ELSE A], 0),
       I32("call", << 0 >> \o [p \in 1 .. np |-> IF p % 2 = 0 THEN 10 ELSE IF p = 1 THEN Rel(1) ELSE K], 0) >>
    \o Answer >>)

(* What only the PTX back end takes: structs by value, switches, f32 atomics,
   shuffles with a lane, and shifts by less than the width, beyond which the
   device and the host differ.  A switch into a phi and an atomic minimum it
   refuses. *)
Shifts == {"shl", "lshr", "ashr"}
NvInts ==
    {Straight(<< I32("and", << B, C(7) >>, 0), I32(op, << A, Rel(1) >>, 0) >>) : op \in Shifts}
    \cup {Straight(<< Wide(A), In("and", << B, C(7) >>, "i64", 0), In(op, << Rel(2), Rel(1) >>, "i64", 0), Narrow >>) :
             op \in Shifts}
    \cup {Straight(Byte("sext")),
          Straight(<< F(A), In("bitcast", << DST >>, "gf", 0), In("atomic_add", << Rel(1), Rel(2) >>, "f32", 0),
                      In("load", << Rel(2) >>, "f32", 0), In("fsub", << Rel(1), Rel(2) >>, "f32", 0), Back >>)}
NvWarp == {Straight(<< I32(op, << C(-1), A, C(0) >>, 0) >>) : op \in {"shfl", "shfl_up", "shfl_down", "shfl_xor"}}
    \cup {Straight(<< Icmp1("slt", A, B), In(op, << C(-1), Rel(1) >>, "i1", 0), Bool >>) : op \in {"vote_any", "vote_all"}}
    \cup {Straight(<< Icmp1("slt", A, B), I32("ballot", << C(-1), Rel(1) >>, 0) >>)}
NvStructs == {
    Straight(<< In("alloca", <<>>, "ppair", 2), In("gep", << Rel(1), C(0) >>, "p32", 0), Store(A, Rel(1)),
                In("gep", << Rel(3), C(1) >>, "p32", 0), Store(B, Rel(1)),
                In("load", << Rel(5) >>, "pair", 0), In("alloca", <<>>, "ppair", 2), Store(Rel(2), Rel(1)),
                Store(K, Rel(7)), In("gep", << Rel(3), C(0) >>, "p32", 0), I32("load", << Rel(1) >>, 0),
                In("gep", << Rel(5), C(1) >>, "p32", 0), I32("load", << Rel(1) >>, 0),
                I32("sub", << Rel(3), Rel(1) >>, 0) >>),
    Straight(<< In("param", <<>>, "pair", 2), In("alloca", <<>>, "ppair", 2), Store(Rel(2), Rel(1)),
                In("gep", << Rel(2), C(0) >>, "p32", 0), I32("load", << Rel(1) >>, 0),
                In("gep", << Rel(4), C(1) >>, "p32", 0), I32("load", << Rel(1) >>, 0),
                I32("sub", << Rel(3), Rel(1) >>, 0) >>)}
NvSwitch == Flow(<< << In("switch", << TID, 1, C(0), 2, C(2), 3 >>, "void", 0) >>,
    << I32("add", << A, C(1) >>, 0) >> \o Goto(4), << I32("add", << B, C(2) >>, 0) >> \o Goto(4),
    << I32("sub", << A, B >>, 0) >> \o Goto(4),
    << Phi(<< 1, 11, 2, 13, 3, 15 >>, "i32") >> \o Answer >>)
(* Two ways into the last block, one of them on a condition, with two phis of
   which one takes a comparison's result. *)
NvBridge == Flow(<< << Icmp1("slt", A, B), Icmp1("slt", B, C(4)) >> \o If(Rel(2), 2, 1),
    << I32("mul", << A, C(3) >>, 0) >> \o Goto(2),
    << Phi(<< 0, A, 1, 13 >>, "i32"), Phi(<< 0, 10, 1, 11 >>, "i1"), I32("zext", << Rel(1) >>, 0),
       I32("sub", << Rel(3), Rel(1) >>, 0) >> \o Answer >>)
NvRefused == {Straight(<< I32("atomic_min", << DST, A >>, 0) >>),
    Flow(<< << In("switch", << TID, 1, C(0), 2 >>, "void", 0) >>, Goto(2),
        << Phi(<< 0, A, 1, B >>, "i32") >> \o Answer >>)}
NvPrograms == NvInts \cup NvWarp \cup NvStructs \cup NvRefused \cup {NvSwitch, NvBridge, LatePhi}

TestBits == [i1 |-> 1, i8 |-> 2, i32 |-> 8, i64 |-> 16]

(* What the kernels are run on: the words at in, the scalar k. *)
TestInputs == {[words |-> << 3, -6, 127, 1, -128 >>, k |-> 4], [words |-> << 0, -1, 5, 6, -125 >>, k |-> -1]}
(* What only the Tensix back end takes, and what of all this it refuses. *)
Helper == Fn(TRUE, 0, FALSE, << << I32("thread_id", <<>>, 0), I32("add", << Rel(1), C(300) >>, 0),
                                   In("ret", << Rel(1) >>, "void", 0) >> >>)
CallHelper == With(<< Helper >>, <<
    << I32("call", << 0 >>, 0), I32("call", << 0 >>, 0), I32("mul", << Rel(2), A >>, 0),
       I32("add", << Rel(1), Rel(2) >>, 0) >> \o Answer >>)
TrapUnless == Flow(<< << Icmp1("slt", A, C(100)) >> \o If(Rel(1), 1, 2),
    << I32("sub", << A, C(-1000) >>, 0) >> \o Answer, << In("trap", <<>>, "void", 0) >> >>)
Row == Straight(<< In("alloca", <<>>, "prow", 2), In("gep", << Rel(1), C(0) >>, "p8", 0), In("trunc", << A >>, "i8", 0),
    Store(Rel(1), Rel(2)), In("gep", << Rel(4), C(1) >>, "p32", 0), Store(B, Rel(1)),
    In("gep", << Rel(6), C(2) >>, "parr", 0), In("gep", << Rel(1), C(2) >>, "p32", 0), Store(K, Rel(1)),
    In("load", << Rel(8) >>, "i8", 0), I32("zext", << Rel(1) >>, 0), I32("load", << Rel(7) >>, 0),
    I32("sub", << Rel(2), Rel(1) >>, 0) >>)
(* What is written as text and read back: bytes on the stack, which need no
   alignment, every branch with its merge block.  What the reader knows no
   form for is refused, and so are a value read before the text defines it and
   a void function whose type a later one shares and returns from. *)
Bytes == Straight(<< In("alloca", <<>>, "p8", 0), In("trunc", << A >>, "i8", 0), Store(Rel(1), Rel(2)),
    In("barrier", <<>>, "void", 0), In("load", << Rel(4) >>, "i8", 0), I32("sext", << Rel(1) >>, 0) >>)
Arms == Flow(<< << Icmp1("slt", A, B) >> \o << In("br_cond", << Rel(1), 1, 2, 3 >>, "void", 0) >>,
    << Store(A, DST) >> \o Goto(3), << Store(B, DST) >> \o Goto(3),
    << I32("load", << DST >>, 0), In("block_dim", <<>>, "i32", 0), In("grid_dim", <<>>, "i32", 0),
       I32("add", << Rel(3), Rel(2) >>, 0), I32("add", << Rel(1), Rel(2) >>, 0) >> \o Answer >>)
LaidOut == Flow(<< Goto(2), << I32("add", << 13, A >>, 0) >> \o Answer, << I32("sub", << A, B >>, 0) >> \o Goto(1) >>)
Teller(body, void) == Fn(TRUE, 1, void, << << In("param", <<>>, "i32", 0) >> \o body >>)
Answering == Teller(<< I32("add", << 0, C(5) >>, 0), In("ret", << Rel(1) >>, "void", 0) >>, FALSE)
Silent == Teller(Ret, TRUE)
CallBoth(fns, f) == With(fns, << << In("call", << 1 - f, A >>, "void", 0), I32("call", << f, A >>, 0) >> \o Answer >>)
(* Two branches, whose blocks have the same names. *)
TwoIfs == Flow(<< << Icmp1("slt", A, B) >> \o << In("br_cond", << Rel(1), 1, 2, 2 >>, "void", 0) >>,
    << Store(A, DST) >> \o Goto(2), << Icmp1("eq", TID, C(1)) >> \o << In("br_cond", << Rel(1), 3, 4, 4 >>, "void", 0) >>,
    << Store(B, DST) >> \o Goto(4), << I32("load", << DST >>, 0), I32("add", << Rel(1), K >>, 0) >> \o Answer >>)
TextPrograms == {Bytes, Arms, TwoIfs, LaidOut, CallBoth(<< Silent, Answering >>, 1), CallBoth(<< Answering, Silent >>, 0)}
TextRefused == {LaidOut, CallBoth(<< Silent, Answering >>, 1), CallTwice(7)}
TextOps == Text!Binary \cup Text!Casts \cup Text!GridOps \cup Text!FN1 \cup Text!FN2 \cup Text!ATOMS
    \cup {"param", "select", "icmp", "fcmp", "gep", "barrier", "alloca", "shared_alloc", "load", "store", "br",
          "br_cond", "ret", "call"}
(* What the lanes of a wave do together.  The arms of a branch meet where it
   says; a loop every lane enters; what is the same for all lanes; a place in
   shared memory for each; shuffles within a lane.  A quotient is a product
   with a reciprocal, which is what the programs with one are held against. *)
Fork(v, b, c, meet) == << In("br_cond", << v, b, c, meet >>, "void", 0) >>
WaveDiamond == Flow(<< << Icmp1("slt", A, B) >> \o Fork(Rel(1), 1, 2, 3),
    << I32("add", << A, C(3) >>, 0) >> \o Goto(3), << I32("mul", << B, C(2) >>, 0) >> \o Goto(3),
    << Phi(<< 1, 12, 2, 14 >>, "i32"), Phi(<< 1, A, 2, C(9) >>, "i32"),
       I32("sub", << Rel(2), Rel(1) >>, 0) >> \o Answer >>)
WaveNested == Flow(<< << Icmp1("slt", A, B) >> \o Fork(Rel(1), 1, 5, 6),
    << Icmp1("slt", TID, C(2)) >> \o Fork(Rel(1), 2, 3, 4),
    << I32("add", << A, TID >>, 0) >> \o Goto(4), << I32("mul", << B, C(2) >>, 0) >> \o Goto(4),
    << Phi(<< 2, 14, 3, 16 >>, "i32") >> \o Goto(6), << I32("sub", << B, C(5) >>, 0) >> \o Goto(6),
    << Phi(<< 4, 18, 5, 20 >>, "i32"), I32("xor", << Rel(1), A >>, 0) >> \o Answer >>)
WaveLoop(bound, sub) == Flow(<< Goto(1),
    << Phi(<< 0, C(0), 2, 16 >>, "i32"), Phi(<< 0, A, 2, 15 >>, "i32"), Icmp1(sub, Rel(2), bound) >> \o Fork(Rel(1), 2, 3, 3),
    << I32("add", << 12, B >>, 0), I32("add", << 11, C(1) >>, 0) >> \o Goto(1),
    << I32("add", << 12, A >>, 0) >> \o Answer >>)
WaveUniform == Flow(<< << I32("load", << INP >>, 0), Icmp1("slt", Rel(1), K) >> \o Fork(Rel(1), 1, 2, 3),
    << Store(A, DST) >> \o Goto(3), << I32("sub", << 10, K >>, 0), Store(Rel(1), DST) >> \o Goto(3),
    << I32("load", << DST >>, 0), I32("block_id", <<>>, 0), I32("add", << Rel(2), Rel(1) >>, 0) >> \o Answer >>)
WaveSwitch == Flow(<< << In("switch", << K, 1, C(4), 2 >>, "void", 0) >>,
    << Store(A, DST) >> \o Goto(3), << Store(B, DST) >> \o Goto(3), << I32("load", << DST >>, 0) >> \o Answer >>)
WaveShared == Straight(<< In("shared_alloc", <<>>, "squad", 2), In("shared_alloc", <<>>, "squad", 2),
    In("gep", << Rel(2), TID >>, "s32", 0), In("gep", << Rel(2), TID >>, "s32", 0), Store(A, Rel(2)), Store(B, Rel(2)),
    In("barrier", <<>>, "void", 0), I32("atomic_sub", << Rel(5), K >>, 0), I32("load", << Rel(6) >>, 0),
    I32("load", << Rel(6) >>, 0), I32("sub", << Rel(2), Rel(1) >>, 0), I32("add", << Rel(1), Rel(4) >>, 0) >>)
WaveRefused == {Straight(<< In("shared_alloc", <<>>, "s32", 2), I32("atomic_xchg", << Rel(1), A >>, 0) >>),
                Straight(<< In("trunc", << A >>, "i8", 0), I32("clz", << Rel(1) >>, 0) >>)}
Spelled(op) ==
    LET floats == << I32("sitofp", << A >>, 0), I32("sitofp", << B >>, 0), In("rcp", << Rel(1) >>, "f32", 0),
                     In("fmul", << Rel(3), Rel(1) >>, "f32", 0), I32("fptosi", << Rel(1) >>, 0) >>
        fquot == << F(A), F(B), In("rcp", << Rel(1) >>, "f32", 0), In("fmul", << Rel(3), Rel(1) >>, "f32", 0) >>
    IN  CASE op = "sdiv" -> floats
          [] op = "srem" -> floats \o << I32("mul", << Rel(1), B >>, 0), I32("sub", << A, Rel(1) >>, 0) >>
          [] op = "fdiv" -> fquot \o << Back >>
          [] OTHER -> fquot \o << I32("fptosi", << Rel(1) >>, 0), In("sitofp", << Rel(1) >>, "f32", 0),
                                  In("fmul", << Rel(1), Rel(5) >>, "f32", 0), In("fsub", << Rel(7), Rel(1) >>, "f32", 0), Back >>
WaveQuotient(op) ==
    IF op \in {"sdiv", "srem"} THEN Straight(<< I32(op, << A, B >>, 0) >>)
    ELSE Straight(<< F(A), F(B), In(op, << Rel(2), Rel(1) >>, "f32", 0), Back >>)
WaveOps == {"sdiv", "srem", "fdiv", "frem"}
WavePrograms == {WaveDiamond, WaveNested, WaveLoop(TID, "sle"), WaveLoop(C(3), "slt"), WaveUniform, WaveSwitch, WaveShared,
        Straight(<< I32("shfl", << C(-1), A, TID >>, 0) >>), Straight(<< I32("umulhi", << A, B >>, 0) >>),
        Straight(<< Icmp1("slt", K, C(0)), I32("ballot", << C(-1), Rel(1) >>, 0), Icmp1("ne", Rel(1), C(0)), Bool >>)}
    \cup {WaveQuotient(op) : op \in WaveOps} \cup WaveRefused
(* Frames reach as far as the immediate does. *)
TooLong == Straight([k \in 1 .. 50 |-> I32("add", << Rel(1), A >>, 0)])

-----------------------------------------------------------------------------
(* Who is given what. *)
InstsIn(p) == UNION {{p.blocks[b][i] : i \in DOMAIN p.blocks[b]} : b \in DOMAIN p.blocks}
HasOp(p, ops) == \E I \in InstsIn(p) : I.op \in ops
HasType(p, t) == \E I \in InstsIn(p) : I.ty = t
Suites == <<
    [for |-> {"cpu", "rv64", "nv", "metal", "rv32", "text", "amd", "cdna"},
     ps |-> IntPrograms \cup FloatPrograms \cup ConversionPrograms \cup MemoryPrograms \cup FlowPrograms],
    [for |-> {"cpu", "rv64", "metal", "text"}, ps |-> WarpPrograms],
    [for |-> {"cpu", "rv64", "nv", "metal", "text", "amd"}, ps |-> {CallTwice(2), CallTwice(7)}],
    [for |-> {"amd", "cdna"}, ps |-> WavePrograms \cup NvWarp \cup {Arms}],
    [for |-> {"nv", "metal"}, ps |-> NvInts \cup NvWarp \cup NvStructs \cup NvRefused],
    [for |-> {"nv", "rv32", "metal", "text"}, ps |-> {NvSwitch}],
    [for |-> {"nv"}, ps |-> {NvBridge}],
    [for |-> {"rv32", "metal"}, ps |-> {TooLong, TrapUnless}],
    [for |-> {"rv32"}, ps |-> {CallHelper, Row}],
    [for |-> {"cpu", "rv64", "nv", "metal", "rv32", "text", "amd", "cdna"},
     ps |-> {Exchange, Truth, ByteLess("slt"), ByteLess("ult")}],
    [for |-> {"cpu", "rv64", "nv", "metal", "rv32"}, ps |-> {LatePhi}],
    [for |-> {"cpu", "rv64"}, ps |-> {TooLong, CallTwice(11), CallTwice(13), CallTwice(17)}],
    [for |-> {"text"}, ps |-> TextPrograms] >>

(* What a back end refuses. *)
Atomics == Cpu!AtomicRmw \cup {"atomic_cas", "atomic_load", "atomic_store"}
Rv32Refuses == Cpu!FloatBinary \cup Cpu!FloatUnary \cup Atomics
    \cup {"fcmp", "sitofp", "uitofp", "fptosi", "fptoui"}
Takes(be, p) ==
    CASE be = "nv"    -> p \notin NvRefused /\ ~HasOp(p, {"atomic_min", "atomic_max", "atomic_sub"})
      [] be = "rv32"  -> p \notin {LatePhi, Exchange, TooLong} /\ ~HasOp(p, Rv32Refuses) /\ ~HasType(p, "i64")
      [] be \in {"amd", "cdna"} -> p \notin WaveRefused /\ ~HasOp(p, {"call"}) /\ ~(HasOp(p, {"umulhi"}) /\ HasType(p, "i64"))
      [] be = "metal" -> ~HasOp(p, Cpu!WarpOps \cup Atomics \cup {"switch", "trap"})
      [] be = "text"  -> p \notin TextRefused /\ ~HasOp(p, {I.op : I \in InstsIn(p)} \ TextOps)
                         /\ \A I \in InstsIn(p) : I.op \in {"alloca", "shared_alloc"} => I.sub = 0
      [] OTHER        -> TRUE

(***************************************************************************)
(* What it is known to get wrong, program by program.                      *)
(*                                                                         *)
(* cpu, rv64, metal: phi copies made one after the other; cpu: arguments   *)
(* past the sixth integer; rv64: a frame past the reach of an immediate.   *)
(* All but AMD and Tensix: the sign of a truth value.  All: results        *)
(* narrower than a register, not brought back to their width.              *)
(* PTX: shifts by more than the width, frem, an operand order, a byte      *)
(* widened.  Tensix: a union laid out like a struct.  Metal: no operand is *)
(* unsigned, and a narrow integer is widened with its sign.  AMD: lanes    *)
(* that skip a loop or meet without saying where, threads that hand over a *)
(* place one after the other, wide shifts and quotients, votes, addresses  *)
(* not from a parameter.  Text: blocks of one name.                        *)
(***************************************************************************)
Unmasked(p) == \E I \in InstsIn(p) : I.op \in Shifts /\ I.ops[2] \in {B, Rel(1)} /\ ~HasOp(p, {"and"})
Widened8(p) == HasType(p, "i8") /\ HasOp(p, {"zext"}) /\ ~HasOp(p, {"icmp"})
LowBits == Straight(<< Wide(A), In("and", << B, C(7) >>, "i64", 0), In("lshr", << Rel(2), Rel(1) >>, "i64", 0), Narrow >>)
WaveWrong == {"sdiv", "udiv", "urem", "atomic_cas", "atomic_store", "shared_alloc", "shfl", "vote_any", "vote_all", "ballot"}
Serial == {LatePhi, Exchange}
Narrower == {ByteLess("slt"), ByteLess("ult")}
KnownWrong(be, p) ==
    CASE be = "cpu"   -> p \in Serial \cup {Truth, ByteLess("slt"), CallTwice(13), CallTwice(17)}
      [] be = "rv64"  -> p \in Serial \cup {Truth, ByteLess("slt"), TooLong}
      [] be = "nv"    -> p \in Narrower \cup {Truth} \/ Unmasked(p) \/ Widened8(p) \/ HasOp(p, {"frem", "atomic_store"})
      [] be = "rv32"  -> p \in Narrower \/ HasType(p, "puni")
      [] be = "metal" -> \/ p \in Serial \cup {Truth} \/ Widened8(p)
                         \/ (p # LowBits /\ HasOp(p, {"lshr", "udiv", "urem", "umulhi"}))
                         \/ \E I \in InstsIn(p) : I.op = "icmp" /\ I.sub \in {"ult", "ule", "ugt", "uge"}
      [] be \in {"amd", "cdna"} ->
           p \notin WavePrograms /\ (\/ p \in Narrower \cup {Exchange, Diamond, CountedLoop, BreakLoop, NestedLoop}
                                    \/ HasType(p, "pg") \/ HasOp(p, WaveWrong)
                                    \/ (HasType(p, "i64") /\ (HasOp(p, {"shl", "srem"}) \/ (Unmasked(p) /\ HasOp(p, {"lshr"})))))
      [] OTHER        -> p = TwoIfs
(* Tensix remembers copies made on another edge, and refuses what reads them. *)
Flaws(be, p) ==
    {f \in {"differs", "refused"} :
        IF f = "differs" THEN KnownWrong(be, p) ELSE be = "rv32" /\ p \in {BreakLoop, NestedLoop}}

(* Every other block has a name. *)
BlockNames == << "entry", "", "if.then", "", "for.inc", "", "if.end", "", "for.end", "", "exit" >>
TwiceNamed == << "entry", "if.then", "if.end", "if.then", "if.end" >>
Names(M, names) == [bnames |-> [b \in DOMAIN M.blocks |-> << names[b + 1], 0 >>],
             fnames |-> SubSeq(<< "helper", "teller", "kernel" >>, 4 - Len(M.funcs), 3)]
Named(p, M) == M @@ Names(M, IF p = TwoIfs THEN TwiceNamed ELSE BlockNames)
Job(be, p) ==
    LET mod == ModuleOf(p, IF be = "rv32" THEN 4 ELSE 2)
        Same(op) == ModuleOf(Straight(Spelled(op)), 2)
        quotient == {op \in WaveOps : be \in {"amd", "cdna"} /\ p = WaveQuotient(op)}
    IN  [be |-> be, takes |-> Takes(be, p), known |-> Flaws(be, p), mod |-> Named(p, mod),
         meant |-> IF quotient = {} THEN mod ELSE Same(CHOOSE op \in quotient : TRUE)]
JobsOf(suites) ==
    UNION {UNION {{<< be, p >> : be \in suites[i].for} : p \in suites[i].ps} : i \in DOMAIN suites}
AllJobs == JobsOf(Suites)
TestJobs == {Job(j[1], j[2]) : j \in AllJobs}
=============================================================================
