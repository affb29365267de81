------------------------------ MODULE BirExec -------------------------------
(***************************************************************************)
(* What a module means: the reference the passes are compared against.  It *)
(* runs the one function that is not a device function.  A volatile load   *)
(* reads the next word of an input tape, a store to a global is an output, *)
(* and the run stops at the end of the tape, at the kernel's return, or    *)
(* after Fuel steps.  An uninitialised local reads as Undef; Wrong is what no program *)
(* should ever compute: a value never defined, a phi without an entry for  *)
(* the edge taken, a load from something that is not an address.           *)
(***************************************************************************)
EXTENDS Bir, Loops, TLC
LOCAL INSTANCE Bitwise

CONSTANT Fuel

Undef == -1
Wrong == -2
GlobalAddr(g) == -100 - 100 * g
IsGlobal(a) == a <= -50
LocalAddr(depth, i, field) == 10000 * depth + 10 * i + field
IsLocal(a) == a >= 10000

Signed(v, w) == IF v >= 2^(w - 1) THEN v - 2^w ELSE v
Trunc(a, b) == IF (a < 0) = (b < 0)
               THEN (IF a < 0 THEN -a ELSE a) \div (IF b < 0 THEN -b ELSE b)
               ELSE -((IF a < 0 THEN -a ELSE a) \div (IF b < 0 THEN -b ELSE b))

Compare(sub, a, b, w) ==
    CASE sub = "eq"  -> a = b
      [] sub = "ne"  -> a # b
      [] sub = "ult" -> a < b
      [] sub = "ule" -> a <= b
      [] sub = "ugt" -> a > b
      [] sub = "uge" -> a >= b
      [] sub = "slt" -> Signed(a, w) < Signed(b, w)
      [] sub = "sle" -> Signed(a, w) <= Signed(b, w)
      [] sub = "sgt" -> Signed(a, w) > Signed(b, w)
      [] OTHER       -> Signed(a, w) >= Signed(b, w)

(* The machine's arithmetic on w-bit words; a zero divisor gives Undef. *)
Arith(op, sub, a, b, w) ==
    CASE op = "icmp" -> IF Compare(sub, a, b, w) THEN 1 ELSE 0
      [] op \in {"sdiv", "udiv", "srem", "urem"} /\ b = 0 -> Undef
      [] op = "add"  -> (a + b) % 2^w
      [] op = "sub"  -> (a - b) % 2^w
      [] op = "mul"  -> (Signed(a, w) * Signed(b, w)) % 2^w
      [] op = "sdiv" -> Trunc(Signed(a, w), Signed(b, w)) % 2^w
      [] op = "srem" -> (Signed(a, w) - Signed(b, w) * Trunc(Signed(a, w), Signed(b, w))) % 2^w
      [] op = "udiv" -> a \div b
      [] op = "urem" -> a % b
      [] op = "and"  -> a & b
      [] op = "or"   -> a | b
      [] op = "xor"  -> a ^^ b
      [] op = "shl"  -> (a * 2^(b % w)) % 2^w
      [] op = "lshr" -> a \div 2^(b % w)
      [] op = "ashr" -> (Signed(a, w) \div 2^(b % w)) % 2^w
      [] OTHER       -> Wrong

Arithmetic == {"icmp", "add", "sub", "mul", "sdiv", "srem", "udiv", "urem", "and", "or", "xor",
               "shl", "lshr", "ashr"}

(* A conversion from w bits to another width. *)
Convert(op, a, w, to) ==
    CASE op = "sext"  -> Signed(a, w) % 2^to
      [] op = "trunc" -> a % 2^to
      [] OTHER        -> a
Conversions == {"sext", "zext", "trunc", "bitcast"}

(* The width an operand is computed at. *)
WidthOf(M, v) ==
    LET t == IF IsInt(v) THEN ConstType(v) ELSE IF v >= 0 THEN M.insts[v].ty ELSE "i32"
    IN  IF t \in DOMAIN Bits THEN Bits[t] ELSE Bits["i64"]

(***************************************************************************)
(* One activation: function, block, next instruction, the values computed  *)
(* so far, the call it answers.                                            *)
(***************************************************************************)
Val(env, v) ==
    CASE v = NONE   -> Wrong
      [] v = UNDEF  -> Undef
      [] v = ZERO   -> 0
      [] IsInt(v)   -> ConstVal(v) % 2^Bits[ConstType(v)]
      [] v \in DOMAIN env -> env[v]
      [] OTHER      -> Wrong

Frame(M, f, call, args) ==
    [f |-> f, b |-> M.funcs[f].first, pc |-> M.blocks[M.funcs[f].first].first,
     env |-> << >>, call |-> call, args |-> args]

(* Entering block t from block p: all its phis read the old values. *)
PhiVal(env, I, p) ==
    LET at == {k \in DOMAIN I.ops : k % 2 = 1 /\ I.ops[k] = p}
    IN  IF at = {} THEN Wrong ELSE Val(env, I.ops[1 + CHOOSE k \in at : TRUE])

Enter(M, fr, t) ==
    LET phis == {i \in InstsOf(M, t) : M.insts[i].op = "phi"}
    IN  [fr EXCEPT !.b = t, !.pc = M.blocks[t].first,
                   !.env = [i \in phis |-> PhiVal(fr.env, M.insts[i], fr.b)] @@ @]

(* Globals start at zero. *)
Load(mem, a) ==
    IF a \in DOMAIN mem THEN mem[a]
    ELSE IF IsLocal(a) THEN Undef ELSE IF IsGlobal(a) THEN 0 ELSE Wrong

Step(M, s) ==
    LET d == Len(s.stk)
        fr == s.stk[d]
        I == M.insts[fr.pc]
        Op(k) == Val(fr.env, I.ops[k])
        Top(x) == [s EXCEPT !.stk[d] = x]
        Def(v) == Top([fr EXCEPT !.env = (fr.pc :> v) @@ @, !.pc = @ + 1])
        Skip == Top([fr EXCEPT !.pc = @ + 1])
        Goto(t) == Top(Enter(M, fr, t))
        Stop(why) == [s EXCEPT !.end = why]
        Out(s2, a, v) == [s2 EXCEPT !.out = Append(@, << a, v >>)]
        Write(s2, a, v) == [s2 EXCEPT !.mem = (a :> v) @@ @]
        Poison(x, y) == IF Wrong \in {x, y} THEN Wrong ELSE Undef
    IN  IF fr.pc \notin InstsOf(M, fr.b) THEN Stop("wrong") ELSE
        CASE I.op = "param"      -> Def(IF I.sub + 1 \in DOMAIN fr.args THEN fr.args[I.sub + 1] ELSE Wrong)
          [] I.op = "phi"        -> Skip
          [] I.op \in {"alloca", "shared_alloc"} -> Def(LocalAddr(d, fr.pc, 0))
          [] I.op = "gep"        ->
               IF ~IsLocal(Op(1)) /\ ~IsGlobal(Op(1)) THEN Def(Poison(Op(1), Wrong))
               ELSE IF Op(2) < 0 THEN Def(Op(2))
               ELSE Def(Op(1) + Signed(Op(2), WidthOf(M, I.ops[2])))
          [] I.op = "global_ref" -> Def(GlobalAddr(I.ops[1]))
          [] I.op = "load" /\ I.sub = 1 ->
               IF s.tape = <<>> THEN Stop("tape")
               ELSE [Def(Head(s.tape)) EXCEPT !.tape = Tail(@)]
          [] I.op = "load"       -> Def(Load(s.mem, Op(1)))
          [] I.op = "store"      ->
               IF IsGlobal(Op(2)) THEN Write(Out(Skip, Op(2), Op(1)), Op(2), Op(1))
               ELSE IF IsLocal(Op(2)) THEN Write(Skip, Op(2), Op(1))
               ELSE Out(Skip, Wrong, Op(1))
          [] I.op \in Arithmetic ->
               IF Op(1) < 0 \/ Op(2) < 0 THEN Def(Poison(Op(1), Op(2)))
               ELSE Def(Arith(I.op, I.sub, Op(1), Op(2), WidthOf(M, I.ops[1])))
          [] I.op \in Conversions ->
               IF Op(1) < 0 THEN Def(Op(1))
               ELSE Def(Convert(I.op, Op(1), WidthOf(M, I.ops[1]), WidthOf(M, fr.pc)))
          [] I.op = "select"     ->
               IF Op(1) < 0 THEN Def(Op(1)) ELSE Def(IF Op(1) # 0 THEN Op(2) ELSE Op(3))
          [] I.op = "br"         -> Goto(I.ops[1])
          [] I.op = "br_cond"    ->
               IF Op(1) = Undef THEN Stop("undef")
               ELSE IF Op(1) = Wrong THEN Stop("wrong")
               ELSE Goto(IF Op(1) # 0 THEN I.ops[2] ELSE I.ops[3])
          [] I.op = "switch"     ->
               IF Op(1) = Undef THEN Stop("undef")
               ELSE LET hit == {k \in 1 .. (Len(I.ops) \div 2 - 1) : Op(2 * k + 1) = Op(1)}
                    IN  Goto(IF hit = {} THEN I.ops[2] ELSE I.ops[2 * (CHOOSE k \in hit : TRUE) + 2])
          [] I.op = "call"       ->
               [s EXCEPT !.stk = Append(@, Frame(M, I.ops[1] + 1, fr.pc,
                            [k \in 1 .. Len(I.ops) - 1 |-> Op(k + 1)]))]
          [] I.op = "ret"        ->
               IF d = 1 THEN Stop("ret")
               ELSE LET up == s.stk[d - 1]
                        v == IF I.ops = <<>> THEN Wrong ELSE Op(1)
                        live == {a \in DOMAIN s.mem : a < LocalAddr(d, 0, 0)}
                    IN  [s EXCEPT !.stk = SubSeq(@, 1, d - 2) \o
                            << [up EXCEPT !.env = (fr.call :> v) @@ @, !.pc = @ + 1] >>,
                                  !.mem = [a \in live |-> @[a]]]
          [] OTHER               -> Stop("wrong")

Kernel(M) == CHOOSE f \in DOMAIN M.funcs : ~M.funcs[f].dev

Run(M, tape, args) ==
    While([stk |-> << Frame(M, Kernel(M), 0, args) >>, mem |-> << >>, tape |-> tape,
           out |-> << >>, end |-> ""],
          Fuel, LAMBDA s : s.end # "", LAMBDA s : Step(M, s))

Behaviour(M, tape, args) ==
    LET s == Run(M, tape, args) IN [out |-> s.out, end |-> s.end]

(***************************************************************************)
(* got does what want does: the same outputs in the same order and the     *)
(* same end.  Where want outputs an undefined value anything may stand,    *)
(* past a branch on an undefined value anything may follow, and when       *)
(* either run was cut short only the common prefix is compared.            *)
(***************************************************************************)
Conforms(want, got) ==
    LET n == Len(want.out)
        m == Len(got.out)
        free == want.end = "undef"
        cut == want.end = "" \/ got.end = ""
    IN  /\ \A k \in 1 .. (IF n < m THEN n ELSE m) :
             /\ want.out[k][1] = got.out[k][1]
             /\ want.out[k][2] = Undef \/ want.out[k][2] = got.out[k][2]
        /\ free => n <= m
        /\ ~free /\ ~cut => n = m /\ want.end = got.end

-----------------------------------------------------------------------------
(* Modules for the runs, assembled from lists of blocks. *)

(* An operand Rel(d) is the instruction d places back; other values count
   from the first instruction of the function, blocks from its first block. *)
Rel(d) == 600 + d
In(op, ops, ty, sub) == [op |-> op, ops |-> ops, ty |-> ty, sub |-> sub, tag |-> 1]

AddFunc(M, fn) ==
    LET ib == NumInsts(M)
        bb == NumBlocks(M)
        body == ForEach(fn.blocks, <<>>, LAMBDA acc, b : acc \o b)
        Ref(i, v) == IF v < 0 THEN v ELSE IF v >= 600 THEN i - (v - 600) ELSE ib + v
        Fix(i, I) == [I EXCEPT !.tag = i + 1,
            !.ops = [j \in DOMAIN @ |->
                IF IsBlockRef(I.op, j - 1)
                THEN IF I.op \in {"call", "fnref", "global_ref"} THEN @[j] ELSE bb + @[j]
                ELSE Ref(i, @[j])]]
        Lead(k) == ForEach(SubSeq(fn.blocks, 1, k - 1), ib, LAMBDA n, b : n + Len(b))
        n == ib + Len(body)
    IN  [insts |-> [i \in 0 .. n - 1 |->
                      IF i < ib THEN M.insts[i] ELSE Fix(i, body[i - ib + 1])],
         lines |-> [i \in 0 .. n - 1 |-> i + 1],
         blocks |-> [b \in 0 .. bb + Len(fn.blocks) - 1 |->
                      IF b < bb THEN M.blocks[b]
                      ELSE [first |-> Lead(b - bb + 1), num |-> Len(fn.blocks[b - bb + 1])]],
         funcs |-> Append(M.funcs, [first |-> bb, num |-> Len(fn.blocks), total |-> Len(body),
                                    dev |-> fn.dev, np |-> fn.np, void |-> fn.void])]

Empty == [insts |-> [i \in {} |-> 0], lines |-> [i \in {} |-> 0],
          blocks |-> [b \in {} |-> 0], funcs |-> <<>>]
Assemble(fns) == ForEach(fns, Empty, AddFunc)

Fn(dev, np, void, blocks) == [dev |-> dev, np |-> np, void |-> void, blocks |-> blocks]
=============================================================================
