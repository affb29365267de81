----------------------------- MODULE BirInline ------------------------------
(***************************************************************************)
(* src/src/ir/bir_inline.c: calls of __device__ functions are replaced by  *)
(* the callee's body.  A caller is rebuilt at the end of the arenas; the   *)
(* old copies, and the device functions nothing calls any more, are swept  *)
(* by a final compaction and the result is verified.  The size limits on a *)
(* callee and the sweep halfway through a full arena are left out.         *)
(***************************************************************************)
EXTENDS Bir, Loops

INL_MAX_ROUNDS == 64

Calls(M, F) == {i \in Range0(M, F) : M.insts[i].op = "call"}
Callee(I) == I.ops[1] + 1

(* Mutant: leaves are stripped once, so every caller looks cyclic. *)
CgCycOnce(M) == {f \in DOMAIN M.funcs : Calls(M, M.funcs[f]) # {}}

(* cgcyc: strip leaves until only functions on, or reaching, a cycle stay. *)
CgCyc(M) ==
    LET Leaf(cyc, f) == \A i \in Calls(M, M.funcs[f]) :
            LET g == Callee(M.insts[i]) IN M.funcs[g].num = 0 \/ g \notin cyc
        Strip(cyc) == {f \in cyc : ~Leaf(cyc, f)}
    IN  While(DOMAIN M.funcs, Len(M.funcs), LAMBDA c : Strip(c) = c, Strip)

Inlinable(M, cyc, g) ==
    g \notin cyc /\ M.funcs[g].dev /\ M.funcs[g].num >= 1

(* fkeep: 2 = must survive, 1 = only ever spliced, 0 = unused. *)
Uses(M, f) == {j \in Range0(M, M.funcs[f]) : M.insts[j].op \in {"call", "fnref"}}

Fkeep(M, cyc, drop) ==
    LET Start(f) == IF drop /\ M.funcs[f].dev THEN 0 ELSE 2
        Weight(j, g) == IF M.insts[j].op = "call" /\ Inlinable(M, cyc, g) THEN 1 ELSE 2
        Weights(need, g) ==
            UNION {{Weight(j, g) : j \in {u \in Uses(M, f) : Callee(M.insts[u]) = g}} :
                   f \in {h \in DOMAIN need : need[h] > 0}}
        Highest(w) == CHOOSE x \in w : \A y \in w : y <= x
        Grow(need) == [g \in DOMAIN need |-> Highest({need[g]} \cup Weights(need, g))]
    IN  While([f \in DOMAIN M.funcs |-> Start(f)], 2 * Len(M.funcs),
              LAMBDA n : Grow(n) = n, Grow)

HasInlinableCall(M, cyc, f) ==
    \E i \in Calls(M, M.funcs[f]) : Inlinable(M, cyc, Callee(M.insts[i]))

(* Values through V, branch targets through B, phi predecessors through P. *)
MapRefs(I, V(_), B(_), P(_)) ==
    [I EXCEPT !.ops = [j \in DOMAIN @ |->
        IF ~IsBlockRef(I.op, j - 1) THEN V(@[j])
        ELSE CASE I.op = "phi"                          -> P(@[j])
               [] I.op \in {"br", "br_cond", "switch"}  -> B(@[j])
               [] OTHER                                 -> @[j]]]

MapVal(map, v) == IF v < 0 THEN v ELSE map[v]

(* Append an instruction; kind tells the later remaps who owns it. *)
Emit(s, I, line, kind) ==
    [s EXCEPT !.M.insts = Append0(@, I), !.M.lines = Append0(@, line),
              !.kind = Append0(@, kind)]
Br(t) == [op |-> "br", ops |-> << t >>, ty |-> "void", sub |-> 0, tag |-> 0]

OpenBlock(M) == [M EXCEPT !.blocks = Append0(@, [first |-> NumInsts(M), num |-> 0])]
CloseBlock(M, b) == [M EXCEPT !.blocks[b].num = NumInsts(M) - M.blocks[b].first]

CallArgs(s, oi) ==
    LET I == s.M.insts[oi] IN [k \in 1 .. Len(I.ops) - 1 |-> MapVal(s.vmap, I.ops[k + 1])]

Bound(args, n) == IF n + 1 \in DOMAIN args THEN args[n + 1] ELSE NONE

(* splice_sb: a straight-line callee is copied into the current block. *)
TakeSb(x, ci, I, args) ==
    LET V(v) == MapVal(x.local, v)
        Same(b) == b
    IN  CASE I.op = "param" -> [x EXCEPT !.local[ci] = Bound(args, I.sub)]
          [] I.op = "ret" ->
               [x EXCEPT !.ret = IF I.ops = <<>> THEN NONE ELSE V(I.ops[1])]
          [] I.op = "unreachable" -> x
          [] OTHER -> [Emit(x, MapRefs(I, V, Same, Same), x.M.lines[ci], "clone")
                         EXCEPT !.local[ci] = NumInsts(x.M)]

SpliceSb(s, oi, args, CB) ==
    LET start == [M |-> s.M, kind |-> s.kind, ret |-> NONE,
                  local |-> [i \in DOMAIN s.M.insts |-> NONE]]
        Spliced(x) == [s EXCEPT !.M = x.M, !.kind = x.kind, !.vmap[oi] = x.ret]
    IN  Spliced(For(CB.first, CB.first + CB.num, start,
                    LAMBDA x, ci : TakeSb(x, ci, x.M.insts[ci], args)))

(***************************************************************************)
(* splice_mb: the current block ends in a branch to a clone of the callee, *)
(* whose returns branch to a continuation block; the continuation opens    *)
(* with a phi of the returned values when there are several.               *)
(***************************************************************************)
TakeMb(x, ci, I, args, cont, ncb) ==
    CASE I.op = "param" -> [x EXCEPT !.local[ci] = Bound(args, I.sub)]
      [] I.op = "ret" ->
           Emit([x EXCEPT !.rets = Append(@,
                    << ncb, IF I.ops = <<>> THEN NONE ELSE I.ops[1] >>)],
                Br(cont), 0, "synth")
      [] OTHER -> [Emit(x, I, x.M.lines[ci], "clone") EXCEPT !.local[ci] = NumInsts(x.M)]

CloneBlock(x, OCB, args, cont, ncb) ==
    [For(OCB.first, OCB.first + OCB.num,
         [x EXCEPT !.M.blocks[ncb].first = NumInsts(x.M)],
         LAMBDA y, ci : TakeMb(y, ci, y.M.insts[ci], args, cont, ncb))
       EXCEPT !.M = CloseBlock(@, ncb)]

(* The clones' references, once every block is copied; cont is opened. *)
BindClones(x, lo, clone, cont) ==
    LET V(v) == MapVal(x.local, v)
        B(b) == clone[b]
    IN  [x EXCEPT
           !.M.insts = [i \in DOMAIN @ |->
               IF i >= lo /\ x.kind[i] = "clone" THEN MapRefs(@[i], V, B, B) ELSE @[i]],
           !.M.blocks[cont].first = NumInsts(x.M),
           !.rets = [k \in DOMAIN @ |-> << @[k][1], V(@[k][2]) >>]]

(* The call's value: none, the only return's, or a phi of them all. *)
ReturnPhi(rets, ty) ==
    [op |-> "phi", ty |-> ty, sub |-> 0, tag |-> 0,
     ops |-> [k \in 1 .. 2 * Len(rets) |-> rets[(k + 1) \div 2][2 - (k % 2)]]]

Continue(s, oi, void, cont, x) ==
    LET With(y, v) == [s EXCEPT !.M = y.M, !.kind = y.kind, !.vmap[oi] = v, !.cur = cont]
    IN  CASE void \/ x.rets = <<>> -> With(x, NONE)
          [] ~void /\ Len(x.rets) = 1 -> With(x, x.rets[1][2])
          [] OTHER -> With(Emit(x, ReturnPhi(x.rets, s.M.insts[oi].ty), 0, "synth"), NumInsts(x.M))

Reserve(M, k) == [M EXCEPT !.blocks = Append0(@, [first |-> 0, num |-> 0])]

SpliceMb(s, oi, args, C, nb) ==
    LET cont == nb + C.num
        Clone(b) == nb + b - C.first
        Capped(x) == [M |-> CloseBlock(x.M, s.cur), kind |-> x.kind, rets |-> <<>>,
                      local |-> [i \in DOMAIN s.M.insts |-> NONE]]
        Cloned(x) == For(C.first, C.first + C.num, x, LAMBDA y, c :
                         CloneBlock(y, y.M.blocks[c], args, cont, Clone(c)))
    IN  Continue(s, oi, C.void, cont,
            BindClones(Cloned(Capped(Emit([s EXCEPT !.M = For(0, C.num + 1, @, Reserve)],
                                          Br(nb), 0, "synth"))),
                       NumInsts(s.M) + 1, [b \in BlocksOf(C) |-> Clone(b)], cont))

SbOk(M, g) ==
    \A i \in InstsOf(M, M.funcs[g].first) :
        M.insts[i].op \notin {"br", "br_cond", "switch", "phi"}

(* rebuild_func: every block copied in order, calls spliced on the way, then
   the copied instructions' references mapped to the new space. *)
TakeInst(s, oi, I, cyc) ==
    IF I.op # "call" \/ ~Inlinable(s.M, cyc, Callee(I))
    THEN [Emit(s, I, s.M.lines[oi], "caller") EXCEPT !.vmap[oi] = NumInsts(s.M)]
    ELSE LET C == s.M.funcs[Callee(I)] IN
         IF C.num = 1 /\ SbOk(s.M, Callee(I))
         THEN SpliceSb(s, oi, CallArgs(s, oi), s.M.blocks[C.first])
         ELSE SpliceMb(s, oi, CallArgs(s, oi), C, NumBlocks(s.M))

CopyBlock(s, ob, B, cyc, new) ==
    LET Closed(x) == [x EXCEPT !.emap[ob] = x.cur, !.M = CloseBlock(@, x.cur)]
    IN  Closed(For(B.first, B.first + B.num,
                   [s EXCEPT !.M = OpenBlock(@), !.cur = new, !.bmap[ob] = new],
                   LAMBDA x, oi : TakeInst(x, oi, x.M.insts[oi], cyc)))

FinishRebuild(M, f, s) ==
    LET V(v) == MapVal(s.vmap, v)
        B(b) == s.bmap[b]
        P(b) == s.emap[b]
    IN  [s.M EXCEPT
           !.insts = [i \in DOMAIN @ |->
               IF s.kind[i] = "caller" THEN MapRefs(@[i], V, B, P) ELSE @[i]],
           !.funcs[f] = [@ EXCEPT !.first = NumBlocks(M),
                                  !.num = NumBlocks(s.M) - NumBlocks(M),
                                  !.total = NumInsts(s.M) - NumInsts(M)]]

RebuildFunc(M, cyc, f) ==
    LET F == M.funcs[f]
        start == [M |-> M, cur |-> 0,
                  kind |-> [i \in DOMAIN M.insts |-> "old"],
                  vmap |-> [i \in DOMAIN M.insts |-> NONE],
                  bmap |-> [b \in BlocksOf(F) |-> NONE],
                  emap |-> [b \in BlocksOf(F) |-> NONE]]
    IN  FinishRebuild(M, f, For(F.first, F.first + F.num, start, LAMBDA s, ob :
            CopyBlock(s, ob, s.M.blocks[ob], cyc, NumBlocks(s.M))))

(* cmpct(2): keep what survives, in function order, renumbered from 0. *)
Relocate(M, kept, blocks, insts) ==
    LET BPos(b) == (CHOOSE k \in DOMAIN blocks : blocks[k] = b) - 1
        IPos(v) == IF v < 0 THEN v ELSE (CHOOSE k \in DOMAIN insts : insts[k] = v) - 1
        Lead(k) == For(1, k, 0, LAMBDA n, j : n + M.blocks[blocks[j]].num)
    IN  [insts |-> [i \in 0 .. Len(insts) - 1 |->
                       MapRefs(M.insts[insts[i + 1]], IPos, BPos, BPos)],
         lines |-> [i \in 0 .. Len(insts) - 1 |-> M.lines[insts[i + 1]]],
         blocks |-> [b \in 0 .. Len(blocks) - 1 |->
                       [first |-> Lead(b + 1), num |-> M.blocks[blocks[b + 1]].num]],
         funcs |-> [f \in DOMAIN M.funcs |->
                       IF f \in kept THEN [M.funcs[f] EXCEPT !.first = BPos(@)]
                       ELSE [M.funcs[f] EXCEPT !.first = 0, !.num = 0, !.total = 0]]]

(* The indices a function's blocks, or a block's instructions, take up. *)
Slice(x) == [k \in 1 .. x.num |-> x.first + k - 1]

Cmpct(M, need) ==
    LET kept == {f \in DOMAIN M.funcs : need[f] >= 2 /\ M.funcs[f].num > 0}
        Blocks == For(1, Len(M.funcs) + 1, <<>>, LAMBDA acc, f :
                      IF f \in kept THEN acc \o Slice(M.funcs[f]) ELSE acc)
        Swept(blocks) == Relocate(M, kept, blocks,
            ForEach(blocks, <<>>, LAMBDA acc, b : acc \o Slice(M.blocks[b])))
    IN  Swept(Blocks)

(* bir_inline_device: the new module, or refused. *)
InlineRounds(M, cyc, need) ==
    LET Due(m, f) == need[f] = 2 /\ HasInlinableCall(m, cyc, f)
        Quiet(m) == \A f \in DOMAIN M.funcs : ~Due(m, f)
        Round(m) == For(1, Len(M.funcs) + 1, m,
                        LAMBDA x, f : IF Due(x, f) THEN RebuildFunc(x, cyc, f) ELSE x)
        Checked(out) == [ok |-> Vchk(out), M |-> out]
        Finish(m) == IF Quiet(m) THEN Checked(Cmpct(m, need)) ELSE [ok |-> FALSE, M |-> M]
    IN  Finish(While(M, INL_MAX_ROUNDS, Quiet, Round))

InlineDevice(M, drop) ==
    LET Needed(cyc) == InlineRounds(M, cyc, Fkeep(M, cyc, drop)) IN Needed(CgCyc(M))
=============================================================================
