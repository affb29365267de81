----------------------------- MODULE BirMem2Reg -----------------------------
(***************************************************************************)
(* src/src/ir/bir_mem2reg.c: promotion of scalar allocas to SSA values in  *)
(* seven steps per function.  Each step is an operator over the fields of  *)
(* the code's m2r_t it reads.  Blocks are numbered within the function, as *)
(* in the code, from step 2 to the end of step 6.                          *)
(***************************************************************************)
EXTENDS Dominators, Loops

CONSTANTS M2R_MAX_PROMOTE, M2R_MAX_CHANGES

ASSUME LimitsAssumption == {M2R_MAX_PROMOTE, M2R_MAX_CHANGES} \subseteq Nat

(* The alloca a load or store addresses; 0 also stands for "none". *)
GetAllocaRef(M, I, isStore) ==
    LET ref == IF isStore THEN I.ops[2] ELSE I.ops[1] IN
    IF ref \in DOMAIN M.insts /\ M.insts[ref].op = "alloca" THEN ref ELSE 0

FuncInsts(M, F) == M.blocks[F.first].first .. (M.blocks[F.first].first + F.total - 1)

(***************************************************************************)
(* Step 1: the first M2R_MAX_PROMOTE scalar allocas, less those an         *)
(* instruction other than a load, a branch or the address of a store       *)
(* mentions, the last one taking the place of the one that leaves.  The    *)
(* scan of "any other opcode" looks at every operand, indices of functions *)
(* and globals too.                                                        *)
(***************************************************************************)
Escapes(I) ==
    CASE I.op \in {"load", "br", "br_cond", "switch"} -> <<>>
      [] I.op = "store"                               -> << I.ops[1] >>
      [] OTHER                                        -> I.ops

RemoveAt(seq, at) ==
    IF at = {} THEN seq
    ELSE SubSeq([seq EXCEPT ![CHOOSE k \in at : TRUE] = seq[Len(seq)]], 1, Len(seq) - 1)

Demote(promote, v) == RemoveAt(promote, {k \in DOMAIN promote : promote[k] = v})

Step1FindPromotable(M, F) ==
    LET scalars == Ascending({i \in FuncInsts(M, F) :
                                 M.insts[i].op = "alloca" /\ M.insts[i].ty \in DOMAIN Pointee})
        Scan(promote, i) == ForEach(Escapes(M.insts[i]), promote, Demote)
    IN  ForEach(Ascending(FuncInsts(M, F)), Cut(scalars, M2R_MAX_PROMOTE), Scan)

(* Children in the dominator tree, in the order the sibling lists give. *)
Backwards(seq) == [k \in DOMAIN seq |-> seq[Len(seq) + 1 - k]]

DtChildren(idom, b) ==
    Backwards(Ascending({c \in DOMAIN idom : c > 0 /\ c # b /\ idom[c] = b}))

(***************************************************************************)
(* Step 5: a phi for each promoted alloca at the iterated dominance        *)
(* frontier of the blocks that store to it, appended to the arena with one *)
(* empty entry per recorded predecessor.                                   *)
(***************************************************************************)
StoreBlocks(M, F, al) ==
    {bi \in 0 .. F.num - 1 : \E i \in InstsOf(M, F.first + bi) :
        M.insts[i].op = "store" /\ GetAllocaRef(M, M.insts[i], TRUE) = al}

NewPhi(F, preds, d, ty) ==
    [op |-> "phi", ty |-> ty, sub |-> 0, tag |-> 0,
     ops |-> [k \in 1 .. 2 * Len(preds[d]) |->
                IF k % 2 = 1 THEN preds[d][(k + 1) \div 2] + F.first ELSE NONE]]

PlacePhis(F, preds, df, al, s, defs) ==
    LET Place(x, d) ==
            IF d \in x.has THEN x
            ELSE [x EXCEPT
                    !.M.insts = Append0(@, NewPhi(F, preds, d, Pointee[x.M.insts[al].ty])),
                    !.M.lines = Append0(@, 0),
                    !.phis = Append(@, [inst |-> NumInsts(x.M), block |-> d,
                                        alloca |-> al]),
                    !.has = @ \cup {d},
                    !.wl = IF d \in x.inwl THEN @ ELSE Append(@, d),
                    !.inwl = @ \cup {d}]
        Take(x) == ForEach(Ascending(df[Head(x.wl)]),
                           [x EXCEPT !.wl = Tail(@)], Place)
    IN  While([M |-> s.M, phis |-> s.phis, has |-> {}, wl |-> Ascending(defs),
               inwl |-> defs],
              F.num, LAMBDA x : x.wl = <<>>, Take)

Step5InsertPhis(M, F, promote, preds, df) ==
    ForEach(promote, [M |-> M, phis |-> <<>>], LAMBDA s, al :
            PlacePhis(F, preds, df, al, s, StoreBlocks(s.M, F, al)))

(***************************************************************************)
(* Step 6: renaming along the dominator tree.  top is the reaching         *)
(* definition of each promoted alloca, changes the stack of the values it  *)
(* replaced; a change past M2R_MAX_CHANGES is made and not recorded.       *)
(***************************************************************************)
SetTop(s, al, v) ==
    [s EXCEPT !.top[al] = v,
              !.changes = IF Len(@) < M2R_MAX_CHANGES
                          THEN Append(@, << al, s.top[al] >>) ELSE @]

(* Mutant: a block's definitions stay current after its subtree is done. *)
RestoreMissing(s, save) == s

Restore(s, save) ==
    While(s, Len(s.changes), LAMBDA x : Len(x.changes) <= save,
          LAMBDA x : LET c == x.changes[Len(x.changes)]
                     IN  [x EXCEPT !.top[c[1]] = c[2],
                                   !.changes = SubSeq(@, 1, Len(@) - 1)])

RenameAccess(s, i, I, al) ==
    IF al = 0 \/ al \notin DOMAIN s.top THEN s
    ELSE IF I.op = "store"
    THEN [SetTop(s, al, I.ops[1]) EXCEPT !.dead = @ \cup {i}]
    ELSE [s EXCEPT !.remap[i] = s.top[al], !.dead = @ \cup {i}]

RenameInst(s, i) ==
    LET I == s.M.insts[i] IN
    IF I.op \notin {"load", "store"} THEN s
    ELSE RenameAccess(s, i, I, GetAllocaRef(s.M, I, I.op = "store"))

(* The first entry of a phi for this predecessor takes the value. *)
SetPhiIncoming(I, pred, v) ==
    LET at == {k \in DOMAIN I.ops : k % 2 = 1 /\ I.ops[k] = pred}
    IN  IF at = {} THEN I
        ELSE [I EXCEPT !.ops[1 + CHOOSE k \in at : \A q \in at : k <= q] = v]

RenameBlock(s, F, phis, b) ==
    LET PhisOf(t) == SelectSeq(phis, LAMBDA p : p.block = t)
        Define(x, p) == SetTop(x, p.alloca, p.inst)
        Fill(x, p) == [x EXCEPT !.M.insts[p.inst] =
                          SetPhiIncoming(@, F.first + b, x.top[p.alloca])]
        FillAll(x, t) == ForEach(PhisOf(t - F.first), x, Fill)
        Body(B) == For(B.first, B.first + B.num, ForEach(PhisOf(b), s, Define), RenameInst)
    IN  ForEach(GetSuccs(s.M, F.first + b), Body(s.M.blocks[F.first + b]), FillAll)

(* A stack entry is a block of the dominator tree and the children to do. *)
Push(w, b) ==
    [w EXCEPT !.stack = Append(@, [block |-> b, todo |-> <<>>, seen |-> FALSE, save |-> 0])]

Walk(w, F, phis, idom, n, top) ==
    IF ~top.seen
    THEN [s |-> RenameBlock(w.s, F, phis, top.block),
          stack |-> [w.stack EXCEPT ![n] =
              [@ EXCEPT !.seen = TRUE, !.save = Len(w.s.changes),
                        !.todo = DtChildren(idom, top.block)]]]
    ELSE IF top.todo # <<>>
    THEN Push([w EXCEPT !.stack[n].todo = Tail(@)], Head(top.todo))
    ELSE [s |-> Restore(w.s, top.save), stack |-> SubSeq(w.stack, 1, n - 1)]

Step6Rename(M, F, allocas, phis, idom) ==
    LET start == [M |-> M, dead |-> allocas, changes |-> <<>>,
                  top |-> [al \in allocas |-> UNDEF],
                  remap |-> [i \in DOMAIN M.insts |-> NONE]]
    IN  While(Push([s |-> start, stack |-> <<>>], 0), 3 * F.num,
              LAMBDA w : w.stack = <<>>,
              LAMBDA w : Walk(w, F, phis, idom, Len(w.stack), w.stack[Len(w.stack)])).s

(***************************************************************************)
(* Step 7: lay the function out anew from its first slot, each block's     *)
(* phis before its surviving instructions, and renumber.  The slots after  *)
(* the function are not moved: whatever it grows over is overwritten.      *)
(***************************************************************************)
ResolveVal(remap, v) ==
    While(v, 64, LAMBDA r : r < 0 \/ r \notin DOMAIN remap \/ remap[r] = NONE,
          LAMBDA r : remap[r])

RemapOperand(remap, renum, v) ==
    LET r == IF v < 0 THEN v ELSE ResolveVal(remap, v)
    IN  IF r >= 0 /\ r \in DOMAIN renum THEN renum[r] ELSE r

(* What stays of block bi, in its new order. *)
Keep(s, F, phis, bi) ==
    LET mine == SelectSeq(phis, LAMBDA p : p.block = bi)
        Body(B) == SelectSeq([k \in 1 .. B.num |-> B.first + k - 1],
                             LAMBDA i : i \notin s.dead)
    IN  [k \in 1 .. Len(mine) |-> mine[k].inst] \o Body(s.M.blocks[F.first + bi])

(* layout: the function's new instruction order; renum: its new indices. *)
Rewrite(s, F, fi, base, kept, layout, renum) ==
    LET Lead(bi) == For(0, bi, base, LAMBDA acc, k : acc + Len(kept[k]))
        Here(i) == i - base + 1 \in DOMAIN layout
    IN  [s.M EXCEPT
           !.insts = [i \in DOMAIN @ |->
               IF Here(i) THEN MapValues(@[layout[i - base + 1]],
                                         LAMBDA v : RemapOperand(s.remap, renum, v))
               ELSE @[i]],
           !.lines = [i \in DOMAIN @ |->
               IF Here(i) THEN @[layout[i - base + 1]] ELSE @[i]],
           !.blocks = [b \in DOMAIN @ |->
               IF b \in BlocksOf(F)
               THEN [first |-> Lead(b - F.first), num |-> Len(kept[b - F.first])]
               ELSE @[b]],
           !.funcs[fi].total = Len(layout)]

Renumber(layout, base) ==
    [i \in {layout[k] : k \in DOMAIN layout} |->
        base + (CHOOSE k \in DOMAIN layout : layout[k] = i) - 1]

Step7Compact(s, F, fi, phis) ==
    LET base == s.M.blocks[F.first].first
        Placed(kept, layout) ==
            Rewrite(s, F, fi, base, kept, layout, Renumber(layout, base))
        Laid(kept) == Placed(kept, For(0, F.num, <<>>, LAMBDA acc, bi : acc \o kept[bi]))
    IN  Laid([bi \in 0 .. F.num - 1 |-> Keep(s, F, phis, bi)])

(* m2r_run_func: steps 5 to 7, once the graph is known. *)
PromoteAll(M, F, fi, promote, preds, idom) ==
    LET Renamed(s5) ==
            Step7Compact(Step6Rename(s5.M, F, {promote[k] : k \in DOMAIN promote},
                                     s5.phis, idom), F, fi, s5.phis)
    IN  Renamed(Step5InsertPhis(M, F, promote, preds, Step4ComputeDf(F, preds, idom)))

RunFunc(M, fi) ==
    LET F == M.funcs[fi]
        Promote(promote, preds) ==
            IF F.num = 0 \/ promote = <<>> THEN M
            ELSE PromoteAll(M, F, fi, promote, preds, Step3ComputeDominators(M, F, preds))
    IN  Promote(Step1FindPromotable(M, F), Step2BuildPreds(M, F))

(***************************************************************************)
(* The driver: every function in turn, then slide the functions down over  *)
(* the gaps.  bir_dce closes its gaps with the same loop.                  *)
(***************************************************************************)
SlideFunc(M, fi, dst) ==
    LET F == M.funcs[fi]
        src == M.blocks[F.first].first
        Shift(v) == IF v \in src .. (src + F.total - 1) THEN v + dst - src ELSE v
        Moved(i) == i \in dst .. (dst + F.total - 1)
    IN  IF src = dst THEN M
        ELSE [M EXCEPT
                !.insts = [i \in DOMAIN @ |->
                    IF Moved(i) THEN MapValues(@[i - dst + src], Shift) ELSE @[i]],
                !.lines = [i \in DOMAIN @ |-> IF Moved(i) THEN @[i - dst + src] ELSE @[i]],
                !.blocks = [b \in DOMAIN @ |->
                    IF b \in BlocksOf(F) THEN [@[b] EXCEPT !.first = @ + dst - src]
                    ELSE @[b]]]

CloseGaps(M) ==
    LET Slide(s, fi) ==
            IF M.funcs[fi].num = 0 THEN s
            ELSE [M |-> SlideFunc(s.M, fi, s.dst), dst |-> s.dst + M.funcs[fi].total]
        Trim(s) == [s.M EXCEPT !.insts = [i \in 0 .. s.dst - 1 |-> @[i]],
                               !.lines = [i \in 0 .. s.dst - 1 |-> @[i]]]
    IN  Trim(For(1, Len(M.funcs) + 1, [M |-> M, dst |-> 0], Slide))

Mem2Reg(M) ==
    LET Finish(end) == IF end = M THEN M ELSE CloseGaps(end)
    IN  Finish(For(1, Len(M.funcs) + 1, M, RunFunc))
=============================================================================
