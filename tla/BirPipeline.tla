----------------------------- MODULE BirPipeline ----------------------------
(***************************************************************************)
(* run_bir_backends of src/src/main.c up to code generation: the verifier, *)
(* device inlining where the backend has no calls, then SROA, mem2reg,     *)
(* constant folding and dead code elimination, each unless a --no- flag    *)
(* turned it off.                                                          *)
(***************************************************************************)
EXTENDS BirScalar, BirInline, BirExec

CONSTANTS Jobs,    \* compilations: [mod, off, be] records
          Inputs   \* what the kernel is run on: [tape, args] records

VARIABLES mod,        \* the lowered module, as the passes have left it
          stage,      \* the pass that ran last
          off,        \* the passes a --no- flag turned off
          be,         \* the backend's features, of BE_F_NOCALL (no calling
                      \* convention) and BE_F_REACH (no uncalled device code)
          want        \* what the lowered module does, per input

vars == << mod, stage, off, be, want >>

Behaviours(M) == [i \in Inputs |-> Behaviour(M, i.tape, i.args)]

Init ==
    /\ \E j \in Jobs : mod = j.mod /\ off = j.off /\ be = j.be
    /\ want = Behaviours(mod)
    /\ stage = "lowered"

Pass(from, name, new) ==
    /\ stage = from
    /\ stage' = name
    /\ mod' = IF name \in off THEN mod ELSE new
    /\ UNCHANGED << off, be, want >>

Verify ==
    /\ stage = "lowered"
    /\ stage' = IF Vchk(mod) THEN "verified" ELSE "refused"
    /\ UNCHANGED << mod, off, be, want >>

Inlined(r) ==
    /\ stage' = IF r.ok THEN "inline" ELSE "refused"
    /\ mod' = r.M
    /\ UNCHANGED << off, be, want >>

Inline ==
    /\ stage = "verified" /\ "BE_F_NOCALL" \in be
    /\ Inlined(InlineDevice(mod, "BE_F_REACH" \in be))

KeepCalls ==
    /\ stage = "verified" /\ "BE_F_NOCALL" \notin be
    /\ stage' = "inline"
    /\ UNCHANGED << mod, off, be, want >>

RunSroa == Pass("inline", "sroa", Sroa(mod))
RunMem2Reg == Pass("sroa", "mem2reg", Mem2Reg(mod))
RunCfold == Pass("mem2reg", "cfold", Cfold(mod))
RunDce == Pass("cfold", "dce", Dce(mod))

Emitted == stage \in {"dce", "refused"} /\ UNCHANGED vars

Next == Verify \/ Inline \/ KeepCalls \/ RunSroa \/ RunMem2Reg \/ RunCfold \/ RunDce
        \/ Emitted

Spec == Init /\ [][Next]_vars

-----------------------------------------------------------------------------
(* Property: whatever passes have run, the kernel still makes the outputs the
   lowered module makes, in order, on every input -- no pass of
   run_bir_backends changes what the program does. *)
SameBehaviour == \A i \in Inputs : Conforms(want[i], Behaviour(mod, i.tape, i.args))

(* Property: step 3 of mem2reg finds the immediate dominator of every block
   the entry reaches, whatever the graph -- the strict dominator all the other
   strict dominators dominate -- and step 4 its frontier, if the table has
   room: the joins where the block's dominance ends. *)
DominatorsExact ==
    stage = "sroa" => \A f \in DOMAIN mod.funcs :
        LET F == mod.funcs[f]
            preds == Step2BuildPreds(mod, F)
            idom == Step3ComputeDominators(mod, F, preds)
        IN  F.num > 0 => /\ ImmediateDominators(mod, F, idom)
                         /\ DominanceFrontiers(mod, F, Step4ComputeDf(F, preds, idom))

(* Property: once mem2reg has run, in every reachable block each operand is
   defined on every path to its use -- earlier in the block or in a dominating
   block, for a phi at the end of the predecessor named -- and each phi has one
   entry for each predecessor still reachable. *)
DefinedAt(F, v, i, b) ==
    v < 0 \/ \E d \in BlocksOf(F) :
        /\ v \in InstsOf(mod, d)
        /\ IF d = b THEN v < i ELSE Dominates(mod, F, d, b)

SsaForm ==
    stage \in {"mem2reg", "cfold", "dce"} => \A f \in DOMAIN mod.funcs :
        LET F == mod.funcs[f]
            live == Reachable(mod, F)
        IN  \A b \in live : \A i \in InstsOf(mod, b) :
              LET I == mod.insts[i] IN
              IF I.op = "phi"
              THEN /\ \A k \in 1 .. (Len(I.ops) \div 2) : I.ops[2 * k - 1] \in live =>
                        /\ I.ops[2 * k] # NONE
                        /\ DefinedAt(F, I.ops[2 * k], NumInsts(mod), I.ops[2 * k - 1])
                   /\ PredSet(mod, F, b) \cap live =
                        {I.ops[2 * k - 1] : k \in 1 .. (Len(I.ops) \div 2)} \cap live
              ELSE \A v \in Values(I) : DefinedAt(F, v, i, b)

(* Property: the line table moves with the instructions: an instruction of the
   source program keeps its own line through inlining, insertion and the three
   compactions. *)
LinesFollow == \A i \in DOMAIN mod.insts :
    mod.insts[i].tag # 0 => mod.lines[i] = mod.insts[i].tag

(* Property: a module the verifier accepts is still one it accepts when the
   inliner has spliced every call it can and when the passes are done, and the
   inliner never gives up on it. *)
StillVerifies ==
    /\ stage # "refused"
    /\ stage \in {"verified", "inline", "sroa", "dce"} => Vchk(mod) \/ "dce" \in off

(* The functions g calls, directly or not; g calls into a cycle. *)
Onward(M, g) ==
    LET Called(f) == {Callee(M.insts[i]) : i \in Calls(M, M.funcs[f])}
        grow[n \in 0 .. Len(M.funcs)] ==
            IF n = 0 THEN Called(g)
            ELSE LET r == grow[n - 1] IN r \cup UNION {Called(f) : f \in r}
    IN  grow[Len(M.funcs)]
Recursive(M, g) == \E h \in {g} \cup Onward(M, g) : h \in Onward(M, h)

(* Property: after bir_inline_device, however deep the calls were nested, a
   surviving function calls a device function only if that one is on a call
   cycle or calls into one, and every callee left is itself kept. *)
CallsGone ==
    stage = "inline" /\ "BE_F_NOCALL" \in be =>
        \A f \in DOMAIN mod.funcs : \A i \in Calls(mod, mod.funcs[f]) :
            LET g == Callee(mod.insts[i])
            IN  mod.funcs[g].num > 0 /\ (mod.funcs[g].dev => Recursive(mod, g))

(* Property (violated): "write cursor <= read cursor since we only remove
   instructions" -- dead code elimination compacts in place, so the k-th
   survivor must not have stood before the slot it is copied to. *)
WriteBehindRead ==
    stage = "cfold" => \A f \in DOMAIN mod.funcs :
        LET F == mod.funcs[f]
            r == Rchk(mod, F)
            order == Survivors(r.M, F, DcePass(r.M, F, r.dead))
        IN  OptRunFunc(mod, f) # mod => \A k \in DOMAIN order : mod.blocks[F.first].first + k - 1 <= order[k]
=============================================================================
