------------------------------ MODULE FrontEnd ------------------------------
(***************************************************************************)
(* A compilation as comp_tu of main.c runs it: the preprocessor expands    *)
(* the source or refuses it, the parser builds the trees or refuses the    *)
(* file, sema types them or refuses them, lowering takes the functions in  *)
(* order, the verifier and the passes of BirPipeline follow.               *)
(***************************************************************************)
EXTENDS BirPipeline

CONSTANTS MAX_CDEP,    \* nested calls a constant expression may make
          MAX_LOOPS,   \* nested loops lowering keeps targets for
          MAX_CASES,   \* labels of a switch that get a block
          PP_MAX_MACROS, PP_MAX_PARAMS, PP_MAX_ARGS, PP_MAX_COND_DEPTH, PP_MAX_FILE_DEPTH,
          PP_MAX_EXPAND_DEPTH, PP_MAX_JOIN, PP_OUT_MAX    \* the limits of preproc.h

Low == INSTANCE BirLower
Syn == INSTANCE Parser
Pre == INSTANCE Preproc

VARIABLES src,   \* the source files, then the tokens, then the file's records, enumerators,
                 \* constants, variables and functions
          low,   \* the lowering state
          known  \* what the compiler is known to get wrong about this file

fvars == << src, low, mod, stage, off, be, want, known >>

(* Jobs: a sequence of [src, off, be, want, known] records; want is what src means on each input,
   and says nothing when src is no program of the language. *)
Given(job) == src = job.src /\ off = job.off /\ be = job.be /\ want = job.want /\ known = job.known
FInit ==
    /\ \E n \in DOMAIN Jobs : Given(Jobs[n])
    /\ stage = "files"
    /\ low = << >> /\ mod = << >>

(* pp_process, then lexer_tokenize.  Only the preprocessor's errors end the
   compilation here. *)
Expanded(pp) ==
    /\ stage' = IF pp.err THEN "refused" ELSE "source"
    /\ src' = IF pp.err THEN src ELSE Pre!Tokenize(pp.out)
Preprocess ==
    /\ stage = "files"
    /\ Expanded(Pre!Preprocess(src))
    /\ UNCHANGED << low, mod, off, be, want, known >>

(* parser_parse.  With an error reported the file goes no further; an error of
   the lexer is remembered with the types nobody declared. *)
Parsed(P) ==
    /\ stage' = IF P.err THEN "refused" ELSE "parsed"
    /\ src' = IF P.err THEN src ELSE LET F == Syn!CollectFile(P.n) IN [F EXCEPT !.unk = @ \/ src.bad]
Parse ==
    /\ stage = "source"
    /\ Parsed(Syn!Parse(src.toks))
    /\ UNCHANGED << low, mod, off, be, want, known >>

(* sema_check. *)
Checked(S, typed) ==
    /\ stage' = IF \E f \in DOMAIN typed : Low!Reported(S, typed[f].body) THEN "refused" ELSE "lowering"
    /\ src' = [src EXCEPT !.funcs = typed]
    /\ low' = Low!Prescan([src EXCEPT !.funcs = typed])
CheckFile(S) == [f \in DOMAIN src.funcs |-> [src.funcs[f] EXCEPT !.body = Low!CheckFunc(S, src.funcs[f]).node]]
Sema ==
    /\ stage = "parsed"
    /\ Checked(Low!FileScope(src), CheckFile(Low!FileScope(src)))
    /\ UNCHANGED << mod, off, be, want, known >>

LowerNext ==
    /\ stage = "lowering" /\ Len(low.funcs) < Len(src.funcs)
    /\ low' = Low!LowerFunc(low, src.funcs[Len(low.funcs) + 1])
    /\ UNCHANGED << src, mod, stage, off, be, want, known >>

(* bir_ltu reports the errors, a type nobody declared among them, when every
   function has been lowered. *)
Lowered ==
    /\ stage = "lowering" /\ Len(low.funcs) = Len(src.funcs)
    /\ stage' = IF low.err \/ src.unk THEN "refused" ELSE "lowered"
    /\ mod' = IF low.err \/ src.unk THEN << >> ELSE Low!Module(low)
    /\ low' = << >>
    /\ UNCHANGED << src, off, be, want, known >>

FNext == Preprocess \/ Parse \/ Sema \/ LowerNext \/ Lowered \/ (Next /\ UNCHANGED << src, low, known >>)

FSpec == FInit /\ [][FNext]_fvars

-----------------------------------------------------------------------------
InBir == stage \notin {"files", "source", "parsed", "lowering", "refused"}
Legal == DOMAIN want # {}

(* known: the flaws of the compiler the file meets, out of "accepted" (it is no
   program, and compiled), "refused" (it is one), "miscompiled" and "malformed". *)
Passes == (Legal \/ "accepted" \in known) /\ "refused" \notin known

(* Property: from the moment it is lowered and after every pass, the kernel
   makes the stores to global memory the C source prescribes, in order, on
   every input; the files listed as miscompiled do not, after any pass. *)
CompiledAsWritten == InBir /\ Legal => (SameBehaviour <=> "miscompiled" \notin known)

(* Property: whether a file is a program of the language subset decides whether
   it is refused -- by the preprocessor, the parser, sema or lowering -- but for
   the files listed as accepted or refused, where the compiler errs. *)
RefusesTheIllegal == (stage = "refused" => ~Passes) /\ (InBir => Passes)

(* Property: lowering leaves each reachable block with one terminator, at its
   end, and no use that its definition does not dominate, except in the files
   listed as malformed. *)
Terminators == {"br", "br_cond", "ret", "unreachable", "switch"}
WellFormed ==
    \A f \in DOMAIN mod.funcs :
        LET F == mod.funcs[f] IN
        \A b \in Reachable(mod, F) :
            /\ mod.blocks[b].num > 0
            /\ \A i \in InstsOf(mod, b) :
                 /\ mod.insts[i].op \in Terminators <=> i = mod.blocks[b].first + mod.blocks[b].num - 1
                 /\ mod.insts[i].op # "phi" => \A v \in Values(mod.insts[i]) : DefinedAt(F, v, i, b)
LoweredSound == stage = "lowered" => (WellFormed <=> "malformed" \notin known)
=============================================================================
