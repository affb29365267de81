------------------------------- MODULE BackEnd -------------------------------
(***************************************************************************)
(* The end of the compiler: an optimised module goes to one back end, the  *)
(* emitted code is run, and its answer is held against the module's own.   *)
(***************************************************************************)
EXTENDS BirExec

CONSTANTS RvImm, RvReach, Jobs, Inputs
VARIABLES job, stage, emitted
vars == << job, stage, emitted >>

(* Machines with addresses of eight bytes, and of four. *)
Cpu == INSTANCE CpuEmit WITH ByteBits <- 2, PtrBytes <- 8
Rv == INSTANCE Rv64Emit WITH ByteBits <- 2, PtrBytes <- 8
Nv == INSTANCE NvIsel WITH ByteBits <- 2, PtrBytes <- 8
Metal == INSTANCE MetalEmit WITH ByteBits <- 2, PtrBytes <- 8
Rv32 == INSTANCE RvIsel WITH ByteBits <- 4, PtrBytes <- 4
Amd == INSTANCE AmdIsel WITH ByteBits <- 2, PtrBytes <- 8
Text == INSTANCE BirText WITH ByteBits <- 2, PtrBytes <- 8

Threads == 4
OutBase == 4096
InBase == 4160
(* What a run starts from, on a machine with w-bit ints. *)
Memory(i, w, Word(_, _, _)) ==
    For(0, Threads, For(0, Len(i.words), << >>, LAMBDA m, k : Word(m, InBase + 4 * k, i.words[k + 1] % 2^w)),
        LAMBDA m, k : Word(m, OutBase + 4 * k, 7))
Mem64(i) == Memory(i, Cpu!W32, LAMBDA m, a, v : Cpu!Put(m, a, 4, v))
Mem32(i) == Memory(i, Rv32!W32, LAMBDA m, a, v : Rv32!Put(m, a, 4, v))
Args(i, w) == << OutBase, InBase, i.k % 2^w >>

Init == job \in Jobs /\ stage = "ssa" /\ emitted = <<>>
EmitCpu == /\ stage = "ssa" /\ job.be = "cpu" /\ Cpu!CpuOk(job.mod)
           /\ emitted' = Cpu!CpuEmitAll(job.mod) /\ stage' = "code" /\ UNCHANGED job
EmitRv64 == /\ stage = "ssa" /\ job.be = "rv64" /\ Cpu!CpuOk(job.mod)
            /\ emitted' = Rv!Rv64EmitAll(job.mod) /\ stage' = "code" /\ UNCHANGED job
(* nv_compile; what it refuses goes no further. *)
EmitNv == /\ stage = "ssa" /\ job.be = "nv" /\ UNCHANGED job
          /\ emitted' = Nv!NvCompile(job.mod)
          /\ stage' = IF emitted'.ok THEN "code" ELSE "refused"
(* rv_isel_module. *)
EmitRv32 == /\ stage = "ssa" /\ job.be = "rv32" /\ UNCHANGED job
            /\ emitted' = Rv32!RvIselModule(job.mod)
            /\ stage' = IF emitted'.ok THEN "code" ELSE "refused"
(* metal_compile and metal_emit_msl. *)
EmitMetal == /\ stage = "ssa" /\ job.be = "metal" /\ UNCHANGED job
             /\ emitted' = Metal!MetalEmitMsl(job.mod)
             /\ stage' = IF Metal!MetalOk(emitted') THEN "code" ELSE "refused"
(* amdgpu_compile, its phis and checks, for waves of either width. *)
EmitAmd == /\ stage = "ssa" /\ job.be \in {"amd", "cdna"} /\ UNCHANGED job
           /\ emitted' = Amd!AmdgpuCompile(job.mod, job.be = "cdna")
           /\ stage' = IF emitted'.ok THEN "code" ELSE "refused"
(* --ir, and --bir-in of what it wrote. *)
PrintAndRead == /\ stage = "ssa" /\ job.be = "text" /\ UNCHANGED job
                /\ emitted' = Text!BirIn(Text!BirPrint(job.mod), job.mod.types)
                /\ stage' = IF emitted'.ok THEN "code" ELSE "refused"
Done == stage \in {"code", "refused"} /\ UNCHANGED vars
Next == EmitCpu \/ EmitRv64 \/ EmitNv \/ EmitRv32 \/ EmitMetal \/ EmitAmd \/ PrintAndRead \/ Done
Spec == Init /\ [][Next]_vars

Result(r) == [end |-> r.end, out |-> [a \in OutBase .. OutBase + 4 * Threads - 1 |-> Cpu!Get(r.mem, a, 1)]]
Meant(i) == IF job.be = "rv32" THEN Rv32!KRun(job.mod, Args(i, Rv32!W32), Mem32(i), Threads)
            ELSE Cpu!KRun(job.meant, Args(i, Cpu!W32), Mem64(i), Threads)
Ran(i) == CASE job.be = "cpu"  -> Cpu!CpuRun(job.mod, emitted, Args(i, Cpu!W32), Mem64(i), Threads)
            [] job.be = "rv64" -> Rv!Rv64Run(job.mod, emitted, Args(i, Cpu!W32), Mem64(i), Threads)
            [] job.be = "nv"   -> Nv!NvRun(job.mod, emitted, Args(i, Cpu!W32), Mem64(i), Threads)
            [] job.be = "metal" -> Metal!MetalRun(job.mod, emitted, Args(i, Cpu!W32), Mem64(i), Threads)
            [] job.be \in {"amd", "cdna"} -> Amd!AmdRun(job.mod, emitted, Args(i, Cpu!W32), Mem64(i), Threads)
            [] job.be = "text" -> Cpu!KRun(emitted.mod, Args(i, Cpu!W32), Mem64(i), Threads)
            [] OTHER           -> Rv32!Rv32Run(job.mod, emitted, Args(i, Rv32!W32), Mem32(i), Threads)
(* What is left undefined may come out as anything. *)
Agree(want, got) ==
    want.end = got.end /\ \A a \in DOMAIN want.out : want.out[a] = Undef \/ want.out[a] = got.out[a]
SameMemory == \A i \in Inputs : Agree(Result(Meant(i)), Result(Ran(i)))
SameText == job.be = "text" => Text!BirPrint(emitted.mod) = Text!Filled(Text!BirPrint(job.mod))
(***************************************************************************)
(* Property: the emitted code, run on the target for every thread, ends as *)
(* the module does and leaves the same bytes in out: operands reach the    *)
(* right operation at the right width and sign, slots and regions of the   *)
(* frame do not overlap, arguments arrive where the callee looks for them, *)
(* phis get the value of the edge taken.  A module written as text and     *)
(* read back is the same program, on the same lines: "--ir reprints the    *)
(* parsed module, which round-trips against the input" (main.c:674), but   *)
(* for the merge block every branch is given.  What a back end refuses is  *)
(* a module with something in it that it does not claim to translate.      *)
(*                                                                         *)
(* job.known lists what the back end gets wrong for this module, and the   *)
(* property is that it gets wrong this and nothing else: "differs", where  *)
(* the emitted code does something else or the text is not the same, and   *)
(* "refused", where it refuses a module it claims to translate.            *)
(***************************************************************************)
SameResult ==
    /\ stage = "refused" => ~job.takes \/ "refused" \in job.known
    /\ stage = "code" => job.takes /\ "refused" \notin job.known
    /\ stage = "code" => ((SameText /\ SameMemory) <=> "differs" \notin job.known)
=============================================================================
