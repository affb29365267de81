# A TLA+ verification of Booth

Booth is an open GPU compiler (`kath`): a CUDA C front end and a Triton one, one
intermediate form (BIR) with its optimiser, back ends for AMD, NVIDIA, Tensix, CPU,
Metal and Intel, and a runtime that launches what it compiles. This directory holds
TLA+ models of the parts whose correctness depends on order, failure, reuse or
renumbering, the TLC runs that check them on small instances, and TLAPS proofs for
instances of every size. Paths below are relative to the repository; `PROJECT.json`
maps every definition to the lines it models.

Sections: 1 inventory, 2 modules, 3 runs, 4 proofs, 5 findings, 6 observed, 7 not
modelled, 8 plan.

## 1. Inventory

### Parts, their state, their operations

| part | source | state | operations |
|---|---|---|---|
| SYSPRINT buffer | `runtime/host/sysprint.c`, `runtime/include/booth/sysprint_device.h` | backing store, `head`, `dropped` | `BC_SYSPRINT` (device, concurrent), `bc_sp_emit`, `bc_sp_drain` |
| SYSPRINT registry | `runtime/host/sysprint.c` | class table, sink table (static) | `bc_sp_intern`, `bc_sp_register_sink`, `bc_sp_reset_globals` |
| HSA launcher | `runtime/host/hsa/bc_runtime.c` | device, queue, kernels, memory | init, shutdown, load, unload, alloc, free, dispatch |
| ABEND diagnostics | `runtime/host/bc_abend.c` | context, process-wide `g_actx`, allocation table | create, track, snapshot, fault callbacks, destroy |
| LFortran offload ABI | `runtime/host/cuda/lf_gpu.c`, `runtime/host/hsa/lf_gpu_hsa.c` | kernel pool, argument tables | eight ABI calls |
| artefact launcher | `src/exec/booth_run.c`, `execs.c`, `cpu_exec.c`, `nv_exec.c`, `nv_rt.c` | argument slots, device, kernel | reset, add argument, launch |
| verbs | `src/exec/verbs.c`, `src/host/hgen.c` | temporary files, sequence number | `kath cuda`, `kath run` and the single-step verbs |
| compile driver | `src/main.c`, `src/backend/backends.c` | static option stores, module pointer | `kath_compile`, `run_bir_backends`, `be_run` |
| BIR and its verifier | `src/ir/bir.c`, `bir.h` | instruction, block and function arenas, line table | builders, `bir_vchk` |
| BIR passes | `src/ir/bir_inline.c`, `bir_sroa.c`, `bir_insert.c`, `bir_mem2reg.c`, `bir_cfold.c`, `bir_dce.c` | the module | five passes in sequence |
| preprocessor | `src/fe/preproc.c` | macros, conditional stack, file stack, output | define, include, test, expand |
| C front end | `src/fe/parser.c`, `sema.c`, `src/ir/bir_lower.c` | tokens, tree, types, symbol and block tables | parse, check, lower |
| lexer, Triton front end | `src/fe/lexer.c`, `src/triton/*` | text | lex, parse |
| structuriser | `src/ir/bir_struct.c` | regions | graph to structured statements |
| TDF | `src/tdf/*` | tile data-flow graph | fission, placement, emission |
| Tensix | `src/tensix/*` | three baby-core programs, four L1 counters | emitted loops, NoC atomics |
| AMD, NVIDIA, CPU, Metal, Intel back ends | `src/amdgpu`, `src/nvidia`, `src/cpu`, `src/metal`, `src/intel` | machine module | selection, allocation, scheduling, encoding |
| module builder, BIR reader | `src/build/*` | a module under construction | build, parse |
| soft floating point, header shims, arena library | `runtime/device`, `runtime/include`, `src/kauri*` | none of interest | |

### How they interact

A verb calls `kath_compile`, several times in one process. `kath_compile` runs a front
end, lowers to BIR and calls `run_bir_backends`, which verifies, inlines, optimises and
hands the module to the one active back end. What comes out is run by
`booth_run` (in process or through the CUDA driver), by the HSA launcher, or by a
Fortran program through the offload ABI. A running kernel talks back through the
SYSPRINT buffer, and its faults through the ABEND callbacks. On Tensix, the three
programs of one kernel talk to each other through counters in L1.

### What is hard

* device threads and the host sharing a buffer; a packet processor reading a ring
  slot while the host fills it; three cores whose atomics land at any later time;
* failure of any one of a dozen driver calls, with everything acquired so far to give
  back; a process killed between two files;
* static state that outlives the call it belonged to: option stores, the fault
  handler's context, class ids, temporary file names;
* one flat arena that five passes renumber, with operand meaning known only from the
  opcode, a parallel line table, and fixed limits inside the passes.

`PROJECT.json` lists each of these at its line under `hazards`.

## 2. Modules

| module | models | composed with |
|---|---|---|
| `SysprintBuffer` | buffer, device emit in four steps, host emit, drain | `SysprintBufferProofs` |
| `SysprintRegistry` | class and sink tables, over an abstract buffer; holds its theorems | |
| `Hsa`, `HsaDispatch` | launcher life cycle with ABEND, every failing call, beside `HsaDispatch`: one dispatch against the packet processor | `HsaProofs` |
| `LfGpu` | offload ABI, both files | `LfGpuProofs` |
| `BoothRun`, `KathVerbs`, `CompileDriver` | the launch of an artefact; the multi-step verbs of several processes; `kath_compile` and the back-end table | `Kath`, `KathProofs` |
| `TensixPipe`, `TilePipe` | the three cores; the two-ring pipeline they implement | `TensixPipeProofs` |
| `GridBarrier`, `Rendezvous` | the grid barrier of the emitted PTX, with its theorems; what `grid.sync()` promises | |
| `Bir`, `Loops` | the arenas, `bir_vchk`; C loops as folds | all below |
| `Dominators` | steps 2 to 4 of mem2reg: predecessors, immediate dominators, dominance frontiers | `BirMem2Reg`, `DominatorProofs` |
| `BirInline`, `BirMem2Reg`, `BirScalar` | the passes, step by step (`BirScalar`: SROA, folding, dead code) | `BirPipeline` |
| `BirExec` | what a module computes: the reference, not a model of code | `BirPipeline` |
| `BirPipeline` (`MC`) | `run_bir_backends` up to code generation | `FrontEnd` |
| `Preproc` | source files to tokens: conditionals, macros, headers, comments | `FrontEnd` |
| `CAst`, `Parser`, `Sema`, `BirLower` | tokens to tree, type checks, tree to BIR | `FrontEnd` |
| `CExec` | what a C program means: the reference | `FrontEnd` |
| `FrontEnd` (`MC`) | a compilation from its source files through every pass; `MC`: the test programs as trees, their tokens and source files | |
| `KernelExec` | a kernel of BIR run by several threads over memory; the machine the emitters target | the emitters |
| `CpuEmit`, `Rv64Emit`, `NvIsel`, `RvIsel`, `MetalEmit` | x86-64, RISC-V 64, PTX selection with its verifier, the Tensix RV32 cores, Metal with the structuriser | `BackEnd` |
| `AmdIsel` | AMD instruction selection, divergence, EXEC masks, phi elimination, the verifier; a wave of lanes that runs it | `BackEnd` |
| `BirText` | `bir_print` and the reader, `bir_parse` with `booth_build.c`'s builders: lines of tokens | `BackEnd` |
| `BackEnd` (`MC`) | one module, one back end or the printed text, the emitted code run or the text read back | |

State and actions correspond to the code as follows.

**SysprintBuffer.** `data`, `head`, `dropped` are the fields of the buffer, in 4-byte
words. A device emit is `Reserve` (the `atomicAdd`), `Drop` or `WriteHeader`,
`CopyWord`, `Finish`, interleaved between threads; the host emits and drains only while
no kernel runs, as the API demands. The store is never cleared, as in the code: it starts
with words of earlier kernels in it, and lengths are 32-bit, so that a garbage length may
wrap a record to nothing.

**SysprintRegistry.** One action per API call; a drain is one action because it runs on
the host alone. Names are sequences of parts so that `*` patterns compare as in the code.

**Hsa.** Bring-up, loading and shutdown are one action per call into HSA, the allocator or
the ABEND half, each of which may fail, and other devices and faults come between any two:
`bc_device_shutdown` is `ShutDiag` (with `AbShut`), `FreeCtx`, `DestroyQueue`, `Close`. A
context is a resource like the handles; `orphans` are those nobody has any more. `DispatchEventFault`
and `DispatchQueueFault` are a kernel faulting into one of the two callbacks. `Scan` and
`Closer` are the second loop of `ab_near`, a recursive function over the table. HSA,
`dlopen` and `malloc` are external.

**HsaDispatch.** The stores of `bc_dispatch` are separate steps, because the packet
processor (external) may look between any two. `HInit` and `HNext` of `Hsa` put the two
halves of `bc_runtime.c` side by side: they share nothing but the queue, so a behaviour
follows one.

**LfGpu.** `runtime` says which file is linked. Any failing call ends the process, as
`lf_die` does.

**BoothRun.** `brun_launch` step by step (open, load, stage each slot, run, sync, fetch
each slot, release), each step succeeding or failing; `Banks` is the register assignment
of `ce_run`.

**KathVerbs.** A file is which source each part of it came from; a process can be killed
between any two steps and its leftovers stay. Processes share one temporary directory and
overlap freely, two at a time; `met` remembers which ran beside another with its names.

**CompileDriver.** A job is a sequence of calls in one process. A module is the three
facts the driver asks about it. `Kath` follows one of launch, verbs and driver per
behaviour, as one invocation of `kath` does.

**TensixPipe.** The emitted programs, instruction group by instruction group. A signal or
a subtraction is posted (`plus`, `minus`) and applied by a separate step; the cores start in
any order and nothing orders them but the counters. Two histories record what the emitted
code does not prevent: `lost`, the signals applied to a counter before its owner seeded it,
and `overdrawn`, the counters whose owner took a credit it had taken before, because its
posted subtraction had not landed when it polled again. Programming the NIU registers of
one transfer is one step.

**GridBarrier.** The two words, the two `bar.sync` and the spinning leader of each block,
one memory access per step, over sequentially consistent memory. The SASS form
(`isel.c`, 1749-1895) makes the same accesses in the same order. `Resident` is how many
blocks the device holds; the comment at the emitter says the barrier "holds only while
every block is resident", which `Cooperative` states.

**Bir and the passes.** A module is a record of functions, one per arena; an operand is
one integer, and `IsBlockRef` is the only thing that tells a block from a value, as in the
code. Each pass is an operator that follows the code's steps and order: mem2reg its seven
steps with their fixed limits as constants (steps 2 to 4, in `Dominators`, as recursive
functions over the turns of their loops, so that they can be reasoned about), the inliner
its rebuild at the end of the arena and final compaction, SROA its insertion and renumbering, constant folding its single
forward pass, dead code elimination its blanking of unreachable blocks and use counting.
`BirPipeline` runs them as actions; `off` is the set of `--no-` flags and `be` the
features of the active back end. `tag` is a ghost field carrying an instruction's
original line.

**The front end.** A program of `FrontEndMC` is printed to tokens with as few
parentheses as its tree needs, or written out as source files with macros, conditionals
and headers that should come to the same program. `Preproc` expands them line by line as
`pp_process` does: physical lines and continuations, the conditional stack, the `#if`
evaluator's operator stack, arguments, `#`, `##`, the names hidden from an expansion, calls
that run on to the next line, comments that do, the file stack and `#pragma once`. White
space is a token only where the code looks at it. `Parser` builds the tree with the precedence climbing,
lookahead and recovery of `parser.c`, `Sema` collects and checks, `BirLower` lowers with
the code's own order of blocks and instructions, its constant evaluator, loop and switch
stacks. A file is expanded, parsed, refused, or lowered and optimised. `CExec` says what the C
program means and shares nothing with `BirLower`.

**The back ends.** Each emitter translates instruction by instruction as its source does
(frame slots, register assignment, phi copies, calling sequence, refusals), and the
emitted list is executed by the machine of `KernelExec` (or by the meaning of the emitted MSL text, which
is external). The machine is scaled down: a byte has two bits, so `int` has eight and
addresses stay distinct, which makes every overflow and sign reachable; RV32 has four bits
in a byte and four bytes in a pointer. Floating-point results are uninterpreted: two
programs agree when they apply the same operations to the same operands. Every program of
a suite is run on every back end of it. `takes` says what a back end must refuse, and
`KnownWrong` lists, back end by back end, the programs it is known to translate wrongly:
`SameResult` demands that those do differ, and that no other does.

**AMD.** `AmdIsel` follows `isel.c` up to the code the verifier sees after selection: blocks
linearised so that an arm falls into the other (`BuildBlkOrd`), the fixpoint of
`divergence_analysis`, and for each operation the choice between scalar and vector side with
the promotions between them. A divergent branch saves EXEC, narrows it and pushes a region;
`EnterBlock` flips or restores it, `IselBranch` unwinds it on the way back, `Retire` drops
lanes that return. `PhiElim` puts the copies before the trailing terminators, `RwOps` settles
which register file an operand means, `BcVfy` is the check after selection; registers stay
virtual. `AmdRun` (external) runs the list on one wave: EXEC, VCC and SCC, one value per lane
for a vector register and one per wave for a scalar, masked lanes untouched, permutes,
pairs of registers as addresses. Both widths are run: for the 64-wide parts (`cdna`) masks are
saved in fixed pairs and the scalar additions are avoided. A quotient
is a product with the reciprocal there, so quotients are held against that spelling
(`meant`). Wait instructions are left out: the machine completes each access at once.

## 3. Runs

| run | shows | distinct states |
|---|---|---|
| `sysprint` | accepted records keep every word (`AcceptedIntact`), a drain delivers all accepted records (`DrainComplete`) and ends if nothing overflowed (`DrainTerminates`); records are delivered under the name they were emitted under (`DeliveredUnderItsName`); nothing registered later reroutes a class (`RoutingIsStable`); `TypeOK` | 465 000 |
| `sysprint_overflow` | **violation**: after an overflow a drain hands on words nobody wrote (`DrainExact`) | |
| `hsa` | the process-wide handler never holds a freed context, and a queue carries one only between the free and its destruction in `bc_device_shutdown` (`NoDanglingContext`); handles and kernels are given back on every path, contexts too but for that of a device whose queue could not be created (`OnlyOrphansLeak`), a dump names the nearest tracked allocation and the faulting dispatch's arguments (`DumpTellsTruth`); only complete packets of the current dispatch run, also in reused slots (`RunsOnlyWhatIsReady`), nothing outlives the call (`SynchronousAndClean`), every call returns (`DispatchReturns`) | 299 000 |
| `lf_gpu` | arguments own live, unshared memory (`BuffersLive`), memory is accounted for (`MemoryAccounted`), no failed copy reaches Fortran silently (`NoSilentJunk`, CUDA), the kernel finds the first word of every argument, and with CUDA the second (`KernelSeesArgs`) | 303 000 |
| `kath` | a result is all from its own source whatever earlier, failed or killed processes left, unless another ran the same verb in the directory meanwhile, and leftovers have a reason (`OwnCode`); each compilation emits what its own flags asked and frees once (`WroteWhatWasAsked`), never from an overflowed module (`EmittedWhole`); kernel input, register order and output files (`KernelSeesFiles`, `ZeroMeansWritten`), nothing held after a launch (`NothingHeld`), every launch returns (`LaunchReturns`) | 2 023 000 |
| `tensix_pipe` | credits add up, those erased by late seeding included (`CreditsConserved`); a core touches only arrived tiles and drained slots unless it took a credit twice (`OnlyArrivedTiles`, `OnlyDrainedSlots`); a launch with no signal before its seeding drains (`PipelineDrains`); until a credit is taken twice the cores implement `TilePipe` (`ImplementsPipe`) | 1 220 000 |
| `tensix_credit` | **violation**: compute works on a tile that has not arrived (`ComputesOnlyArrived`) | |
| `grid_barrier` | every interleaving is a rendezvous (`ARendezvous`), and everybody gets through (`AllThrough`) | |
| `ir_passes` | behaviour preserved at every stage (`SameBehaviour`), exact dominators and dominance frontiers (`DominatorsExact`), definitions reach uses and phis match edges (`SsaForm`), lines follow instructions (`LinesFollow`), the verifier still accepts (`StillVerifies`), no inlinable call left (`CallsGone`) | 20 000 |
| `front_end` | the illegal files are refused and no others (`RefusesTheIllegal`), lowered blocks are well formed (`LoweredSound`), and at every stage the kernel does what the source says (`CompiledAsWritten`) -- each but for the files named as wrong, which are wrong | |
| `dce_order` | **violation**: dead code elimination overwrites instructions it has not read (`WriteBehindRead`) | |
| `back_ends` | the code of each back end leaves the memory the module leaves, and a module printed and read back is the module, but for the programs of `KnownWrong`, where it does not (`SameResult`) | 2 000 |

Every property of a passing run has a mutant in `PROJECT.json`: a plausible slip in one
mapped definition under which TLC finds that property violated.

### Bounds, and why they are enough

* `sysprint`: six words hold a four-word and a two-word record but not two of
  four, so fitting, exactly filling and overflowing all happen; three emits let two
  threads race and a third record follow; two drains show stale words of the first; payload
  words include lengths that wrap. Class and sink tables of two entries fill; a reset in
  the middle.
* `hsa`: two devices share the process-wide handler; two contexts; a tracking table
  of two overflows; addresses with gaps make "nearest" mean something. Devices and
  argument blobs are interchangeable (symmetry); bring-up and shutdown interleave call by call. Two slots and five dispatches reuse every
  slot twice.
* `lf_gpu`: two kernels of two arguments, room for three buffers: allocation can fail;
  scalars of one word and of two (`LF_SCAL_MAX` is 16 bytes).
* `kath`: three processes in one directory, two of them at a time, so that two may spoil
  each other's files and a third find what they left; every set of
  at most two target flags and the call sequences of `kath cuda` and `kath doctor`; two
  slots, two files that may be the same one, two integer registers and one float register,
  so that both banks run out.
* `tensix_pipe`: depth two is the code's `TT_CB_DEPTH`; three tiles use a slot again.
  `MaxSigs` = 1 signal of a counter in flight (two of them only add up), `MaxOver` = 1
  counter overdrawn in a behaviour (after the first overdraft only the sums are still
  claimed of everybody); the theorems are for any value of both. Counters of six values
  wrap. `tensix_credit` is the same instance.
* `grid_barrier`: three blocks make a first, a middle and a last; a generation of one bit
  wraps in three rounds.
* `ir_passes`: four-block graphs, each block but the entry ending in any of seven
  terminators (return, three jumps, two conditional branches, a switch with a doubled
  edge), under three entry branches with stores and two with copies between two
  variables in the blocks: 1715 programs, which include loops entered in the middle,
  unreachable blocks and critical edges; all pairs of words from -2 to 3 at two bits under
  nine operations; 120 struct programs including computed and chosen addresses, each with
  every pass on and with every single pass off; 196 programs calling six device functions
  (straight-line, two returns, a loop with a local, no result, nested calls, recursion)
  from entry, arms, loops and twice, on a back end with and without `BE_F_REACH`. Each is
  run on two input tapes for at most 60 steps. `M2R_MAX_PROMOTE` is 3 so that the cut
  happens; the other limits are above what these programs need (section 6 says what happens
  otherwise).
* `front_end`: families of files, one per construct and per pair of constructs that
  interact (loops in loops and switches with every jump, switches in one and two loops with
  `break`, `return`, `goto`, a loop or a switch inside, short-circuit operators in every
  position, conversions between four widths, comparisons at each width, constant
  expressions, globals, arrays, records, references, overloads), every grouping of three
  operators, and every file of one family with each bracket and each semicolon left out.
  The files the compiler errs on are run like the others and say how: `accepted` (a `break`
  or `continue` of nothing, `int v[0]`, a duplicate `case`, a constant assigned, a trailing
  comma in a call, a missing `;` after a record, a `goto` to no label), `refused`
  (`0 && 1 / 0` as a constant, a global nobody reads assigned), `miscompiled` (loops nested
  past `MAX_LOOPS`, `continue` in a `switch` in a loop, comparisons of different widths,
  `a && 2`, `(bool) a`, minus on `char`, `char /= int`, a constant shadowed, `break` in a
  constant `switch`) and `malformed` (fall-through, a label past `MAX_CASES`, a declaration
  that leaks out of a `switch`). The properties demand that these are wrong and no others.
  Source files: all pairs of conditions in nested and in
  skipped conditionals, all pairs of binary operators of `#if` grouped either way against
  their C value, macros that name themselves and each other, headers found beside the file
  and on the path, read once, twice or nested to the limit, and one file for each
  way to be refused. The `PP_` limits are small enough to be reached by these.
  `MAX_LOOPS`, `MAX_CASES` and `MAX_CDEP` are four so that files come up to them and past.
* `back_ends`: one kernel per operation and edge, four threads, two inputs with the
  extreme words in them. For AMD the four threads are the lanes of one wave: a divergent
  diamond, one inside an arm of another, a divergent loop, a uniform branch and switch,
  shared memory across a barrier, a shuffle, a ballot. On every target the programs `KnownWrong`
  lists are run too. `RvImm` = 192 and `RvReach` = 256 are the immediate and branch
  ranges of RISC-V scaled to the small words.

### Fairness

Weak fairness only, and only where something keeps running: a device thread in the
middle of an emit and the host in a drain (`sysprint`); the calling host, kernels
that end, and a packet processor that serves what the doorbell announced
(`hsa`) -- a packet never announced may wait for ever; the host process and
kernels that end (`kath`); each core's program, each posted atomic and each transfer
(`tensix_pipe`), since the cores have no other thread and the NoC delivers what it accepts;
each thread of a block the device holds, and the device taking blocks while it has room
(`grid_barrier`).

## 4. Proofs

Every safety property of the runtime, the driver, the Tensix pipeline and the grid barrier
that a run checks is also proved, for every value of the constants, and so are the
dominator tree and the dominance frontiers that the SSA construction of the compiler rests
on. The invariants below were checked by TLC on the run's instance before they were proved.

**`SysprintBufferProofs`.** `TypeCorrect`: types, for any threads, sizes, lengths and
width. `RecordsStayIntact` and `DrainsAreComplete` (`AcceptedIntact`, `DrainComplete`) take
the hypothesis `NoWrap(W)`: no record is longer than `W` words and `MaxEmits * W < Mod`,
that is, the emits between two drains, dropped ones included, add up to less than 4 GiB.
The code has no such limit, and without it the statement is false (section 6). The
invariant `BufferInv`: `Bounded`, everything handed out lies below `head`; `Copying`, a
thread that stores payload words does so for an accepted record; `Separate`, no two emits
share a word; `Contents`, a record's words are stored as far as its thread has come;
`Covered`, every word below `head` belongs to an accepted or a pending emit, or `head` has
left the buffer and no granted emit reaches that far; `Walking`, the drain stands between
two records and has handed on those before it. `Covered` is what makes the walk complete:
it says that a dropped emit can leave a hole only behind everything that was granted.

**`SysprintRegistry`.** `NamesHold` and `RoutingHolds`. `RegistryInv` says that a handle of
the present epoch indexes its own name in the class table; the tables only grow until a
reset, and the first match is stable under growth.

**`HsaProofs`.** `ContextsHold`, `HandlesBalance`: `DeviceInv` says which handles a device
or kernel has at each call it is at (`HandlesAt`, `CodeAt`), in what state its context is
(`HasCtx`), that no two devices at work share one (`Unshared`) and that every live one is
somebody's or an orphan (`Accounted`) (`NullAssumption`: the null pointer is no context).
`DumpsTellTheTruth`: the arguments in a dump follow from `DeviceInv`; that
`ab_near` finds the nearest allocation in a table of any length is proved by the least
counterexample on the turns of its loop (`ScanRuns`, `ScanFinds`). `KernelsAreReady`,
`DispatchIsSynchronous`: `RingInv` ties the place of the host in `bc_dispatch` to the one
slot of the ring that may be valid (`OnRing`) and to what it holds (`Holds`, `Returned`),
for any `QSize`.

**`LfGpuProofs`.** `BuffersAreLive`, `MemoryIsAccounted`, `FailureIsLoud`, `KernelsSeeArgs`.
`LfInv`: arguments stand below `nargs` of slots in use (`Tidy`), every buffer has memory
and nobody else has it (`Owning`), all memory has an owner or lost it to a scalar
(`Accounted`). `KernelsSeeArgs` is for scalars of one or two words (`WidthAssumption`, the
16 bytes of `LF_SCAL_MAX`): the last argument to cover a word of the block decides it, and a
two-word scalar is always covered by the next one.

**`KathProofs`.** `DriverWritesWhatIsAsked`, `DriverEmitsWhole` from `DriverInv`: between
calls every option store is clear and no module is live, and during a call the stores hold
what its own flags set. `JobAssumption` says that in a process that compiles more than
once every call produces a module; the verbs do so, and after a call that does not,
`main.c:862` would free the previous module again. `LaunchShowsFiles`,
`LaunchWritesOutputs`, `LaunchHoldsNothing` from `LaunchInv`: memory belongs to one
argument (`OneOwner`), and each phase of `brun_launch` knows how many slots are staged,
loaded or fetched (`Phases`). `VerbsUseOwnFiles` from `VerbInv`: per process, the names it
uses and what the steps taken have put there (`NamesOf`, `CudaProgress`, `RunProgress`,
`Ended`), for those that met no namesake (`met`); such a process is alone with its names
(`Apart`); every file has a reason to be there (`Reasons`), so that none is under the names
of a process that has yet to write it as if it were its own.

**`TensixPipeProofs`**, for every depth, tile count and counter width large enough
(`NTiles + Depth < Mod`), any order of starting and landing, and without further hypothesis:
`CreditsSafe`, `ArrivedSafe`, `SlotsSafe` (the three invariants of the run), `TypeSafe`, and
`PipeRefined` (initial states map to initial states and, until a credit is taken twice,
every step to a step or a stutter of `TilePipe`).
None of the three is inductive alone. The invariant `PipeInv`: `Typed`, each core confined
to its own labels; `Within`, no core past the last tile; `OneFlight`, a transfer is
outstanding only between its issue and its barrier; and for each counter its `Ledger`: the
counter, with what is posted to it, equals its seed plus the signals given less the credits
taken and the signals lost, modulo the width, and exactly so, with the subtractions still to
land covered by what the counter holds, until its owner takes a credit twice. The exact
half turns a successful poll into a statement about the other core's position; that the
pending subtractions are covered is what makes the poll believable although they are
posted, and is what an overdraft breaks; the half modulo the width survives it.

**`GridBarrier`.** `BarrierCorrect`: `BarrierInv` says there is a number n of
complete rounds such that every block is on its way to round n or still leaving the one
before, and that a spinning block can tell which by the generation, although the generation
wraps: two generations are enough. `GridBarrierIsRendezvous`: hence the barrier implements
`Rendezvous`. Neither needs `Cooperative`; getting through does (TLC).

**`DominatorProofs`.** `DominatorsAreExact`: for every function of the shape `Shape` --
blocks that branch within the function, none with more successors or predecessors than
`M2R_MAX_PREDS` -- steps 2 and 3 of mem2reg find the immediate dominator of every block the
entry reaches: a strict dominator that all the other strict dominators dominate.
`FrontiersAreExact`: from those dominators step 4 finds the dominance frontier of every such
block, the blocks where its dominance ends and the phis of its stores belong. Together they are
what `DominatorsExact` says of the graphs of `ir_passes` (all of which have the shape), for
graphs of any size with loops entered anywhere. It is stated of the operators of
`Dominators`, not of `BirPipeline`, whose other passes are recursive operators. Past
`M2R_MAX_PREDS` the lists are cut and nothing is claimed, and nothing is claimed of a
frontier of more than `M2R_MAX_DF` blocks (section 6). The argument:

* A loop of the code is a function on its turns; `LoopRuns` says that it exists and
  `EveryTurn` is the induction over it, from the well-foundedness of the numbers.
* `Step2Edges`: the lists are the predecessor sets, each block once, because they have room.
* `PostOrdered`: the invariant `Walking` of the depth-first walk -- the stack is a path,
  every block is on the stack, in the post-order or unvisited, and no block is left with an
  unvisited successor -- and a count of the turns: each block is pushed and popped once, so
  the walk is over after 2 * nb. `RpoNumbers`: hence every block but the entry has a
  predecessor with a lower number.
* `IntersectMeets`: while the known blocks form a tree along which numbers fall (`Tree`),
  the climb keeps the common ancestors of its two fingers (`Up`) and lowers the higher
  number, so it stops at the nearest one and its guard never does.
* The sweeps keep the invariant `Iterating`: the tree, and that every dominator of a known
  block is among its ancestors (`HasDominators`; it needs `StaysOut`: a block
  outside a set that forward edges do not leave has no ancestor in it). `SweepSpread` is the converse, path by path:
  after n sweeps an ancestor of a block lies on every path of fewer than n edges to it
  (`Spread`). Since paths of nb edges reach everything (`RoundsEnd`), nb + 1 sweeps are
  enough and the iteration has stopped changing before 4 * nb + 16 (`IterationFinds`).
* The dominator of a join b is above every reachable predecessor p of b (`PredsFit`), so the
  runner from p climbs through exactly the ancestors of p that are not ancestors of b's
  dominator, and its guard of 2 * nb turns never ends it (`RunnerKnown`). Those are the
  dominators of p that do not strictly dominate b (`AboveDominates`, `EndsOnPaths`), and a
  block with one predecessor has none (`EndsAtJoins`). The entry is left out of the frontiers
  on both sides: it is recorded as its own dominator, where every runner stops, and one back
  edge to it makes no join.

Only model-checked: all liveness (`DrainTerminates`, `DispatchReturns`, `LaunchReturns`,
`PipelineDrains`, `AllThrough`), since the prover does not treat fairness; and the rest of
the compiler proper (`ir_passes`, `front_end`, `back_ends`), whose parser, passes,
evaluators and emitters are recursive over trees, arenas and loops with recursive
operators, which the prover cannot unfold.

## 5. Findings

1. `sysprint_overflow`. `runtime/host/sysprint.c` says a full buffer drops records and
   counts them; the device path (`sysprint_device.h:37`) does not give the reservation
   back, so `head` covers words at the end of the buffer that nobody wrote in this round,
   and the drain reads whatever an earlier round left there as records.
2. `dce_order`. `src/ir/bir_dce.c:203` says its in-place compaction is safe because the
   write cursor never passes the read cursor. Lowering numbers a `for` loop's blocks when
   it opens them and their instructions when it fills them, so instructions are not in block
   order, and survivors are copied over instructions still to be read.
3. `tensix_credit`. `src/tensix/emit.c:608` wraps the compute core "in the circular-buffer
   handshake so it only computes on input tiles that have arrived"; but `tt_sem_acquire`
   (`noc.c:164`) posts its subtraction and does not wait for it, and its next poll, a plain
   load, may find the credit it has just taken. In the run compute goes on to a second tile
   when the reader has published one. The same can happen at the other three counters
   (`overdrawn`), and `noc.c:156`, "it cannot lose a concurrent remote increment", is true
   but not enough.

## 6. Observed

Met while modelling. `(named)`: files or programs of a run show it, and the run says that they
go wrong; `(excepted)`: it happens in a run, whose properties are claimed but for it. The
programs of the runs stay clear of the rest.

Preprocessor (`docs/features.md:36` says "Full C preprocessor"):

* Arguments are substituted unexpanded and the macro's own name is then hidden, so
  `MAX(MAX(a,b),c)` leaves the inner call; an object-like macro that names a function-like
  one does not pick up the parenthesis after it.
* In `#if` a macro is worth the leading number of its body (`strtoll`, 519): chains,
  parenthesised and computed bodies and function-like macros do not count, and the number is
  read past the end of the body when the pool goes on with more digits. Comments are not
  stripped there and their marks are operators: `#if 1 // on` is false. `?:` is skipped.
* `##` does not join to an argument with white space before it and is not processed in
  object-like macros; parentheses and commas inside a string or comment of an argument
  split it; a wrong number of arguments is accepted; a redefinition with the same body keeps
  the old parameter names; replaced text is adjacent (`-x` with `x` as `-1` is `--1`).
* Expansions beyond the line buffers are cut, and beyond `PP_MAX_EXPAND_DEPTH` left alone,
  both silently. A `#` at the start of a line inside a block comment is a directive.
  A conditional may end in another file than it began. `# 12 "file"` is refused.

Runtime and driver:

* `sysprint_device.h:37`: `head` wraps after 4 GiB of dropped records; a late record then
  overwrites an early one.
* `sysprint.c:91`: a pattern with a leading `*` never matches; `docs/mainframe.md:17`
  shows one.
* `bc_runtime.c:660`: a dump names the kernel loaded last, not the one dispatched.
* `bc_abend.c:273`: freed allocations stay in the tracking table; queue errors carry no
  address.
* `bc_runtime.c:735`: `bc_dispatch` returns success after a fault; `lf_gpu.c:4` promises
  that no error passes silently.
* (named) `lf_gpu_hsa.c:235`: the slot of a scalar is one word however wide it is: its second word
  is overwritten by the next argument or by the block count.
* (excepted) `lf_gpu.c:183`: a scalar set over a buffer loses the buffer's memory.
* (excepted) `bc_runtime.c:432`: the context of a device whose queue cannot be created is leaked.
* (excepted) `bc_runtime.c:450`: the context is freed before the queue that reports errors into it is
  destroyed.
* (excepted) `sysprint.c:168`: the drain believes any `payload_len` it comes to; after an overflow that
  may be a stale word, and 0xFFFFFFF8 makes it stand still for ever.
* `cpu_exec.c:251`: the shared-memory size of a launch is ignored; `exec.h:61` has it.
* (excepted) `verbs.c:87`: temporary names do not contain the process id; two processes in one
  directory at once use each other's files.
* (excepted) `tdf_noc.c:163`: a core that seeds late erases signals already received, and the launch
  then hangs; `datamov.c:642` says "the seeding is consistent", which it is but for the time.
* The SASS form of the grid barrier loads the generation before its add with no fence
  between them.

IR:

* `bir_mem2reg.c:782`: step 7 copies a function that has gained more phis than it lost
  instructions over the first instructions of the next one; line 811 says later functions
  remain valid. Twelve nested conditionals on one variable do it.
* `bir_mem2reg.c:130`: an alloca in arena slot 0 is taken for "none": it is deleted while
  its loads and stores stay.
* `bir_mem2reg.c:183`, `280`, `413`, `558`: past 16 successors or predecessors, 64 frontier
  blocks or 65536 renamings the rest is dropped silently.
* `bir.c:1302`: `X.hg` is never initialised, so an out-of-range global may go unreported.
* `bir_print` prints block names that repeat (two `if` give two `if.then`), `bir_parse`
  takes the first of a name (named), and the reparsed module silently loses blocks (`main.c:672`
  and `tests/build/roundtrip.c:1` say otherwise); overloads print one name as well. An
  alignment, a phi, a switch, a volatile access or a struct is printed and refused by the
  reader, as is a value whose use precedes its definition in the text; constants among
  call arguments get the type of the result; `bb_retv` changes an interned function type,
  so that a void function that shared it is refused by the verifier. Apart from the
  repeated names, the texts of `back_ends` keep to what the reader takes, or must be refused.

Parser, sema and lowering:

* (named, in part) an array parameter `int v[2]` is a scalar; an enumerator that is not a literal is
  ignored; `int x{a}` leaves `x` uninitialised; `c ? x : y = z` assigns to the conditional;
  `min`, `pair`, `vector` before `<` open template arguments; `b * (e);` is a declaration;
  `static_assert` is skipped; break and continue of nothing, a duplicate case, an assignment to
  a constant, a trailing comma in a call, a missing `;` after a record, a
  `goto` to a label that does not exist and `int v[0]` are accepted.
* (named) `continue` in a `switch` in a loop uses a stale target (`docs/features.md:14`); a case
  that falls through leaves a block without a terminator (`docs/bir-reference.md:96`); a
  `break` nested in a constant switch; labels past the 64th (`bir_lower.c:10755`) get no block
  and no word is said.
* (named) `c && 2` is 2, `(bool)2` is 0; unary operators on `char` work at its width; comparisons
  do not convert, compound assignment converts the right side first; a `const` reference to
  a `bool` temporary is sign-extended; constant `&&` and `||` evaluate both sides,
  so that `0 && 1 / 0` is refused.
* (named, in part) an inner variable that shadows a constant is folded to the outer one; declarations in a
  `switch` body leak; a global first used in a conditional arm is cached where it does not
  dominate; assigning a global nobody reads is refused; nesting past `MAX_LOOPS` pops what
  was not pushed; a record parameter that is changed through a pointer is not a copy.

Back ends (`KnownWrong` lists the programs of `back_ends` that show most of these):

* All of x86-64, RISC-V and Metal make phi copies one after the other, so that a phi that reads
  another of its block gets the new value (`cpu_emit.c:320` takes this for impossible); Tensix
  refuses such phis, and also two harmless loops because `written[]` keeps copies of another
  edge; NVIDIA repairs this for one order of copies and
  makes them in the other (`isel.c:3314`); AMD places them between `s_and_saveexec` and its
  branch.
* Results narrower than a register are not brought back to width after add, sub and mul, so
  that comparing two of them goes wrong (signed on x86-64 and RISC-V, unsigned on Metal, both
  on NVIDIA, Tensix and AMD); sign extension of an `i1` gives 1; 64-bit constants lose their upper
  half; a call with more than six integer or eight float arguments, or a float result, on
  x86-64; frames above 2 KiB on RISC-V,
  whose slots are reached the long way, "slower but, crucially, not wrong" (`rv64_emit.c:201`),
  while the prologue truncates the frame; `trunc` to `i8` keeps 16 bits and `frem` does not
  truncate on NVIDIA, whose verifier also refuses its own float exchange.
* Metal prints unsigned operations with signed operators, sign-extends where zeros belong,
  drops the phi copies of an `if` without `else` (`bir_struct.c:441` says it does not), and
  continues the wrong loop on a jump out of two.
* Tensix: `sel_br_cond` keeps its condition in a register the phi copies use; a device
  function reads its parameters from the kernel's block; unions are laid out as structs.
* AMD, lanes that part: a counter that is the same in every lane of a divergent loop is a
  scalar register, so all lanes leave with the last lane's count; a phi where arms meet is
  vector only if an incoming value or the branch right before it is divergent
  (`isel.c:290`; the comment at 224 says every merge point), and both arms write the scalar
  otherwise; phis of an `if` without `else`; loops that some lanes never enter; a divergent
  `switch` follows its first lane; phis of more than two ways in lose the rest; a uniform
  value that enters a divergent phi is moved in the phi's own block.
* AMD, values: 64-bit arithmetic and 8-bit and 64-bit memory are done in 32 bits; division
  goes through floats and ignores the sign of unsigned operands; atomic float addition adds
  integers; `vote_any` and `vote_all` select into a register that has been made a vector one;
  sign extension of a narrow uniform value gives 0 (the width is passed as the offset); an
  unordered equality is a "not less". Pointers that were loaded or merged have no scalar
  pair and are used as 32-bit addresses; stores to constant memory vanish. The pairs that
  save EXEC on 64-wide waves start at the next parameter pair and do not move it on.

## 7. Not modelled

Text and encoding: the lexers beyond comments, spelling and adjacency in the preprocessor,
its pass for the host compiler (`keepinc`) and keywords as macro names; the other printers, instruction encoders,
ELF writers; globals, inline assembly, `printf` and the string pools of the BIR text. AMD global references, matrix operations,
register allocation, scheduling and wait counts; the Intel back end, SASS, Triton, TDF. Floating-point
arithmetic, and the arenas' exhaustion inside the passes (`CompileDriver` has what the
driver does when an arena overflowed). `bir_asfix`, the inliner's size limits and mid-run
compaction. Templates, lambdas, classes and CUDA builtins of the front end. Relocation in
the loaders. Host source rewriting in `hgen.c`. Header shims and the vendored arena library
have no behaviour to check.

## 8. Plan

In order, each with its properties:

1. AMD `ra_ssa.c` and `sched.c`, behind `AmdIsel`: no two live values in one register,
   spills reloaded, wait counters sufficient for every reordering; NVIDIA scoreboards.
2. TDF: fission into reader, compute and writer regions; placement without overlap;
   composed with `TensixPipe`.
3. Proofs: facts about renumbering in the passes, once their loops are recursive functions.
