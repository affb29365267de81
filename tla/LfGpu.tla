-------------------------------- MODULE LfGpu --------------------------------
(***************************************************************************)
(* The LFortran offload ABI (runtime/host/cuda/lf_gpu.c over nv_rt.c and   *)
(* runtime/host/hsa/lf_gpu_hsa.c over bc_runtime.c): eight functions, a    *)
(* fixed pool of kernels, and per kernel an argument table that owns device*)
(* memory.  A program links one of the two files; runtime says which.      *)
(*                                                                         *)
(* The ABI has no error channel, so whatever fails ends the process        *)
(* (lf_die).  An action takes the call that fails as its input, "ok" when  *)
(* none does.  Array contents are "in" (what Fortran wrote), "out" (what a *)
(* kernel computes) or "junk"; a scalar is a sequence of 8-byte words.     *)
(* Programs use a kernel handle only until they release it.                *)
(***************************************************************************)
EXTENDS Integers, Sequences, SequencesExt, FiniteSets, FiniteSetsExt, TLC

CONSTANTS
  Arrays,      \* host arrays
  Scalars,     \* scalar values; LF_SCAL_MAX is two words
  MaxKern,     \* LF_MAX_KERN
  MaxArgs,     \* LF_MAX_ARGS
  DevMem       \* allocations the device has room for

ASSUME PoolAssumption ==
  MaxKern \in Nat \ {0} /\ MaxArgs \in Nat \ {0} /\ DevMem \in Nat

ASSUME WidthAssumption ==
  \A v \in Scalars : v \in Seq(Int) /\ Len(v) \in 1 .. 2

VARIABLES
  runtime,   \* the file the program is linked with, "cuda" or "hsa"
  alive,     \* the process has not called exit(1)
  live,      \* g_ctx.live
  kern,      \* g_kern
  mem,       \* external: the device memory in use
  host,      \* the host arrays
  shadowed   \* history: allocations whose argument slot became a scalar

vars == <<runtime, alive, live, kern, mem, host, shadowed>>

Slots == 1 .. MaxKern
Idx   == 1 .. MaxArgs
Null  == 0            \* dptr

Blank == [kind |-> "none", dptr |-> Null, hptr |-> "none", scal |-> <<>>]

(* A slot nobody uses; load_kernel clears it before it looks at it. *)
Unused == [used |-> FALSE, nargs |-> 0, args |-> [i \in Idx |-> Blank]]

Bufs(k) == {j \in 1 .. kern[k].nargs : kern[k].args[j].kind = "buf"}

(* The device memory a release gives back. *)
Owned(k) == {kern[k].args[j].dptr : j \in Bufs(k)} \ {Null}

InUse == {k \in Slots : kern[k].used}

-----------------------------------------------------------------------------
Init ==
  /\ runtime \in {"cuda", "hsa"}
  /\ alive = TRUE
  /\ live = FALSE
  /\ kern = [k \in Slots |-> Unused]
  /\ mem = {}
  /\ host = [a \in Arrays |-> "in"]
  /\ shadowed = {}

(* lf_die. *)
Die ==
  /\ alive' = FALSE
  /\ UNCHANGED <<live, kern, mem, host, shadowed>>

(* lfortran_gpu_init; a second call returns the context it has. *)
GpuInit(at) ==
  /\ alive /\ ~live
  /\ IF at = "init" THEN Die
     ELSE /\ live' = TRUE
          /\ UNCHANGED <<alive, kern, mem, host, shadowed>>

(* lfortran_gpu_load_kernel: the first slot that is not used. *)
LoadKernel(at) ==
  /\ alive /\ live
  /\ IF InUse = Slots \/ at = "load" THEN Die
     ELSE /\ kern' = [kern EXCEPT ![Min(Slots \ InUse)] = [Unused EXCEPT !.used = TRUE]]
          /\ UNCHANGED <<alive, live, mem, host, shadowed>>

(* Mutant: only the first argument is freed. *)
ReleaseKernelFirstOnly(k) ==
  /\ alive /\ kern[k].used
  /\ mem' = mem \ (Owned(k) \cap {kern[k].args[1].dptr})
  /\ kern' = [kern EXCEPT ![k] = Unused]
  /\ UNCHANGED <<alive, live, host, shadowed>>

(* lfortran_gpu_release_kernel. *)
ReleaseKernel(k) ==
  /\ alive /\ kern[k].used
  /\ mem' = mem \ Owned(k)
  /\ kern' = [kern EXCEPT ![k] = Unused]
  /\ UNCHANGED <<alive, live, host, shadowed>>

(* lfortran_gpu_shutdown: every kernel in use, then the device. *)
Shutdown ==
  /\ alive /\ live
  /\ mem' = mem \ UNION {Owned(k) : k \in InUse}
  /\ kern' = [k \in Slots |-> Unused]
  /\ live' = FALSE
  /\ UNCHANGED <<alive, host, shadowed>>

-----------------------------------------------------------------------------
(* The allocator: an address not in use, the same one again if it can. *)
Fresh(m) == Min((1 .. DevMem) \ m)

NArgs(k, i) == Max({kern[k].nargs, i})

(* Mutant: the old pointer is overwritten before it is freed. *)
SetBufferArgFreesNew(k, i, a, at) ==
  /\ alive /\ kern[k].used
  /\ IF at \in {"alloc", "h2d"} \/ mem = 1 .. DevMem THEN Die
     ELSE /\ mem' = IF kern[k].args[i].kind = "buf" THEN mem ELSE mem \cup {Fresh(mem)}
          /\ kern' = [kern EXCEPT
               ![k].args[i] = [@ EXCEPT !.kind = "buf", !.dptr = Fresh(mem), !.hptr = a],
               ![k].nargs = NArgs(k, i)]
          /\ UNCHANGED <<alive, live, host, shadowed>>

(* lfortran_gpu_set_buffer_arg: free what the slot had as a buffer,        *)
(* allocate, copy in.                                                      *)
SetBufferArg(k, i, a, at) ==
  LET old  == IF kern[k].args[i].kind = "buf" THEN {kern[k].args[i].dptr} ELSE {}
      left == mem \ old
  IN  /\ alive /\ kern[k].used
      /\ IF at \in {"alloc", "h2d"} \/ left = 1 .. DevMem THEN Die
         ELSE /\ mem' = left \cup {Fresh(left)}
              /\ kern' = [kern EXCEPT
                   ![k].args[i] = [@ EXCEPT !.kind = "buf", !.dptr = Fresh(left), !.hptr = a,
                                             !.scal = <<>>],
                   ![k].nargs = NArgs(k, i)]
              /\ UNCHANGED <<alive, live, host, shadowed>>

(* lfortran_gpu_set_scalar_arg: dptr stays what it was, and is_buf = 0     *)
(* takes it out of everyone's sight.  (hptr and scal, which nobody reads of *)
(* an argument of the other kind, are forgotten here.)                     *)
SetScalarArg(k, i, v) ==
  /\ alive /\ kern[k].used
  /\ kern' = [kern EXCEPT
       ![k].args[i] = [@ EXCEPT !.kind = "scal", !.scal = v, !.hptr = "none"], ![k].nargs = NArgs(k, i)]
  /\ shadowed' = shadowed \cup
       (IF kern[k].args[i].kind = "buf" THEN {kern[k].args[i].dptr} ELSE {})
  /\ UNCHANGED <<alive, live, mem, host>>

-----------------------------------------------------------------------------
(***************************************************************************)
(* lfortran_gpu_launch.                                                    *)
(***************************************************************************)

(* The words an argument is made of: a device pointer, or the scalar. *)
Words(arg) == IF arg.kind = "buf" THEN <<arg.dptr>> ELSE arg.scal

(* block_count and group_size, after the parameters. *)
HiddenWords == <<-1, -2>>

(* The arguments whose memcpy covers word w of the kernarg block. *)
Writers(k, w) ==
  {j \in 1 .. kern[k].nargs : w \in j .. j + Len(Words(kern[k].args[j])) - 1}

(* The block of LF_KARG_MAX bytes with the hidden words from word hk on:   *)
(* zeroed, then written in the order of the arguments, each as long as it  *)
(* is, so that the last one to cover a word decides what it holds.         *)
Block(k, hk) ==
  [w \in 1 .. MaxArgs + 4 |->
     IF w \in hk .. hk + 1 THEN HiddenWords[w - hk + 1]
     ELSE IF Writers(k, w) = {} THEN 0
     ELSE Words(kern[k].args[Max(Writers(k, w))])[w - Max(Writers(k, w)) + 1]]

(* Mutant: the hidden arguments start where the last parameter does. *)
PackedHiddenEarly(k) == Block(k, Max({kern[k].nargs, 1}))

(* The kernarg block of lf_gpu_hsa.c: a word per argument, then the hidden *)
(* ones.                                                                   *)
Packed(k) == Block(k, kern[k].nargs + 1)

(* Word w of parameter j as the kernel finds it.  CUDA takes a pointer to  *)
(* each argument; an AMD kernel looks in the block, at a word for each.    *)
Param(k, j, w) == IF runtime = "cuda" THEN Words(kern[k].args[j])[w]
                  ELSE Packed(k)[j + w - 1]

Gap(k) == \E j \in 1 .. kern[k].nargs : kern[k].args[j].kind = "none"

(* Mutant: the result of nv_rt_sync is not looked at. *)
FaultReportedNever == FALSE

(* What the launcher says of a kernel that faulted: nv_rt_sync reports it, *)
(* bc_dispatch returns BC_RT_OK all the same.                              *)
FaultReported == runtime = "cuda"

(* The kernel runs, and every buffer is copied back. *)
Launch(k, at) ==
  /\ alive /\ kern[k].used
  /\ IF Gap(k) \/ at \in {"launch", "d2h"} \/ (at = "fault" /\ FaultReported)
     THEN Die
     ELSE /\ host' = [a \in Arrays |->
                        IF \E j \in Bufs(k) : kern[k].args[j].hptr = a
                        THEN (IF at = "fault" THEN "junk" ELSE "out") ELSE host[a]]
          /\ UNCHANGED <<alive, live, kern, mem, shadowed>>

Step ==
  \/ \E at \in {"ok", "init"} : GpuInit(at)
  \/ Shutdown
  \/ \E at \in {"ok", "load"} : LoadKernel(at)
  \/ \E k \in Slots : ReleaseKernel(k)
  \/ \E k \in Slots, i \in Idx, a \in Arrays, at \in {"ok", "alloc", "h2d"} :
       SetBufferArg(k, i, a, at)
  \/ \E k \in Slots, i \in Idx, v \in Scalars : SetScalarArg(k, i, v)
  \/ \E k \in Slots, at \in {"ok", "launch", "fault", "d2h"} : Launch(k, at)

Next == Step /\ UNCHANGED runtime

Spec == Init /\ [][Next]_vars

-----------------------------------------------------------------------------
(* A buffer argument of a kernel in use always has its memory, and shares  *)
(* it with no other argument: no sequence of settings, releases and loads  *)
(* frees it early or frees it twice, although addresses are used again.    *)
BuffersLive ==
  \A k, l \in InUse : \A i \in Bufs(k), j \in Bufs(l) :
    /\ kern[k].args[i].dptr \in mem
    /\ (kern[k].args[i].dptr = kern[l].args[j].dptr) => (k = l /\ i = j)

(* Device memory is either some argument's, or was hidden by a scalar set  *)
(* over a buffer: nothing else is ever left behind, also not after         *)
(* lfortran_gpu_shutdown.                                                  *)
MemoryAccounted == mem \subseteq shadowed \cup UNION {Owned(k) : k \in InUse}

(* "Failure is fatal and loud: a silent bad copy hands Fortran an array of *)
(* garbage, which is worse" (lf_gpu.c).  Not so in lf_gpu_hsa.c, whose     *)
(* bc_dispatch does not report a fault.                                    *)
NoSilentJunk == runtime = "cuda" /\ alive => \A a \in Arrays : host[a] # "junk"

(* What a kernel finds in its parameters, whatever the order and the width *)
(* of the arguments: the first word of each is the one that was set, also  *)
(* beside wider ones.  The second word of a scalar is right in lf_gpu.c    *)
(* only: lf_gpu_hsa.c goes on by one word whatever it copied, so that what *)
(* follows in the block, the next parameter or block_count, is there.      *)
KernelSeesArgs ==
  \A k \in InUse : ~Gap(k) =>
    \A j \in 1 .. kern[k].nargs :
      LET set == Words(kern[k].args[j])
      IN  \A w \in 1 .. Len(set) :
            Param(k, j, w) = IF w = 1 \/ runtime = "cuda" THEN set[w]
                             ELSE IF j < kern[k].nargs THEN Words(kern[k].args[j + 1])[1]
                             ELSE HiddenWords[1]

(* The scalars of the run, one of each width. *)
BothWidths == {<<101>>, <<102, 103>>}

Alike == Permutations(Arrays)
=============================================================================
