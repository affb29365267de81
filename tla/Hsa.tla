--------------------------------- MODULE Hsa ---------------------------------
(***************************************************************************)
(* The HSA launcher and the ABEND diagnostics it owns                      *)
(* (runtime/host/hsa/bc_runtime.c, runtime/host/bc_abend.c).               *)
(*                                                                         *)
(* bc_device_init, bc_device_shutdown and bc_load_kernel go one call at a  *)
(* time, in the order of the code, while other devices are used; a call    *)
(* that can fail takes ok as its input and gives back, when it fails, what *)
(* that path of the code names.  A fault of a running kernel reaches the   *)
(* program through one of two callbacks: the system event handler ab_fcb,  *)
(* which finds its context in the file-scope g_actx, or the queue's error  *)
(* callback bc_qerr, which gets the context the queue was created with.    *)
(* bc_dispatch waits for its kernel, so that both come while it waits.     *)
(*                                                                         *)
(* Device memory is a line of addresses; an allocation covers AllocSize of *)
(* them.  dlopen, HSA and malloc are external.                             *)
(*                                                                         *)
(* How the dispatches of one device go through its packet ring is the      *)
(* subject of HsaDispatch, composed at the end.                            *)
(***************************************************************************)
EXTENDS Integers, Sequences, SequencesExt, FiniteSets, FiniteSetsExt, TLC

CONSTANTS
  Devs,         \* bc_device_t objects of the program
  Slots,        \* bc_kernel_t objects of the program
  KernNames,    \* kernel names
  Blobs,        \* argument blobs given to bc_dispatch
  NoDev, NoCtx, NoName, NoBlob,
  Bases,        \* addresses hsa_memory_allocate may return
  AllocSize,    \* addresses of one allocation
  MaxAlloc,     \* AB_MAX_ALLOC
  MaxInits      \* bound: calloc'd contexts of one behaviour

ASSUME SizesAssumption ==
  /\ Bases \subseteq Nat /\ {AllocSize, MaxAlloc, MaxInits} \subseteq Nat
  /\ AllocSize > 0

VARIABLES
  dev,      \* per device: how far bc_device_init or bc_device_shutdown has
            \* come ("down", "up" between them), and the abend pointer
  ctx,      \* every ab_ctx_t ever allocated
  gactx,    \* g_actx
  held,     \* external, per device: library handle, HSA reference, queue
  orphans,  \* history: contexts left by an hsa_queue_create that failed
  kern,     \* per slot: the bc_kernel_t, and how far bc_load_kernel has come
  code,     \* external, per slot: live code object reader and executable
  mem,      \* external: the addresses of live device memory
  dumps     \* the dumps the last step printed

vars == <<dev, ctx, gactx, held, orphans, kern, code, mem, dumps>>

CtxIds == 1 .. MaxInits

ASSUME NullAssumption == NoCtx \notin CtxIds

(* Most steps print nothing. *)
Quiet == dumps' = <<>>

-----------------------------------------------------------------------------
(***************************************************************************)
(* The ABEND context.  What a fault reports (tea, code, reason) is read by *)
(* the dump it causes and by nothing else: DumpTellsTruth asks ab_near of   *)
(* every address.  armed and faulted are written and never read.           *)
(***************************************************************************)
NewCtx == [st |-> "live", allocs |-> <<>>, kernel |-> NoName,
           args |-> NoBlob]

Unused == [NewCtx EXCEPT !.st = "none"]

(* Freed memory: nothing may read what it held. *)
Freed == [NewCtx EXCEPT !.st = "freed"]

(* ab_trak: silent when the table is full. *)
Trak(A, b, n) ==
  IF Len(A.allocs) >= MaxAlloc THEN A
  ELSE [A EXCEPT !.allocs = Append(@, [base |-> b, size |-> n])]

(* ab_snag as bc_load_kernel calls it: a name, no arguments. *)
Snag(A, n) == [A EXCEPT !.kernel = n]

(* What bc_dispatch records: its arguments, if there are any. *)
SnapArgs(A, blob) == IF blob = NoBlob THEN A ELSE [A EXCEPT !.args = blob]

Inside(a, tea) == a.base <= tea /\ tea < a.base + a.size

(* The distance ab_near's second loop compares. *)
Gap(a, tea) == IF tea >= a.base + a.size THEN tea - (a.base + a.size)
                                         ELSE a.base - tea

(* Mutant: best_dist stays what it was, so that every entry is closer. *)
CloserForgets(al, tea, best, n) ==
  n

(* One turn of that loop: entry n is taken when it is strictly closer than *)
(* the best so far (0: none yet).                                          *)
Closer(al, tea, best, n) ==
  IF best = 0 \/ Gap(al[n], tea) < Gap(al[best], tea) THEN n ELSE best

(* ab_near's second loop. *)
Scan(al, tea) ==
  LET best[n \in 0 .. Len(al)] ==
        IF n = 0 THEN 0 ELSE Closer(al, tea, best[n - 1], n)
  IN  best[Len(al)]

(* ab_near: the first allocation the address is inside of, else the one    *)
(* the scan ends with; 0 when nothing is tracked.                          *)
Near(A, tea) ==
  LET in == {i \in DOMAIN A.allocs : Inside(A.allocs[i], tea)}
  IN  IF A.allocs = <<>> THEN 0
      ELSE IF in # {} THEN Min(in) ELSE Scan(A.allocs, tea)

(* ab_dump, the SNAP section: the arguments recorded in the context, and   *)
(* beside them those of the dispatch that faulted.  own: the context is    *)
(* the one of the dispatching device.                                      *)
Dump(A, own, b) == [own |-> own, saysArgs |-> A.args, args |-> b]

-----------------------------------------------------------------------------
(***************************************************************************)
(* Device.                                                                 *)
(***************************************************************************)
Down == [at |-> "down", ctx |-> NoCtx]

Unloaded == [at |-> "none", dev |-> NoDev, name |-> NoName, has |-> {}]

Up(d) == dev[d].at = "up"

Init ==
  /\ dev = [d \in Devs |-> Down]
  /\ ctx = [c \in CtxIds |-> Unused]
  /\ gactx = NoCtx
  /\ held = [d \in Devs |-> {}]
  /\ orphans = {}
  /\ kern = [k \in Slots |-> Unloaded]
  /\ code = [k \in Slots |-> {}]
  /\ mem = {}
  /\ dumps = <<>>

(* The device is at one call, takes or gives back handles, and goes to the *)
(* next. *)
Goes(d, from, to) == dev[d].at = from /\ dev' = [dev EXCEPT ![d].at = to]
Takes(d, handles) == held' = [held EXCEPT ![d] = @ \cup handles]
Gives(d, handles) == held' = [held EXCEPT ![d] = @ \ handles]
Aside == Quiet /\ UNCHANGED <<kern, code, mem>>

(* dlopen, of a device that is down: the memset forgets what it held. *)
InitOpen(d, ok) ==
  /\ dev[d].at = "down"
  /\ dev' = [dev EXCEPT ![d] = [Down EXCEPT !.at = IF ok THEN "syms" ELSE "down"]]
  /\ Takes(d, IF ok THEN {"lib"} ELSE {})
  /\ Aside /\ UNCHANGED <<ctx, gactx, orphans>>

(* LOAD, of every symbol. *)
InitSyms(d, ok) ==
  /\ Goes(d, "syms", IF ok THEN "hsa" ELSE "down")
  /\ Gives(d, IF ok THEN {} ELSE {"lib"})
  /\ Aside /\ UNCHANGED <<ctx, gactx, orphans>>

(* hsa_init. *)
InitHsa(d, ok) ==
  /\ Goes(d, "hsa", IF ok THEN "find" ELSE "down")
  /\ IF ok THEN Takes(d, {"ref"}) ELSE Gives(d, {"lib"})
  /\ Aside /\ UNCHANGED <<ctx, gactx, orphans>>

(* The agent, its two regions and its pool are looked for. *)
InitFind(d, ok) ==
  /\ Goes(d, "find", IF ok THEN "calloc" ELSE "down")
  /\ Gives(d, IF ok THEN {} ELSE {"ref", "lib"})
  /\ Aside /\ UNCHANGED <<ctx, gactx, orphans>>

(* calloc of the context; without one the device has no diagnostics. *)
InitCtx(d, ok) ==
  /\ dev[d].at = "calloc"
  /\ \E c \in CtxIds \cup {NoCtx} :
       /\ IF ok THEN /\ c \in CtxIds /\ ctx[c].st = "none"
                     /\ \A n \in CtxIds : ctx[n].st = "none" => c <= n
                     /\ ctx' = [ctx EXCEPT ![c] = NewCtx]
                ELSE c = NoCtx /\ UNCHANGED ctx
       /\ dev' = [dev EXCEPT ![d] = [at |-> IF ok THEN "hook" ELSE "queue", ctx |-> c]]
  /\ Aside /\ UNCHANGED <<gactx, held, orphans>>

(* ab_init: without the AMD extension there is no handler; otherwise       *)
(* g_actx is set, whether or not the registration is accepted after that. *)
InitHook(d, extension) ==
  /\ Goes(d, "hook", "queue")
  /\ ctx' = [ctx EXCEPT ![dev[d].ctx] = NewCtx]
  /\ gactx' = IF extension THEN dev[d].ctx ELSE gactx
  /\ Aside /\ UNCHANGED <<held, orphans>>

(* Mutant: a failed hsa_queue_create leaves HSA running. *)
InitQueueKeepsRef(d, ok) ==
  /\ Goes(d, "queue", IF ok THEN "up" ELSE "down")
  /\ IF ok THEN Takes(d, {"queue"}) ELSE Gives(d, {"lib"})
  /\ orphans' = IF ok THEN orphans ELSE orphans \cup ({dev[d].ctx} \ {NoCtx})
  /\ Aside /\ UNCHANGED <<ctx, gactx>>

(* hsa_queue_create, with the context as bc_qerr's data.  When it fails    *)
(* the context stays allocated, and in g_actx, and nobody else has it.     *)
InitQueue(d, ok) ==
  /\ Goes(d, "queue", IF ok THEN "up" ELSE "down")
  /\ IF ok THEN Takes(d, {"queue"}) ELSE Gives(d, {"ref", "lib"})
  /\ orphans' = IF ok THEN orphans ELSE orphans \cup ({dev[d].ctx} \ {NoCtx})
  /\ Aside /\ UNCHANGED <<ctx, gactx>>

(* Mutant: ab_shut is the no-op its header says it is. *)
AbShutNoOp(c) == UNCHANGED gactx

(* ab_shut. *)
AbShut(c) == gactx' = IF gactx = c THEN NoCtx ELSE gactx

(* bc_device_shutdown (a second call finds initialized = 0 and does        *)
(* nothing).  Programs unload their kernels first.                         *)
ShutDiag(d) ==
  /\ \A k \in Slots : kern[k].dev # d
  /\ Goes(d, "up", IF dev[d].ctx = NoCtx THEN "destroy" ELSE "free")
  /\ AbShut(dev[d].ctx)
  /\ Aside /\ UNCHANGED <<ctx, held, orphans>>

(* free(D->abend); the queue still has it. *)
FreeCtx(d) ==
  /\ Goes(d, "free", "destroy")
  /\ ctx' = [ctx EXCEPT ![dev[d].ctx] = Freed]
  /\ Aside /\ UNCHANGED <<gactx, held, orphans>>

(* hsa_queue_destroy. *)
DestroyQueue(d) ==
  /\ Goes(d, "destroy", "close")
  /\ Gives(d, {"queue"})
  /\ Aside /\ UNCHANGED <<ctx, gactx, orphans>>

(* hsa_shut_down, dlclose, memset. *)
Close(d) ==
  /\ dev[d].at = "close"
  /\ dev' = [dev EXCEPT ![d] = Down]
  /\ Gives(d, {"ref", "lib"})
  /\ Aside /\ UNCHANGED <<ctx, gactx, orphans>>

-----------------------------------------------------------------------------
(***************************************************************************)
(* Kernels and memory.                                                     *)
(***************************************************************************)

(* if (D->abend) ... *)
WithCtx(d, f(_)) == IF dev[d].ctx = NoCtx THEN ctx
                    ELSE [ctx EXCEPT ![dev[d].ctx] = f(@)]

(* bc_load_kernel; *out is zeroed, and stays so until everything is there. *)
LoadFile(d, k, n, ok) ==
  /\ Up(d) /\ kern[k] = Unloaded
  /\ kern' = IF ok THEN [kern EXCEPT ![k] = [at |-> "reader", dev |-> d, name |-> n, has |-> {}]]
             ELSE kern
  /\ Quiet /\ UNCHANGED <<dev, ctx, gactx, held, orphans, code, mem>>

(* What follows one call of it: the next, or what its failure destroys. *)
Loading(k, from, to, ok, made, undone) ==
  /\ kern[k].at = from
  /\ kern' = [kern EXCEPT ![k] = IF ok THEN [@ EXCEPT !.at = to] ELSE Unloaded]
  /\ code' = [code EXCEPT ![k] = IF ok THEN @ \cup made ELSE @ \ undone]
  /\ Quiet /\ UNCHANGED <<dev, ctx, gactx, held, orphans, mem>>
LoadReader(k, ok) == Loading(k, "reader", "exec", ok, {"reader"}, {})
LoadExec(k, ok) == Loading(k, "exec", "load", ok, {"exec"}, {"reader"})
LoadCode(k, ok) == Loading(k, "load", "freeze", ok, {}, {"exec", "reader"})
LoadFreeze(k, ok) == Loading(k, "freeze", "symbol", ok, {}, {"exec", "reader"})
LoadSymbol(k, ok) == Loading(k, "symbol", "filled", ok, {}, {"exec", "reader"})

(* The handles go to *out, the name to the context. *)
LoadDone(k) ==
  /\ kern[k].at = "filled"
  /\ kern' = [kern EXCEPT ![k].at = "loaded", ![k].has = {"reader", "exec"}]
  /\ ctx' = WithCtx(kern[k].dev, LAMBDA A : Snag(A, kern[k].name))
  /\ Quiet /\ UNCHANGED <<dev, gactx, held, orphans, code, mem>>

(* bc_unload_kernel: destroys what the handle says it has. *)
Unload(k) ==
  /\ kern[k].at = "loaded"
  /\ code' = [code EXCEPT ![k] = @ \ kern[k].has]
  /\ kern' = [kern EXCEPT ![k] = Unloaded]
  /\ Quiet /\ UNCHANGED <<dev, ctx, gactx, held, orphans, mem>>

(* bc_alloc and bc_trak of what it returned; the program asks for both    *)
(* at once.  The allocator hands out addresses that are not in use.        *)
AllocTracked(d, b) ==
  /\ Up(d)
  /\ \A m \in mem : m + AllocSize <= b \/ b + AllocSize <= m
  /\ mem' = mem \cup {b}
  /\ ctx' = WithCtx(d, LAMBDA A : Trak(A, b, AllocSize))
  /\ Quiet /\ UNCHANGED <<dev, gactx, held, orphans, kern, code>>

(* bc_free: the tracking table is not told. *)
Free(m) ==
  /\ mem' = mem \ {m}
  /\ Quiet /\ UNCHANGED <<dev, ctx, gactx, held, orphans, kern, code>>

-----------------------------------------------------------------------------
(***************************************************************************)
(* bc_dispatch, and the callbacks a fault of the kernel runs while the     *)
(* caller waits.                                                           *)
(***************************************************************************)

(* No fault; or no memory for the arguments ("kernarg", nothing recorded)  *)
(* or for the signal (recorded, nothing run).                              *)
Dispatch(d, k, blob, at) ==
  /\ Up(d) /\ kern[k].dev = d /\ kern[k].at = "loaded"
  /\ ctx' = IF at = "kernarg" THEN ctx ELSE WithCtx(d, LAMBDA A : SnapArgs(A, blob))
  /\ Quiet /\ UNCHANGED <<dev, gactx, held, orphans, kern, code, mem>>

(* A VM fault: ab_fcb dumps the context in g_actx. *)
DispatchEventFault(d, k, blob) ==
  /\ Up(d) /\ kern[k].dev = d /\ kern[k].at = "loaded"
  /\ ctx' = WithCtx(d, LAMBDA A : SnapArgs(A, blob))
  /\ dumps' = IF gactx = NoCtx THEN <<>>
              ELSE <<Dump(ctx'[gactx], gactx = dev[d].ctx, blob)>>
  /\ UNCHANGED <<dev, gactx, held, orphans, kern, code, mem>>

(* A queue error: bc_qerr has the queue's own context, and no address. *)
DispatchQueueFault(d, k, blob) ==
  /\ Up(d) /\ kern[k].dev = d /\ kern[k].at = "loaded"
  /\ dev[d].ctx # NoCtx
  /\ LET A == SnapArgs(ctx[dev[d].ctx], blob)
     IN  /\ ctx' = [ctx EXCEPT ![dev[d].ctx] = A]
         /\ dumps' = <<Dump(A, TRUE, blob)>>
  /\ UNCHANGED <<dev, gactx, held, orphans, kern, code, mem>>

SomeBlob == Blobs \cup {NoBlob}

Next ==
  \/ \E d \in Devs, ok \in BOOLEAN :
       \/ InitOpen(d, ok) \/ InitSyms(d, ok) \/ InitHsa(d, ok) \/ InitFind(d, ok)
       \/ InitCtx(d, ok) \/ InitHook(d, ok) \/ InitQueue(d, ok)
  \/ \E d \in Devs : ShutDiag(d) \/ FreeCtx(d) \/ DestroyQueue(d) \/ Close(d)
  \/ \E d \in Devs, k \in Slots, n \in KernNames, ok \in BOOLEAN : LoadFile(d, k, n, ok)
  \/ \E k \in Slots, ok \in BOOLEAN :
       \/ LoadReader(k, ok) \/ LoadExec(k, ok) \/ LoadCode(k, ok) \/ LoadFreeze(k, ok)
       \/ LoadSymbol(k, ok)
  \/ \E k \in Slots : LoadDone(k)
  \/ \E k \in Slots : Unload(k)
  \/ \E d \in Devs, b \in Bases : AllocTracked(d, b)
  \/ \E m \in mem : Free(m)
  \/ \E d \in Devs, k \in Slots, blob \in SomeBlob,
        at \in {"kernarg", "signal", "ok"} : Dispatch(d, k, blob, at)
  \/ \E d \in Devs, k \in Slots, blob \in SomeBlob : DispatchEventFault(d, k, blob)
  \/ \E d \in Devs, k \in Slots, blob \in SomeBlob : DispatchQueueFault(d, k, blob)

Spec == Init /\ [][Next]_vars

-----------------------------------------------------------------------------
(***************************************************************************)
(* Properties.                                                             *)
(***************************************************************************)
(* The fault handler never finds a freed context in g_actx, at any call of *)
(* any device's bring-up or shutdown, whatever devices came up, failed to  *)
(* and were shut down before.  The error callback of a queue has a live    *)
(* context of its own as long as kernels can be dispatched on the queue;   *)
(* bc_device_shutdown frees that context one call before it destroys the   *)
(* queue, and only there does a queue carry one that is gone.              *)
NoDanglingContext ==
  /\ gactx # NoCtx => ctx[gactx].st = "live"
  /\ \A d \in Devs : "queue" \in held[d] /\ dev[d].ctx # NoCtx =>
       /\ ctx[dev[d].ctx].st = IF dev[d].at = "destroy" THEN "freed" ELSE "live"
       /\ \A e \in Devs \ {d} : dev[e].at # "down" => dev[e].ctx # dev[d].ctx

(* What bc_device_init, bc_device_shutdown and bc_load_kernel leave: a     *)
(* device that is down has no handle of HSA, by whichever call it came     *)
(* there; a kernel has its reader and executable, or there is neither; and *)
(* a context is alive while its device comes up or is up.  The context of  *)
(* a device whose queue could not be created is the one thing that is      *)
(* never given back.                                                       *)
Owned == {dev[d].ctx : d \in {e \in Devs : dev[e].at \in {"hook", "queue", "up", "free"}}} \ {NoCtx}
OnlyOrphansLeak ==
  /\ \A d \in Devs : /\ dev[d].at = "down" => held[d] = {}
                     /\ dev[d].at = "up" => held[d] = {"lib", "ref", "queue"}
  /\ \A k \in Slots : kern[k].at \in {"none", "loaded"} => code[k] = kern[k].has
  /\ {c \in CtxIds : ctx[c].st = "live"} = Owned \cup orphans

(* A dump tells the truth: ab_near names "the nearest tracked allocation"  *)
(* to any address, and the SNAP section of a dump made with the device's   *)
(* own context shows the argument bytes of the dispatch that faulted, not  *)
(* of an earlier one, if that dispatch had arguments.                      *)
DumpTellsTruth ==
  /\ \A c \in CtxIds : \A a \in UNION {0 .. b + AllocSize : b \in Bases} :
       LET al == ctx[c].allocs
           D(i) == IF Inside(al[i], a) THEN -1 ELSE Gap(al[i], a)
       IN  al # <<>> => /\ Near(ctx[c], a) \in DOMAIN al
                        /\ \A i \in DOMAIN al : D(Near(ctx[c], a)) <= D(i)
  /\ \A i \in DOMAIN dumps :
       dumps[i].own /\ dumps[i].args # NoBlob => dumps[i].saysArgs = dumps[i].args

-----------------------------------------------------------------------------
(***************************************************************************)
(* Both halves of bc_runtime.c: the calls above, and the packet ring.      *)
(* They share no state but the queue that bc_device_init creates and       *)
(* bc_dispatch fills; a behaviour follows one of them.                     *)
(***************************************************************************)
CONSTANTS
  QSize,         \* slots of the packet ring
  MaxDispatch    \* bound: dispatches of one behaviour

ASSUME RingAssumption == QSize \in Nat \ {0} /\ MaxDispatch \in Nat

VARIABLES pc, cur, idx, ring, widx, bell, kernarg, filled, signal, ridx, run, ran, result,
          half       \* "device" or "ring": the half this behaviour follows

Ring == INSTANCE HsaDispatch

rvars == <<pc, cur, idx, ring, widx, bell, kernarg, filled, signal, ridx, run, ran, result>>
hvars == <<vars, rvars, half>>

HInit == Init /\ Ring!Init /\ half \in {"device", "ring"}

HNext ==
  \/ half = "device" /\ Next /\ UNCHANGED <<rvars, half>>
  \/ half = "ring" /\ Ring!Next /\ UNCHANGED <<vars, half>>

Alike == Permutations(Devs) \cup Permutations(Blobs)

HSpec == HInit /\ [][HNext]_hvars /\ Ring!Fairness

-----------------------------------------------------------------------------
(* See HsaDispatch: the GPU runs a kernel whose packet, arguments and      *)
(* signal are complete, once.                                              *)
RunsOnlyWhatIsReady == half = "ring" => Ring!RunsOnlyWhatIsReady

(* See HsaDispatch: bc_dispatch says "ok" for the kernels that have run    *)
(* and leaves nothing behind.                                              *)
SynchronousAndClean == half = "ring" => Ring!SynchronousAndClean

(* See HsaDispatch: every bc_dispatch returns. *)
DispatchReturns == Ring!DispatchReturns
=============================================================================
