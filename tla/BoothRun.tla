------------------------------- MODULE BoothRun -------------------------------
(***************************************************************************)
(* `kath run' below the command line: src/exec/booth_run.c stages argument *)
(* files on a device, launches a kernel and writes the outputs back, over  *)
(* the target table of src/exec/execs.c and its two targets, the           *)
(* in-process CPU (src/exec/cpu_exec.c) and CUDA                           *)
(* (runtime/host/cuda/nv_exec.c, nv_rt.c).                                 *)
(*                                                                         *)
(* Every call that can fail takes its outcome as an input: "ok", or the    *)
(* call that failed.  File and buffer contents are the integers below: the *)
(* result a kernel leaves in the buffer of argument j is j.                *)
(***************************************************************************)
EXTENDS Integers, Sequences, SequencesExt, FiniteSets, FiniteSetsExt

CONSTANTS
  Paths,       \* files the arguments name
  MaxSlots,    \* MAX_ARGS
  IntRegs,     \* integer registers of the CPU calling convention, 6
  FltRegs      \* float registers of the CPU calling convention, 8

Absent  == -4     \* no such file
Partial == -3     \* fopen "wb" succeeded, the write did not
Junk    == -2     \* memory nobody wrote
Zeroed  == -1     \* calloc
Orig    == 0      \* what the user put there

NoMem == 0        \* dptr

Buffers == {"in", "out", "io"}
NoPath  == "none"
Targets == {"cpu", "nvptx"}

VARIABLES
  pc,       \* where brun_launch is; "idle" outside it
  slots,    \* slots[0 .. nslot-1]
  at,       \* the slot stage or fetch has reached
  rc,       \* rc of brun_launch: "ok" or "err"
  exit,     \* what the last brun_launch returned, -1 before there is one
  dev,      \* dev.d
  kern,     \* a kernel is loaded
  mem,      \* external: device memory, Junk..j for what is allocated
  kstate,   \* external: the kernel, "none", "running", "done" or "faulted"
  call,     \* the registers ce_run called the kernel with
  files     \* external: the files

vars == <<pc, slots, at, rc, exit, dev, kern, mem, kstate, call, files>>

(* A device address per slot is all the allocator is asked for. *)
Addrs == 1 .. MaxSlots

(* in:PATH, out:PATH:BYTES, io:PATH, u32: and i32:, f32:. *)
ArgSpecs == (Buffers \X Paths) \cup ({"int", "flt"} \X {NoPath})

InKinds  == {"in", "io"}
OutKinds == {"out", "io"}

NoCall == [iv |-> <<>>, fv |-> <<>>]

-----------------------------------------------------------------------------
Init ==
  /\ pc = "idle"
  /\ slots = <<>>
  /\ at = 1
  /\ rc = "ok"
  /\ exit = -1
  /\ dev = "none"
  /\ kern = FALSE
  /\ mem = [a \in Addrs |-> Absent]
  /\ kstate = "none"
  /\ call = NoCall
  /\ files \in [Paths -> {Absent, Orig}]

NewSlot(kind, path) == [kind |-> kind, path |-> path, host |-> Absent, dptr |-> NoMem]

(* brun_reset. *)
Reset ==
  /\ pc = "idle"
  /\ slots' = <<>>
  /\ exit' = -1
  /\ UNCHANGED <<pc, at, rc, dev, kern, mem, kstate, call, files>>

(* brun_addarg; a spec it cannot parse, or one too many, leaves no trace. *)
AddArg(kind, path) ==
  /\ pc = "idle"
  /\ Len(slots) < MaxSlots
  /\ slots' = Append(slots, NewSlot(kind, path))
  /\ exit' = -1
  /\ UNCHANGED <<pc, at, rc, dev, kern, mem, kstate, call, files>>

-----------------------------------------------------------------------------
(* brun_launch up to rt_open.  A name rt_find does not know is refused     *)
(* first; without a name rt_open takes the first target that opens, and    *)
(* the CPU, first in rt_list, always does.                                 *)
Opens(target, nvok) ==
  CASE target = "cpu"   -> "cpu"
    [] target = "nvptx" -> IF nvok THEN "nvptx" ELSE "none"
    [] target = "probe" -> "cpu"

Launch(target, nvok) ==
  /\ pc = "idle"
  /\ IF target = "unknown"
     THEN exit' = 2 /\ UNCHANGED <<pc, dev>>
     ELSE LET d == Opens(target, nvok) IN
          /\ dev' = d
          /\ exit' = IF d = "none" THEN 1 ELSE -1
          /\ pc' = IF d = "none" THEN "idle" ELSE "load"
  /\ UNCHANGED <<slots, at, rc, kern, mem, kstate, call, files>>

(* Mutant: a load that fails returns without rt_shut. *)
LoadKeepsDevice(ok) ==
  /\ pc = "load"
  /\ kern' = ok
  /\ at' = 1
  /\ pc' = IF ok THEN "stage" ELSE "idle"
  /\ exit' = IF ok THEN -1 ELSE 1
  /\ UNCHANGED <<slots, rc, dev, mem, kstate, call, files>>

(* rt_load, and the way out when it fails.  ce_load and nv_rt_load give    *)
(* back what they hold before they return an error.                        *)
Load(ok) ==
  /\ pc = "load"
  /\ kern' = ok
  /\ at' = 1
  /\ pc' = IF ok THEN "stage" ELSE "idle"
  /\ exit' = IF ok THEN -1 ELSE 1
  /\ dev' = IF ok THEN dev ELSE "none"
  /\ UNCHANGED <<slots, rc, mem, kstate, call, files>>

-----------------------------------------------------------------------------
FreeAddr == Min({a \in Addrs : mem[a] = Absent})

(* What the host buffer of a slot holds once stage has made it, Absent if  *)
(* the file could not be read (slurp) or calloc failed.                    *)
HostBuffer(s, out) ==
  IF out = "host" THEN Absent
  ELSE IF s.kind \in InKinds THEN files[s.path] ELSE Zeroed

(* Mutant: an "out" buffer's size is known, so only "in" is uploaded. *)
UploadedInOnly(s, host) == IF s.kind = "in" THEN host ELSE Junk

(* What the device buffer holds once its upload, if it has one, is done. *)
Uploaded(s, host) == IF s.kind \in InKinds THEN host ELSE Junk

(* One turn of the loop in stage: host buffer, device buffer, upload.  The *)
(* CPU target's copies cannot fail.                                        *)
StageSlot(out) ==
  LET s    == slots[at]
      host == HostBuffer(s, out)
      addr == IF host = Absent \/ out = "alloc" THEN NoMem ELSE FreeAddr IN
  /\ pc = "stage" /\ at <= Len(slots)
  /\ out = "h2d" => dev = "nvptx" /\ s.kind \in InKinds
  /\ IF s.kind \notin Buffers
     THEN /\ out = "ok"
          /\ at' = at + 1
          /\ UNCHANGED <<pc, slots, rc, mem>>
     ELSE /\ slots' = [slots EXCEPT ![at] = [@ EXCEPT !.host = host, !.dptr = addr]]
          /\ mem' = IF addr = NoMem THEN mem
                    ELSE [mem EXCEPT ![addr] = IF out = "h2d" THEN Junk ELSE Uploaded(s, host)]
          /\ IF addr = NoMem \/ out = "h2d"
             THEN rc' = "err" /\ pc' = "finish" /\ UNCHANGED at
             ELSE at' = at + 1 /\ UNCHANGED <<rc, pc>>
  /\ UNCHANGED <<exit, dev, kern, kstate, call, files>>

-----------------------------------------------------------------------------
(* build_args: a buffer passes its device address, a scalar its value,     *)
(* which is the slot itself here (negated, to tell it from an address).    *)
Value(j) == IF slots[j].kind \in Buffers THEN slots[j].dptr ELSE -j

NThreads == -(MaxSlots + 1)

IsFlt(j) == slots[j].kind = "flt"
Ints == {j \in DOMAIN slots : ~IsFlt(j)}
Flts == {j \in DOMAIN slots : IsFlt(j)}

(* The register of argument j, counted among those of its class: ni or nf  *)
(* of ce_run when the loop reaches it.                                     *)
Reg(j) == 1 + Cardinality({k \in 1 .. j - 1 : IsFlt(k) = IsFlt(j)})

(* What the loop over the arguments of a class leaves in register r. *)
Loaded(args, r) ==
  LET W == {j \in args : Reg(j) = r} IN IF W = {} THEN 0 ELSE Value(Max(W))

(* The register banks of ce_run: zeroed, loaded, and the thread count in   *)
(* the next integer register.                                              *)
Banks ==
  [iv |-> [r \in 1 .. IntRegs |->
             IF r = Cardinality(Ints) + 1 THEN NThreads ELSE Loaded(Ints, r)],
   fv |-> [r \in 1 .. FltRegs |-> Loaded(Flts, r)]]

(* The arguments, the thread count with them, do not fit the registers. *)
TooManyArgs == Cardinality(Ints) + 1 > IntRegs \/ Cardinality(Flts) > FltRegs

(* rt_run, which starts the kernel.  ce_run refuses what it has no         *)
(* register for and returns when the kernel has (dim.shmem is dropped);    *)
(* nv_rt_launch may be refused by the driver and does not wait.            *)
Run(ok) ==
  LET starts == ok /\ ~ (dev = "cpu" /\ TooManyArgs) IN
  /\ pc = "stage" /\ at > Len(slots)
  /\ ok \/ dev = "nvptx"
  /\ kstate' = IF starts THEN "running" ELSE kstate
  /\ call' = IF starts /\ dev = "cpu" THEN Banks ELSE NoCall
  /\ rc' = IF starts THEN "ok" ELSE "err"
  /\ pc' = IF starts THEN "sync" ELSE "finish"
  /\ UNCHANGED <<slots, at, exit, dev, kern, mem, files>>

(* external: the kernel ends, having written its outputs, or faults, which *)
(* the CPU target's kernel cannot do without taking the process with it.   *)
KernelEnds(faults) ==
  /\ kstate = "running"
  /\ faults => dev = "nvptx"
  /\ kstate' = IF faults THEN "faulted" ELSE "done"
  /\ mem' = [a \in Addrs |->
       LET W == {j \in DOMAIN slots : slots[j].dptr = a /\ slots[j].kind \in OutKinds} IN
       IF W = {} THEN mem[a] ELSE IF faults THEN Junk ELSE Max(W)]
  /\ UNCHANGED <<pc, slots, at, rc, exit, dev, kern, call, files>>

(* Mutant: rt_sync polls for success only. *)
SyncPollsDone ==
  /\ pc = "sync"
  /\ IF kstate = "done" THEN pc' = "fetch" /\ at' = 1 ELSE UNCHANGED <<pc, at>>
  /\ UNCHANGED <<slots, rc, exit, dev, kern, mem, kstate, call, files>>

(* rt_sync waits for the kernel and reports a fault. *)
Sync ==
  /\ pc = "sync" /\ kstate # "running"
  /\ rc' = IF kstate = "done" THEN "ok" ELSE "err"
  /\ pc' = IF kstate = "done" THEN "fetch" ELSE "finish"
  /\ at' = 1
  /\ UNCHANGED <<slots, exit, dev, kern, mem, kstate, call, files>>

-----------------------------------------------------------------------------
(* Mutant: a file that could not be written is reported and passed over. *)
FetchSlotCarriesOn(out) ==
  LET s == slots[at] IN
  /\ pc = "fetch" /\ at <= Len(slots)
  /\ IF s.kind \notin OutKinds
     THEN out = "ok" /\ UNCHANGED <<slots, files>>
     ELSE /\ slots' = [slots EXCEPT ![at] = [@ EXCEPT !.host = mem[s.dptr]]]
          /\ files' = [files EXCEPT ![s.path] =
               CASE out = "ok" -> mem[s.dptr] [] out = "write" -> Partial [] OTHER -> @]
  /\ at' = at + 1
  /\ UNCHANGED <<pc, rc, exit, dev, kern, mem, kstate, call>>

(* One turn of the loop in fetch: download, then spill.  spill truncates   *)
(* the file before it writes; "open" is a file it could not open.          *)
FetchSlot(out) ==
  LET s == slots[at] IN
  /\ pc = "fetch" /\ at <= Len(slots)
  /\ out = "d2h" => dev = "nvptx"
  /\ IF s.kind \notin OutKinds
     THEN out = "ok" /\ UNCHANGED <<slots, files>>
     ELSE /\ slots' = IF out = "d2h" THEN slots ELSE [slots EXCEPT ![at] = [@ EXCEPT !.host = mem[s.dptr]]]
          /\ files' = [files EXCEPT ![s.path] =
               CASE out = "ok" -> mem[s.dptr] [] out = "write" -> Partial [] OTHER -> @]
  /\ IF out = "ok" THEN at' = at + 1 /\ UNCHANGED <<rc, pc>>
                   ELSE rc' = "err" /\ pc' = "finish" /\ UNCHANGED at
  /\ UNCHANGED <<exit, dev, kern, mem, kstate, call>>

FetchDone ==
  /\ pc = "fetch" /\ at > Len(slots)
  /\ pc' = "finish"
  /\ UNCHANGED <<slots, at, rc, exit, dev, kern, mem, kstate, call, files>>

(* The tail of brun_launch: release, rt_unload, rt_shut, return. *)
Finish ==
  /\ pc = "finish"
  /\ mem' = [a \in Addrs |-> IF \E j \in DOMAIN slots : slots[j].dptr = a THEN Absent ELSE mem[a]]
  /\ slots' = [j \in DOMAIN slots |-> [slots[j] EXCEPT !.host = Absent, !.dptr = NoMem]]
  /\ kern' = FALSE
  /\ dev' = "none"
  /\ kstate' = "none"
  /\ call' = NoCall
  /\ exit' = IF rc = "ok" THEN 0 ELSE 1
  /\ pc' = "idle"
  /\ at' = 1
  /\ rc' = "ok"
  /\ UNCHANGED files

-----------------------------------------------------------------------------
HostStep ==
  \/ \E ok \in BOOLEAN : Load(ok)
  \/ \E out \in {"ok", "host", "alloc", "h2d"} : StageSlot(out)
  \/ \E ok \in BOOLEAN : Run(ok)
  \/ Sync
  \/ \E out \in {"ok", "d2h", "open", "write"} : FetchSlot(out)
  \/ FetchDone
  \/ Finish

KernelStep == \E faults \in BOOLEAN : KernelEnds(faults)

Next ==
  \/ Reset
  \/ \E spec \in ArgSpecs : AddArg(spec[1], spec[2])
  \/ \E target \in Targets \cup {"probe", "unknown"}, nvok \in BOOLEAN :
       Launch(target, nvok)
  \/ HostStep
  \/ KernelStep

Spec == Init /\ [][Next]_vars

(* The process is scheduled, and a kernel that is started ends. *)
FairSpec == Spec /\ WF_vars(HostStep) /\ WF_vars(KernelStep)

-----------------------------------------------------------------------------
(* Whatever call failed, a launch that has returned holds nothing: no      *)
(* device, kernel, device memory or host buffer, and no kernel is running  *)
(* (booth_run.c: release, rt_unload, rt_shut on every path).               *)
NothingHeld ==
  pc = "idle" =>
    /\ dev = "none" /\ ~kern /\ kstate = "none"
    /\ \A a \in Addrs : mem[a] = Absent
    /\ \A j \in DOMAIN slots : slots[j].host = Absent /\ slots[j].dptr = NoMem

(* While a kernel runs every buffer argument has device memory of its own, *)
(* and an input holds what its file holds (stage, build_args): no buffer   *)
(* of an earlier launch and no file a later step rewrites shows through.   *)
KernelSeesFiles ==
  kstate = "running" =>
    \A j \in DOMAIN slots : slots[j].kind \in Buffers =>
      /\ slots[j].dptr # NoMem
      /\ \A k \in DOMAIN slots : k # j => slots[k].dptr # slots[j].dptr
      /\ slots[j].kind \in InKinds => mem[slots[j].dptr] = files[slots[j].path]

(* The CPU kernel is called with its own parameters in order, each in the  *)
(* register of its class, then the thread count (docs/usage.md:84).        *)
CalledInOrder ==
  dev = "cpu" /\ kstate = "running" =>
    /\ \A j \in DOMAIN slots :
         LET same == {k \in 1 .. j : (slots[k].kind = "flt") = (slots[j].kind = "flt")}
             bank == IF slots[j].kind = "flt" THEN call.fv ELSE call.iv IN
         bank[Cardinality(same)] = Value(j)
    /\ call.iv[Cardinality(Ints) + 1] = NThreads

(* brun_launch returns 0 only when every output file holds what the kernel *)
(* left for it; of two outputs in one file the later argument wins.        *)
ZeroMeansWritten ==
  exit = 0 =>
    \A j \in DOMAIN slots : slots[j].kind \in OutKinds =>
      files[slots[j].path] =
        Max({k \in DOMAIN slots : slots[k].kind \in OutKinds /\ slots[k].path = slots[j].path})

(* Every launch returns, whichever call fails. *)
LaunchReturns == pc # "idle" ~> pc = "idle"
=============================================================================
