------------------------------ MODULE KathVerbs ------------------------------
(***************************************************************************)
(* The verbs that compile through temporary files (src/exec/verbs.c): kath *)
(* cuda, which builds one object out of a cubin, a PTX file, a fatbin and  *)
(* a host source, and kath run of a source file, for Fortran with          *)
(* LFortran's files before it.  Several kath processes share a temporary   *)
(* directory, as the compile steps of one build do.  A step is one compile,*)
(* link or removal; between two of them another process runs.              *)
(*                                                                         *)
(* A file is modelled by whose source each part of it came from.           *)
(***************************************************************************)
EXTENDS Integers, Sequences, FiniteSets, Functions

CONSTANTS
  Procs,       \* kath processes; each compiles a source file of its own
  Dirs,        \* temporary directories
  DirOf,       \* the directory tmpdir() gives each process
  Exts,        \* extensions of the artefacts of the targets in use
  MaxAtOnce    \* bound: processes that run at one time

VARIABLES
  pc,       \* where each process is
  verb,     \* "cuda" or "run"
  opts,     \* fb: PTX fallback; f90: the source is Fortran
  seq,      \* g_seq
  path,     \* the temporary names a process has made, by their use, NoName before
  nocub,    \* SASS refused this unit
  exit,     \* exit status, -1 while it runs
  result,   \* cuda: the object written; run: the kernel loaded
  tmp,      \* external: the temporary files that exist
  met       \* history: processes that ran beside another with their names

vars == <<pc, verb, opts, seq, path, nocub, exit, result, tmp, met>>

None  == "none"
Blank == [host |-> None, sass |-> None, ptx |-> None]

NoName  == <<>>
NoNames == [cub |-> NoName, ptx |-> NoName, fat |-> NoName, cpp |-> NoName,
            art |-> NoName, obj |-> NoName, side |-> NoName, cu |-> NoName]

(* The running processes. *)
Active == {p \in Procs : pc[p] \notin {"new", "done"}}

-----------------------------------------------------------------------------
(* A file is created or written over, or removed if it is there. *)
With(t, file, content) == [f \in DOMAIN t \cup {file} |-> IF f = file THEN content ELSE t[f]]
Without(t, gone) == Restrict(t, DOMAIN t \ gone)

Put(file, content) == tmp' = With(tmp, file, content)
Remove(gone) == tmp' = Without(tmp, gone)
Exists(file) == file \in DOMAIN tmp

(* tmppath: the directory, a base name, the next sequence number of this   *)
(* process and an extension.                                               *)
TmpPath(p, n, base, ext) == <<DirOf[p], base, seq[p] + n, ext>>

(* The names p has made. *)
Names(p) ==
  {path[p].cub, path[p].ptx, path[p].fat, path[p].cpp,
   path[p].art, path[p].obj, path[p].side, path[p].cu} \ {NoName}

Goto(p, l) == pc' = [pc EXCEPT ![p] = l]

Init ==
  /\ pc = [p \in Procs |-> "new"]
  /\ verb = [p \in Procs |-> None]
  /\ opts = [p \in Procs |-> [fb |-> FALSE, f90 |-> FALSE]]
  /\ seq = [p \in Procs |-> 0]
  /\ path = [p \in Procs |-> NoNames]
  /\ nocub = [p \in Procs |-> FALSE]
  /\ exit = [p \in Procs |-> -1]
  /\ result = [p \in Procs |-> Blank]
  /\ tmp = <<>>
  /\ met = {}

(* Nothing keeps a process from starting beside another: tmppath puts no   *)
(* process id in a name and takes no lock, so two that run the same verb in*)
(* one directory use the same names.                                       *)
Namesakes(p, v) == {q \in Active : DirOf[q] = DirOf[p] /\ verb[q] = v}

(* p is the name of the next process to start: they differ in DirOf alone. *)
Starts(p, v, o) ==
  /\ pc[p] = "new" /\ p = CHOOSE q \in Procs : pc[q] = "new"
  /\ Cardinality(Active) < MaxAtOnce
  /\ verb' = [verb EXCEPT ![p] = v]
  /\ opts' = [opts EXCEPT ![p] = o]
  /\ met' = IF Namesakes(p, v) = {} THEN met ELSE met \cup Namesakes(p, v) \cup {p}

-----------------------------------------------------------------------------
(* verb_cuda up to its four names. *)
CudaStart(p, fb) ==
  /\ Starts(p, "cuda", [fb |-> fb, f90 |-> FALSE])
  /\ path' = [path EXCEPT ![p] = [@ EXCEPT
       !.cub = TmpPath(p, 1, "cuda", "cubin"), !.ptx = TmpPath(p, 2, "cuda", "ptx"),
       !.fat = TmpPath(p, 3, "cuda", "fatbin"), !.cpp = TmpPath(p, 4, "cuda", "cpp")]]
  /\ seq' = [seq EXCEPT ![p] = @ + 4]
  /\ Goto(p, "cubin")
  /\ UNCHANGED <<nocub, exit, result, tmp>>

(* cuda1 --nvidia-cubin: a refusal is fatal, or this unit carries PTX only.*)
CudaCubin(p, ok) ==
  /\ pc[p] = "cubin"
  /\ IF ok THEN Put(path[p].cub, [Blank EXCEPT !.sass = p]) ELSE UNCHANGED tmp
  /\ nocub' = [nocub EXCEPT ![p] = ~ok /\ opts[p].fb]
  /\ Goto(p, IF ok \/ opts[p].fb THEN "ptx" ELSE "fail")
  /\ UNCHANGED <<verb, opts, seq, path, exit, result, met>>

(* cuda1 --nvidia-ptx. *)
CudaPtx(p, ok) ==
  /\ pc[p] = "ptx"
  /\ IF ok THEN Put(path[p].ptx, [Blank EXCEPT !.ptx = p]) ELSE UNCHANGED tmp
  /\ Goto(p, IF ok THEN "fat" ELSE "fail")
  /\ UNCHANGED <<verb, opts, seq, path, nocub, exit, result, met>>

SassOf(f) == IF Exists(f) THEN tmp[f].sass ELSE None
PtxOf(f)  == IF Exists(f) THEN tmp[f].ptx ELSE None

(* Mutant: hg_fat is always handed the cubin's name. *)
CudaFatAnyCubin(p, ok) ==
  LET pa == path[p]
      s  == SassOf(pa.cub)
      x  == PtxOf(pa.ptx)
      good == ok /\ (s # None \/ x # None) IN
  /\ pc[p] = "fat"
  /\ IF good THEN Put(pa.fat, [host |-> None, sass |-> s, ptx |-> x]) ELSE Remove({pa.fat})
  /\ Goto(p, IF good THEN "host" ELSE "fail")
  /\ UNCHANGED <<verb, opts, seq, path, nocub, exit, result, met>>

(* hg_fat: the cubin, unless there is none, and the PTX.  A missing cubin  *)
(* is an error; a missing PTX file only if there is no cubin either.       *)
CudaFat(p, ok) ==
  LET pa == path[p]
      s  == IF nocub[p] THEN None ELSE SassOf(pa.cub)
      x  == PtxOf(pa.ptx)
      good == ok /\ (nocub[p] \/ s # None) /\ (s # None \/ x # None) IN
  /\ pc[p] = "fat"
  /\ IF good THEN Put(pa.fat, [host |-> None, sass |-> s, ptx |-> x]) ELSE Remove({pa.fat})
  /\ Goto(p, IF good THEN "host" ELSE "fail")
  /\ UNCHANGED <<verb, opts, seq, path, nocub, exit, result, met>>

(* cuda1 --cuda-host: the host source with the fatbin inside it (opro,     *)
(* ofat).  A fatbin that cannot be opened is embedded as an empty string.  *)
CudaHost(p, ok) ==
  LET fat == path[p].fat IN
  /\ pc[p] = "host"
  /\ IF ok THEN Put(path[p].cpp, [host |-> p, sass |-> SassOf(fat), ptx |-> PtxOf(fat)])
           ELSE UNCHANGED tmp
  /\ Goto(p, IF ok THEN "cc" ELSE "fail")
  /\ UNCHANGED <<verb, opts, seq, path, nocub, exit, result, met>>

(* cc_obj or hg_cc: the C++ compiler. *)
CudaCc(p, ok) ==
  LET good == ok /\ Exists(path[p].cpp) IN
  /\ pc[p] = "cc"
  /\ result' = IF good THEN [result EXCEPT ![p] = tmp[path[p].cpp]] ELSE result
  /\ Goto(p, IF good THEN "clean" ELSE "fail")
  /\ UNCHANGED <<verb, opts, seq, path, nocub, exit, tmp, met>>

(* The tail of verb_cuda: the host source is kept when something failed. *)
CudaDone(p) ==
  /\ verb[p] = "cuda" /\ pc[p] \in {"clean", "fail"}
  /\ Remove({path[p].cub, path[p].ptx, path[p].fat}
            \cup (IF pc[p] = "clean" THEN {path[p].cpp} ELSE {}))
  /\ exit' = [exit EXCEPT ![p] = IF pc[p] = "clean" THEN 0 ELSE 1]
  /\ Goto(p, "done")
  /\ UNCHANGED <<verb, opts, seq, path, nocub, result, met>>

-----------------------------------------------------------------------------
(* verb_run of a source file: the target is picked and the artefact named. *)
RunStart(p, ext, f90) ==
  /\ Starts(p, "run", [fb |-> FALSE, f90 |-> f90])
  /\ path' = [path EXCEPT ![p] = [@ EXCEPT !.art = TmpPath(p, 1, "run", ext)]]
  /\ seq' = [seq EXCEPT ![p] = @ + 1]
  /\ Goto(p, IF f90 THEN "lfortran" ELSE "build")
  /\ UNCHANGED <<nocub, exit, result, tmp>>

(* cvt_f90 to the end of LFortran, which writes an object and, beside it,  *)
(* the CUDA source.                                                        *)
RunLFortran(p, ok) ==
  LET obj  == TmpPath(p, 1, "lf", "o")
      side == TmpPath(p, 1, "lf", "o.cuda.cu") IN
  /\ pc[p] = "lfortran"
  /\ path' = [path EXCEPT ![p] = [@ EXCEPT !.obj = obj, !.side = side]]
  /\ seq' = [seq EXCEPT ![p] = @ + 1]
  /\ IF ok THEN tmp' = With(With(tmp, obj, Blank), side, [Blank EXCEPT !.host = p])
           ELSE UNCHANGED tmp
  /\ Goto(p, IF ok THEN "cut" ELSE "fail")
  /\ UNCHANGED <<verb, opts, nocub, exit, result, met>>

(* The rest of cvt_f90: the CUDA source up to the registration code is     *)
(* copied to a file of its own.  If that cannot be opened the others stay; *)
(* if it cannot be written they go and it stays.                           *)
RunCut(p, out) ==
  LET cu   == TmpPath(p, 1, "lf", "cu")
      open == out # "open" /\ Exists(path[p].side) IN
  /\ pc[p] = "cut"
  /\ path' = [path EXCEPT ![p] = [@ EXCEPT !.cu = cu]]
  /\ seq' = [seq EXCEPT ![p] = @ + 1]
  /\ tmp' = IF ~open THEN tmp
            ELSE With(Without(tmp, {path[p].obj, path[p].side}),
                      cu, IF out = "ok" THEN tmp[path[p].side] ELSE Blank)
  /\ Goto(p, IF open /\ out = "ok" THEN "build" ELSE "fail")
  /\ UNCHANGED <<verb, opts, nocub, exit, result, met>>

(* build_source: compile3 to the artefact; a converted source is removed. *)
RunBuild(p, ok) ==
  LET conv == IF opts[p].f90 THEN {path[p].cu} ELSE {}
      src  == IF ~opts[p].f90 THEN p
              ELSE IF Exists(path[p].cu) THEN tmp[path[p].cu].host ELSE None
      good == ok /\ src # None
      rest == Without(tmp, conv) IN
  /\ pc[p] = "build"
  /\ tmp' = IF good THEN With(rest, path[p].art, [Blank EXCEPT !.host = src]) ELSE rest
  /\ Goto(p, IF good THEN "launch" ELSE "fail")
  /\ UNCHANGED <<verb, opts, seq, path, nocub, exit, result, met>>

(* brun_launch loads the artefact (BoothRun has the rest); it is removed   *)
(* either way.                                                             *)
RunLaunch(p, ok) ==
  LET good == ok /\ Exists(path[p].art) IN
  /\ pc[p] = "launch"
  /\ result' = IF good THEN [result EXCEPT ![p] = tmp[path[p].art]] ELSE result
  /\ Remove({path[p].art})
  /\ exit' = [exit EXCEPT ![p] = IF good THEN 0 ELSE 1]
  /\ Goto(p, "done")
  /\ UNCHANGED <<verb, opts, seq, path, nocub, met>>

(* A build that failed: the artefact is removed if there is one. *)
RunFailed(p) ==
  /\ verb[p] = "run" /\ pc[p] = "fail"
  /\ Remove({path[p].art})
  /\ exit' = [exit EXCEPT ![p] = 1]
  /\ Goto(p, "done")
  /\ UNCHANGED <<verb, opts, seq, path, nocub, result, met>>

(* external: the process is interrupted and what it wrote stays. *)
Killed(p) ==
  /\ p \in Active
  /\ exit' = [exit EXCEPT ![p] = 130]
  /\ Goto(p, "done")
  /\ UNCHANGED <<verb, opts, seq, path, nocub, result, tmp, met>>

-----------------------------------------------------------------------------
Step(p) ==
  \/ \E fb \in BOOLEAN : CudaStart(p, fb)
  \/ \E ok \in BOOLEAN : CudaCubin(p, ok)
  \/ \E ok \in BOOLEAN : CudaPtx(p, ok)
  \/ \E ok \in BOOLEAN : CudaFat(p, ok)
  \/ \E ok \in BOOLEAN : CudaHost(p, ok)
  \/ \E ok \in BOOLEAN : CudaCc(p, ok)
  \/ CudaDone(p)
  \/ \E ext \in Exts, f90 \in BOOLEAN : RunStart(p, ext, f90)
  \/ \E ok \in BOOLEAN : RunLFortran(p, ok)
  \/ \E out \in {"ok", "open", "write"} : RunCut(p, out)
  \/ \E ok \in BOOLEAN : RunBuild(p, ok)
  \/ \E ok \in BOOLEAN : RunLaunch(p, ok)
  \/ RunFailed(p)
  \/ Killed(p)

Done == (\A p \in Procs : pc[p] = "done") /\ UNCHANGED vars

Next == (\E p \in Procs : Step(p)) \/ Done

Spec == Init /\ [][Next]_vars

-----------------------------------------------------------------------------
(* docs/usage.md:35: "Compile a .cu the way nvcc would: device code into a *)
(* fatbin, host code through your C++ compiler, one object out".  An object*)
(* written, or a kernel run, with status 0 is all from this process's own  *)
(* source, and it has SASS exactly when SASS was not refused, unless another*)
(* process ran the same verb in the same directory meanwhile: nothing that *)
(* an earlier process left under the same temporary names shows through,   *)
(* two earlier ones that spoilt each other's files included, and kath run  *)
(* beside kath cuda does no harm.                                          *)
OwnCode ==
  \A p \in Procs \ met : exit[p] = 0 =>
    result[p] = IF verb[p] = "run" THEN [Blank EXCEPT !.host = p]
                ELSE [host |-> p, ptx |-> p, sass |-> IF nocub[p] THEN None ELSE p]

(* What is left in the temporary directory when nobody runs is the host    *)
(* source of a kath cuda that failed, LFortran's files of a kath run that  *)
(* failed, or a file of a process that was killed (verbs.c:180, 326, 691), *)
(* processes that shared their names included.                             *)
LeftForAReason ==
  Active = {} =>
    \A f \in DOMAIN tmp : \E p \in Procs :
      \/ exit[p] = 1 /\ verb[p] = "cuda" /\ f = path[p].cpp
      \/ exit[p] = 1 /\ verb[p] = "run" /\ opts[p].f90 /\ f[2] = "lf"
      \/ exit[p] = 130 /\ f \in Names(p)

=============================================================================
