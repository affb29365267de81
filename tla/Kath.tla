-------------------------------- MODULE Kath --------------------------------
(***************************************************************************)
(* The kath command: what its verbs do with temporary files (KathVerbs),   *)
(* how one process compiles file after file (CompileDriver), and how an    *)
(* artefact is launched (BoothRun).  main.c and verbs.c call one after the *)
(* other, and all that passes between them is a file and a status; a       *)
(* behaviour follows one of them.                                          *)
(***************************************************************************)
EXTENDS Integers, Sequences, FiniteSets

CONSTANTS
  Procs, Dirs, DirOf, Exts, MaxAtOnce,    \* see KathVerbs
  BeList, Uncalled, Bytes, Flags, Jobs,   \* see CompileDriver
  Paths, MaxSlots, IntRegs, FltRegs       \* see BoothRun

(* A process that compiles more than once (kath cuda, kath doctor) asks for*)
(* something to be emitted every time.                                     *)
ASSUME JobAssumption ==
  /\ BeList \in Seq(STRING) /\ \A i \in DOMAIN BeList : BeList[i] \notin {"none", "host"}
  /\ Jobs \subseteq Seq([flags : SUBSET Flags, chost : BOOLEAN, fission : BOOLEAN, bir : BOOLEAN])
  /\ \A j \in Jobs : Len(j) > 1 => \A n \in DOMAIN j :
       \/ j[n].chost \/ j[n].fission \/ j[n].bir
       \/ \E f \in j[n].flags, i \in DOMAIN BeList : f.be = BeList[i] /\ "on" \in f.sets
ASSUME DirAssumption == DirOf \in [Procs -> Dirs]
ASSUME RegAssumption == MaxSlots \in Nat \ {0} /\ IntRegs \in Nat \ {0} /\ FltRegs \in Nat

VARIABLES
  part,                                                     \* the part this behaviour follows
  pc, exit,
  verb, opts, seq, path, nocub, result, tmp, met,           \* KathVerbs
  job, store, module, facts, mmod, failed, out, rets,       \* CompileDriver
  slots, at, rc, dev, kern, mem, kstate, call, files        \* BoothRun

Verbs  == INSTANCE KathVerbs
Driver == INSTANCE CompileDriver WITH NoCall <- Uncalled
Launch == INSTANCE BoothRun

verbVars   == <<verb, opts, seq, path, nocub, result, tmp, met>>
driverVars == <<job, store, module, facts, mmod, failed, out, rets>>
launchVars == <<slots, at, rc, dev, kern, mem, kstate, call, files>>
vars == <<part, pc, exit, verbVars, driverVars, launchVars>>

(* The variables of a part that is not followed. *)
NoVerbs == /\ verb = 0 /\ opts = 0 /\ seq = 0 /\ path = 0 /\ nocub = 0 /\ result = 0 /\ tmp = 0 /\ met = 0
NoDriver == /\ job = 0 /\ store = 0 /\ module = 0 /\ facts = 0
            /\ mmod = 0 /\ failed = 0 /\ out = 0 /\ rets = 0
NoLaunch == /\ slots = 0 /\ at = 0 /\ rc = 0 /\ dev = 0 /\ kern = 0
            /\ mem = 0 /\ kstate = 0 /\ call = 0 /\ files = 0

Init ==
  \/ part = "verbs"  /\ Verbs!Init /\ NoDriver /\ NoLaunch
  \/ part = "driver" /\ Driver!Init /\ NoVerbs /\ NoLaunch /\ exit = 0
  \/ part = "launch" /\ Launch!Init /\ NoVerbs /\ NoDriver

Next ==
  \/ part = "verbs"  /\ Verbs!Next /\ UNCHANGED <<part, driverVars, launchVars>>
  \/ part = "driver" /\ Driver!Next /\ UNCHANGED <<part, exit, verbVars, launchVars>>
  \/ part = "launch" /\ Launch!Next /\ UNCHANGED <<part, verbVars, driverVars>>

(* The process is scheduled, and a kernel that is started ends. *)
Spec ==
  /\ Init /\ [][Next]_vars
  /\ WF_vars(part = "launch" /\ Launch!HostStep /\ UNCHANGED <<part, verbVars, driverVars>>)
  /\ WF_vars(part = "launch" /\ Launch!KernelStep /\ UNCHANGED <<part, verbVars, driverVars>>)

-----------------------------------------------------------------------------
(* What a command writes or runs is all its own code, and what it leaves   *)
(* in the temporary directory it leaves for a reason (KathVerbs).          *)
OwnCode == part = "verbs" => Verbs!OwnCode /\ Verbs!LeftForAReason

(* A call that returned 0 wrote what its own flags asked for, and a module *)
(* is freed once (CompileDriver).                                          *)
WroteWhatWasAsked == part = "driver" => Driver!WroteWhatWasAsked /\ Driver!FreedOnce

(* No back end emits a module that is incomplete or that it cannot hold    *)
(* (CompileDriver).                                                        *)
EmittedWhole == part = "driver" => Driver!EmittedWhole

(* The kernel is called with its parameters in order and finds in every    *)
(* buffer what the file holds (BoothRun).                                  *)
KernelSeesFiles == part = "launch" => Launch!KernelSeesFiles /\ Launch!CalledInOrder

(* brun_launch returns 0 only when every output file is written (BoothRun).*)
ZeroMeansWritten == part = "launch" => Launch!ZeroMeansWritten

(* A launch that has returned holds nothing, whatever failed (BoothRun).   *)
NothingHeld == part = "launch" => Launch!NothingHeld

(* Every launch returns, whichever call fails (BoothRun). *)
LaunchReturns == (part = "launch" /\ pc # "idle") ~> (part = "launch" /\ pc = "idle")

-----------------------------------------------------------------------------
(* Directories, back ends, flags and jobs for the run. *)
OneDir == [p \in Procs |-> "tmp"]
DirSet == {"tmp"}

List == <<"amdgpu", "nvptx", "tensix", "cpu">>

Flag(b, s) == [be |-> b, sets |-> s]
Gfx942 == Flag("amdgpu", {"gfx942"})
AmdBin == Flag("amdgpu", {"on", "bin"})
Ptx    == Flag("nvptx", {"on"})
Cubin  == Flag("nvptx", {"on", "cubin"})
Tensix == Flag("tensix", {"on"})
Cpu    == Flag("cpu", {"on"})
FlagSet == {Gfx942, AmdBin, Ptx, Cubin, Tensix, Cpu}

With(fs) == [flags |-> fs, chost |-> FALSE, fission |-> FALSE, bir |-> FALSE]
Host     == [With({}) EXCEPT !.chost = TRUE]

(* kath with up to two target flags, or none; kath cuda; kath doctor. *)
JobSet ==
  {<<With(fs)>> : fs \in {s \in SUBSET FlagSet : Cardinality(s) <= 2}}
  \cup {<<[With({Tensix}) EXCEPT !.fission = TRUE]>>, <<[With({}) EXCEPT !.bir = TRUE]>>}
  \cup {<<With({Cubin}), With({Ptx}), Host>>, <<With({Cpu}), With({Ptx})>>}

NoCallSet == {"amdgpu", "nvptx", "tensix"}
BytesSet  == {"amdgpu", "nvptx"}
=============================================================================
