---------------------------- MODULE CompileDriver ----------------------------
(***************************************************************************)
(* The compile driver: kath_compile and run_bir_backends (src/main.c) over *)
(* the backend registry (src/backend/backends.c).  One process calls       *)
(* kath_compile several times (kath cuda four times, kath doctor once per  *)
(* target), and the options, the module pointer and the recorded kernel    *)
(* name are static, so a job is a sequence of calls.                       *)
(*                                                                         *)
(* A module is what the driver asks about it: whether a pool overflowed,   *)
(* whether it still has device calls, whether it has byte globals.         *)
(***************************************************************************)
EXTENDS Integers, Sequences, SequencesExt, FiniteSets, FiniteSetsExt

CONSTANTS
  BeList,      \* be_list: the backends in order
  NoCall,      \* those with BE_F_NOCALL
  Bytes,       \* those with BE_F_BYTES
  Flags,       \* command-line flags: records [be, sets]; "on" selects
  Jobs         \* sequences of calls; a call is [flags, chost, fission, bir]

Backends == Range(BeList)

VARIABLES
  job,      \* the calls still to make, the current one first
  pc,       \* where the current call is
  store,    \* be_opts_store: what each backend's flags have set
  module,   \* bir_module: "none", "live" or "freed" (the pointer dangles)
  facts,    \* of the module: [ovf, calls, bytes]
  mmod,     \* the backend's machine module is allocated
  failed,   \* rc of the current call is not BC_OK
  out,      \* external: the output file: who wrote it, with which options
  rets      \* what each finished call returned, with what it was asked

vars == <<job, pc, store, module, facts, mmod, failed, out, rets>>

NoFacts == [ovf |-> FALSE, calls |-> FALSE, bytes |-> FALSE]
NoOut   == [be |-> "none", opts |-> {}]

Call == Head(job)

(* is_on, be_num_on, be_active. *)
On(b) == "on" \in store[b]
NumOn == Cardinality({b \in Backends : On(b)})
ActiveBe == IF NumOn = 0 THEN "none" ELSE BeList[Min({i \in DOMAIN BeList : On(BeList[i])})]

(* What the flags of a call ask for, on their own. *)
Asked(c) == [b \in Backends |-> UNION {f.sets : f \in {g \in c.flags : g.be = b}}]

-----------------------------------------------------------------------------
Init ==
  /\ job \in Jobs
  /\ pc = "call"
  /\ store = [b \in Backends |-> {}]
  /\ module = "none"
  /\ facts = NoFacts
  /\ mmod = FALSE
  /\ failed = FALSE
  /\ out = NoOut
  /\ rets = <<>>

(* Mutant: be_reset is not called; flags add to those of the last call. *)
ParsedOver(c) == [b \in Backends |-> store[b] \cup Asked(c)[b]]

(* be_reset, then be_parse_flag for every flag. *)
Parsed(c) == Asked(c)

(* kath_compile to the end of its argument loop.  A flag that selects no   *)
(* target on its own is refused.                                           *)
CallStart ==
  /\ pc = "call" /\ job # <<>>
  /\ store' = Parsed(Call)
  /\ facts' = NoFacts
  /\ failed' = (Call.flags # {} /\ \A b \in Backends : "on" \notin Parsed(Call)[b])
  /\ pc' = IF failed' THEN "return" ELSE "front"
  /\ out' = NoOut
  /\ UNCHANGED <<job, module, mmod, rets>>

(* A stage further down wants the module. *)
WantBir == Call.bir \/ Call.chost \/ Call.fission \/ NumOn > 0

(* The module is allocated and comp_tu runs over the files; what lowering  *)
(* makes of them is the input.                                             *)
FrontEnd(ok, f) ==
  /\ pc = "front"
  /\ IF WantBir
     THEN module' = "live" /\ facts' = f /\ pc' = IF ok THEN "checks" ELSE "free"
     ELSE pc' = "free" /\ UNCHANGED <<module, facts>>
  /\ failed' = ~ok
  /\ UNCHANGED <<job, store, mmod, out, rets>>

-----------------------------------------------------------------------------
(* run_bir_backends up to the passes: bir_pchk, bir_vchk, byte globals the *)
(* target cannot hold, device-call inlining, which checks its result.      *)
Checks(ok, grew) ==
  LET refused == facts.ovf \/ ~ok \/ (facts.bytes /\ ActiveBe # "none" /\ ActiveBe \notin Bytes)
      inlines == ActiveBe \in NoCall IN
  /\ pc = "checks"
  /\ failed' = refused
  /\ pc' = IF refused THEN "free" ELSE "passes"
  /\ facts' = IF inlines /\ ~refused
              THEN [facts EXCEPT !.calls = FALSE, !.ovf = grew] ELSE facts
  /\ UNCHANGED <<job, store, module, mmod, out, rets>>

(* Mutant: the second bir_pchk is dropped. *)
PassesNoRecheck(grew) ==
  /\ pc = "passes"
  /\ facts' = [facts EXCEPT !.ovf = @ \/ grew]
  /\ failed' = FALSE
  /\ pc' = IF Call.fission THEN "free" ELSE "isel"
  /\ UNCHANGED <<job, store, module, mmod, out, rets>>

(* The passes, bir_pchk again, and the Tile DataFlow wrapping; --tdf-fission*)
(* stops after its dump.                                                   *)
Passes(grew) ==
  /\ pc = "passes"
  /\ facts' = [facts EXCEPT !.ovf = @ \/ grew]
  /\ failed' = facts'.ovf
  /\ pc' = IF facts'.ovf \/ Call.fission THEN "free" ELSE "isel"
  /\ UNCHANGED <<job, store, module, mmod, out, rets>>

-----------------------------------------------------------------------------
(* be_run to the end of isel.  Several targets are refused; none is fine,  *)
(* there is nothing to emit.  A failed isel gives back what it made.       *)
Isel(ok) ==
  /\ pc = "isel"
  /\ IF NumOn # 1 THEN failed' = (NumOn > 1) /\ pc' = "free" /\ UNCHANGED mmod
     ELSE failed' = ~ok /\ mmod' = ok /\ pc' = IF ok THEN "verify" ELSE "free"
  /\ UNCHANGED <<job, store, module, facts, out, rets>>

(* verify, sched, regalc and verify again, as far as the backend has them. *)
Verify(ok) ==
  /\ pc = "verify"
  /\ failed' = ~ok
  /\ mmod' = ok
  /\ pc' = IF ok THEN "emit" ELSE "free"
  /\ UNCHANGED <<job, store, module, facts, out, rets>>

(* emit to the output file, then mfree. *)
Emit(ok) ==
  /\ pc = "emit"
  /\ failed' = ~ok
  /\ mmod' = FALSE
  /\ out' = IF ok THEN [be |-> ActiveBe, opts |-> store[ActiveBe]] ELSE out
  /\ pc' = "free"
  /\ UNCHANGED <<job, store, module, facts, rets>>

-----------------------------------------------------------------------------
(* The module is freed and the pointer kept; a host source is emitted for  *)
(* --cuda-host.                                                            *)
Free(ok) ==
  /\ pc = "free"
  /\ module' = IF module = "none" THEN "none" ELSE "freed"
  /\ failed' = (failed \/ (Call.chost /\ ~ok))
  /\ out' = IF Call.chost /\ ok /\ ~failed THEN [be |-> "host", opts |-> {}] ELSE out
  /\ pc' = "return"
  /\ UNCHANGED <<job, store, facts, mmod, rets>>

(* The call returns 0 or 1 and the verb makes the next one; kath cuda goes *)
(* on without a cubin, kath doctor to the next target.                     *)
Return ==
  /\ pc = "return"
  /\ rets' = Append(rets, [call |-> Call, rc |-> IF failed THEN 1 ELSE 0,
                           out |-> out, facts |-> facts])
  /\ job' = Tail(job)
  /\ pc' = "call"
  /\ failed' = FALSE
  /\ UNCHANGED <<store, module, facts, mmod, out>>

AllFacts == [ovf : BOOLEAN, calls : BOOLEAN, bytes : BOOLEAN]

Done == pc = "call" /\ job = <<>> /\ UNCHANGED vars

Next ==
  \/ CallStart
  \/ \E ok \in BOOLEAN, f \in AllFacts : FrontEnd(ok, f)
  \/ \E ok, grew \in BOOLEAN : Checks(ok, grew)
  \/ \E grew \in BOOLEAN : Passes(grew)
  \/ \E ok \in BOOLEAN : Isel(ok)
  \/ \E ok \in BOOLEAN : Verify(ok)
  \/ \E ok \in BOOLEAN : Emit(ok)
  \/ \E ok \in BOOLEAN : Free(ok)
  \/ Return
  \/ Done

Spec == Init /\ [][Next]_vars

-----------------------------------------------------------------------------
(* A call that returned 0 wrote what its own flags asked for, with their   *)
(* options and no others: the one selected backend's output, or for        *)
(* --cuda-host the host source (backends.c:136: "One target per run").     *)
WroteWhatWasAsked ==
  \A k \in DOMAIN rets :
    LET c   == rets[k].call
        sel == {b \in Backends : "on" \in Asked(c)[b]} IN
    rets[k].rc = 0 =>
      \/ c.chost /\ rets[k].out.be = "host"
      \/ ~c.chost /\ (sel = {} \/ c.fission) /\ rets[k].out = NoOut
      \/ ~c.chost /\ ~c.fission /\ \E b \in sel :
           sel = {b} /\ rets[k].out = [be |-> b, opts |-> Asked(c)[b]]

(* No backend emits a module a pool overflowed in, or with byte globals or *)
(* device calls it has no place for (main.c:97, 105, 125).                 *)
EmittedWhole ==
  \A k \in DOMAIN rets :
    LET r == rets[k] IN
    r.rc = 0 /\ r.out.be \in Backends =>
      /\ ~r.facts.ovf
      /\ r.facts.bytes => r.out.be \in Bytes
      /\ r.facts.calls => r.out.be \notin NoCall

(* Between two calls nothing is allocated, and a module is freed once: the *)
(* pointer kept from the last call is never freed again (main.c:862).      *)
FreedOnce ==
  /\ pc = "call" => ~mmod /\ module # "live"
  /\ pc = "free" => module = "live" \/ (module = "none" /\ ~WantBir)

=============================================================================
