----------------------------- MODULE TensixPipe -----------------------------
(***************************************************************************)
(* The three baby-core programs that tensix_emit_kernel_elves writes, as  *)
(* they run on one Tensix: a reader and a writer, both emitted by         *)
(* td_emit_dma_loop, and the compute core emitted by                      *)
(* tensix_emit_compute_rv.  They meet only in four 32-bit counters in L1. *)
(* Each counter is seeded and waited on by the one core that acquires it; *)
(* the other core signals it with a NoC atomic.  All atomics are posted:  *)
(* the core goes on at once and the add lands later, the acquirer's own   *)
(* subtraction included (tt_sem_acquire).                                 *)
(*                                                                         *)
(* Nothing orders the programs but the counters.  A core may signal one   *)
(* whose acquirer has yet to seed it: what had landed is then overwritten *)
(* ("lost").  And a core may come back to a counter before its own        *)
(* subtraction has landed, and find the credit it took before once more   *)
(* ("overdrawn").  These two histories say how far the properties go.     *)
(*                                                                         *)
(* Tile data is not modelled: the emitted compute body is not yet bound   *)
(* to the rings (datamov.c says so), so the claims are about which ring   *)
(* slots a core is entitled to touch, and when.                           *)
(***************************************************************************)
EXTENDS Integers, FiniteSets

CONSTANTS Depth,        \* slots of each ring (TT_CB_DEPTH)
          NTiles,       \* tile count the host puts in the runtime-args slab
          Mod,          \* 2^32 of the counters, small so that wrap is reached
          MaxSigs,      \* bound: signals of one counter in flight at once
          MaxOver       \* bound: counters overdrawn in one behaviour

\* A launch has fewer tiles than a counter counts.
ASSUME TensixAssumption ==
    /\ Depth \in Nat \ {0}
    /\ NTiles \in Nat
    /\ Mod \in Nat /\ Mod > NTiles + Depth
    /\ MaxSigs \in Nat /\ MaxOver \in Nat

Cores == {"reader", "compute", "writer"}
Counters == {"in_recv", "in_free", "out_recv", "out_free"}

\* Each counter has one acquirer.
Acquirer(s) == CASE s = "in_free" -> "reader"
                 [] s \in {"in_recv", "out_free"} -> "compute"
                 [] s = "out_recv" -> "writer"

VARIABLES
    pc,       \* where each core's program is
    k,        \* tiles each core has finished (NTiles - a5)
    cnt,      \* the counters, in L1
    plus,     \* signals posted to a counter and not applied yet
    minus,    \* subtractions posted by its acquirer and not applied yet
    fly,      \* tiles a data-movement core has asked the NoC to move, not completed yet
    lost,     \* history: signals applied to a counter before it was seeded
    overdrawn \* history: counters whose acquirer took a credit it had taken before

vars == <<pc, k, cnt, plus, minus, fly, lost, overdrawn>>

Init ==
    /\ pc = [c \in Cores |-> "seed"]
    /\ k = [c \in Cores |-> 0]
    /\ \E junk \in {0, 1} : cnt = [s \in Counters |-> junk]     \* nobody reads L1 before seeding it
    /\ plus = [s \in Counters |-> 0]
    /\ minus = [s \in Counters |-> 0]
    /\ fly = [c \in {"reader", "writer"} |-> {}]
    /\ lost = [s \in Counters |-> 0]
    /\ overdrawn = {}

Goto(c, l) == pc' = [pc EXCEPT ![c] = l]

\* The loop head, with n tiles done: leave once the tile counter is zero.
LoopHead(c, n) == Goto(c, IF n = NTiles THEN "done" ELSE "gate")
LoopBack(c) == LoopHead(c, k[c] + 1) /\ k' = [k EXCEPT ![c] = @ + 1]

-----------------------------------------------------------------------------
(* The counter primitives of noc.c.                                        *)

\* tt_sem_inc: fire an atomic add and go on.
Post(s) ==
    /\ plus[s] < MaxSigs
    /\ plus' = [plus EXCEPT ![s] = @ + 1]
    /\ UNCHANGED <<cnt, minus, lost, overdrawn>>

\* What the acquirer sees it may have asked to take away already.
Overdraws(s) ==
    /\ overdrawn' = IF cnt[s] <= minus[s] THEN overdrawn \cup {s} ELSE overdrawn
    /\ Cardinality(overdrawn') <= MaxOver

\* A spin whose threshold is one credit too high.
AcquireTwo(s) ==
    /\ cnt[s] >= 2
    /\ minus' = [minus EXCEPT ![s] = @ + 1]
    /\ Overdraws(s)
    /\ UNCHANGED <<cnt, plus, lost>>

\* tt_sem_acquire: spin until the counter shows a credit, then fire the
\* atomic that takes it away.
Acquire(s) ==
    /\ cnt[s] >= 1
    /\ minus' = [minus EXCEPT ![s] = @ + 1]
    /\ Overdraws(s)
    /\ UNCHANGED <<cnt, plus, lost>>

\* The same, taking the credit without a subtraction.
AcquirePeek(s) ==
    /\ cnt[s] >= 1
    /\ UNCHANGED <<cnt, plus, minus, lost, overdrawn>>

\* 32-bit arithmetic of the NoC atomic unit: adding 1, and adding 0 - 1.
Up(v)   == IF v = Mod - 1 THEN 0 ELSE v + 1
Down(v) == IF v = 0 THEN Mod - 1 ELSE v - 1

Seeded(s) == pc[Acquirer(s)] # "seed"

\* The NoC applies a posted add.
ApplyPlus(s) ==
    /\ plus[s] > 0
    /\ plus' = [plus EXCEPT ![s] = @ - 1]
    /\ cnt' = [cnt EXCEPT ![s] = Up(@)]
    /\ lost' = IF Seeded(s) THEN lost ELSE [lost EXCEPT ![s] = @ + 1]
    /\ UNCHANGED <<pc, k, minus, fly, overdrawn>>

ApplyMinus(s) ==
    /\ minus[s] > 0
    /\ minus' = [minus EXCEPT ![s] = @ - 1]
    /\ cnt' = [cnt EXCEPT ![s] = Down(@)]
    /\ UNCHANGED <<pc, k, plus, fly, lost, overdrawn>>

-----------------------------------------------------------------------------
(* Start of each program: seed the counters the core acquires.  (Compute  *)
(* stores two; nobody but itself reads them, so that they are one step.)  *)

\* Seeds that offer the reader one slot more than the ring has.
SeedsOneMore(c) == CASE c = "reader"  -> [in_free |-> Depth + 1]
                     [] c = "compute" -> [in_recv |-> 0, out_free |-> Depth]
                     [] c = "writer"  -> [out_recv |-> 0]

Seeds(c) == CASE c = "reader"  -> [in_free |-> Depth]
              [] c = "compute" -> [in_recv |-> 0, out_free |-> Depth]
              [] c = "writer"  -> [out_recv |-> 0]

Start(s) == Seeds(Acquirer(s))[s]

Seed(c) ==
    /\ pc[c] = "seed"
    /\ cnt' = [s \in Counters |-> IF Acquirer(s) = c THEN Start(s) ELSE cnt[s]]
    /\ LoopHead(c, 0)
    /\ UNCHANGED <<k, plus, minus, fly, lost, overdrawn>>

-----------------------------------------------------------------------------
(* td_emit_dma_loop: gate, transfer, barrier, signal, advance.            *)

GateOf(c)   == IF c = "reader" THEN "in_free" ELSE "out_recv"
SignalOf(c) == IF c = "reader" THEN "in_recv" ELSE "out_free"

DmaGate(c) ==
    /\ pc[c] = "gate"
    /\ Acquire(GateOf(c))
    /\ Goto(c, "xfer")
    /\ UNCHANGED <<k, fly>>

DmaXfer(c) ==
    /\ pc[c] = "xfer"
    /\ fly' = [fly EXCEPT ![c] = @ \cup {k[c]}]
    /\ Goto(c, "barrier")
    /\ UNCHANGED <<k, cnt, plus, minus, lost, overdrawn>>

\* The NoC completes the transfer: response received, or write acknowledged.
NocCompletes(c) ==
    /\ \E t \in fly[c] : fly' = [fly EXCEPT ![c] = @ \ {t}]
    /\ UNCHANGED <<pc, k, cnt, plus, minus, lost, overdrawn>>

\* A reader that publishes without waiting at the barrier.
DmaSignalEarly(c) ==
    /\ pc[c] = "barrier"
    /\ c = "reader" \/ fly[c] = {}
    /\ Post(SignalOf(c))
    /\ LoopBack(c)
    /\ UNCHANGED fly

\* A writer that hands the slot back without waiting for the write's ack.
DmaSignalNoAck(c) ==
    /\ pc[c] = "barrier"
    /\ c = "writer" \/ fly[c] = {}
    /\ Post(SignalOf(c))
    /\ LoopBack(c)
    /\ UNCHANGED fly

DmaSignal(c) ==
    /\ pc[c] = "barrier" /\ fly[c] = {}
    /\ Post(SignalOf(c))
    /\ LoopBack(c)
    /\ UNCHANGED fly

-----------------------------------------------------------------------------
(* tensix_emit_compute_rv: wait_front, reserve_back, math, push_back,     *)
(* pop_front.                                                              *)

ComputeWait ==
    /\ pc["compute"] = "gate"
    /\ Acquire("in_recv")
    /\ Goto("compute", "reserve")
    /\ UNCHANGED <<k, fly>>

\* A reserve that looks for a free slot and does not take it.
ComputeReservePeek ==
    /\ pc["compute"] = "reserve"
    /\ AcquirePeek("out_free")
    /\ Goto("compute", "math")
    /\ UNCHANGED <<k, fly>>

ComputeReserve ==
    /\ pc["compute"] = "reserve"
    /\ Acquire("out_free")
    /\ Goto("compute", "math")
    /\ UNCHANGED <<k, fly>>

\* Issue the math and publish the output tile.
ComputePush ==
    /\ pc["compute"] = "math"
    /\ Post("out_recv")
    /\ Goto("compute", "pop")
    /\ UNCHANGED <<k, fly>>

ComputePop ==
    /\ pc["compute"] = "pop"
    /\ Post("in_free")
    /\ LoopBack("compute")
    /\ UNCHANGED fly

-----------------------------------------------------------------------------
CoreStep(c) ==
    \/ Seed(c)
    \/ c \in {"reader", "writer"} /\ (DmaGate(c) \/ DmaXfer(c) \/ DmaSignal(c))
    \/ c = "compute" /\ (ComputeWait \/ ComputeReserve \/ ComputePush \/ ComputePop)

NocStep ==
    \/ \E s \in Counters : ApplyPlus(s) \/ ApplyMinus(s)
    \/ \E c \in {"reader", "writer"} : NocCompletes(c)

Next == (\E c \in Cores : CoreStep(c)) \/ NocStep

Spec == Init /\ [][Next]_vars

\* A core keeps executing, and the NoC delivers what was posted.
FairSpec ==
    /\ Spec
    /\ \A c \in Cores : WF_vars(CoreStep(c))
    /\ \A s \in Counters : WF_vars(ApplyPlus(s)) /\ WF_vars(ApplyMinus(s))
    /\ \A c \in {"reader", "writer"} : WF_vars(NocCompletes(c))

-----------------------------------------------------------------------------
(* Where each core stands, as tile counts of the rings' four pointers.    *)

Made == k["compute"] + (IF pc["compute"] = "pop" THEN 1 ELSE 0)

Labels == {"seed", "gate", "xfer", "barrier", "reserve", "math", "pop", "done"}

\* Every variable keeps its type: no core counts past the last tile, and no
\* transfer moves a tile beyond it.
TypeOK ==
    /\ pc \in [Cores -> Labels]
    /\ k \in [Cores -> 0..NTiles]
    /\ cnt \in [Counters -> 0..Mod - 1]
    /\ plus \in [Counters -> Nat]
    /\ minus \in [Counters -> Nat]
    /\ fly \in [{"reader", "writer"} -> SUBSET (0..NTiles - 1)]
    /\ lost \in [Counters -> Nat]
    /\ overdrawn \subseteq Counters

\* Slots of a ring a core has acquired and not yet passed on.
HeldIn  == IF pc["reader"] \in {"xfer", "barrier"} THEN 1 ELSE 0
UsedIn  == IF pc["compute"] \in {"reserve", "math", "pop"} THEN 1 ELSE 0
HeldOut == IF pc["compute"] = "math" THEN 1 ELSE 0
UsedOut == IF pc["writer"] \in {"xfer", "barrier"} THEN 1 ELSE 0

\* What a counter will hold once it is seeded and everything posted has landed.
Credit(s) == (IF Seeded(s) THEN cnt[s] ELSE Start(s)) + plus[s] - minus[s]

\* No credit is lost or invented by racing atomics, wrapped counters
\* included: the free slots, the produced tiles, what is still posted, what
\* the cores hold and the signals that came before the seeding add up to the
\* depth of each ring, in the 32-bit arithmetic of the counters.
CreditsConserved ==
    /\ (Credit("in_free") + lost["in_free"] + Credit("in_recv") + lost["in_recv"]
           + HeldIn + UsedIn - Depth) % Mod = 0
    /\ (Credit("out_free") + lost["out_free"] + Credit("out_recv") + lost["out_recv"]
           + HeldOut + UsedOut - Depth) % Mod = 0

\* Compute works only on input tiles that have arrived, and the writer sends
\* only tiles that compute has published: each for as long as it has not
\* taken one credit of its counter twice, and whenever the others seed.
OnlyArrivedTiles ==
    /\ "in_recv" \notin overdrawn /\ pc["compute"] \in {"reserve", "math"} =>
           k["compute"] < k["reader"] /\ k["compute"] \notin fly["reader"]
    /\ "out_recv" \notin overdrawn /\ pc["writer"] \in {"xfer", "barrier"} =>
           k["writer"] < Made

\* The reader never lets a transfer land in a slot compute still owns, and
\* compute never overwrites an output slot the writer has not drained: each
\* for as long as it has not taken one credit of its counter twice.
OnlyDrainedSlots ==
    /\ "in_free" \notin overdrawn /\ pc["reader"] \in {"xfer", "barrier"} =>
           k["reader"] < k["compute"] + Depth
    /\ "out_free" \notin overdrawn /\ pc["compute"] = "math" =>
           k["compute"] < k["writer"] + Depth /\ k["compute"] - Depth \notin fly["writer"]

\* A launch in which no signal comes before its counter is seeded ends: all
\* three cores process every tile and stop, overdrawn or not.
PipelineDrains ==
    [](\A s \in Counters : lost[s] = 0) => <>(\A c \in Cores : pc[c] = "done" /\ k[c] = NTiles)

\* Until a core takes a credit twice the emitted programs implement the
\* bounded two-ring pipeline: they publish and release tiles only when
\* TilePipe allows it.
Pipe == INSTANCE TilePipe WITH filled <- k["reader"], taken <- k["compute"],
                               made <- Made, drained <- k["writer"]
ImplementsPipe == Pipe!Init /\ [][overdrawn = {} => Pipe!Next]_(Pipe!vars)

\* The programs as the comment of emit.c has them, "so it only computes on
\* input tiles that have arrived and only overwrites output slots the writer
\* has drained", with nothing said of when a subtraction lands.
ComputesOnlyArrived ==
    pc["compute"] \in {"reserve", "math"} => k["compute"] < k["reader"]
=============================================================================
