----------------------------- MODULE HsaDispatch -----------------------------
(***************************************************************************)
(* How bc_dispatch (runtime/host/hsa/bc_runtime.c) hands one kernel after  *)
(* another to the GPU: through a ring of AQL packets that the host fills   *)
(* and the packet processor, which polls it, empties.  The host's stores   *)
(* are steps of their own because the packet processor may look between    *)
(* any two of them.                                                        *)
(*                                                                         *)
(* A packet's header decides whether its slot belongs to the host          *)
(* ("invalid") or to the packet processor ("dispatch"); the rest of the    *)
(* packet is one field, body.  Kernarg buffers and signals are numbered by *)
(* the dispatch that makes them; their pools may refuse.  The packet       *)
(* processor, the pools and the signals are external.                      *)
(***************************************************************************)
EXTENDS Integers, FiniteSets

CONSTANTS
  QSize,         \* queue->size: a power of two, so & mask is %
  MaxDispatch    \* bound: dispatches of one behaviour

VARIABLES
  pc,        \* where bc_dispatch is
  cur,       \* the dispatch it works on, 1 .. MaxDispatch
  idx,       \* its idx
  ring,      \* the slots: header and body
  widx,      \* the queue's write index
  bell,      \* the last value rung, -1 at first
  kernarg,   \* live kernarg buffers, by dispatch
  filled,    \* kernarg buffers whose contents are complete
  signal,    \* live signals: dispatch -> value
  ridx,      \* packet processor: its read index
  run,       \* packet processor: the body it executes, NoRun when idle
  ran,       \* history: dispatches executed to the end
  result     \* history: per dispatch, how bc_dispatch returned

vars == <<pc, cur, idx, ring, widx, bell, kernarg, filled, signal, ridx, run,
          ran, result>>

Ids == 1 .. MaxDispatch

Slot(i) == i % QSize

NoRun == -1

-----------------------------------------------------------------------------
Init ==
  /\ pc = "idle"
  /\ cur = 0
  /\ idx = 0
  /\ ring = [s \in 0 .. QSize - 1 |-> [hdr |-> "invalid", body |-> 0]]
  /\ widx = 0
  /\ bell = -1
  /\ kernarg = {} /\ filled = {}
  /\ signal = << >>
  /\ ridx = 0
  /\ run = NoRun
  /\ ran = {}
  /\ result = << >>

Return(rc) ==
  /\ pc' = "idle"
  /\ result' = [d \in DOMAIN result \cup {cur'} |-> IF d = cur' THEN rc ELSE result[d]]

(* hsa_amd_memory_pool_allocate refuses. *)
KernargFails ==
  /\ pc = "idle" /\ cur < MaxDispatch
  /\ cur' = cur + 1
  /\ Return("error")
  /\ UNCHANGED <<idx, ring, widx, bell, kernarg, filled, signal, ridx, run, ran>>

KernargOk ==
  /\ pc = "idle" /\ cur < MaxDispatch
  /\ cur' = cur + 1
  /\ kernarg' = kernarg \cup {cur + 1}
  /\ pc' = "fill"
  /\ UNCHANGED <<idx, ring, widx, bell, filled, signal, ridx, run, ran, result>>

(* allow_access, memset, memcpy. *)
FillKernarg ==
  /\ pc = "fill"
  /\ filled' = filled \cup {cur}
  /\ pc' = "signal"
  /\ UNCHANGED <<cur, idx, ring, widx, bell, kernarg, signal, ridx, run, ran, result>>

(* Mutant: a refused signal keeps the kernarg buffer. *)
SignalFailsKeepsKernarg ==
  /\ pc = "signal"
  /\ cur' = cur
  /\ Return("error")
  /\ UNCHANGED <<idx, ring, widx, bell, kernarg, filled, signal, ridx, run, ran>>

SignalFails ==
  /\ pc = "signal"
  /\ cur' = cur
  /\ kernarg' = kernarg \ {cur}
  /\ filled' = filled \ {cur}
  /\ Return("error")
  /\ UNCHANGED <<idx, ring, widx, bell, signal, ridx, run, ran>>

(* hsa_signal_create(1), then the load of the write index. *)
SignalOk ==
  /\ pc = "signal"
  /\ signal' = [d \in DOMAIN signal \cup {cur} |-> IF d = cur THEN 1 ELSE signal[d]]
  /\ idx' = widx
  /\ pc' = "body"
  /\ UNCHANGED <<cur, ring, widx, bell, kernarg, filled, ridx, run, ran, result>>

(* Mutant: the header is stored with, and so seen before, the fields. *)
WriteBodyHeaderFirst ==
  /\ pc = "body"
  /\ ring' = [ring EXCEPT ![Slot(idx)].hdr = "dispatch"]
  /\ pc' = "header"
  /\ UNCHANGED <<cur, idx, widx, bell, kernarg, filled, signal, ridx, run, ran, result>>

(* Every field but the header. *)
WriteBody ==
  /\ pc = "body"
  /\ ring' = [ring EXCEPT ![Slot(idx)].body = cur]
  /\ pc' = "header"
  /\ UNCHANGED <<cur, idx, widx, bell, kernarg, filled, signal, ridx, run, ran, result>>

(* __atomic_store_n(&pkt->header, header, __ATOMIC_RELEASE). *)
WriteHeader ==
  /\ pc = "header"
  /\ ring' = [ring EXCEPT ![Slot(idx)].hdr = "dispatch"]
  /\ pc' = "index"
  /\ UNCHANGED <<cur, idx, widx, bell, kernarg, filled, signal, ridx, run, ran, result>>

StoreIndex ==
  /\ pc = "index"
  /\ widx' = idx + 1
  /\ pc' = "ring"
  /\ UNCHANGED <<cur, idx, ring, bell, kernarg, filled, signal, ridx, run, ran, result>>

(* Mutant: the doorbell is not rung. *)
RingDoorbellSilent ==
  /\ pc = "ring"
  /\ pc' = "wait"
  /\ UNCHANGED <<cur, idx, ring, widx, bell, kernarg, filled, signal, ridx, run, ran, result>>

RingDoorbell ==
  /\ pc = "ring"
  /\ bell' = idx
  /\ pc' = "wait"
  /\ UNCHANGED <<cur, idx, ring, widx, kernarg, filled, signal, ridx, run, ran, result>>

(* hsa_signal_wait comes back, and the call ends. *)
Complete ==
  /\ pc = "wait"
  /\ signal[cur] < 1
  /\ cur' = cur
  /\ signal' = [d \in DOMAIN signal \ {cur} |-> signal[d]]
  /\ kernarg' = kernarg \ {cur}
  /\ filled' = filled \ {cur}
  /\ Return("ok")
  /\ UNCHANGED <<idx, ring, widx, bell, ridx, run, ran>>

Host ==
  \/ KernargFails \/ KernargOk \/ FillKernarg \/ SignalFails \/ SignalOk
  \/ WriteBody \/ WriteHeader \/ StoreIndex \/ RingDoorbell \/ Complete

-----------------------------------------------------------------------------
(***************************************************************************)
(* The packet processor.  It takes the packet at its read index as soon as *)
(* the header is there, doorbell or not ("may execute on sight"); it is    *)
(* only obliged to once the doorbell has rung for it.                      *)
(***************************************************************************)
Take ==
  /\ run = NoRun
  /\ ring[Slot(ridx)].hdr = "dispatch"
  /\ run' = ring[Slot(ridx)].body
  /\ UNCHANGED <<pc, cur, idx, ring, widx, bell, kernarg, filled, signal, ridx, ran, result>>

(* The kernel ends, well or with a fault: the slot goes back to the host   *)
(* and the signal is decremented.                                          *)
End ==
  /\ run # NoRun
  /\ ring' = [ring EXCEPT ![Slot(ridx)].hdr = "invalid"]
  /\ signal' = [d \in DOMAIN signal |-> IF d = run THEN signal[d] - 1 ELSE signal[d]]
  /\ ridx' = ridx + 1
  /\ ran' = ran \cup {run}
  /\ run' = NoRun
  /\ UNCHANGED <<pc, cur, idx, widx, bell, kernarg, filled, result>>

(* All dispatches are over. *)
Stop == /\ pc = "idle" /\ cur = MaxDispatch /\ run = NoRun
        /\ UNCHANGED vars

Next == Host \/ Take \/ End \/ Stop

(* The caller runs, and the packet processor takes a packet the doorbell   *)
(* announced; kernels end.  Nothing obliges a caller to dispatch.          *)
Fairness ==
  /\ WF_vars(Host /\ pc # "idle")
  /\ WF_vars(Take /\ bell >= ridx)
  /\ WF_vars(End)

Spec == Init /\ [][Next]_vars /\ Fairness

-----------------------------------------------------------------------------
(* The kernel the GPU runs is the one bc_dispatch is in the middle of, for *)
(* the first time although slots are used again; its argument buffer is    *)
(* complete and not yet freed and its signal exists, whenever the packet   *)
(* processor looked at the ring.                                           *)
RunsOnlyWhatIsReady ==
  run # NoRun => /\ run = cur
                 /\ run \notin ran
                 /\ run \in kernarg \cap filled
                 /\ run \in DOMAIN signal

(* bc_dispatch is synchronous: it says "ok" exactly for the kernels that   *)
(* have run, and after any return nothing of the call is left behind.      *)
SynchronousAndClean ==
  pc = "idle" => /\ ran = {d \in DOMAIN result : result[d] = "ok"}
                 /\ kernarg = {}
                 /\ DOMAIN signal = {}

(* A dispatch comes back: hsa_signal_wait, which has no timeout, is always *)
(* answered, also when the ring has been used up and starts again.         *)
DispatchReturns == pc # "idle" ~> pc = "idle"
=============================================================================
