------------------------------ MODULE HsaProofs ------------------------------
(***************************************************************************)
(* Theorems about the HSA launcher, for any number of devices, kernels,    *)
(* contexts and dispatches and any size of the packet ring.                *)
(***************************************************************************)
EXTENDS Hsa, WellFoundedInduction, TLAPS

-----------------------------------------------------------------------------
(***************************************************************************)
(* Devices, contexts and code objects.                                     *)
(***************************************************************************)
CtxRecords == [st : {"none", "live", "freed"}, allocs : Seq([base : Nat, size : Nat]),
               kernel : KernNames \cup {NoName}, args : SomeBlob]
Starting == {"syms", "hsa", "find", "calloc"}
Owning   == {"hook", "queue", "up", "free"}
Ending   == {"destroy", "close"}
DevRecords  == [at : {"down"} \cup Starting \cup Owning \cup Ending, ctx : CtxIds \cup {NoCtx}]
Linking     == {"load", "freeze", "symbol", "filled", "loaded"}
KernRecords == [at : {"none", "reader", "exec"} \cup Linking, dev : Devs \cup {NoDev},
                name : KernNames \cup {NoName}, has : SUBSET {"reader", "exec"}]

(* What a device holds at each call of its bring-up and shutdown. *)
HandlesAt(at) ==
  CASE at = "down" -> {}
    [] at \in {"syms", "hsa"} -> {"lib"}
    [] at \in {"find", "calloc", "hook", "queue", "close"} -> {"lib", "ref"}
    [] OTHER -> {"lib", "ref", "queue"}

(* The same of a kernel. *)
CodeAt(at) ==
  CASE at \in {"none", "reader"} -> {}
    [] at = "exec" -> {"reader"}
    [] OTHER -> {"reader", "exec"}

Types ==
  /\ dev \in [Devs -> DevRecords] /\ ctx \in [CtxIds -> CtxRecords]
  /\ gactx \in CtxIds \cup {NoCtx} /\ orphans \subseteq CtxIds
  /\ DOMAIN held = Devs /\ \A d \in Devs : held[d] = HandlesAt(dev[d].at)

Kernels ==
  /\ kern \in [Slots -> KernRecords] /\ DOMAIN code = Slots
  /\ \A k \in Slots :
       /\ code[k] = CodeAt(kern[k].at)
       /\ kern[k].has = IF kern[k].at = "loaded" THEN {"reader", "exec"} ELSE {}
       /\ kern[k].at # "none" => kern[k].dev \in Devs /\ kern[k].name \in KernNames

(* The state of a device's context, by how far the device has come. *)
HasCtx(d) ==
  /\ dev[d].at \in Starting => dev[d].ctx = NoCtx
  /\ dev[d].at \in {"hook", "free"} => dev[d].ctx # NoCtx
  /\ dev[d].at \in Owning /\ dev[d].ctx # NoCtx =>
       ctx[dev[d].ctx].st = "live" /\ dev[d].ctx \notin orphans
  /\ dev[d].at \in Ending /\ dev[d].ctx # NoCtx => ctx[dev[d].ctx].st = "freed"
  /\ dev[d].at = "free" => gactx # dev[d].ctx

(* Two devices at work never have the same. *)
Unshared ==
  \A d, e \in Devs : d # e /\ dev[d].at # "down" /\ dev[e].at # "down" /\ dev[d].ctx # NoCtx
                      => dev[e].ctx # dev[d].ctx

(* A step that leaves one device with what it holds at that call, or one   *)
(* slot with that code, and the others as they are.                        *)
LeavesHeld(d, at) ==
  /\ DOMAIN held' = Devs /\ held'[d] = HandlesAt(at)
  /\ \A e \in Devs \ {d} : held'[e] = held[e]
LeavesCode(k, h) ==
  /\ DOMAIN code' = Slots /\ code'[k] = h
  /\ \A j \in Slots \ {k} : code'[j] = code[j]

(* Every live context is somebody's, or was left behind. *)
Accounted ==
  /\ \A c \in orphans : ctx[c].st = "live"
  /\ \A c \in CtxIds : ctx[c].st = "live" =>
       c \in orphans \/ \E d \in Devs : dev[d].at \in Owning /\ dev[d].ctx = c
  /\ gactx # NoCtx => ctx[gactx].st = "live"

DeviceInv ==
  Types /\ Kernels /\ (\A d \in Devs : HasCtx(d)) /\ Unshared /\ Accounted

(* The least of some numbers is one of them. *)
LEMMA MinIn ==
  ASSUME NEW T, T \subseteq Nat, T # {}
  PROVE  Min(T) \in T /\ \A y \in T : Min(T) <= y
<1> DEFINE R == {ss \in Nat \X Nat : ss[1] < ss[2]}
<1>1. IsWellFoundedOn(R, Nat)
  BY NatLessThanWellFounded, Zenon DEF OpToRel
<1> HIDE DEF R
<1>2. PICK x \in T : \A y \in T : <<y, x>> \notin R
  BY <1>1, WFMin
<1>3. ASSUME NEW y \in T PROVE x <= y
  <2>1. x \in Nat /\ y \in Nat
    OBVIOUS
  <2>2. <<y, x>> \in Nat \X Nat /\ <<y, x>>[1] = y /\ <<y, x>>[2] = x
    BY <2>1
  <2>3. ~(y < x)
    BY <1>2, <2>2, Zenon DEF R
  <2> QED
    BY <2>1, <2>3
<1> QED
  BY <1>3, Zenon DEF Min

(* A step that writes into contexts and neither makes nor frees one. *)
LEMMA WritesOnly ==
  ASSUME DeviceInv, UNCHANGED <<dev, gactx, held, orphans>>,
         ctx' \in [CtxIds -> CtxRecords],
         \A c \in CtxIds : ctx'[c].st = ctx[c].st,
         Kernels'
  PROVE  DeviceInv'
<1>1. Types' /\ Unshared'
  BY DEF DeviceInv, Types, Unshared
<1>2. \A d \in Devs : HasCtx(d)'
  BY DEF DeviceInv, Types, HasCtx, DevRecords
<1>3. Accounted'
  BY DEF DeviceInv, Types, Accounted
<1> QED
  BY <1>1, <1>2, <1>3 DEF DeviceInv

(* What the three writers of a context leave of it. *)
LEMMA Writers ==
  ASSUME NEW A \in CtxRecords
  PROVE  /\ \A n \in KernNames : Snag(A, n) \in CtxRecords /\ Snag(A, n).st = A.st
         /\ \A b \in SomeBlob : SnapArgs(A, b) \in CtxRecords /\ SnapArgs(A, b).st = A.st
         /\ \A b \in Nat : Trak(A, b, AllocSize) \in CtxRecords /\ Trak(A, b, AllocSize).st = A.st
<1>1. \A n \in KernNames : Snag(A, n) \in CtxRecords /\ Snag(A, n).st = A.st
  BY DEF Snag, CtxRecords
<1>2. \A b \in SomeBlob : SnapArgs(A, b) \in CtxRecords /\ SnapArgs(A, b).st = A.st
  BY DEF SnapArgs, CtxRecords
<1>3. ASSUME NEW b \in Nat
      PROVE  Trak(A, b, AllocSize) \in CtxRecords /\ Trak(A, b, AllocSize).st = A.st
  <2>1. [base |-> b, size |-> AllocSize] \in [base : Nat, size : Nat]
    BY SizesAssumption
  <2>2. Append(A.allocs, [base |-> b, size |-> AllocSize]) \in Seq([base : Nat, size : Nat])
    BY <2>1 DEF CtxRecords
  <2> QED
    BY <2>2 DEF Trak, CtxRecords
<1> QED
  BY <1>1, <1>2, <1>3

(* A call that moves a device on and leaves the contexts as they are. *)
LEMMA MovesOn ==
  ASSUME DeviceInv, NEW d \in Devs, NEW at,
         \/ dev[d].at \in Starting /\ at \in Starting \cup {"down"}
         \/ dev[d].at = "queue" /\ at = "up"
         \/ dev[d].at \in {"calloc", "up"} /\ at \in {"queue", "destroy"} /\ dev[d].ctx = NoCtx
         \/ dev[d].at = "hook" /\ at = "queue"
         \/ dev[d].at = "up" /\ at = "free" /\ gactx' # dev[d].ctx /\ dev[d].ctx # NoCtx
         \/ dev[d].at = "destroy" /\ at = "close",
         dev' = [dev EXCEPT ![d].at = at],
         LeavesHeld(d, at),
         ctx' \in [CtxIds -> CtxRecords],
         \A c \in CtxIds : ctx'[c].st = ctx[c].st,
         \/ gactx' = gactx
         \/ gactx' = NoCtx
         \/ dev[d].at = "hook" /\ gactx' = dev[d].ctx,
         UNCHANGED <<orphans, kern, code>>
  PROVE  DeviceInv'
<1> USE DEF Starting, Owning, Ending
<1>1. dev[d].at \in {"down"} \cup Starting \cup Owning \cup Ending
      /\ at \in {"down"} \cup Starting \cup Owning \cup Ending
      /\ dev[d].ctx \in CtxIds \cup {NoCtx}
  BY DEF DeviceInv, Types, DevRecords
<1>2. /\ dev' \in [Devs -> DevRecords] /\ dev'[d].at = at /\ dev'[d].ctx = dev[d].ctx
      /\ \A e \in Devs \ {d} : dev'[e] = dev[e]
  BY <1>1 DEF DeviceInv, Types, DevRecords
<1>3. Types'
  <2>1. gactx' \in CtxIds \cup {NoCtx}
    BY <1>1 DEF DeviceInv, Types
  <2>2. /\ DOMAIN held' = Devs /\ held'[d] = HandlesAt(at)
        /\ \A e \in Devs \ {d} : held'[e] = held[e]
    BY DEF LeavesHeld
  <2>3. \A e \in Devs : held'[e] = HandlesAt(dev'[e].at)
    BY <1>2, <2>2 DEF DeviceInv, Types
  <2> QED
    BY <1>2, <2>1, <2>2, <2>3 DEF DeviceInv, Types
<1>4. Kernels'
  BY DEF DeviceInv, Kernels
<1>5. HasCtx(d)'
  <2>1. HasCtx(d)
    BY DEF DeviceInv
  <2> QED
    BY <1>1, <1>2, <2>1 DEF HasCtx
<1>6. ASSUME NEW e \in Devs \ {d} PROVE HasCtx(e)'
  <2>1. HasCtx(e) /\ dev'[e] = dev[e] /\ dev[e].ctx \in CtxIds \cup {NoCtx}
    BY <1>2 DEF DeviceInv, Types, DevRecords
  <2>2. dev[e].at = "free" => gactx' # dev[e].ctx
    <3>1. dev[e].at = "free" /\ dev[d].at = "hook" => dev[d].ctx # dev[e].ctx
      BY <2>1 DEF DeviceInv, Unshared, HasCtx
    <3> QED
      BY <2>1, <3>1 DEF HasCtx
  <2> QED
    BY <2>1, <2>2 DEF HasCtx
<1>7. Unshared'
  BY <1>1, <1>2 DEF DeviceInv, Unshared, HasCtx
<1>8. Accounted'
  <2>1. ASSUME NEW c \in CtxIds, ctx'[c].st = "live"
        PROVE  c \in orphans \/ \E e \in Devs : dev'[e].at \in Owning /\ dev'[e].ctx = c
    <3>1. CASE c \in orphans
      BY <3>1
    <3>2. CASE c \notin orphans
      <4>1. PICK e \in Devs : dev[e].at \in Owning /\ dev[e].ctx = c
        BY <2>1, <3>2 DEF DeviceInv, Accounted
      <4>2. dev'[e].at \in Owning /\ dev'[e].ctx = c
        BY <1>2, <4>1, NullAssumption DEF DeviceInv, HasCtx
      <4> QED
        BY <4>2
    <3> QED
      BY <3>1, <3>2
  <2>2. gactx' # NoCtx => ctx'[gactx'].st = "live"
    BY <1>1 DEF DeviceInv, Types, Accounted, HasCtx
  <2> QED
    BY <2>1, <2>2 DEF DeviceInv, Types, Accounted
<1> QED
  BY <1>3, <1>4, <1>5, <1>6, <1>7, <1>8 DEF DeviceInv

(* The calls of bc_device_init around the context. *)
LEMMA Calls ==
  ASSUME DeviceInv, NEW d \in Devs, NEW ok \in BOOLEAN,
         \/ InitSyms(d, ok) \/ InitHsa(d, ok) \/ InitFind(d, ok) \/ InitHook(d, ok)
         \/ (InitQueue(d, ok) /\ ok) \/ ShutDiag(d) \/ DestroyQueue(d)
  PROVE  DeviceInv'
<1>0. /\ held[d] = HandlesAt(dev[d].at) /\ DOMAIN held = Devs
      /\ ctx \in [CtxIds -> CtxRecords] /\ dev[d].ctx \in CtxIds \cup {NoCtx}
      /\ dev \in [Devs -> DevRecords]
  BY DEF DeviceInv, Types, DevRecords
<1> USE DEF Goes, Aside
<1>1. ASSUME InitSyms(d, ok) PROVE DeviceInv'
  <2> DEFINE at == IF ok THEN "hsa" ELSE "down"
  <2>1. LeavesHeld(d, at)
    BY <1>0, <1>1 DEF InitSyms, Gives, HandlesAt, LeavesHeld
  <2> QED
    BY <1>0, <1>1, <2>1, MovesOn DEF InitSyms, Starting
<1>2. ASSUME InitHsa(d, ok) PROVE DeviceInv'
  <2> DEFINE at == IF ok THEN "find" ELSE "down"
  <2>1. LeavesHeld(d, at)
    BY <1>0, <1>2 DEF InitHsa, Gives, Takes, HandlesAt, LeavesHeld
  <2> QED
    BY <1>0, <1>2, <2>1, MovesOn DEF InitHsa, Starting
<1>3. ASSUME InitFind(d, ok) PROVE DeviceInv'
  <2> DEFINE at == IF ok THEN "calloc" ELSE "down"
  <2>1. LeavesHeld(d, at)
    BY <1>0, <1>3 DEF InitFind, Gives, HandlesAt, LeavesHeld
  <2> QED
    BY <1>0, <1>3, <2>1, MovesOn DEF InitFind, Starting
<1>4. ASSUME InitHook(d, ok) PROVE DeviceInv'
  <2>1. LeavesHeld(d, "queue")
    BY <1>0, <1>4 DEF InitHook, HandlesAt, LeavesHeld
  <2>2. NewCtx \in CtxRecords /\ NewCtx.st = "live"
    BY DEF NewCtx, CtxRecords, SomeBlob
  <2>3. dev[d].ctx \in CtxIds /\ ctx[dev[d].ctx].st = "live"
    BY <1>0, <1>4 DEF InitHook, DeviceInv, HasCtx, Owning
  <2>4. ctx' \in [CtxIds -> CtxRecords] /\ \A c \in CtxIds : ctx'[c].st = ctx[c].st
    BY <1>0, <1>4, <2>2, <2>3 DEF InitHook
  <2> QED
    BY <1>4, <2>1, <2>4, MovesOn DEF InitHook
<1>5. ASSUME InitQueue(d, ok), ok PROVE DeviceInv'
  <2>1. LeavesHeld(d, "up")
    BY <1>0, <1>5 DEF InitQueue, Takes, HandlesAt, LeavesHeld
  <2> QED
    BY <1>0, <1>5, <2>1, MovesOn DEF InitQueue
<1>6. ASSUME ShutDiag(d) PROVE DeviceInv'
  <2>1. /\ LeavesHeld(d, "free")
        /\ LeavesHeld(d, "destroy")
    BY <1>0, <1>6 DEF ShutDiag, HandlesAt, LeavesHeld
  <2>2. gactx' # dev[d].ctx \/ dev[d].ctx = NoCtx
    BY <1>6 DEF ShutDiag, AbShut
  <2> QED
    BY <1>0, <1>6, <2>1, <2>2, MovesOn DEF ShutDiag, AbShut
<1>7. ASSUME DestroyQueue(d) PROVE DeviceInv'
  <2>1. LeavesHeld(d, "close")
    BY <1>0, <1>7 DEF DestroyQueue, Gives, HandlesAt, LeavesHeld
  <2> QED
    BY <1>0, <1>7, <2>1, MovesOn DEF DestroyQueue
<1> QED
  BY <1>1, <1>2, <1>3, <1>4, <1>5, <1>6, <1>7

(* The calls that make, leave or free a context, and those at the two ends. *)
LEMMA Ends ==
  ASSUME DeviceInv, NEW d \in Devs, NEW ok \in BOOLEAN, InitOpen(d, ok) \/ Close(d)
  PROVE  DeviceInv'
<1> DEFINE at == dev'[d].at
<1>0. /\ DOMAIN held = Devs /\ held[d] = HandlesAt(dev[d].at) /\ dev \in [Devs -> DevRecords]
      /\ UNCHANGED <<ctx, gactx, orphans, kern, code>>
  BY DEF DeviceInv, Types, InitOpen, Close, Aside
<1>1. /\ dev' \in [Devs -> DevRecords] /\ dev'[d].ctx = NoCtx /\ at \in {"down", "syms"}
      /\ \A e \in Devs \ {d} : dev'[e] = dev[e]
      /\ dev[d].at \in {"down", "close"}
  BY <1>0 DEF InitOpen, Close, Down, DevRecords, Starting
<1>2. /\ DOMAIN held' = Devs /\ held'[d] = HandlesAt(at)
      /\ \A e \in Devs \ {d} : held'[e] = held[e]
  <2>1. CASE InitOpen(d, ok)
    <3>1. dev[d].at = "down" /\ at = IF ok THEN "syms" ELSE "down"
      BY <1>0, <2>1 DEF InitOpen, Down
    <3>2. held[d] = {} /\ HandlesAt(at) = IF ok THEN {"lib"} ELSE {}
      BY <1>0, <3>1 DEF HandlesAt
    <3> QED
      BY <1>0, <2>1, <3>2 DEF InitOpen, Takes
  <2>2. CASE Close(d)
    <3>1. dev[d].at = "close" /\ at = "down"
      BY <1>0, <2>2 DEF Close, Down
    <3>2. held[d] = {"lib", "ref"} /\ HandlesAt(at) = {}
      BY <1>0, <3>1 DEF HandlesAt
    <3> QED
      BY <1>0, <2>2, <3>2 DEF Close, Gives
  <2> QED
    BY <2>1, <2>2
<1> HIDE DEF at
<1> USE DEF Starting, Owning, Ending
<1>3. Types' /\ Kernels'
  BY <1>0, <1>1, <1>2 DEF DeviceInv, Types, Kernels, at
<1>4. \A e \in Devs : HasCtx(e)'
  BY <1>0, <1>1 DEF DeviceInv, HasCtx, at
<1>5. Unshared'
  BY <1>0, <1>1 DEF DeviceInv, Unshared
<1>6. Accounted'
  <2>1. ASSUME NEW c \in CtxIds, ctx[c].st = "live", c \notin orphans
        PROVE  \E e \in Devs : dev'[e].at \in Owning /\ dev'[e].ctx = c
    <3>1. PICK e \in Devs : dev[e].at \in Owning /\ dev[e].ctx = c
      BY <2>1 DEF DeviceInv, Accounted
    <3>2. dev'[e] = dev[e]
      BY <1>1, <3>1
    <3> QED
      BY <3>1, <3>2
  <2> QED
    BY <1>0, <2>1 DEF DeviceInv, Accounted
<1> QED
  BY <1>3, <1>4, <1>5, <1>6 DEF DeviceInv

LEMMA MakesCtx ==
  ASSUME DeviceInv, NEW d \in Devs, NEW ok \in BOOLEAN, InitCtx(d, ok)
  PROVE  DeviceInv'
<1>0. /\ DOMAIN held = Devs /\ held[d] = HandlesAt(dev[d].at) /\ dev \in [Devs -> DevRecords]
      /\ dev[d].at = "calloc" /\ ctx \in [CtxIds -> CtxRecords] /\ dev[d].ctx = NoCtx
      /\ UNCHANGED <<gactx, held, orphans, kern, code>>
  BY DEF DeviceInv, Types, HasCtx, Starting, InitCtx, Aside
<1>1. CASE ~ok
  <2>1. dev' = [dev EXCEPT ![d] = [at |-> "queue", ctx |-> NoCtx]] /\ ctx' = ctx
    BY <1>1 DEF InitCtx
  <2>2. dev' = [dev EXCEPT ![d].at = "queue"]
    BY <1>0, <2>1 DEF DevRecords
  <2>3. LeavesHeld(d, "queue")
    BY <1>0 DEF HandlesAt, LeavesHeld
  <2> QED
    BY <1>0, <2>1, <2>2, <2>3, MovesOn
<1>2. CASE ok
  <2>1. PICK c \in CtxIds : /\ ctx[c].st = "none" /\ ctx' = [ctx EXCEPT ![c] = NewCtx]
                            /\ dev' = [dev EXCEPT ![d] = [at |-> "hook", ctx |-> c]]
    BY <1>2 DEF InitCtx
  <2>2. NewCtx \in CtxRecords /\ NewCtx.st = "live"
    BY DEF NewCtx, CtxRecords, SomeBlob
  <2>3. /\ ctx' \in [CtxIds -> CtxRecords] /\ ctx'[c].st = "live"
        /\ \A x \in CtxIds \ {c} : ctx'[x] = ctx[x]
        /\ c # NoCtx /\ c \notin orphans /\ gactx # c
    BY <1>0, <2>1, <2>2, NullAssumption DEF DeviceInv, Accounted
  <2> USE DEF Starting, Owning, Ending
  <2>4. [at |-> "hook", ctx |-> c] \in DevRecords
    BY DEF DevRecords
  <2>5. /\ dev' \in [Devs -> DevRecords] /\ dev'[d].at = "hook" /\ dev'[d].ctx = c
        /\ \A e \in Devs \ {d} : dev'[e] = dev[e]
    BY <1>0, <2>1, <2>4
  <2>6. Types' /\ Kernels'
    <3>1. HandlesAt("hook") = HandlesAt("calloc")
      BY DEF HandlesAt
    <3> QED
      BY <1>0, <2>3, <2>5, <3>1 DEF DeviceInv, Types, Kernels
  <2>7. \A e \in Devs : dev[e].at # "down" => dev[e].ctx # c
    <3>1. ASSUME NEW e \in Devs, dev[e].at # "down", dev[e].ctx = c PROVE FALSE
      <4>1. HasCtx(e) /\ dev[e].at \in Starting \cup Owning \cup Ending
        BY <1>0, <3>1 DEF DeviceInv, DevRecords
      <4> QED
        BY <2>1, <2>3, <3>1, <4>1 DEF HasCtx
    <3> QED
      BY <3>1
  <2>8. \A e \in Devs : HasCtx(e)'
    <3>1. HasCtx(d)'
      BY <1>0, <2>3, <2>5 DEF HasCtx
    <3>2. ASSUME NEW e \in Devs \ {d} PROVE HasCtx(e)'
      <4>1. HasCtx(e) /\ dev'[e] = dev[e] /\ dev[e].ctx \in CtxIds \cup {NoCtx}
        BY <1>0, <2>5 DEF DeviceInv, DevRecords
      <4>2. dev[e].at # "down" => dev[e].ctx # c
        BY <2>7
      <4> QED
        BY <1>0, <2>3, <4>1, <4>2 DEF HasCtx
    <3> QED
      BY <3>1, <3>2
  <2>9. Unshared'
    BY <2>5, <2>7 DEF DeviceInv, Unshared
  <2>10. Accounted'
    <3>1. ASSUME NEW x \in CtxIds, ctx'[x].st = "live", x \notin orphans
          PROVE  \E e \in Devs : dev'[e].at \in Owning /\ dev'[e].ctx = x
      <4>1. CASE x = c
        BY <2>5, <4>1
      <4>2. CASE x # c
        <5>1. PICK e \in Devs : dev[e].at \in Owning /\ dev[e].ctx = x
          BY <2>3, <3>1, <4>2 DEF DeviceInv, Accounted
        <5>2. dev'[e] = dev[e]
          BY <1>0, <2>5, <5>1
        <5> QED
          BY <5>1, <5>2
      <4> QED
        BY <4>1, <4>2
    <3>2. gactx # NoCtx => ctx'[gactx].st = "live"
      BY <2>3 DEF DeviceInv, Types, Accounted
    <3>3. \A x \in orphans : ctx'[x].st = "live"
      BY <2>3 DEF DeviceInv, Types, Accounted
    <3> QED
      BY <1>0, <3>1, <3>2, <3>3 DEF Accounted
  <2> QED
    BY <2>6, <2>8, <2>9, <2>10 DEF DeviceInv
<1> QED
  BY <1>1, <1>2

LEMMA LeavesCtx ==
  ASSUME DeviceInv, NEW d \in Devs, InitQueue(d, FALSE)
  PROVE  DeviceInv'
<1> USE DEF Starting, Owning, Ending
<1>0. /\ DOMAIN held = Devs /\ held[d] = HandlesAt("queue") /\ dev \in [Devs -> DevRecords]
      /\ dev[d].at = "queue" /\ dev[d].ctx \in CtxIds \cup {NoCtx}
      /\ UNCHANGED <<ctx, gactx, kern, code>>
      /\ orphans' = orphans \cup ({dev[d].ctx} \ {NoCtx})
  BY DEF DeviceInv, Types, InitQueue, Goes, Aside, DevRecords
<1>1. /\ dev' \in [Devs -> DevRecords] /\ dev'[d].at = "down"
      /\ \A e \in Devs \ {d} : dev'[e] = dev[e]
  BY <1>0 DEF InitQueue, Goes, DevRecords
<1>2. /\ DOMAIN held' = Devs /\ held'[d] = HandlesAt("down")
      /\ \A e \in Devs \ {d} : held'[e] = held[e]
  BY <1>0 DEF InitQueue, Gives, HandlesAt
<1>3. Types' /\ Kernels'
  BY <1>0, <1>1, <1>2 DEF DeviceInv, Types, Kernels
<1>4. ASSUME NEW e \in Devs PROVE HasCtx(e)'
  <2>1. CASE e = d
    BY <1>1, <2>1 DEF HasCtx
  <2>2. CASE e # d
    <3>1. HasCtx(e) /\ dev'[e] = dev[e]
      BY <1>1, <2>2 DEF DeviceInv
    <3>2. dev[e].at # "down" /\ dev[e].ctx # NoCtx => dev[e].ctx # dev[d].ctx
      BY <1>0, <2>2 DEF DeviceInv, Unshared
    <3> QED
      BY <1>0, <3>1, <3>2 DEF HasCtx
  <2> QED
    BY <2>1, <2>2
<1>5. Unshared'
  BY <1>1 DEF DeviceInv, Unshared
<1>6. Accounted'
  <2>1. \A c \in orphans' : ctx[c].st = "live"
    BY <1>0 DEF DeviceInv, Accounted, HasCtx
  <2>2. ASSUME NEW c \in CtxIds, ctx[c].st = "live", c \notin orphans'
        PROVE  \E e \in Devs : dev'[e].at \in Owning /\ dev'[e].ctx = c
    <3>1. PICK e \in Devs : dev[e].at \in Owning /\ dev[e].ctx = c
      BY <1>0, <2>2 DEF DeviceInv, Accounted
    <3>2. e # d
      BY <1>0, <2>2, <3>1, NullAssumption
    <3> QED
      BY <1>1, <3>1, <3>2
  <2> QED
    BY <1>0, <2>1, <2>2 DEF DeviceInv, Accounted
<1> QED
  BY <1>3, <1>4, <1>5, <1>6 DEF DeviceInv

LEMMA FreesCtx ==
  ASSUME DeviceInv, NEW d \in Devs, FreeCtx(d)
  PROVE  DeviceInv'
<1> USE DEF Starting, Owning, Ending
<1>0. /\ DOMAIN held = Devs /\ held[d] = HandlesAt("free") /\ dev \in [Devs -> DevRecords]
      /\ dev[d].at = "free" /\ dev[d].ctx \in CtxIds /\ dev[d].ctx # NoCtx
      /\ UNCHANGED <<gactx, held, orphans, kern, code>> /\ HasCtx(d)
      /\ ctx \in [CtxIds -> CtxRecords]
  BY DEF DeviceInv, Types, FreeCtx, Goes, Aside, DevRecords, HasCtx
<1>1. /\ dev' \in [Devs -> DevRecords] /\ dev'[d].at = "destroy" /\ dev'[d].ctx = dev[d].ctx
      /\ \A e \in Devs \ {d} : dev'[e] = dev[e]
  BY <1>0 DEF FreeCtx, Goes, DevRecords
<1>2. Freed \in CtxRecords /\ Freed.st = "freed"
  <2>1. NewCtx \in CtxRecords
    BY DEF NewCtx, CtxRecords, SomeBlob
  <2> QED
    BY <2>1 DEF Freed, CtxRecords
<1>3. /\ ctx' \in [CtxIds -> CtxRecords] /\ ctx'[dev[d].ctx].st = "freed"
      /\ \A c \in CtxIds \ {dev[d].ctx} : ctx'[c] = ctx[c]
  BY <1>0, <1>2 DEF FreeCtx
<1>4. Types' /\ Kernels'
  <2>1. HandlesAt("free") = HandlesAt("destroy")
    BY DEF HandlesAt
  <2> QED
    BY <1>0, <1>1, <1>3, <2>1 DEF DeviceInv, Types, Kernels
<1>5. ASSUME NEW e \in Devs PROVE HasCtx(e)'
  <2>1. CASE e = d
    BY <1>1, <1>3, <2>1 DEF HasCtx
  <2>2. CASE e # d
    <3>1. HasCtx(e) /\ dev'[e] = dev[e] /\ dev[e].ctx \in CtxIds \cup {NoCtx}
      BY <1>0, <1>1, <2>2 DEF DeviceInv, DevRecords
    <3>2. dev[e].at # "down" => dev[e].ctx # dev[d].ctx
      BY <1>0, <2>2 DEF DeviceInv, Unshared
    <3> QED
      BY <1>0, <1>3, <3>1, <3>2 DEF HasCtx
  <2> QED
    BY <2>1, <2>2
<1>6. Unshared'
  BY <1>0, <1>1 DEF DeviceInv, Unshared
<1>7. Accounted'
  <2>1. ASSUME NEW c \in CtxIds, ctx'[c].st = "live", c \notin orphans
        PROVE  \E e \in Devs : dev'[e].at \in Owning /\ dev'[e].ctx = c
    <3>1. c # dev[d].ctx
      BY <1>3, <2>1
    <3>2. PICK e \in Devs : dev[e].at \in Owning /\ dev[e].ctx = c
      BY <1>3, <2>1, <3>1 DEF DeviceInv, Accounted
    <3> QED
      BY <1>1, <3>1, <3>2
  <2>2. /\ gactx # NoCtx => ctx'[gactx].st = "live"
        /\ \A c \in orphans : ctx'[c].st = "live"
    BY <1>0, <1>3 DEF DeviceInv, Types, Accounted, HasCtx
  <2> QED
    BY <1>0, <2>1, <2>2 DEF Accounted
<1> QED
  BY <1>4, <1>5, <1>6, <1>7 DEF DeviceInv

LEMMA KernelSteps ==
  ASSUME DeviceInv, NEW k \in Slots
  PROVE  /\ \A d \in Devs, n \in KernNames, ok \in BOOLEAN : LoadFile(d, k, n, ok) => DeviceInv'
         /\ \A ok \in BOOLEAN : LoadReader(k, ok) \/ LoadExec(k, ok) \/ LoadCode(k, ok)
                              \/ LoadFreeze(k, ok) \/ LoadSymbol(k, ok) => DeviceInv'
         /\ LoadDone(k) \/ Unload(k) => DeviceInv'
<1> USE DEF Linking
<1>0. /\ kern \in [Slots -> KernRecords] /\ kern[k] \in KernRecords /\ DOMAIN code = Slots
      /\ code[k] = CodeAt(kern[k].at) /\ ctx \in [CtxIds -> CtxRecords]
      /\ Unloaded \in KernRecords /\ Unloaded.has = {} /\ Unloaded.at = "none"
      /\ CodeAt("none") = {}
  BY DEF DeviceInv, Types, Kernels, KernRecords, Unloaded, CodeAt
<1>1. ASSUME NEW r \in KernRecords, NEW h, kern' = [kern EXCEPT ![k] = r],
             LeavesCode(k, h), h = CodeAt(r.at),
             r.has = IF r.at = "loaded" THEN {"reader", "exec"} ELSE {},
             r.at # "none" => r.dev \in Devs /\ r.name \in KernNames
      PROVE  Kernels'
  BY <1>0, <1>1 DEF DeviceInv, Kernels, LeavesCode
<1>2. ASSUME NEW d \in Devs, NEW n \in KernNames, NEW ok \in BOOLEAN, LoadFile(d, k, n, ok)
      PROVE  DeviceInv'
  <2>1. CASE ~ok
    BY <1>2, <2>1, WritesOnly DEF LoadFile, DeviceInv, Types, Kernels
  <2>2. CASE ok
    <3> DEFINE r == [at |-> "reader", dev |-> d, name |-> n, has |-> {}]
    <3>1. kern' = [kern EXCEPT ![k] = r] /\ kern[k].at = "none"
      BY <1>0, <1>2, <2>2 DEF LoadFile
    <3>2. r \in KernRecords /\ r.at = "reader" /\ r.dev = d /\ r.name = n /\ r.has = {}
      BY DEF KernRecords
    <3>3. LeavesCode(k, CodeAt("reader"))
      BY <1>0, <1>2, <3>1 DEF LoadFile, CodeAt, LeavesCode
    <3> HIDE DEF r
    <3>4. Kernels'
      BY <1>1, <3>1, <3>2, <3>3
    <3> QED
      BY <1>0, <1>2, <3>4, WritesOnly DEF LoadFile
  <2> QED
    BY <2>1, <2>2
<1>3. ASSUME NEW from, NEW to \in Linking \cup {"exec"}, to # "loaded", NEW ok \in BOOLEAN,
             NEW made, NEW undone, Loading(k, from, to, ok, made, undone), from # "none", from # "loaded",
             CodeAt(from) \cup made = CodeAt(to), CodeAt(from) \ undone = {}
      PROVE  DeviceInv'
  <2>1. CASE ok
    <3> DEFINE r == [kern[k] EXCEPT !.at = to]
    <3>1. /\ r \in KernRecords /\ r.at = to /\ r.has = kern[k].has
          /\ r.dev = kern[k].dev /\ r.name = kern[k].name
      BY <1>0 DEF KernRecords
    <3>2. kern' = [kern EXCEPT ![k] = r] /\ LeavesCode(k, CodeAt(to))
      BY <1>0, <1>3, <2>1 DEF Loading, LeavesCode
    <3>3. kern[k].has = {} /\ kern[k].dev \in Devs /\ kern[k].name \in KernNames
      BY <1>3 DEF Loading, DeviceInv, Kernels
    <3> HIDE DEF r
    <3>4. Kernels'
      BY <1>1, <1>3, <3>1, <3>2, <3>3
    <3> QED
      BY <1>0, <1>3, <3>4, WritesOnly DEF Loading
  <2>2. CASE ~ok
    <3>1. kern' = [kern EXCEPT ![k] = Unloaded] /\ LeavesCode(k, {})
      BY <1>0, <1>3, <2>2 DEF Loading, LeavesCode
    <3>2. Kernels'
      BY <1>0, <1>1, <3>1
    <3> QED
      BY <1>0, <1>3, <3>2, WritesOnly DEF Loading
  <2> QED
    BY <2>1, <2>2
<1>4. ASSUME NEW ok \in BOOLEAN,
             \/ LoadReader(k, ok) \/ LoadExec(k, ok) \/ LoadCode(k, ok) \/ LoadFreeze(k, ok)
             \/ LoadSymbol(k, ok)
      PROVE  DeviceInv'
  <2>1. /\ CodeAt("reader") = {} /\ CodeAt("exec") = {"reader"}
        /\ \A at \in Linking : CodeAt(at) = {"reader", "exec"}
    BY DEF CodeAt
  <2>2. CASE LoadReader(k, ok)
    BY <1>3, <2>1, <2>2 DEF LoadReader
  <2>3. CASE LoadExec(k, ok)
    BY <1>3, <2>1, <2>3 DEF LoadExec
  <2>4. CASE LoadCode(k, ok)
    BY <1>3, <2>1, <2>4 DEF LoadCode
  <2>5. CASE LoadFreeze(k, ok)
    BY <1>3, <2>1, <2>5 DEF LoadFreeze
  <2>6. CASE LoadSymbol(k, ok)
    BY <1>3, <2>1, <2>6 DEF LoadSymbol
  <2> QED
    BY <1>4, <2>2, <2>3, <2>4, <2>5, <2>6
<1>5. ASSUME LoadDone(k) PROVE DeviceInv'
  <2> DEFINE r == [kern[k] EXCEPT !.at = "loaded", !.has = {"reader", "exec"}]
             d == kern[k].dev
  <2>1. /\ r \in KernRecords /\ r.at = "loaded" /\ r.has = {"reader", "exec"}
        /\ r.dev = kern[k].dev /\ r.name = kern[k].name
    BY <1>0 DEF KernRecords
  <2>2. kern' = [kern EXCEPT ![k] = r]
    BY <1>0, <1>5 DEF LoadDone
  <2>3. kern[k].at = "filled" /\ d \in Devs /\ kern[k].name \in KernNames
    BY <1>5 DEF LoadDone, DeviceInv, Kernels
  <2>4. LeavesCode(k, CodeAt("loaded"))
    BY <1>0, <1>5, <2>3 DEF LoadDone, CodeAt, LeavesCode
  <2>5. ctx' = IF dev[d].ctx = NoCtx THEN ctx
               ELSE [ctx EXCEPT ![dev[d].ctx] = Snag(ctx[dev[d].ctx], kern[k].name)]
    BY <1>5 DEF LoadDone, WithCtx
  <2> HIDE DEF r
  <2>6. Kernels'
    BY <1>1, <2>1, <2>2, <2>3, <2>4
  <2>7. ctx' \in [CtxIds -> CtxRecords] /\ \A c \in CtxIds : ctx'[c].st = ctx[c].st
    BY <1>0, <2>3, <2>5, Writers DEF DeviceInv, Types, DevRecords
  <2> QED
    BY <1>5, <2>6, <2>7, WritesOnly DEF LoadDone
<1>6. ASSUME Unload(k) PROVE DeviceInv'
  <2>1. kern[k].has = {"reader", "exec"} /\ code[k] = {"reader", "exec"}
    BY <1>0, <1>6 DEF Unload, DeviceInv, Kernels, CodeAt
  <2>2. kern' = [kern EXCEPT ![k] = Unloaded] /\ LeavesCode(k, {})
    BY <1>0, <1>6, <2>1 DEF Unload, LeavesCode
  <2>3. Kernels'
    BY <1>0, <1>1, <2>2
  <2> QED
    BY <1>0, <1>6, <2>3, WritesOnly DEF Unload
<1> QED
  BY <1>2, <1>4, <1>5, <1>6

LEMMA MemorySteps ==
  ASSUME DeviceInv
  PROVE  /\ \A d \in Devs, b \in Bases : AllocTracked(d, b) => DeviceInv'
         /\ \A m \in mem : Free(m) => DeviceInv'
<1>1. ASSUME NEW d \in Devs, NEW b \in Bases, AllocTracked(d, b) PROVE DeviceInv'
  <2>1. ctx' = IF dev[d].ctx = NoCtx THEN ctx
               ELSE [ctx EXCEPT ![dev[d].ctx] = Trak(ctx[dev[d].ctx], b, AllocSize)]
    BY <1>1 DEF AllocTracked, WithCtx
  <2>2. b \in Nat
    BY SizesAssumption
  <2>3. /\ ctx' \in [CtxIds -> CtxRecords]
        /\ \A c \in CtxIds : ctx'[c].st = ctx[c].st
    BY <2>1, <2>2, Writers DEF DeviceInv, Types, DevRecords
  <2> QED
    BY <1>1, <2>3, WritesOnly DEF AllocTracked, DeviceInv, Kernels
<1>2. ASSUME NEW m \in mem, Free(m) PROVE DeviceInv'
  BY <1>2, WritesOnly DEF Free, DeviceInv, Types, Kernels
<1> QED
  BY <1>1, <1>2

(* The contexts after bc_dispatch has recorded its arguments. *)
LEMMA Recorded ==
  ASSUME DeviceInv, NEW d \in Devs, NEW blob \in SomeBlob
  PROVE  /\ WithCtx(d, LAMBDA A : SnapArgs(A, blob)) \in [CtxIds -> CtxRecords]
         /\ \A c \in CtxIds : WithCtx(d, LAMBDA A : SnapArgs(A, blob))[c].st = ctx[c].st
<1> DEFINE W == IF dev[d].ctx = NoCtx THEN ctx
                ELSE [ctx EXCEPT ![dev[d].ctx] = SnapArgs(ctx[dev[d].ctx], blob)]
<1>1. W \in [CtxIds -> CtxRecords] /\ \A c \in CtxIds : W[c].st = ctx[c].st
  BY Writers DEF DeviceInv, Types, DevRecords
<1>2. WithCtx(d, LAMBDA A : SnapArgs(A, blob)) = W
  BY Zenon DEF WithCtx
<1> HIDE DEF W
<1> QED
  BY <1>1, <1>2, Zenon

LEMMA DispatchSteps ==
  ASSUME DeviceInv, NEW d \in Devs, NEW k \in Slots, NEW blob \in SomeBlob,
         \/ \E at : Dispatch(d, k, blob, at)
         \/ DispatchEventFault(d, k, blob) \/ DispatchQueueFault(d, k, blob)
  PROVE  DeviceInv'
<1> DEFINE seen == WithCtx(d, LAMBDA A : SnapArgs(A, blob))
<1>0. seen \in [CtxIds -> CtxRecords] /\ \A c \in CtxIds : seen[c].st = ctx[c].st
  BY Recorded, Zenon
<1>1. ctx' = ctx \/ ctx' = seen
  BY Zenon DEF Dispatch, DispatchEventFault, DispatchQueueFault, WithCtx
<1> HIDE DEF seen
<1>2. ctx' \in [CtxIds -> CtxRecords] /\ \A c \in CtxIds : ctx'[c].st = ctx[c].st
  BY <1>0, <1>1 DEF DeviceInv, Types
<1>3. UNCHANGED <<dev, gactx, held, orphans, kern, code>>
  BY DEF Dispatch, DispatchEventFault, DispatchQueueFault
<1> QED
  BY <1>2, <1>3, WritesOnly DEF DeviceInv, Kernels

LEMMA DeviceSafe == HSpec => []DeviceInv
<1>1. HInit => DeviceInv
  <2> SUFFICES ASSUME HInit PROVE DeviceInv
    OBVIOUS
  <2> USE DEF HInit, Init
  <2>1. Unused \in CtxRecords /\ Unused.st = "none"
    <3>1. NewCtx \in CtxRecords
      BY DEF NewCtx, CtxRecords, SomeBlob
    <3> QED
      BY <3>1 DEF Unused, CtxRecords
  <2>2. /\ Unloaded \in KernRecords /\ Unloaded.has = {} /\ Unloaded.at = "none"
        /\ CodeAt("none") = {} /\ HandlesAt("down") = {}
    BY DEF Unloaded, KernRecords, CodeAt, HandlesAt
  <2>3. Down \in DevRecords /\ Down.at = "down"
    BY DEF Down, DevRecords
  <2>4. Types /\ Kernels
    BY <2>1, <2>2, <2>3 DEF Types, Kernels
  <2>5. Unshared /\ Accounted /\ \A d \in Devs : HasCtx(d)
    BY <2>1, <2>3 DEF Unshared, Accounted, HasCtx, Starting, Owning, Ending
  <2> QED
    BY <2>4, <2>5 DEF DeviceInv
<1>2. DeviceInv /\ [HNext]_hvars => DeviceInv'
  <2> SUFFICES ASSUME DeviceInv, [HNext]_hvars PROVE DeviceInv'
    OBVIOUS
  <2>1. CASE Next
    <3>1. ASSUME NEW d \in Devs, NEW ok \in BOOLEAN, InitQueue(d, ok) PROVE DeviceInv'
      <4>1. CASE ok = FALSE
        BY <3>1, <4>1, LeavesCtx
      <4>2. CASE ok = TRUE
        BY <3>1, <4>2, Calls
      <4> QED
        BY <4>1, <4>2
    <3> QED
      BY <2>1, <3>1, Calls, Ends, MakesCtx, FreesCtx, KernelSteps, MemorySteps, DispatchSteps
      DEF Next
  <2>2. CASE UNCHANGED vars
    BY <2>2, WritesOnly DEF vars, DeviceInv, Types, Kernels
  <2> QED
    BY <2>1, <2>2 DEF HNext, hvars
<1> QED
  BY <1>1, <1>2, PTL DEF HSpec

(* At every call of every bring-up and shutdown, in whatever order devices *)
(* come up, fail to and go down, g_actx names a live context or none, and  *)
(* the queues of devices that are up have live contexts of their own; the  *)
(* context a queue carries is freed only between the two calls of          *)
(* bc_device_shutdown that free it and destroy the queue.                  *)
THEOREM ContextsHold == HSpec => []NoDanglingContext
<1>1. DeviceInv => NoDanglingContext
  <2> SUFFICES ASSUME DeviceInv PROVE NoDanglingContext
    OBVIOUS
  <2> USE DEF Starting, Owning, Ending
  <2>1. ASSUME NEW d \in Devs, "queue" \in held[d], dev[d].ctx # NoCtx
        PROVE  /\ ctx[dev[d].ctx].st = IF dev[d].at = "destroy" THEN "freed" ELSE "live"
               /\ \A e \in Devs \ {d} : dev[e].at # "down" => dev[e].ctx # dev[d].ctx
    <3>1. dev[d].at \in {"up", "free", "destroy"}
      BY <2>1 DEF DeviceInv, Types, HandlesAt, DevRecords
    <3>2. HasCtx(d)
      BY DEF DeviceInv
    <3> QED
      BY <2>1, <3>1, <3>2 DEF DeviceInv, HasCtx, Unshared
  <2> QED
    BY <2>1 DEF NoDanglingContext, DeviceInv, Accounted
<1> QED
  BY <1>1, DeviceSafe, PTL

(* A device that is down has no handle of HSA, however bc_device_init or   *)
(* bc_device_shutdown left it; a kernel has its reader and executable or   *)
(* there is neither, however bc_load_kernel ended; and the contexts alive  *)
(* are those of the devices, and those of the bring-ups that failed at     *)
(* hsa_queue_create, which nothing gives back.                             *)
THEOREM HandlesBalance == HSpec => []OnlyOrphansLeak
<1>1. DeviceInv => OnlyOrphansLeak
  <2> SUFFICES ASSUME DeviceInv PROVE OnlyOrphansLeak
    OBVIOUS
  <2>1. ASSUME NEW d \in Devs
        PROVE  /\ dev[d].at = "down" => held[d] = {}
               /\ dev[d].at = "up" => held[d] = {"lib", "ref", "queue"}
    BY DEF DeviceInv, Types, HandlesAt
  <2>2. ASSUME NEW k \in Slots, kern[k].at \in {"none", "loaded"} PROVE code[k] = kern[k].has
    BY <2>2 DEF DeviceInv, Kernels, CodeAt
  <2>3. {c \in CtxIds : ctx[c].st = "live"} = Owned \cup orphans
    <3>1. ASSUME NEW c \in CtxIds, ctx[c].st = "live" PROVE c \in Owned \cup orphans
      BY <3>1, NullAssumption DEF DeviceInv, Accounted, Owned, Owning
    <3>2. ASSUME NEW c \in Owned PROVE c \in CtxIds /\ ctx[c].st = "live"
      <4>1. PICK d \in Devs : dev[d].at \in Owning /\ dev[d].ctx = c /\ c # NoCtx
        BY DEF Owned, Owning
      <4>2. HasCtx(d) /\ dev[d].ctx \in CtxIds \cup {NoCtx}
        BY DEF DeviceInv, Types, DevRecords
      <4> QED
        BY <4>1, <4>2 DEF HasCtx
    <3>3. \A c \in orphans : c \in CtxIds /\ ctx[c].st = "live"
      BY DEF DeviceInv, Types, Accounted
    <3> QED
      BY <3>1, <3>2, <3>3
  <2> QED
    BY <2>1, <2>2, <2>3 DEF OnlyOrphansLeak
<1> QED
  BY <1>1, DeviceSafe, PTL

-----------------------------------------------------------------------------
(***************************************************************************)
(* What a dump says.  Every set of numbers has a least member, so a fact   *)
(* about the turns of ab_near's scan that has no first counterexample has  *)
(* none.                                                                   *)
(***************************************************************************)
Allocs == Seq([base : Nat, size : Nat])

(* f lists what the scan has found after each of m turns. *)
Turns(f, al, tea, m) ==
  f = [n \in 0 .. m |-> IF n = 0 THEN 0 ELSE Closer(al, tea, f[n - 1], n)]

LEMMA Least ==
  ASSUME NEW T, T \subseteq Nat, T # {}
  PROVE  \E k \in T : \A y \in T : k <= y
BY MinIn, Zenon

LEMMA EntryIn ==
  ASSUME NEW S, NEW q \in Seq(S), NEW i \in DOMAIN q
  PROVE  q[i] \in S
<1>1. DOMAIN q = 1 .. Len(q)
  OBVIOUS
<1> QED
  BY <1>1

(* The distance to an allocation is a number. *)
LEMMA Distance ==
  ASSUME NEW al \in Allocs, NEW i \in DOMAIN al, NEW tea \in Int
  PROVE  /\ Gap(al[i], tea) \in Int
         /\ ~Inside(al[i], tea) => Gap(al[i], tea) >= 0
<1>1. PICK a \in [base : Nat, size : Nat] : a = al[i]
  BY EntryIn, Zenon DEF Allocs
<1>2. a.base \in Nat /\ a.size \in Nat
  OBVIOUS
<1>3. Gap(a, tea) \in Int /\ (~Inside(a, tea) => Gap(a, tea) >= 0)
  BY <1>2 DEF Gap, Inside
<1> QED
  BY <1>1, <1>3

LEMMA ScanRuns ==
  ASSUME NEW al, NEW tea, NEW m \in Nat
  PROVE  \E f : Turns(f, al, tea, m)
<1> DEFINE T == {n \in Nat : ~\E f : Turns(f, al, tea, n)}
<1> SUFFICES ASSUME T # {} PROVE FALSE
  OBVIOUS
<1>0. T \subseteq Nat
  OBVIOUS
<1>1. PICK k \in T : \A y \in T : k <= y
  BY <1>0, Least, Zenon
<1>2. k \in Nat /\ ~\E f : Turns(f, al, tea, k)
  OBVIOUS
<1>3. CASE k = 0
  <2> DEFINE f == [n \in 0 .. 0 |-> 0]
  <2>1. Turns(f, al, tea, 0)
    BY DEF Turns
  <2> QED
    BY <1>2, <1>3, <2>1
<1>4. CASE k # 0
  <2>1. k - 1 \in Nat /\ k - 1 \notin T
    BY <1>1, <1>2, <1>4
  <2>2. PICK f : Turns(f, al, tea, k - 1)
    BY <2>1
  <2>3. \A n \in 0 .. k - 1 :
          f[n] = IF n = 0 THEN 0 ELSE Closer(al, tea, f[n - 1], n)
    BY <2>2 DEF Turns
  <2> DEFINE g == [n \in 0 .. k |-> IF n = k THEN Closer(al, tea, f[k - 1], k) ELSE f[n]]
  <2>4. ASSUME NEW n \in 0 .. k
        PROVE  g[n] = IF n = 0 THEN 0 ELSE Closer(al, tea, g[n - 1], n)
    <3>1. CASE n = k
      <4>1. g[n - 1] = f[k - 1] /\ g[n] = Closer(al, tea, f[k - 1], k)
        BY <1>2, <1>4, <3>1
      <4> QED
        BY <1>4, <3>1, <4>1
    <3>2. CASE n # k
      <4>1. n \in 0 .. k - 1 /\ g[n] = f[n] /\ (n # 0 => g[n - 1] = f[n - 1])
        BY <1>2, <3>2
      <4> HIDE DEF g
      <4> QED
        BY <2>3, <4>1
    <3> QED
      BY <3>1, <3>2
  <2>5. g = [n \in 0 .. k |-> g[n]]
    OBVIOUS
  <2> HIDE DEF g
  <2>6. Turns(g, al, tea, k)
    BY <2>4, <2>5 DEF Turns
  <2> QED
    BY <1>2, <2>6
<1> QED
  BY <1>3, <1>4

(* After n turns the scan holds one of the first n entries, and none of    *)
(* them is closer to the address.                                          *)
LEMMA ScanFinds ==
  ASSUME NEW al \in Allocs, al # <<>>, NEW tea \in Int
  PROVE  /\ Scan(al, tea) \in DOMAIN al
         /\ \A i \in DOMAIN al : Gap(al[Scan(al, tea)], tea) <= Gap(al[i], tea)
<1>1. PICK L \in Nat : L = Len(al) /\ L # 0 /\ DOMAIN al = 1 .. L
  BY DEF Allocs
<1> DEFINE Run == CHOOSE f : Turns(f, al, tea, L)
<1>2. Turns(Run, al, tea, L)
  BY ScanRuns, Zenon
<1>3. Scan(al, tea) = Run[L]
  BY <1>1, Zenon DEF Scan, Turns
<1> HIDE DEF Run
<1>4. \A n \in 0 .. L :
        Run[n] = IF n = 0 THEN 0 ELSE Closer(al, tea, Run[n - 1], n)
  BY <1>2 DEF Turns
<1>5. \A i \in 1 .. L : Gap(al[i], tea) \in Int
  BY <1>1, Distance
<1> DEFINE Best(n) == /\ Run[n] \in 1 .. n
                      /\ \A i \in 1 .. n : Gap(al[Run[n]], tea) <= Gap(al[i], tea)
           T == {n \in 1 .. L : ~Best(n)}
<1>6. T = {}
  <2> SUFFICES ASSUME T # {} PROVE FALSE
    OBVIOUS
  <2>0. T \subseteq Nat
    BY <1>1
  <2>1. PICK k \in T : \A y \in T : k <= y
    BY <2>0, Least, Zenon
  <2>2. k \in 1 .. L /\ ~Best(k)
    OBVIOUS
  <2>3. Run[k] = Closer(al, tea, Run[k - 1], k) /\ Run[0] = 0
    BY <1>1, <1>4, <2>2
  <2>4. CASE k = 1
    <3>1. Run[k] = 1
      BY <2>3, <2>4 DEF Closer
    <3> QED
      BY <1>1, <1>5, <2>2, <2>4, <3>1
  <2>5. CASE k # 1
    <3>1. k - 1 \in 1 .. L /\ k - 1 \notin T
      BY <1>1, <2>1, <2>2, <2>5
    <3>2. Best(k - 1)
      BY <3>1
    <3>3. PICK b \in 1 .. k - 1 : b = Run[k - 1]
      BY <3>2
    <3>4. \A i \in 1 .. k - 1 : Gap(al[b], tea) <= Gap(al[i], tea)
      BY <3>2, <3>3
    <3>5. Run[k] = IF Gap(al[k], tea) < Gap(al[b], tea) THEN k ELSE b
      BY <2>2, <2>3, <3>3 DEF Closer
    <3>6. \A i \in 1 .. k : i \in 1 .. L /\ (i = k \/ i \in 1 .. k - 1)
      BY <1>1, <2>2
    <3>7. /\ Gap(al[k], tea) \in Int /\ Gap(al[b], tea) \in Int
          /\ \A i \in 1 .. k : Gap(al[i], tea) \in Int
      BY <1>5, <2>2, <3>6
    <3>8. Run[k] \in 1 .. k
      BY <1>1, <2>2, <3>5
    <3>9. \A i \in 1 .. k : Gap(al[Run[k]], tea) <= Gap(al[i], tea)
      <4> SUFFICES ASSUME NEW i \in 1 .. k
                   PROVE  Gap(al[Run[k]], tea) <= Gap(al[i], tea)
        OBVIOUS
      <4>1. CASE Gap(al[k], tea) < Gap(al[b], tea)
        BY <3>4, <3>5, <3>6, <3>7, <4>1
      <4>2. CASE ~(Gap(al[k], tea) < Gap(al[b], tea))
        BY <3>4, <3>5, <3>6, <3>7, <4>2
      <4> QED
        BY <4>1, <4>2
    <3> QED
      BY <2>2, <3>8, <3>9
  <2> QED
    BY <2>4, <2>5
<1>7. Best(L)
  BY <1>1, <1>6
<1> QED
  BY <1>1, <1>3, <1>7

LEMMA NearIsNearest ==
  ASSUME NEW A \in CtxRecords, A.allocs # <<>>, NEW tea \in Int
  PROVE  LET al == A.allocs
             D(i) == IF Inside(al[i], tea) THEN -1 ELSE Gap(al[i], tea)
         IN  /\ Near(A, tea) \in DOMAIN al
             /\ \A i \in DOMAIN al : D(Near(A, tea)) <= D(i)
<1>0. PICK al \in Allocs : al = A.allocs
  BY DEF CtxRecords, Allocs
<1> DEFINE in == {i \in DOMAIN al : Inside(al[i], tea)}
           D(i) == IF Inside(al[i], tea) THEN -1 ELSE Gap(al[i], tea)
<1>1. \A i \in DOMAIN al : i \in Nat /\ Gap(al[i], tea) \in Int
                            /\ (~Inside(al[i], tea) => Gap(al[i], tea) >= 0)
  <2>1. \A i \in DOMAIN al : i \in Nat
    BY <1>0 DEF Allocs
  <2> QED
    BY <2>1, Distance
<1>2. Near(A, tea) = IF in # {} THEN Min(in) ELSE Scan(al, tea)
  BY <1>0 DEF Near
<1> SUFFICES Near(A, tea) \in DOMAIN al /\ \A i \in DOMAIN al : D(Near(A, tea)) <= D(i)
  BY <1>0, Zenon
<1>3. CASE in # {}
  <2>1. in \subseteq Nat
    BY <1>1
  <2>2. PICK j \in in : j = Near(A, tea)
    BY <1>2, <1>3, <2>1, MinIn
  <2>3. j \in DOMAIN al /\ D(j) = -1
    OBVIOUS
  <2>4. \A i \in DOMAIN al : -1 <= D(i)
    BY <1>1
  <2> QED
    BY <2>2, <2>3, <2>4
<1>4. CASE in = {}
  <2>1. PICK j : j = Near(A, tea)
    OBVIOUS
  <2>2. /\ j \in DOMAIN al
        /\ \A i \in DOMAIN al : Gap(al[j], tea) <= Gap(al[i], tea)
    BY <1>0, <1>2, <1>4, <2>1, ScanFinds
  <2>3. \A i \in DOMAIN al : D(i) = Gap(al[i], tea)
    BY <1>4
  <2> QED
    BY <2>1, <2>2, <2>3
<1> QED
  BY <1>3, <1>4

(* The arguments a dump shows are those of the dispatch that faulted. *)
DumpArgs ==
  \A i \in DOMAIN dumps :
    dumps[i].own /\ dumps[i].args # NoBlob => dumps[i].saysArgs = dumps[i].args

LEMMA FaultsDump ==
  ASSUME DeviceInv, NEW d \in Devs, NEW k \in Slots, NEW blob \in SomeBlob,
         DispatchEventFault(d, k, blob) \/ DispatchQueueFault(d, k, blob)
  PROVE  DumpArgs'
<1>1. \A c \in CtxIds :
        ctx[c] \in CtxRecords /\ SnapArgs(ctx[c], blob) \in CtxRecords
        /\ (blob # NoBlob => SnapArgs(ctx[c], blob).args = blob)
  BY Writers DEF DeviceInv, Types, SnapArgs, CtxRecords
<1>2. gactx \in CtxIds \cup {NoCtx} /\ dev[d].ctx \in CtxIds \cup {NoCtx}
      /\ ctx \in [CtxIds -> CtxRecords]
  BY DEF DeviceInv, Types, DevRecords
<1>3. ctx' = IF dev[d].ctx = NoCtx THEN ctx
             ELSE [ctx EXCEPT ![dev[d].ctx] = SnapArgs(ctx[dev[d].ctx], blob)]
  BY Zenon DEF DispatchEventFault, DispatchQueueFault, WithCtx
<1>4. ASSUME NEW A, NEW own, own => A = ctx'[dev[d].ctx] /\ dev[d].ctx # NoCtx,
             dumps' = <<Dump(A, own, blob)>>
      PROVE  DumpArgs'
  <2>1. PICK q : q = Dump(A, own, blob)
    OBVIOUS
  <2>2. q.own = own /\ q.args = blob /\ q.saysArgs = A.args /\ dumps' = <<q>>
    BY <1>4, <2>1 DEF Dump
  <2>3. own /\ blob # NoBlob => A.args = blob
    BY <1>1, <1>2, <1>3, <1>4
  <2>4. \A i \in DOMAIN dumps' : dumps'[i] = q
    BY <2>2
  <2> QED
    BY <2>2, <2>3, <2>4 DEF DumpArgs
<1>5. CASE DispatchEventFault(d, k, blob)
  <2>1. CASE gactx = NoCtx
    BY <1>5, <2>1 DEF DispatchEventFault, DumpArgs
  <2>2. CASE gactx # NoCtx
    <3>1. dumps' = <<Dump(ctx'[gactx], gactx = dev[d].ctx, blob)>>
      BY <1>5, <2>2, Zenon DEF DispatchEventFault
    <3> QED
      BY <1>4, <2>2, <3>1
  <2> QED
    BY <2>1, <2>2
<1>6. CASE DispatchQueueFault(d, k, blob)
  <2>1. dev[d].ctx # NoCtx
        /\ dumps' = <<Dump(SnapArgs(ctx[dev[d].ctx], blob), TRUE, blob)>>
    BY <1>6 DEF DispatchQueueFault
  <2>2. ctx'[dev[d].ctx] = SnapArgs(ctx[dev[d].ctx], blob)
    BY <1>2, <1>3, <2>1
  <2> QED
    BY <1>4, <2>1, <2>2
<1> QED
  BY <1>5, <1>6

(* ab_near names an allocation that no tracked one is closer than, to any  *)
(* address and for any table; and the SNAP section shows the arguments of  *)
(* the dispatch that faulted (ab_dump, bc_dispatch).                       *)
THEOREM DumpsTellTheTruth == HSpec => []DumpTellsTruth
<1>1. HInit => DumpArgs
  BY DEF HInit, Init, DumpArgs
<1>2. DeviceInv /\ DumpArgs /\ [HNext]_hvars => DumpArgs'
  <2> SUFFICES ASSUME DeviceInv, DumpArgs, [HNext]_hvars PROVE DumpArgs'
    OBVIOUS
  <2>1. CASE dumps' = <<>> \/ dumps' = dumps
    BY <2>1 DEF DumpArgs
  <2>2. CASE Next
    <3>1. \/ dumps' = <<>>
          \/ \E d \in Devs, k \in Slots, blob \in SomeBlob :
               DispatchEventFault(d, k, blob) \/ DispatchQueueFault(d, k, blob)
      BY <2>2 DEF Next, Quiet, Aside, InitOpen, InitSyms, InitHsa, InitFind, InitCtx, InitHook,
                  InitQueue, ShutDiag, FreeCtx, DestroyQueue, Close, LoadFile, Loading, LoadReader,
                  LoadExec, LoadCode, LoadFreeze, LoadSymbol, LoadDone, Unload, AllocTracked, Free,
                  Dispatch
    <3> QED
      BY <2>1, <3>1, FaultsDump
  <2> QED
    BY <2>1, <2>2 DEF HNext, hvars, vars
<1>3. DeviceInv /\ DumpArgs => DumpTellsTruth
  <2> SUFFICES ASSUME DeviceInv, DumpArgs PROVE DumpTellsTruth
    OBVIOUS
  <2>1. \A c \in CtxIds : ctx[c] \in CtxRecords
    BY DEF DeviceInv, Types
  <2>2. \A a \in UNION {0 .. b + AllocSize : b \in Bases} : a \in Int
    BY SizesAssumption
  <2> QED
    BY <2>1, <2>2, NearIsNearest, Zenon DEF DumpTellsTruth, DumpArgs
<1> QED
  BY <1>1, <1>2, <1>3, DeviceSafe, PTL DEF HSpec

-----------------------------------------------------------------------------
(***************************************************************************)
(* The packet ring.                                                        *)
(***************************************************************************)
Places == {"idle", "fill", "signal", "body", "header", "index", "ring", "wait"}
Written == {"index", "ring", "wait"}      \* the header is stored

RingShapes ==
  /\ pc \in Places /\ cur \in 0 .. MaxDispatch /\ idx \in Nat /\ widx \in Nat /\ ridx \in Nat
  /\ ring \in [0 .. QSize - 1 -> [hdr : {"invalid", "dispatch"}, body : Nat]]
  /\ run \in Nat \cup {Ring!NoRun} /\ ran \subseteq 1 .. cur
  /\ signal \in [DOMAIN signal -> Int]


(* What the call holds, by where it is. *)
Holds ==
  /\ kernarg = IF pc = "idle" THEN {} ELSE {cur}
  /\ filled  = IF pc \in {"idle", "fill"} THEN {} ELSE {cur}
  /\ DOMAIN signal = IF pc \in {"idle", "fill", "signal"} THEN {} ELSE {cur}
  /\ pc # "idle" => cur > 0

(* No packet is on the ring. *)
Empty == run = Ring!NoRun /\ \A s \in 0 .. QSize - 1 : ring[s].hdr = "invalid"

(* The packet of this call is on the ring: the packet processor is at it,  *)
(* and has not ended it.                                                   *)
Posted ==
  /\ ridx = idx /\ signal[cur] = 1 /\ cur \notin ran /\ run \in {Ring!NoRun, cur}
  /\ ring[Ring!Slot(idx)].body = cur
  /\ \A s \in 0 .. QSize - 1 : ring[s].hdr = IF s = Ring!Slot(idx) THEN "dispatch" ELSE "invalid"

(* It has. *)
Ended == Empty /\ ridx = idx + 1 /\ signal[cur] = 0 /\ cur \in ran

OnRing ==
  /\ pc \in {"idle", "fill", "signal"} => Empty /\ ridx = widx
  /\ pc \in {"body", "header"} => Empty /\ ridx = idx /\ widx = idx /\ signal[cur] = 1
  /\ pc = "header" => ring[Ring!Slot(idx)].body = cur
  /\ pc \in Written => (Posted \/ Ended) /\ widx = IF pc = "index" THEN idx ELSE idx + 1

(* The calls that returned, and what they said. *)
Returned ==
  /\ DOMAIN result = 1 .. (IF pc = "idle" THEN cur ELSE cur - 1)
  /\ {d \in DOMAIN result : result[d] = "ok"} = IF pc = "idle" THEN ran ELSE ran \ {cur}
  /\ pc \notin Written \cup {"idle"} => cur \notin ran

RingInv == RingShapes /\ Holds /\ OnRing /\ Returned

LEMMA SlotType ==
  ASSUME NEW i \in Nat
  PROVE  Ring!Slot(i) \in 0 .. QSize - 1
BY RingAssumption DEF Ring!Slot

(* The steps of bc_dispatch before the packet is touched. *)
LEMMA HostPrepares ==
  ASSUME RingInv, Ring!KernargFails \/ Ring!KernargOk \/ Ring!FillKernarg
                  \/ Ring!SignalFails \/ Ring!SignalOk
  PROVE  RingInv'
<1> USE DEF RingInv
<1>1. CASE Ring!KernargFails
  <2> USE <1>1 DEF Ring!KernargFails, Ring!Return
  <2>1. RingShapes' /\ Holds'
    BY RingAssumption DEF RingShapes, Holds, Places
  <2>2. OnRing'
    BY DEF OnRing, Empty, Written
  <2>3. Returned'
    BY DEF Returned, RingShapes
  <2> QED
    BY <2>1, <2>2, <2>3
<1>2. CASE Ring!KernargOk
  <2> USE <1>2 DEF Ring!KernargOk
  <2>1. RingShapes' /\ Holds'
    BY RingAssumption DEF RingShapes, Holds, Places
  <2>2. OnRing'
    BY DEF OnRing, Empty, Written
  <2>3. Returned'
    BY DEF Returned, RingShapes, Written
  <2> QED
    BY <2>1, <2>2, <2>3
<1>3. CASE Ring!FillKernarg
  <2> USE <1>3 DEF Ring!FillKernarg
  <2>1. RingShapes' /\ Holds'
    BY DEF RingShapes, Holds, Places
  <2>2. OnRing'
    BY DEF OnRing, Empty, Written
  <2>3. Returned'
    BY DEF Returned, Written
  <2> QED
    BY <2>1, <2>2, <2>3
<1>4. CASE Ring!SignalFails
  <2> USE <1>4 DEF Ring!SignalFails, Ring!Return
  <2>1. RingShapes' /\ Holds'
    BY DEF RingShapes, Holds, Places
  <2>2. OnRing'
    BY DEF OnRing, Empty, Written
  <2>3. Returned'
    BY DEF Returned, RingShapes, Holds, Written
  <2> QED
    BY <2>1, <2>2, <2>3
<1>5. CASE Ring!SignalOk
  <2> USE <1>5 DEF Ring!SignalOk
  <2>0. DOMAIN signal' = {cur} /\ signal'[cur] = 1 /\ signal' \in [{cur} -> Int]
    BY DEF Holds
  <2>1. RingShapes' /\ Holds'
    BY <2>0 DEF RingShapes, Holds, Places
  <2>2. OnRing'
    BY <2>0 DEF OnRing, Empty, Written, RingShapes
  <2>3. Returned'
    BY DEF Returned, Written
  <2> QED
    BY <2>1, <2>2, <2>3
<1> QED
  BY <1>1, <1>2, <1>3, <1>4, <1>5

(* The packet is written, announced and waited for. *)
LEMMA HostPosts ==
  ASSUME RingInv, Ring!WriteBody \/ Ring!WriteHeader \/ Ring!StoreIndex
                  \/ Ring!RingDoorbell \/ Ring!Complete
  PROVE  RingInv'
<1> USE DEF RingInv
<1>0. Ring!Slot(idx) \in 0 .. QSize - 1 /\ cur \in Nat
  BY SlotType, RingAssumption DEF RingShapes
<1>1. CASE Ring!WriteBody
  <2> USE <1>1 DEF Ring!WriteBody
  <2>0. /\ ring' \in [0 .. QSize - 1 -> [hdr : {"invalid", "dispatch"}, body : Nat]]
        /\ ring'[Ring!Slot(idx)].body = cur
        /\ \A s \in 0 .. QSize - 1 : ring'[s].hdr = ring[s].hdr
    BY <1>0 DEF RingShapes
  <2>1. RingShapes' /\ Holds'
    BY <2>0 DEF RingShapes, Holds, Places
  <2>2. OnRing'
    BY <2>0 DEF OnRing, Empty, Written, Ring!Slot
  <2>3. Returned'
    BY DEF Returned, Written
  <2> QED
    BY <2>1, <2>2, <2>3
<1>2. CASE Ring!WriteHeader
  <2> USE <1>2 DEF Ring!WriteHeader
  <2>0. /\ ring' \in [0 .. QSize - 1 -> [hdr : {"invalid", "dispatch"}, body : Nat]]
        /\ ring'[Ring!Slot(idx)].hdr = "dispatch"
        /\ \A s \in 0 .. QSize - 1 : ring'[s].body = ring[s].body
        /\ \A s \in 0 .. QSize - 1 : s # Ring!Slot(idx) => ring'[s].hdr = ring[s].hdr
    BY <1>0 DEF RingShapes
  <2>1. RingShapes' /\ Holds'
    BY <2>0 DEF RingShapes, Holds, Places
  <2>2. Posted'
    BY <1>0, <2>0 DEF OnRing, Empty, Posted, Returned, Written, Ring!Slot
  <2>3. OnRing'
    BY <2>2 DEF OnRing, Written
  <2>4. Returned'
    BY DEF Returned, Written
  <2> QED
    BY <2>1, <2>3, <2>4
<1>3. CASE Ring!StoreIndex
  <2> USE <1>3 DEF Ring!StoreIndex
  <2>1. RingShapes' /\ Holds'
    BY DEF RingShapes, Holds, Places
  <2>2. (Posted \/ Ended)'
    BY DEF OnRing, Posted, Ended, Empty, Written, Ring!Slot
  <2>3. OnRing'
    BY <2>2 DEF OnRing, Written
  <2>4. Returned'
    BY DEF Returned, Written
  <2> QED
    BY <2>1, <2>3, <2>4
<1>4. CASE Ring!RingDoorbell
  <2> USE <1>4 DEF Ring!RingDoorbell
  <2>1. RingShapes' /\ Holds'
    BY DEF RingShapes, Holds, Places
  <2>2. (Posted \/ Ended)'
    BY DEF OnRing, Posted, Ended, Empty, Written, Ring!Slot
  <2>3. OnRing'
    BY <2>2 DEF OnRing, Written
  <2>4. Returned'
    BY DEF Returned, Written
  <2> QED
    BY <2>1, <2>3, <2>4
<1>5. CASE Ring!Complete
  <2> USE <1>5 DEF Ring!Complete, Ring!Return
  <2>0. Ended
    BY DEF OnRing, Posted, Written
  <2>1. DOMAIN signal' = {} /\ signal' \in [{} -> Int]
    BY DEF Holds
  <2>2. RingShapes' /\ Holds'
    BY <2>1 DEF RingShapes, Holds, Places
  <2>3. OnRing'
    BY <2>0 DEF OnRing, Ended, Empty, Written
  <2>4. Returned'
    <3>1. DOMAIN result' = 1 .. cur
      BY DEF Returned, RingShapes, Holds
    <3>2. {d \in DOMAIN result' : result'[d] = "ok"} = (ran \ {cur}) \cup {cur}
      BY DEF Returned
    <3> QED
      BY <2>0, <3>1, <3>2 DEF Ended, Returned
  <2> QED
    BY <2>2, <2>3, <2>4
<1> QED
  BY <1>1, <1>2, <1>3, <1>4, <1>5

(* The packet processor takes a packet, or ends it. *)
LEMMA ProcessorSteps ==
  ASSUME RingInv, Ring!Take \/ Ring!End
  PROVE  RingInv'
<1> USE DEF RingInv
<1>0. Ring!Slot(idx) \in 0 .. QSize - 1 /\ Ring!Slot(ridx) \in 0 .. QSize - 1 /\ cur \in Nat
  BY SlotType, RingAssumption DEF RingShapes
<1>1. pc \in Written /\ Posted
  <2>1. Empty => ~(Ring!Take \/ Ring!End)
    BY <1>0 DEF Empty, Ring!Take, Ring!End
  <2> QED
    BY <2>1 DEF OnRing, Ended, RingShapes, Places, Written
<1>2. CASE Ring!Take
  <2> USE <1>2 DEF Ring!Take
  <2>1. run' = cur
    BY <1>1 DEF Posted
  <2>2. RingShapes' /\ Holds' /\ Returned'
    BY <1>0, <2>1 DEF RingShapes, Holds, Returned
  <2>3. Posted'
    BY <1>1, <2>1 DEF Posted, Ring!Slot
  <2>4. OnRing'
    BY <1>1, <2>3 DEF OnRing, Written
  <2> QED
    BY <2>2, <2>4
<1>3. CASE Ring!End
  <2> USE <1>3 DEF Ring!End
  <2>0. run = cur /\ ridx = idx /\ cur > 0
    BY <1>1 DEF Posted, Holds, Written
  <2>1. /\ ring' \in [0 .. QSize - 1 -> [hdr : {"invalid", "dispatch"}, body : Nat]]
        /\ \A s \in 0 .. QSize - 1 : ring'[s].hdr = "invalid"
    BY <1>0, <1>1, <2>0 DEF RingShapes, Posted
  <2>2. DOMAIN signal' = {cur} /\ signal'[cur] = 0 /\ signal' \in [{cur} -> Int]
    BY <1>1, <2>0 DEF Holds, Posted, Written
  <2>3. RingShapes'
    BY <2>0, <2>1, <2>2 DEF RingShapes
  <2>4. Holds'
    BY <1>1, <2>2 DEF Holds, Written
  <2>5. Ended'
    BY <2>0, <2>1, <2>2 DEF Ended, Empty
  <2>6. OnRing'
    BY <1>1, <2>5 DEF OnRing, Written
  <2>7. Returned'
    BY <1>1, <2>0 DEF Returned, Posted, Written
  <2> QED
    BY <2>3, <2>4, <2>6, <2>7
<1> QED
  BY <1>2, <1>3

LEMMA RingSafe == HSpec => []RingInv
<1>1. HInit => RingInv
  BY RingAssumption DEF HInit, Ring!Init, RingInv, RingShapes, Holds, OnRing, Empty, Returned,
     Places, Written, Ring!NoRun
<1>2. RingInv /\ [HNext]_hvars => RingInv'
  <2> SUFFICES ASSUME RingInv, [HNext]_hvars PROVE RingInv'
    OBVIOUS
  <2>1. CASE Ring!Next
    <3>1. CASE UNCHANGED rvars
      BY <3>1 DEF rvars, RingInv, RingShapes, Holds, OnRing, Empty, Posted, Ended, Returned,
                  Ring!Slot, Ring!NoRun
    <3> QED
      BY <2>1, <3>1, HostPrepares, HostPosts, ProcessorSteps
      DEF Ring!Next, Ring!Host, Ring!Stop, Ring!vars, rvars
  <2>2. CASE UNCHANGED rvars
    BY <2>2 DEF rvars, RingInv, RingShapes, Holds, OnRing, Empty, Posted, Ended, Returned,
                Ring!Slot, Ring!NoRun
  <2> QED
    BY <2>1, <2>2 DEF HNext, hvars
<1> QED
  BY <1>1, <1>2, PTL DEF HSpec

(* The kernel the GPU runs is the one bc_dispatch is in the middle of, once,*)
(* with its arguments filled in and its signal alive, whenever the packet   *)
(* processor looks at the ring and however often its slots are used again.  *)
THEOREM KernelsAreReady == HSpec => []RunsOnlyWhatIsReady
<1>1. RingInv => RunsOnlyWhatIsReady
  <2> SUFFICES ASSUME RingInv, run # Ring!NoRun
               PROVE  run = cur /\ run \notin ran /\ run \in kernarg \cap filled /\ run \in DOMAIN signal
    BY DEF RunsOnlyWhatIsReady, Ring!RunsOnlyWhatIsReady
  <2>1. pc \in Written /\ Posted
    BY DEF RingInv, OnRing, Empty, Ended, RingShapes, Places, Written
  <2> QED
    BY <2>1 DEF Posted, RingInv, Holds, Written
<1> QED
  BY <1>1, RingSafe, PTL

(* bc_dispatch is synchronous: it says BC_RT_OK exactly for the kernels    *)
(* that have run, and leaves no kernarg buffer and no signal behind.       *)
THEOREM DispatchIsSynchronous == HSpec => []SynchronousAndClean
<1>1. RingInv => SynchronousAndClean
  BY DEF RingInv, Holds, Returned, SynchronousAndClean, Ring!SynchronousAndClean
<1> QED
  BY <1>1, RingSafe, PTL
=============================================================================
