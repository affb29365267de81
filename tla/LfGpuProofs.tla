----------------------------- MODULE LfGpuProofs -----------------------------
(***************************************************************************)
(* Theorems about the offload ABI, for any number of kernels, arguments,   *)
(* arrays and scalars and any amount of device memory.                     *)
(***************************************************************************)
EXTENDS LfGpu, WellFoundedInduction, SequenceTheorems, TLAPS

ArgRecords ==
  {r \in [kind : {"none", "buf", "scal"}, dptr : 0 .. DevMem,
          hptr : Arrays \cup {"none"}, scal : Scalars \cup {<<>>}] :
     r.kind = "scal" => r.scal \in Scalars}
KernRecords == [used : BOOLEAN, nargs : 0 .. MaxArgs, args : [Idx -> ArgRecords]]

(* Argument i of kernel k is a buffer, at Addr(k, i). *)
IsBuf(k, i) == kern[k].args[i].kind = "buf"
Addr(k, i)  == kern[k].args[i].dptr

(* Only slots in use have arguments, and those stand below nargs. *)
Tidy ==
  /\ kern \in [Slots -> KernRecords] /\ mem \subseteq 1 .. DevMem
  /\ \A k \in Slots, i \in Idx :
       kern[k].args[i].kind # "none" => kern[k].used /\ i <= kern[k].nargs

(* Every buffer has memory that is its own. *)
Apart(k, i, l, j) ==
  IsBuf(k, i) /\ IsBuf(l, j) =>
    /\ Addr(k, i) \in mem
    /\ Addr(k, i) = Addr(l, j) => k = l /\ i = j

Owning == \A k, l \in Slots : \A i, j \in Idx : Apart(k, i, l, j)

(* All memory has an owner, or lost it to a scalar. *)
Accounted ==
  \A x \in mem : x \in shadowed \/ \E k \in Slots, i \in Idx : IsBuf(k, i) /\ x = Addr(k, i)

LfInv == Tidy /\ Owning /\ Accounted

-----------------------------------------------------------------------------
(* The least of some numbers is one of them. *)
LEMMA MinIn ==
  ASSUME NEW T, T \subseteq Nat, T # {}
  PROVE  Min(T) \in T
<1> DEFINE R == {ss \in Nat \X Nat : ss[1] < ss[2]}
<1>1. IsWellFoundedOn(R, Nat)
  BY NatLessThanWellFounded, Zenon DEF OpToRel
<1> HIDE DEF R
<1>2. PICK x \in T : \A y \in T : <<y, x>> \notin R
  BY <1>1, WFMin
<1>3. ASSUME NEW y \in T PROVE x <= y
  <2>1. x \in Nat /\ y \in Nat
    OBVIOUS
  <2>2. <<y, x>> \in Nat \X Nat /\ <<y, x>>[1] = y /\ <<y, x>>[2] = x
    BY <2>1
  <2>3. ~(y < x)
    BY <1>2, <2>2, Zenon DEF R
  <2> QED
    BY <2>1, <2>3
<1> QED
  BY <1>3, Zenon DEF Min

LEMMA MaxOfTwo ==
  ASSUME NEW a \in Nat, NEW b \in Nat
  PROVE  Max({a, b}) = IF a >= b THEN a ELSE b
BY DEF Max

LEMMA Reaches ==
  ASSUME NEW L \in 1 .. 2
  PROVE  /\ \A i \in Int : i \in i .. i + L - 1
         /\ \A w \in 1 .. L : w = 1 \/ w = 2
OBVIOUS

LEMMA LargestIs ==
  ASSUME NEW T, T \subseteq Int, NEW m \in T, \A x \in T : x <= m
  PROVE  Max(T) = m
<1>1. m \in T /\ \A y \in T : m >= y
  OBVIOUS
<1>2. \A x \in T : (\A y \in T : x >= y) => x = m
  OBVIOUS
<1> QED
  BY <1>1, <1>2, Zenon DEF Max

(* The allocator gives out memory that is not in use. *)
LEMMA FreshIsFree ==
  ASSUME NEW m, m \subseteq 1 .. DevMem, m # 1 .. DevMem
  PROVE  Fresh(m) \in (1 .. DevMem) \ m
<1> DEFINE T == (1 .. DevMem) \ m
<1>1. T \subseteq Nat
  BY PoolAssumption
<1>2. T # {}
  <2>1. PICK x \in 1 .. DevMem : x \notin m
    BY SetExtensionality, Zenon
  <2> QED
    BY <2>1
<1>3. Min(T) \in T
  BY <1>1, <1>2, MinIn
<1> QED
  BY <1>3 DEF Fresh

(* In a tidy pool the buffers a release frees are all there are. *)
LEMMA OwnedOnes ==
  ASSUME Tidy, NEW k \in Slots, NEW x
  PROVE  x \in Owned(k) <=> x # Null /\ \E i \in Idx : IsBuf(k, i) /\ x = Addr(k, i)
<1>1. kern[k].nargs \in 0 .. MaxArgs /\ MaxArgs \in Nat
  BY PoolAssumption DEF Tidy, KernRecords
<1>2. \A j : j \in Bufs(k) <=> j \in Idx /\ IsBuf(k, j)
  BY <1>1 DEF Bufs, IsBuf, Tidy, Idx
<1> QED
  BY <1>2 DEF Owned, Addr

LEMMA Implied ==
  ASSUME LfInv
  PROVE  BuffersLive /\ MemoryAccounted
<1>0. Tidy /\ Owning /\ Accounted
  BY DEF LfInv
<1>1. \A k \in Slots : \A j : j \in Bufs(k) => j \in Idx /\ IsBuf(k, j)
  BY <1>0, PoolAssumption DEF Bufs, IsBuf, Idx, Tidy, KernRecords
<1>2. BuffersLive
  BY <1>0, <1>1 DEF BuffersLive, Owning, Apart, InUse, Addr
<1>3. ASSUME NEW x \in mem PROVE x \in shadowed \cup UNION {Owned(k) : k \in InUse}
  <2>1. CASE x \in shadowed
    BY <2>1
  <2>2. ASSUME NEW k \in Slots, NEW i \in Idx, IsBuf(k, i), x = Addr(k, i)
        PROVE  x \in UNION {Owned(l) : l \in InUse}
    <3>1. k \in InUse /\ x # Null
      BY <1>0, <2>2 DEF Tidy, InUse, IsBuf, Null
    <3>2. x \in Owned(k)
      BY <1>0, <2>2, <3>1, OwnedOnes
    <3> QED
      BY <3>1, <3>2
  <2> QED
    BY <1>0, <2>1, <2>2 DEF Accounted
<1> QED
  BY <1>2, <1>3 DEF MemoryAccounted

-----------------------------------------------------------------------------
(* What changes when argument i of kernel k becomes the record that sets   *)
(* some of its fields, as both setters do.                                 *)
LEMMA ArgSet ==
  ASSUME Tidy, NEW k \in Slots, NEW i \in Idx, kern[k].used,
         NEW arg \in ArgRecords, arg.kind # "none",
         kern' = [kern EXCEPT ![k].args[i] = arg, ![k].nargs = NArgs(k, i)]
  PROVE  /\ kern' \in [Slots -> KernRecords]
         /\ kern'[k].args[i] = arg
         /\ \A l \in Slots, j \in Idx :
              l # k \/ j # i => kern'[l].args[j] = kern[l].args[j]
         /\ \A l \in Slots, j \in Idx :
              kern'[l].args[j].kind # "none" => kern'[l].used /\ j <= kern'[l].nargs
<1>1. kern[k] \in KernRecords /\ kern \in [Slots -> KernRecords]
  BY DEF Tidy
<1>2. kern[k].nargs \in 0 .. MaxArgs /\ i \in 1 .. MaxArgs /\ MaxArgs \in Nat
  BY <1>1, PoolAssumption DEF KernRecords, Idx
<1>3. /\ NArgs(k, i) \in 0 .. MaxArgs
      /\ NArgs(k, i) >= kern[k].nargs /\ NArgs(k, i) >= i
  <2>1. NArgs(k, i) = IF kern[k].nargs >= i THEN kern[k].nargs ELSE i
    BY <1>2, MaxOfTwo DEF NArgs
  <2> QED
    BY <1>2, <2>1
<1> DEFINE r == [kern[k] EXCEPT !.args[i] = arg, !.nargs = NArgs(k, i)]
<1>4. /\ r \in KernRecords /\ r.used = kern[k].used /\ r.nargs = NArgs(k, i)
      /\ r.args[i] = arg /\ \A j \in Idx : j # i => r.args[j] = kern[k].args[j]
  BY <1>1, <1>3 DEF KernRecords
<1>5. kern' = [kern EXCEPT ![k] = r]
  BY <1>1
<1> HIDE DEF r
<1>6. kern' \in [Slots -> KernRecords] /\ kern'[k] = r /\ \A l \in Slots : l # k => kern'[l] = kern[l]
  BY <1>1, <1>4, <1>5, ZenonT(40)
<1>7. ASSUME NEW l \in Slots, NEW j \in Idx, kern'[l].args[j].kind # "none"
      PROVE  kern'[l].used /\ j <= kern'[l].nargs
  <2>1. CASE l # k
    BY <1>6, <1>7, <2>1 DEF Tidy
  <2>2. CASE l = k /\ j = i
    BY <1>3, <1>4, <1>6, <2>2
  <2>3. CASE l = k /\ j # i
    <3>1. kern[k].args[j].kind # "none"
      BY <1>4, <1>6, <1>7, <2>3
    <3>2. j <= kern[k].nargs
      BY <3>1 DEF Tidy
    <3>3. j \in Nat
      BY DEF Idx
    <3> QED
      BY <1>2, <1>3, <1>4, <1>6, <2>3, <3>2, <3>3
  <2> QED
    BY <2>1, <2>2, <2>3
<1> QED
  BY <1>4, <1>6, <1>7, ZenonT(40)

LEMMA SetBufferStep ==
  ASSUME LfInv, NEW k \in Slots, NEW i \in Idx, NEW a \in Arrays, NEW at,
         SetBufferArg(k, i, a, at), ~(UNCHANGED <<kern, mem, shadowed>>)
  PROVE  LfInv'
<1> DEFINE old  == IF kern[k].args[i].kind = "buf" THEN {kern[k].args[i].dptr} ELSE {}
           left == mem \ old
           new  == Fresh(left)
           arg  == [kern[k].args[i] EXCEPT !.kind = "buf", !.dptr = new, !.hptr = a, !.scal = <<>>]
<1>0. Tidy /\ Owning /\ Accounted
  BY DEF LfInv
<1>1. /\ kern[k].used /\ left # 1 .. DevMem /\ mem' = left \cup {new}
      /\ kern' = [kern EXCEPT
             ![k].args[i] = [@ EXCEPT !.kind = "buf", !.dptr = new, !.hptr = a, !.scal = <<>>],
             ![k].nargs = NArgs(k, i)]
      /\ shadowed' = shadowed
  BY DEF SetBufferArg, Die
<1>2. new \in (1 .. DevMem) \ left
  BY <1>0, <1>1, FreshIsFree DEF Tidy
<1>3. kern \in [Slots -> KernRecords] /\ kern[k] \in KernRecords /\ kern[k].args[i] \in ArgRecords
  BY <1>0 DEF Tidy, KernRecords
<1> HIDE DEF new
<1>4. arg \in ArgRecords /\ arg.kind = "buf" /\ arg.dptr = new
  <2>1. new \in 0 .. DevMem
    BY <1>2, PoolAssumption
  <2>2. ASSUME NEW r \in ArgRecords, NEW d \in 0 .. DevMem
        PROVE  /\ [r EXCEPT !.kind = "buf", !.dptr = d, !.hptr = a, !.scal = <<>>] \in ArgRecords
               /\ [r EXCEPT !.kind = "buf", !.dptr = d, !.hptr = a, !.scal = <<>>].kind = "buf"
               /\ [r EXCEPT !.kind = "buf", !.dptr = d, !.hptr = a, !.scal = <<>>].dptr = d
    BY DEF ArgRecords
  <2> QED
    BY <1>3, <2>1, <2>2
<1>5. kern' = [kern EXCEPT ![k].args[i] = arg, ![k].nargs = NArgs(k, i)]
  BY <1>1
<1> HIDE DEF arg
<1>6. /\ kern' \in [Slots -> KernRecords]
      /\ kern'[k].args[i] = arg
      /\ \A l \in Slots, j \in Idx :
           l # k \/ j # i => kern'[l].args[j] = kern[l].args[j]
      /\ \A l \in Slots, j \in Idx :
           kern'[l].args[j].kind # "none" => kern'[l].used /\ j <= kern'[l].nargs
  BY <1>0, <1>1, <1>4, <1>5, ArgSet
<1>7. Tidy'
  BY <1>0, <1>1, <1>2, <1>6 DEF Tidy
<1>8. ASSUME NEW l \in Slots, NEW j \in Idx, IsBuf(l, j), l # k \/ j # i
      PROVE  Addr(l, j) \in left
  BY <1>0, <1>8 DEF Owning, Apart, IsBuf, Addr
<1> HIDE DEF left
<1>9. /\ IsBuf(k, i)' /\ Addr(k, i)' = new
      /\ \A l \in Slots, j \in Idx : l # k \/ j # i =>
           (IsBuf(l, j)' <=> IsBuf(l, j)) /\ Addr(l, j)' = Addr(l, j)
  BY <1>4, <1>6 DEF IsBuf, Addr
<1>10. Owning'
  <2>0. SUFFICES ASSUME NEW l \in Slots, NEW m \in Slots, NEW j \in Idx, NEW n \in Idx
                 PROVE  Apart(l, j, m, n)'
    BY DEF Owning
  <2>1. SUFFICES ASSUME IsBuf(l, j)', IsBuf(m, n)'
                 PROVE  /\ Addr(l, j)' \in mem'
                        /\ Addr(l, j)' = Addr(m, n)' => l = m /\ j = n
    BY DEF Apart
  <2>2. CASE l = k /\ j = i
    BY <1>1, <1>2, <1>8, <1>9, <2>1, <2>2
  <2>3. CASE l # k \/ j # i
    <3>1. IsBuf(l, j) /\ Addr(l, j)' = Addr(l, j) /\ Addr(l, j) \in left
      BY <1>8, <1>9, <2>1, <2>3
    <3>2. CASE m = k /\ n = i
      BY <1>1, <1>2, <1>9, <3>1, <3>2
    <3>3. CASE m # k \/ n # i
      <4>1. IsBuf(m, n) /\ Addr(m, n)' = Addr(m, n)
        BY <1>9, <2>1, <3>3
      <4>2. Addr(l, j) = Addr(m, n) => l = m /\ j = n
        BY <1>0, <3>1, <4>1 DEF Owning, Apart
      <4> QED
        BY <1>1, <3>1, <4>1, <4>2
    <3> QED
      BY <3>2, <3>3
  <2> QED
    BY <2>2, <2>3
<1>11. Accounted'
  <2>1. SUFFICES ASSUME NEW x \in mem', x \notin shadowed
                 PROVE  \E l \in Slots, j \in Idx : IsBuf(l, j)' /\ x = Addr(l, j)'
    BY <1>1, Zenon DEF Accounted
  <2>2. CASE x = new
    BY <1>9, <2>2
  <2>3. CASE x \in left
    <3>1. PICK l \in Slots, j \in Idx : IsBuf(l, j) /\ x = Addr(l, j)
      BY <1>0, <2>1, <2>3 DEF Accounted, left
    <3>2. l # k \/ j # i
      BY <2>3, <3>1 DEF left, IsBuf, Addr
    <3> QED
      BY <1>9, <3>1, <3>2
  <2> QED
    BY <1>1, <2>1, <2>2, <2>3
<1> QED
  BY <1>7, <1>10, <1>11 DEF LfInv

LEMMA SetScalarStep ==
  ASSUME LfInv, NEW k \in Slots, NEW i \in Idx, NEW v \in Scalars, SetScalarArg(k, i, v)
  PROVE  LfInv'
<1> DEFINE arg == [kern[k].args[i] EXCEPT !.kind = "scal", !.scal = v, !.hptr = "none"]
<1>0. Tidy /\ Owning /\ Accounted
  BY DEF LfInv
<1>1. /\ kern[k].used /\ mem' = mem
      /\ kern' = [kern EXCEPT ![k].args[i] = [@ EXCEPT !.kind = "scal", !.scal = v, !.hptr = "none"],
                              ![k].nargs = NArgs(k, i)]
      /\ shadowed' = shadowed \cup
            (IF kern[k].args[i].kind = "buf" THEN {kern[k].args[i].dptr} ELSE {})
  BY DEF SetScalarArg
<1>3. kern \in [Slots -> KernRecords] /\ kern[k] \in KernRecords /\ kern[k].args[i] \in ArgRecords
  BY <1>0 DEF Tidy, KernRecords
<1>4. arg \in ArgRecords /\ arg.kind = "scal"
  BY <1>3 DEF ArgRecords
<1>5. kern' = [kern EXCEPT ![k].args[i] = arg, ![k].nargs = NArgs(k, i)]
  BY <1>1
<1> HIDE DEF arg
<1>6. /\ kern' \in [Slots -> KernRecords]
      /\ kern'[k].args[i] = arg
      /\ \A l \in Slots, j \in Idx :
           l # k \/ j # i => kern'[l].args[j] = kern[l].args[j]
      /\ \A l \in Slots, j \in Idx :
           kern'[l].args[j].kind # "none" => kern'[l].used /\ j <= kern'[l].nargs
  BY <1>0, <1>1, <1>4, <1>5, ArgSet
<1>7. Tidy'
  BY <1>0, <1>1, <1>6 DEF Tidy
<1>9. /\ ~IsBuf(k, i)'
      /\ \A l \in Slots, j \in Idx : l # k \/ j # i =>
           (IsBuf(l, j)' <=> IsBuf(l, j)) /\ Addr(l, j)' = Addr(l, j)
  BY <1>4, <1>6 DEF IsBuf, Addr
<1>10. Owning'
  BY <1>0, <1>1, <1>9, SMTT(30) DEF Owning, Apart
<1>11. Accounted'
  <2>1. SUFFICES ASSUME NEW x \in mem, x \notin shadowed'
                 PROVE  \E l \in Slots, j \in Idx : IsBuf(l, j)' /\ x = Addr(l, j)'
    BY <1>1, Zenon DEF Accounted
  <2>2. PICK l \in Slots, j \in Idx : IsBuf(l, j) /\ x = Addr(l, j)
    BY <1>0, <1>1, <2>1 DEF Accounted
  <2>3. l # k \/ j # i
    BY <1>1, <2>1, <2>2 DEF IsBuf, Addr
  <2> QED
    BY <1>9, <2>2, <2>3
<1> QED
  BY <1>7, <1>10, <1>11 DEF LfInv

(* A slot that nobody uses owns nothing; neither does one just loaded. *)
LEMMA CleanSlots ==
  /\ Unused \in KernRecords /\ ~Unused.used
  /\ [Unused EXCEPT !.used = TRUE] \in KernRecords
  /\ \A i \in Idx : /\ Unused.args[i].kind = "none"
                    /\ [Unused EXCEPT !.used = TRUE].args[i].kind = "none"
<1>1. Blank \in ArgRecords /\ Blank.kind = "none"
  BY PoolAssumption DEF Blank, ArgRecords, Null
<1> DEFINE none == [i \in Idx |-> Blank]
<1>2. none \in [Idx -> ArgRecords] /\ \A i \in Idx : none[i].kind = "none"
  BY <1>1
<1> HIDE DEF none
<1>3. Unused = [used |-> FALSE, nargs |-> 0, args |-> none]
  BY DEF Unused, none
<1>4. Unused \in KernRecords /\ ~Unused.used /\ Unused.args = none
  BY <1>2, <1>3, PoolAssumption DEF KernRecords
<1>5. ASSUME NEW r \in KernRecords
      PROVE  /\ [r EXCEPT !.used = TRUE] \in KernRecords
             /\ [r EXCEPT !.used = TRUE].args = r.args
  BY DEF KernRecords
<1> QED
  BY <1>2, <1>4, <1>5

(* Slots in S are cleared and their memory freed: S is one kernel, or all  *)
(* of them.                                                                *)
LEMMA Cleared ==
  ASSUME LfInv, NEW S \in SUBSET Slots,
         kern' = [k \in Slots |-> IF k \in S THEN Unused ELSE kern[k]],
         mem' = mem \ UNION {Owned(k) : k \in S}, shadowed' = shadowed
  PROVE  LfInv'
<1>0. Tidy /\ Owning /\ Accounted
  BY DEF LfInv
<1>1. \A k \in Slots : kern'[k] = IF k \in S THEN Unused ELSE kern[k]
  OBVIOUS
<1>2. Tidy'
  BY <1>0, <1>1, CleanSlots DEF Tidy
<1>3. \A k \in Slots, i \in Idx :
        /\ IsBuf(k, i)' <=> k \notin S /\ IsBuf(k, i)
        /\ k \notin S => Addr(k, i)' = Addr(k, i)
  BY <1>1, CleanSlots DEF IsBuf, Addr
<1>4. ASSUME NEW k \in Slots, k \notin S, NEW i \in Idx, IsBuf(k, i)
      PROVE  Addr(k, i) \in mem'
  <2>1. ASSUME NEW l \in S PROVE Addr(k, i) \notin Owned(l)
    <3>1. l \in Slots /\ l # k
      BY <1>4
    <3> QED
      BY <1>0, <1>4, <3>1, OwnedOnes DEF Owning, Apart
  <2> QED
    BY <1>0, <1>4, <2>1 DEF Owning, Apart
<1>5. Owning'
  <2>0. SUFFICES ASSUME NEW l \in Slots, NEW m \in Slots, NEW j \in Idx, NEW n \in Idx
                 PROVE  Apart(l, j, m, n)'
    BY DEF Owning
  <2>1. SUFFICES ASSUME IsBuf(l, j)', IsBuf(m, n)'
                 PROVE  /\ Addr(l, j)' \in mem'
                        /\ Addr(l, j)' = Addr(m, n)' => l = m /\ j = n
    BY DEF Apart
  <2>2. /\ l \notin S /\ IsBuf(l, j) /\ Addr(l, j)' = Addr(l, j)
        /\ m \notin S /\ IsBuf(m, n) /\ Addr(m, n)' = Addr(m, n)
    BY <1>3, <2>1
  <2>3. Addr(l, j) = Addr(m, n) => l = m /\ j = n
    BY <1>0, <2>2 DEF Owning, Apart
  <2> QED
    BY <1>4, <2>2, <2>3
<1>6. Accounted'
  <2>1. SUFFICES ASSUME NEW x \in mem', x \notin shadowed
                 PROVE  \E l \in Slots, j \in Idx : IsBuf(l, j)' /\ x = Addr(l, j)'
    BY Zenon DEF Accounted
  <2>2. x \in mem /\ \A l \in S : x \notin Owned(l)
    OBVIOUS
  <2>3. PICK l \in Slots, j \in Idx : IsBuf(l, j) /\ x = Addr(l, j)
    BY <1>0, <2>1, <2>2 DEF Accounted
  <2>4. x # Null
    BY <1>0, <2>2 DEF Tidy, Null
  <2>5. l \notin S
    BY <1>0, <2>2, <2>3, <2>4, OwnedOnes
  <2> QED
    BY <1>3, <2>3, <2>5
<1> QED
  BY <1>2, <1>5, <1>6 DEF LfInv

LEMMA LoadStep ==
  ASSUME LfInv, NEW at, LoadKernel(at), ~(UNCHANGED <<kern, mem, shadowed>>)
  PROVE  LfInv'
<1> DEFINE free == Slots \ InUse
           s    == Min(free)
           new  == [Unused EXCEPT !.used = TRUE]
<1>0. Tidy /\ Owning /\ Accounted
  BY DEF LfInv
<1>1. InUse # Slots /\ kern' = [kern EXCEPT ![s] = new] /\ mem' = mem /\ shadowed' = shadowed
  BY DEF LoadKernel, Die
<1>2. s \in free
  <2>1. free \subseteq Nat
    BY PoolAssumption DEF Slots
  <2>2. PICK x \in Slots : x \notin InUse
    BY <1>1, SetExtensionality, Zenon DEF InUse
  <2>3. free # {}
    BY <2>2
  <2> QED
    BY <2>1, <2>3, MinIn
<1> HIDE DEF s
<1>3. s \in Slots /\ ~kern[s].used
  BY <1>2 DEF InUse
<1>4. /\ kern \in [Slots -> KernRecords] /\ new \in KernRecords
      /\ \A i \in Idx : new.args[i].kind = "none" /\ kern[s].args[i].kind = "none"
  BY <1>0, <1>3, CleanSlots DEF Tidy
<1> HIDE DEF new
<1>5. /\ kern' \in [Slots -> KernRecords] /\ kern'[s] = new
      /\ \A k \in Slots : k # s => kern'[k] = kern[k]
  BY <1>1, <1>3, <1>4
<1>6. Tidy'
  BY <1>0, <1>1, <1>3, <1>4, <1>5 DEF Tidy
<1>7. \A k \in Slots, i \in Idx :
        /\ IsBuf(k, i)' <=> IsBuf(k, i)
        /\ IsBuf(k, i) => Addr(k, i)' = Addr(k, i)
  BY <1>3, <1>4, <1>5 DEF IsBuf, Addr
<1>8. Owning' /\ Accounted'
  BY <1>0, <1>1, <1>7 DEF Owning, Apart, Accounted
<1> QED
  BY <1>6, <1>8 DEF LfInv

-----------------------------------------------------------------------------
(* The memory of the arguments is theirs alone, and accounted for. *)
LEMMA LfInvariant == Spec => []LfInv
<1>1. Init => LfInv
  <2>1. SUFFICES ASSUME Init PROVE LfInv
    OBVIOUS
  <2>2. \A k \in Slots : kern[k] = Unused
    BY <2>1 DEF Init
  <2>3. kern \in [Slots -> KernRecords] /\ mem = {}
    BY <2>1, CleanSlots DEF Init
  <2>4. \A k \in Slots, i \in Idx : kern[k].args[i].kind = "none"
    BY <2>2, CleanSlots
  <2> QED
    BY <2>3, <2>4 DEF LfInv, Tidy, Owning, Apart, Accounted, IsBuf
<1>2. LfInv /\ [Next]_vars => LfInv'
  <2>1. SUFFICES ASSUME LfInv, [Next]_vars PROVE LfInv'
    OBVIOUS
  <2>2. CASE UNCHANGED <<kern, mem, shadowed>>
    BY <2>1, <2>2 DEF LfInv, Tidy, Owning, Apart, Accounted, IsBuf, Addr
  <2>3. CASE ~(UNCHANGED <<kern, mem, shadowed>>)
    <3>1. Step
      BY <2>1, <2>3 DEF Next, vars
    <3>2. ASSUME NEW at, GpuInit(at) PROVE FALSE
      BY <2>3, <3>2 DEF GpuInit, Die
    <3>3. ASSUME NEW k \in Slots, NEW at, Launch(k, at) PROVE FALSE
      BY <2>3, <3>3 DEF Launch, Die
    <3>4. ASSUME NEW k \in Slots, ReleaseKernel(k) PROVE LfInv'
      <4>1. /\ mem' = mem \ UNION {Owned(l) : l \in {k}}
            /\ kern' = [l \in Slots |-> IF l \in {k} THEN Unused ELSE kern[l]]
            /\ shadowed' = shadowed /\ {k} \in SUBSET Slots
        BY <2>1, <3>4 DEF ReleaseKernel, LfInv, Tidy
      <4> QED
        BY <2>1, <4>1, Cleared
    <3>5. ASSUME Shutdown PROVE LfInv'
      <4>1. /\ UNION {Owned(l) : l \in InUse} = UNION {Owned(l) : l \in Slots}
        <5>1. ASSUME NEW l \in Slots, l \notin InUse PROVE Owned(l) = {}
          <6>1. \A i \in Idx : ~IsBuf(l, i)
            BY <2>1, <5>1 DEF InUse, LfInv, Tidy, IsBuf
          <6>2. \A x : x \notin Owned(l)
            BY <2>1, <6>1, OwnedOnes DEF LfInv
          <6> QED
            BY <6>2
        <5>2. InUse \subseteq Slots
          BY DEF InUse
        <5> QED
          BY <5>1, <5>2
      <4>2. /\ mem' = mem \ UNION {Owned(l) : l \in Slots}
            /\ kern' = [l \in Slots |-> IF l \in Slots THEN Unused ELSE kern[l]]
            /\ shadowed' = shadowed
        BY <3>5, <4>1 DEF Shutdown
      <4> QED
        BY <2>1, <4>2, Cleared
    <3> QED
      BY <2>1, <2>3, <3>1, <3>2, <3>3, <3>4, <3>5, LoadStep, SetBufferStep, SetScalarStep
      DEF Step
  <2> QED
    BY <2>2, <2>3
<1> QED
  BY <1>1, <1>2, PTL DEF Spec

(* THEOREM.  Whatever is set, overwritten, loaded and released, and        *)
(* however the allocator uses addresses again, a buffer argument of a      *)
(* kernel in use has memory, and nobody else has it: set_buffer_arg frees  *)
(* the pointer it replaces and only that one.                              *)
THEOREM BuffersAreLive == Spec => []BuffersLive
BY LfInvariant, Implied, PTL

(* THEOREM.  Device memory belongs to an argument, or lost its owner when  *)
(* set_scalar_arg went over a buffer; release and shutdown leave nothing   *)
(* else behind.                                                            *)
THEOREM MemoryIsAccounted == Spec => []MemoryAccounted
BY LfInvariant, Implied, PTL

(* THEOREM.  With the CUDA file, a program that is still running has no    *)
(* array with what a kernel that faulted left: nv_rt_sync says so before   *)
(* the first copy, and lf_die ends the process.                            *)
THEOREM FailureIsLoud == Spec => []NoSilentJunk
<1> DEFINE Clean == runtime = "cuda" => \A a \in Arrays : host[a] # "junk"
<1>1. Init => Clean
  BY DEF Init
<1>2. Clean /\ [Next]_vars => Clean'
  <2>1. SUFFICES ASSUME Clean, Next, runtime' = "cuda" PROVE \A a \in Arrays : host'[a] # "junk"
    BY DEF vars
  <2>2. runtime = "cuda" /\ FaultReported
    BY <2>1 DEF Next, FaultReported
  <2>3. CASE host' = host
    BY <2>1, <2>2, <2>3
  <2>4. ASSUME NEW k \in Slots, NEW at, Launch(k, at), host' # host
        PROVE  \A a \in Arrays : host'[a] # "junk"
    <3>1. at # "fault"
      BY <2>2, <2>4 DEF Launch, Die
    <3>2. host' = [a \in Arrays |-> IF \E j \in Bufs(k) : kern[k].args[j].hptr = a
                                   THEN "out" ELSE host[a]]
      BY <2>4, <3>1 DEF Launch, Die
    <3> QED
      BY <2>1, <2>2, <3>2
  <2>5. ASSUME NEW k \in Slots, NEW i \in Idx, NEW a \in Arrays, NEW at,
               SetBufferArg(k, i, a, at)
        PROVE  host' = host
    BY <2>5 DEF SetBufferArg, Die
  <2>6. ASSUME NEW at, GpuInit(at) \/ LoadKernel(at) \/ Shutdown PROVE host' = host
    BY <2>6 DEF GpuInit, LoadKernel, Shutdown, Die
  <2>7. ASSUME NEW k \in Slots, NEW i, NEW v, ReleaseKernel(k) \/ SetScalarArg(k, i, v)
        PROVE  host' = host
    BY <2>7 DEF ReleaseKernel, SetScalarArg
  <2>8. Step
    BY <2>1 DEF Next
  <2> QED
    BY <2>3, <2>4, <2>5, <2>6, <2>7, <2>8, SMTT(30) DEF Step
<1>3. Clean => NoSilentJunk
  BY DEF NoSilentJunk
<1> QED
  BY <1>1, <1>2, <1>3, PTL DEF Spec

(* THEOREM.  The first word of every parameter is the one that was set, in *)
(* both files, whatever the widths of the arguments before it: the last    *)
(* memcpy to touch a parameter's own word is its own.  A second word is    *)
(* right in lf_gpu.c; in lf_gpu_hsa.c what follows in the block is there.  *)
THEOREM KernelsSeeArgs == Spec => []KernelSeesArgs
<1>1. LfInv => KernelSeesArgs
  <2>1. SUFFICES ASSUME LfInv, NEW k \in InUse, ~Gap(k), NEW j \in 1 .. kern[k].nargs,
                        NEW w \in 1 .. Len(Words(kern[k].args[j]))
                 PROVE  Param(k, j, w) =
                          IF w = 1 \/ runtime = "cuda" THEN Words(kern[k].args[j])[w]
                          ELSE IF j < kern[k].nargs THEN Words(kern[k].args[j + 1])[1]
                          ELSE HiddenWords[1]
    BY Zenon DEF KernelSeesArgs
  <2> DEFINE n == kern[k].nargs
             W(i) == Words(kern[k].args[i])
  <2>2. k \in Slots /\ n \in 0 .. MaxArgs /\ MaxArgs \in Nat /\ j \in 1 .. n
    BY <2>1, PoolAssumption DEF InUse, LfInv, Tidy, KernRecords
  <2>3. ASSUME NEW i \in 1 .. n PROVE W(i) \in Seq(Int) /\ Len(W(i)) \in 1 .. 2
    <3>1. i \in Idx /\ kern[k].args[i].kind # "none"
      BY <2>1, <2>2 DEF Gap, Idx
    <3>2. kern[k].args[i] \in ArgRecords
      BY <2>1, <2>2, <3>1 DEF LfInv, Tidy, KernRecords
    <3>3. kern[k].args[i].dptr \in Int /\ (kern[k].args[i].kind = "scal" => kern[k].args[i].scal \in Scalars)
          /\ kern[k].args[i].kind \in {"buf", "scal"}
      BY <3>1, <3>2, PoolAssumption DEF ArgRecords
    <3> QED
      BY <3>3, WidthAssumption DEF Words
  <2> HIDE DEF W
  <2>4. ASSUME NEW i \in 1 .. n PROVE Packed(k)[i] = W(i)[1]
    <3>1. Writers(k, i) = {h \in 1 .. n : i \in h .. h + Len(W(h)) - 1}
      BY DEF Writers, W
    <3>2. i \in Writers(k, i) /\ Writers(k, i) \subseteq Int /\ \A h \in Writers(k, i) : h <= i
      <4>1. Len(W(i)) \in 1 .. 2 /\ i \in Int
        BY <2>3, <2>2
      <4>2. i \in i .. i + Len(W(i)) - 1
        BY <4>1, Reaches
      <4>3. ASSUME NEW h \in 1 .. n, i \in h .. h + Len(W(h)) - 1 PROVE h <= i
        BY <4>3
      <4> QED
        BY <2>2, <3>1, <4>2, <4>3
    <3>3. Max(Writers(k, i)) = i
      BY <3>2, LargestIs
    <3>4. i \in 1 .. MaxArgs + 4 /\ i \notin (n + 1) .. (n + 1 + 1) /\ i - i + 1 = 1
      BY <2>2
    <3>5. Packed(k)[i] = Words(kern[k].args[Max(Writers(k, i))])[i - Max(Writers(k, i)) + 1]
      BY <3>2, <3>4 DEF Packed, Block
    <3> QED
      BY <3>3, <3>4, <3>5 DEF W
  <2>5. Packed(k)[n + 1] = HiddenWords[1]
    <3>1. n \in 0 .. MaxArgs /\ MaxArgs \in Nat
      BY <2>2
    <3> HIDE DEF n
    <3>2. n + 1 \in 1 .. MaxArgs + 4 /\ n + 1 \in (n + 1) .. (n + 1 + 1)
          /\ n + 1 - (n + 1) + 1 = 1
      BY <3>1
    <3> USE DEF n
    <3> QED
      BY <3>2 DEF Packed, Block
  <2>6. w = 1 \/ w = 2
    <3>1. Len(W(j)) \in 1 .. 2 /\ w \in 1 .. Len(W(j))
      BY <2>2, <2>3 DEF W
    <3> QED
      BY <3>1, Reaches
  <2>7. CASE runtime = "cuda"
    BY <2>7 DEF Param
  <2>8. CASE runtime # "cuda" /\ w = 1
    <3>1. j + 1 - 1 = j
      BY <2>2
    <3> QED
      BY <2>2, <2>4, <2>8, <3>1 DEF Param, W
  <2>9. CASE runtime # "cuda" /\ w = 2
    <3>1. j + 2 - 1 = j + 1 /\ (j < n => j + 1 \in 1 .. n) /\ (~(j < n) => j + 1 = n + 1)
      BY <2>2
    <3> QED
      BY <2>2, <2>4, <2>5, <2>9, <3>1 DEF Param, W
  <2> QED
    BY <2>6, <2>7, <2>8, <2>9
<1> QED
  BY <1>1, LfInvariant, PTL
=============================================================================
