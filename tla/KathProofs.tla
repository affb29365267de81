----------------------------- MODULE KathProofs -----------------------------
(***************************************************************************)
(* Theorems about the kath command, for any back ends, flags, jobs,        *)
(* processes, files and arguments.                                         *)
(***************************************************************************)
EXTENDS Kath, FiniteSetTheorems, SequenceTheorems, TLAPS

(* The least of some numbers is one of them. *)
LEMMA MinIn ==
  ASSUME NEW T, T \subseteq Nat, T # {}
  PROVE  Driver!Min(T) \in T /\ \A y \in T : Driver!Min(T) <= y
<1> DEFINE R == {ss \in Nat \X Nat : ss[1] < ss[2]}
<1>1. IsWellFoundedOn(R, Nat)
  BY NatLessThanWellFounded, Zenon DEF OpToRel
<1> HIDE DEF R
<1>2. PICK x \in T : \A y \in T : <<y, x>> \notin R
  BY <1>1, WFMin
<1>3. ASSUME NEW y \in T PROVE x <= y
  <2>1. x \in Nat /\ y \in Nat
    OBVIOUS
  <2>2. <<y, x>> \in Nat \X Nat /\ <<y, x>>[1] = y /\ <<y, x>>[2] = x
    BY <2>1
  <2>3. ~(y < x)
    BY <1>2, <2>2, Zenon DEF R
  <2> QED
    BY <2>1, <2>3
<1> QED
  BY <1>3, Zenon DEF Driver!Min

-----------------------------------------------------------------------------
(***************************************************************************)
(* The compile driver.                                                     *)
(***************************************************************************)
CallRecords == [flags : SUBSET Flags, chost : BOOLEAN, fission : BOOLEAN, bir : BOOLEAN]

Selected(c) == {b \in Driver!Backends : "on" \in Driver!Asked(c)[b]}
Wants(c) == c.chost \/ c.fission \/ c.bir \/ Selected(c) # {}

(* What a call may have written when it returns 0, of a module with these  *)
(* facts.                                                                  *)
Whole(f, b) == ~f.ovf /\ (f.bytes => b \in Bytes) /\ (f.calls => b \notin Uncalled)

Written(c, o, f) ==
  \/ (Selected(c) = {} \/ c.fission) /\ o = Driver!NoOut
  \/ /\ ~c.fission
     /\ \E b \in Selected(c) :
          /\ Selected(c) = {b} /\ o = [be |-> b, opts |-> Driver!Asked(c)[b]]
          /\ Whole(f, b)

Good(c, o, f) == IF c.chost THEN o = [be |-> "host", opts |-> {}] ELSE Written(c, o, f)

(* What is on record of a call that has returned. *)
Outs == [be : Driver!Backends \cup {"none", "host"}, opts : SUBSET UNION {f.sets : f \in Flags}]
Returns == {r \in [call : CallRecords, rc : {0, 1}, out : Outs, facts : Driver!AllFacts] :
              r.rc = 0 => Good(r.call, r.out, r.facts)}

DriverShapes ==
  /\ pc \in {"call", "front", "checks", "passes", "isel", "verify", "emit", "free", "return"}
  /\ job \in Seq(CallRecords) /\ (pc # "call" => job # <<>>)
  /\ module \in {"none", "live", "freed"} /\ facts \in Driver!AllFacts
  /\ mmod \in BOOLEAN /\ failed \in BOOLEAN /\ out \in Outs
  /\ rets \in Seq(Returns)

(* The options are those of the current call. *)
OfStore == pc # "call" => store = Driver!Asked(Driver!Call)

(* What the module may be when the back end looks at it. *)
OfFacts ==
  /\ pc \in {"passes", "isel", "verify", "emit"} =>
       /\ facts.bytes => Driver!ActiveBe \in Bytes \cup {"none"}
       /\ facts.calls => Driver!ActiveBe \notin Uncalled
  /\ pc \in {"isel", "verify", "emit"} => ~facts.ovf /\ ~Driver!Call.fission
  /\ pc \in {"verify", "emit"} => Driver!NumOn = 1

(* What is written so far. *)
OfOut ==
  /\ pc \in {"front", "checks", "passes", "isel", "verify", "emit"} => out = Driver!NoOut
  /\ pc = "free" /\ ~failed => Written(Driver!Call, out, facts)
  /\ pc = "return" /\ ~failed => Good(Driver!Call, out, facts)

(* One module at a time, and every later call makes its own. *)
OfModule ==
  /\ mmod <=> pc \in {"verify", "emit"}
  /\ pc \in {"call", "front", "return"} => module # "live"
  /\ pc \in {"checks", "passes", "isel", "verify", "emit"} => module = "live"
  /\ pc = "free" => module = "live" \/ (module = "none" /\ ~Driver!WantBir)
  /\ \/ \A n \in DOMAIN job : Wants(job[n])
     \/ Len(job) = 1 /\ module = "none"

DriverInv == DriverShapes /\ OfStore /\ OfFacts /\ OfOut /\ OfModule

-----------------------------------------------------------------------------
(* be_num_on and be_active, in terms of what the current call asks for. *)
LEMMA FiniteBackends == IsFiniteSet(Driver!Backends)
<1>1. BeList \in Surjection(DOMAIN BeList, Driver!Backends)
  BY JobAssumption DEF Driver!Backends, Driver!Range, Surjection
<1>2. IsFiniteSet(DOMAIN BeList)
  BY JobAssumption, FS_Interval
<1> QED
  BY <1>1, <1>2, FS_Surjection

LEMMA ActiveOne ==
  ASSUME pc # "call", OfStore
  PROVE  LET c == Driver!Call IN
         /\ Driver!NumOn \in Nat
         /\ Driver!NumOn = 0 <=> Selected(c) = {}
         /\ Selected(c) = {} => Driver!ActiveBe = "none"
         /\ Selected(c) # {} => Driver!ActiveBe \in Selected(c)
         /\ Driver!NumOn = 1 => Selected(c) = {Driver!ActiveBe}
         /\ Driver!WantBir <=> Wants(c)
<1> DEFINE c == Driver!Call
           S == {b \in Driver!Backends : Driver!On(b)}
<1>1. S = Selected(c)
  BY DEF OfStore, Driver!On, Selected
<1>2. IsFiniteSet(S)
  BY FiniteBackends, FS_Subset
<1>3. Driver!NumOn = Cardinality(S)
  BY Zenon DEF Driver!NumOn, Driver!Cardinality, Cardinality
<1> HIDE DEF S
<1>4. Driver!NumOn \in Nat /\ (Driver!NumOn = 0 <=> S = {})
  BY <1>2, <1>3, FS_CardinalityType, FS_EmptySet
<1>5. ASSUME S # {} PROVE Driver!ActiveBe \in S
  <2> DEFINE T == {i \in DOMAIN BeList : Driver!On(BeList[i])}
  <2>1. T \subseteq Nat
    BY JobAssumption
  <2>2. T # {}
    BY <1>5 DEF S, Driver!Backends, Driver!Range
  <2>3. Driver!Min(T) \in T
    BY <2>1, <2>2, MinIn
  <2>4. Driver!ActiveBe = BeList[Driver!Min(T)]
    BY <1>4, <1>5 DEF Driver!ActiveBe
  <2> QED
    BY <2>3, <2>4 DEF S, Driver!Backends, Driver!Range
<1>6. S = {} => Driver!ActiveBe = "none"
  BY <1>4 DEF Driver!ActiveBe
<1>7. Driver!NumOn = 1 => S = {Driver!ActiveBe}
  <2>1. ASSUME Driver!NumOn = 1 PROVE \E x : S = {x}
    BY <1>2, <1>3, <2>1, FS_Singleton
  <2> QED
    BY <1>5, <2>1
<1>8. Driver!WantBir <=> Wants(c)
  BY <1>1, <1>4 DEF Driver!WantBir, Wants
<1> QED
  BY <1>1, <1>4, <1>5, <1>6, <1>7, <1>8

(* What the properties say of a return is what Returns does. *)
LEMMA DriverImplied ==
  ASSUME DriverInv
  PROVE  Driver!WroteWhatWasAsked /\ Driver!FreedOnce /\ Driver!EmittedWhole
<1>1. ASSUME NEW k \in DOMAIN rets, rets[k].rc = 0
      PROVE  Good(rets[k].call, rets[k].out, rets[k].facts)
  <2>1. rets[k] \in Returns
    BY DEF DriverInv, DriverShapes
  <2> QED
    BY <1>1, <2>1 DEF Returns
<1>2. "none" \notin Driver!Backends /\ "host" \notin Driver!Backends
  BY JobAssumption DEF Driver!Backends, Driver!Range
<1>3. Driver!WroteWhatWasAsked
  BY <1>1 DEF Driver!WroteWhatWasAsked, Good, Written, Selected
<1>4. Driver!EmittedWhole
  <2>1. SUFFICES ASSUME NEW k \in DOMAIN rets, rets[k].rc = 0, rets[k].out.be \in Driver!Backends
                 PROVE  Whole(rets[k].facts, rets[k].out.be)
    BY DEF Driver!EmittedWhole, Whole
  <2>2. Driver!NoOut.be = "none" /\ [be |-> "host", opts |-> {}].be = "host"
    BY DEF Driver!NoOut
  <2>3. Written(rets[k].call, rets[k].out, rets[k].facts) /\ rets[k].out # Driver!NoOut
    BY <1>1, <1>2, <2>1, <2>2 DEF Good
  <2>4. PICK b : /\ rets[k].out = [be |-> b, opts |-> Driver!Asked(rets[k].call)[b]]
                 /\ Whole(rets[k].facts, b)
    BY <2>3, Zenon DEF Written
  <2>5. rets[k].out.be = b
    BY <2>4
  <2> QED
    BY <2>4, <2>5
<1>5. Driver!FreedOnce
  BY DEF DriverInv, OfModule, Driver!FreedOnce
<1> QED
  BY <1>3, <1>4, <1>5

LEMMA Nothing ==
  /\ Driver!NoFacts \in Driver!AllFacts /\ Driver!NoOut \in Outs
  /\ [be |-> "host", opts |-> {}] \in Outs
<1> DEFINE O == SUBSET UNION {f.sets : f \in Flags}
           B == Driver!Backends \cup {"none", "host"}
<1>1. ASSUME NEW S, NEW x \in S, NEW T, NEW s \in T
      PROVE  [be |-> s, opts |-> x] \in [be : T, opts : S]
  OBVIOUS
<1>2. {} \in O /\ "none" \in B /\ "host" \in B
  OBVIOUS
<1> HIDE DEF O, B
<1>3. [be |-> "none", opts |-> {}] \in [be : B, opts : O]
  BY <1>1, <1>2, Zenon
<1>4. [be |-> "host", opts |-> {}] \in [be : B, opts : O]
  BY <1>1, <1>2, Zenon
<1>5. Driver!NoFacts \in Driver!AllFacts
  BY DEF Driver!NoFacts, Driver!AllFacts
<1> QED
  BY <1>3, <1>4, <1>5, Zenon DEF Driver!NoOut, Outs, O, B

LEMMA CallStartStep ==
  ASSUME DriverInv, Driver!CallStart
  PROVE  DriverInv'
<1> USE DEF Driver!CallStart
<1>1. DriverShapes'
  <2> QED
    BY Nothing DEF DriverInv, DriverShapes, Returns
<1>2. OfStore'
  BY DEF OfStore, Driver!Parsed, Driver!Asked, Driver!Call
<1>3. OfFacts' /\ OfOut' /\ OfModule'
  BY DEF DriverInv, DriverShapes, OfFacts, OfOut, OfModule
<1> QED
  BY <1>1, <1>2, <1>3 DEF DriverInv

LEMMA FrontEndStep ==
  ASSUME DriverInv, NEW ok \in BOOLEAN, NEW f \in Driver!AllFacts, Driver!FrontEnd(ok, f)
  PROVE  DriverInv'
<1> USE DEF Driver!FrontEnd
<1>1. pc = "front" /\ OfStore /\ DriverShapes /\ OfModule /\ OfOut /\ UNCHANGED <<job, store, out, mmod, rets>>
  BY DEF DriverInv
<1>2. DriverShapes'
  BY <1>1 DEF DriverShapes
<1>3. OfStore'
  BY <1>1 DEF OfStore, Driver!Asked, Driver!Call
<1>4. OfFacts'
  BY <1>1 DEF OfFacts
<1>5. Driver!Call' = Driver!Call /\ (Driver!WantBir)' = Driver!WantBir
  BY <1>1 DEF Driver!Call, Driver!WantBir, Driver!NumOn, Driver!On
<1>6. OfOut'
  <2>1. ~Driver!WantBir => Selected(Driver!Call) = {}
    BY <1>1, ActiveOne DEF Wants
  <2> QED
    BY <1>1, <1>5, <2>1 DEF OfOut, Written
<1>7. OfModule'
  <2>1. Wants(Driver!Call) <=> Driver!WantBir
    BY <1>1, ActiveOne
  <2>2. job # <<>> /\ job \in Seq(CallRecords)
    BY <1>1 DEF DriverShapes
  <2>3. Driver!Call = job[1] /\ 1 \in DOMAIN job
    BY <2>2 DEF Driver!Call
  <2>4. CASE Driver!WantBir
    <3>1. \A n \in DOMAIN job : Wants(job[n])
      BY <1>1, <2>1, <2>2, <2>3, <2>4 DEF OfModule
    <3> QED
      BY <1>1, <2>4, <3>1 DEF OfModule, DriverShapes
  <2>5. CASE ~Driver!WantBir
    <3>1. module = "none"
      BY <1>1, <2>1, <2>3, <2>5 DEF OfModule
    <3> QED
      BY <1>1, <1>5, <2>5, <3>1 DEF OfModule
  <2> QED
    BY <2>4, <2>5
<1> QED
  BY <1>2, <1>3, <1>4, <1>6, <1>7 DEF DriverInv

(* The steps that leave the call, its options, what is returned and, but   *)
(* for freeing it, the module alone.                                       *)
SameCall == UNCHANGED <<job, store, rets>>

LEMMA Kept ==
  ASSUME SameCall
  PROVE  /\ Driver!Call' = Driver!Call
         /\ Driver!ActiveBe' = Driver!ActiveBe /\ Driver!NumOn' = Driver!NumOn
         /\ (Driver!WantBir)' = Driver!WantBir
         /\ \A c : Driver!Asked(c)' = Driver!Asked(c)
<1>1. \A b : Driver!On(b)' = Driver!On(b)
  BY DEF SameCall, Driver!On
<1>2. Driver!NumOn' = Driver!NumOn /\ Driver!Call' = Driver!Call
  BY DEF SameCall, Driver!On, Driver!NumOn, Driver!Call
<1> QED
  BY <1>1, <1>2 DEF SameCall, Driver!ActiveBe, Driver!WantBir, Driver!On, Driver!Asked

LEMMA ChecksStep ==
  ASSUME DriverInv, NEW ok \in BOOLEAN, NEW grew \in BOOLEAN, Driver!Checks(ok, grew)
  PROVE  DriverInv'
<1> DEFINE b == Driver!ActiveBe
           refused == facts.ovf \/ ~ok \/ (facts.bytes /\ b # "none" /\ b \notin Bytes)
<1>1. /\ pc = "checks" /\ failed' = refused /\ pc' = IF refused THEN "free" ELSE "passes"
      /\ facts' = IF b \in Uncalled /\ ~refused
                  THEN [facts EXCEPT !.calls = FALSE, !.ovf = grew] ELSE facts
      /\ UNCHANGED <<job, store, module, mmod, out, rets>>
  BY DEF Driver!Checks
<1>2. DriverShapes /\ OfStore /\ OfOut /\ OfModule /\ SameCall
  BY <1>1 DEF DriverInv, SameCall
<1>3. facts' \in Driver!AllFacts /\ (facts'.bytes <=> facts.bytes)
      /\ (facts'.calls => facts.calls) /\ (~refused /\ facts'.calls => b \notin Uncalled)
  BY <1>1, <1>2 DEF DriverShapes, Driver!AllFacts
<1>4. refused \in BOOLEAN
  BY <1>2 DEF DriverShapes, Driver!AllFacts
<1>5. ~refused => (facts.bytes => b \in Bytes \cup {"none"})
  OBVIOUS
<1> HIDE DEF refused
<1>6. DriverShapes'
  BY <1>1, <1>2, <1>3, <1>4 DEF DriverShapes
<1>7. OfStore'
  BY <1>1, <1>2, Kept DEF OfStore
<1>8. OfFacts'
  BY <1>1, <1>2, <1>3, <1>5, Kept DEF OfFacts
<1>9. OfOut'
  BY <1>1, <1>2, Kept DEF OfOut
<1>10. OfModule'
  BY <1>1, <1>2, Kept DEF OfModule
<1> QED
  BY <1>6, <1>7, <1>8, <1>9, <1>10 DEF DriverInv

LEMMA PassesStep ==
  ASSUME DriverInv, NEW grew \in BOOLEAN, Driver!Passes(grew)
  PROVE  DriverInv'
<1>1. /\ pc = "passes" /\ facts' = [facts EXCEPT !.ovf = @ \/ grew]
      /\ failed' = facts'.ovf
      /\ pc' = IF facts'.ovf \/ Driver!Call.fission THEN "free" ELSE "isel"
      /\ UNCHANGED <<job, store, module, mmod, out, rets>>
  BY DEF Driver!Passes
<1>2. DriverShapes /\ OfStore /\ OfFacts /\ OfOut /\ OfModule /\ SameCall
  BY <1>1 DEF DriverInv, SameCall
<1>3. /\ facts' \in Driver!AllFacts /\ facts'.ovf \in BOOLEAN
      /\ facts'.bytes = facts.bytes /\ facts'.calls = facts.calls
  BY <1>1, <1>2 DEF DriverShapes, Driver!AllFacts
<1>6. DriverShapes'
  BY <1>1, <1>2, <1>3 DEF DriverShapes
<1>7. OfStore'
  BY <1>1, <1>2, Kept DEF OfStore
<1>8. OfFacts'
  BY <1>1, <1>2, <1>3, Kept DEF OfFacts
<1>9. OfOut'
  BY <1>1, <1>2, Kept DEF OfOut, Written
<1>10. OfModule'
  BY <1>1, <1>2, Kept DEF OfModule
<1> QED
  BY <1>6, <1>7, <1>8, <1>9, <1>10 DEF DriverInv

LEMMA IselStep ==
  ASSUME DriverInv, NEW ok \in BOOLEAN, Driver!Isel(ok) \/ Driver!Verify(ok)
  PROVE  DriverInv'
<1>1. /\ pc \in {"isel", "verify"} /\ UNCHANGED <<job, store, module, facts, out, rets>>
      /\ \/ pc = "isel" /\ Driver!NumOn # 1 /\ failed' = (Driver!NumOn > 1)
            /\ pc' = "free" /\ mmod' = mmod
         \/ /\ pc = "isel" => Driver!NumOn = 1
            /\ failed' = ~ok /\ mmod' = ok
            /\ pc' = IF ~ok THEN "free" ELSE IF pc = "isel" THEN "verify" ELSE "emit"
  BY DEF Driver!Isel, Driver!Verify
<1>2. DriverShapes /\ OfStore /\ OfFacts /\ OfOut /\ OfModule /\ SameCall
  BY <1>1 DEF DriverInv, SameCall
<1>3. Driver!NumOn \in Nat /\ (Driver!NumOn = 0 => Selected(Driver!Call) = {})
  BY <1>1, <1>2, ActiveOne
<1>4. /\ failed' \in BOOLEAN /\ mmod' \in BOOLEAN
      /\ pc' = "free" /\ ~failed' => pc = "isel" /\ Selected(Driver!Call) = {}
  <2>1. mmod \in BOOLEAN
    BY <1>2 DEF DriverShapes
  <2>2. CASE pc = "isel" /\ Driver!NumOn > 1
    BY <1>1, <1>3, <2>1, <2>2
  <2>3. CASE pc = "isel" /\ Driver!NumOn = 0
    BY <1>1, <1>3, <2>1, <2>3
  <2>4. CASE pc = "verify" \/ Driver!NumOn = 1
    BY <1>1, <2>4
  <2> QED
    BY <1>1, <1>3, <2>2, <2>3, <2>4
<1>6. DriverShapes'
  BY <1>1, <1>2, <1>4 DEF DriverShapes
<1>7. OfStore'
  BY <1>1, <1>2, Kept DEF OfStore
<1>8. OfFacts'
  BY <1>1, <1>2, Kept DEF OfFacts
<1>9. OfOut'
  BY <1>1, <1>2, <1>4, Kept DEF OfOut, Written
<1>10. OfModule'
  BY <1>1, <1>2, Kept DEF OfModule
<1> QED
  BY <1>6, <1>7, <1>8, <1>9, <1>10 DEF DriverInv

LEMMA EmitStep ==
  ASSUME DriverInv, NEW ok \in BOOLEAN, Driver!Emit(ok)
  PROVE  DriverInv'
<1> DEFINE b == Driver!ActiveBe
           c == Driver!Call
           new == [be |-> b, opts |-> store[b]]
<1>1. /\ pc = "emit" /\ failed' = ~ok /\ mmod' = FALSE /\ pc' = "free"
      /\ out' = IF ok THEN new ELSE out
      /\ UNCHANGED <<job, store, module, facts, rets>>
  BY DEF Driver!Emit
<1>2. DriverShapes /\ OfStore /\ OfFacts /\ OfOut /\ OfModule /\ SameCall
  BY <1>1 DEF DriverInv, SameCall
<1>3. Driver!NumOn = 1 /\ ~c.fission /\ ~facts.ovf
  BY <1>1, <1>2 DEF OfFacts
<1>4. Selected(c) = {b} /\ b \in Driver!Backends /\ b # "none"
  <2>1. Selected(c) = {b}
    BY <1>1, <1>2, <1>3, ActiveOne
  <2>2. b \in Driver!Backends
    BY <2>1 DEF Selected
  <2> QED
    BY <2>1, <2>2, JobAssumption DEF Driver!Backends, Driver!Range
<1>5. store[b] = Driver!Asked(c)[b] /\ store[b] \in SUBSET UNION {f.sets : f \in Flags}
  <2>1. c \in CallRecords
    BY <1>1, <1>2 DEF DriverShapes, Driver!Call
  <2>2. c.flags \subseteq Flags
    BY <2>1 DEF CallRecords
  <2>3. store = Driver!Asked(c)
    BY <1>1, <1>2 DEF OfStore
  <2>4. store[b] = UNION {f.sets : f \in {g \in c.flags : g.be = b}}
    BY <1>4, <2>3 DEF Driver!Asked
  <2> QED
    BY <2>2, <2>3, <2>4
<1>6. new \in Outs
  BY <1>4, <1>5 DEF Outs
<1>7. ok => Written(c, new, facts)
  BY <1>1, <1>2, <1>3, <1>4, <1>5 DEF Written, Whole, OfFacts
<1> HIDE DEF new
<1>8. DriverShapes'
  BY <1>1, <1>2, <1>6 DEF DriverShapes
<1>9. OfStore'
  BY <1>1, <1>2, Kept DEF OfStore
<1>10. OfFacts'
  BY <1>1, <1>2, Kept DEF OfFacts
<1>11. OfOut'
  BY <1>1, <1>2, <1>7, Kept DEF OfOut
<1>12. OfModule'
  BY <1>1, <1>2, Kept DEF OfModule
<1> QED
  BY <1>8, <1>9, <1>10, <1>11, <1>12 DEF DriverInv

LEMMA FreeStep ==
  ASSUME DriverInv, NEW ok \in BOOLEAN, Driver!Free(ok)
  PROVE  DriverInv'
<1> DEFINE c == Driver!Call
           host == [be |-> "host", opts |-> {}]
<1>1. /\ pc = "free" /\ pc' = "return"
      /\ module' = IF module = "none" THEN "none" ELSE "freed"
      /\ failed' = (failed \/ (c.chost /\ ~ok))
      /\ out' = IF c.chost /\ ok /\ ~failed THEN host ELSE out
      /\ UNCHANGED <<job, store, facts, mmod, rets>>
  BY DEF Driver!Free
<1>2. DriverShapes /\ OfStore /\ OfOut /\ OfModule /\ SameCall
  BY <1>1 DEF DriverInv, SameCall
<1>3. host \in Outs
  BY Nothing
<1>4. c \in CallRecords
  BY <1>1, <1>2 DEF DriverShapes, Driver!Call
<1>5. failed' \in BOOLEAN /\ (~failed' => ~failed /\ (c.chost => ok)) /\ c.chost \in BOOLEAN
  BY <1>1, <1>2, <1>4 DEF DriverShapes, CallRecords
<1>6. DriverShapes'
  BY <1>1, <1>2, <1>3, <1>5 DEF DriverShapes
<1>7. OfStore'
  BY <1>1, <1>2, Kept DEF OfStore
<1>8. OfFacts'
  BY <1>1 DEF OfFacts
<1>9. OfOut'
  <2>1. ASSUME ~failed' PROVE Good(c, out', facts)
    BY <1>1, <1>2, <1>5, <2>1 DEF OfOut, Good
  <2> QED
    BY <1>1, <1>2, <2>1, Kept DEF OfOut
<1>10. OfModule'
  <2>1. module = "none" \/ \A n \in DOMAIN job : Wants(job[n])
    BY <1>2 DEF OfModule
  <2>2. DOMAIN job' = DOMAIN job /\ Len(job') = Len(job)
    BY <1>1
  <2> QED
    BY <1>1, <1>2, <2>1, Kept DEF OfModule, DriverShapes
<1> QED
  BY <1>6, <1>7, <1>8, <1>9, <1>10 DEF DriverInv

LEMMA ReturnStep ==
  ASSUME DriverInv, Driver!Return
  PROVE  DriverInv'
<1> DEFINE c == Driver!Call
           r == [call |-> c, rc |-> IF failed THEN 1 ELSE 0, out |-> out, facts |-> facts]
<1>1. /\ pc = "return" /\ pc' = "call" /\ failed' = FALSE
      /\ rets' = Append(rets, r) /\ job' = Tail(job)
      /\ UNCHANGED <<store, module, facts, mmod, out>>
  BY DEF Driver!Return
<1>2. DriverShapes /\ OfOut /\ OfModule
  BY DEF DriverInv
<1>3. job \in Seq(CallRecords) /\ job # <<>> /\ c \in CallRecords /\ Tail(job) \in Seq(CallRecords)
  BY <1>1, <1>2 DEF DriverShapes, Driver!Call
<1>4. r \in Returns
  <2>1. r \in [call : CallRecords, rc : {0, 1}, out : Outs, facts : Driver!AllFacts]
    BY <1>2, <1>3 DEF DriverShapes
  <2>2. r.rc = 0 => Good(r.call, r.out, r.facts)
    BY <1>1, <1>2 DEF OfOut, DriverShapes
  <2> QED
    BY <2>1, <2>2 DEF Returns
<1> HIDE DEF r
<1>5. DriverShapes'
  <2>1. Append(rets, r) \in Seq(Returns)
    BY <1>2, <1>4 DEF DriverShapes
  <2> QED
    BY <1>1, <1>2, <1>3, <2>1 DEF DriverShapes
<1>6. OfModule'
  <2>1. \A n \in DOMAIN Tail(job) : Wants(Tail(job)[n])
    <3>1. CASE Len(job) = 1
      <4>1. Len(Tail(job)) = 0
        <5>1. Len(Tail(job)) = Len(job) - 1
          BY <1>3, HeadTailProperties, SMTT(30)
        <5> QED
          BY <3>1, <5>1
      <4>2. DOMAIN Tail(job) = 1 .. 0
        <5>1. DOMAIN Tail(job) = 1 .. Len(Tail(job))
          BY <1>3, LenProperties
        <5> QED
          BY <4>1, <5>1
      <4> QED
        BY <4>2
    <3>2. CASE \A n \in DOMAIN job : Wants(job[n])
      BY <1>3, <3>2
    <3> QED
      BY <1>2, <3>1, <3>2 DEF OfModule
  <2> QED
    BY <1>1, <1>2, <2>1 DEF OfModule, Wants, Selected, Driver!Asked
<1> QED
  BY <1>1, <1>5, <1>6 DEF DriverInv, OfStore, OfFacts, OfOut

LEMMA DriverInitially ==
  ASSUME Driver!Init
  PROVE  DriverInv
<1>1. job \in Jobs /\ job \in Seq(CallRecords)
  BY JobAssumption DEF Driver!Init, CallRecords
<1>2. DriverShapes
  <2>1. <<>> \in Seq(Returns)
    OBVIOUS
  <2> QED
    BY <1>1, <2>1, Nothing DEF Driver!Init, DriverShapes
<1>3. OfModule
  <2>1. CASE Len(job) > 1
    <3>1. ASSUME NEW n \in DOMAIN job PROVE Wants(job[n])
      <4>1. \/ job[n].chost \/ job[n].fission \/ job[n].bir
            \/ \E f \in job[n].flags, i \in DOMAIN BeList : f.be = BeList[i] /\ "on" \in f.sets
        BY <1>1, <2>1, JobAssumption, Zenon
      <4>2. ASSUME NEW f \in job[n].flags, NEW i \in DOMAIN BeList,
                   f.be = BeList[i], "on" \in f.sets
            PROVE  BeList[i] \in Selected(job[n])
        <5>1. BeList[i] \in Driver!Backends
          BY DEF Driver!Backends, Driver!Range
        <5>2. f \in {g \in job[n].flags : g.be = BeList[i]}
          BY <4>2
        <5> QED
          BY <4>2, <5>1, <5>2 DEF Selected, Driver!Asked
      <4> QED
        BY <4>1, <4>2 DEF Wants
    <3> QED
      BY <3>1 DEF OfModule, Driver!Init
  <2>2. CASE Len(job) <= 1
    <3>1. Len(job) = 1 \/ DOMAIN job = {}
      <4>1. Len(job) \in Nat /\ DOMAIN job = 1 .. Len(job)
        BY <1>1
      <4> QED
        BY <2>2, <4>1
    <3> QED
      BY <3>1 DEF OfModule, Driver!Init
  <2> QED
    BY <1>1, <2>1, <2>2
<1> QED
  BY <1>2, <1>3 DEF DriverInv, OfStore, OfFacts, OfOut, Driver!Init

LEMMA DriverStep ==
  ASSUME DriverInv, Driver!Next
  PROVE  DriverInv'
<1>1. CASE Driver!Done
  <2>1. UNCHANGED <<job, pc, store, module, facts, mmod, failed, out, rets>>
    BY <1>1 DEF Driver!Done, Driver!vars
  <2> QED
    BY <2>1, Kept DEF DriverInv, DriverShapes, OfStore, OfFacts, OfOut, OfModule, SameCall
<1> QED
  BY <1>1, CallStartStep, FrontEndStep, ChecksStep, PassesStep, IselStep, EmitStep, FreeStep,
     ReturnStep
  DEF Driver!Next

(* The other parts of the command do not touch the driver's variables. *)
LEMMA DriverCorrect == Spec => [](part = "driver" => DriverInv)
<1>1. Init => (part = "driver" => DriverInv)
  BY DriverInitially DEF Init
<1>2. (part = "driver" => DriverInv) /\ [Next]_vars => (part = "driver" => DriverInv)'
  <2>1. SUFFICES ASSUME part = "driver" => DriverInv, [Next]_vars, part' = "driver"
                 PROVE  DriverInv'
    OBVIOUS
  <2>2. part = "driver" /\ DriverInv
    BY <2>1 DEF Next, vars
  <2>3. CASE Driver!Next
    BY <2>2, <2>3, DriverStep
  <2>4. CASE UNCHANGED vars
    <3>1. UNCHANGED <<job, pc, store, module, facts, mmod, failed, out, rets>>
      BY <2>4 DEF vars, driverVars
    <3> QED
      BY <2>2, <3>1, Kept DEF DriverInv, DriverShapes, OfStore, OfFacts, OfOut, OfModule, SameCall
  <2> QED
    BY <2>1, <2>2, <2>3, <2>4 DEF Next
<1> QED
  BY <1>1, <1>2, PTL DEF Spec

(* THEOREM.  Whichever targets are registered and whatever a process       *)
(* compiles one after the other, a kath_compile that returns 0 has written *)
(* exactly what its own flags select, with its own options, and nothing is *)
(* left over from the call before: no option, no module, no double free.   *)
THEOREM DriverWritesWhatIsAsked == Spec => []WroteWhatWasAsked
BY DriverCorrect, DriverImplied, PTL DEF WroteWhatWasAsked

(* THEOREM.  No back end is handed a module in which a pool overflowed, or *)
(* byte globals or device calls it cannot hold.                            *)
THEOREM DriverEmitsWhole == Spec => []EmittedWhole
BY DriverCorrect, DriverImplied, PTL DEF EmittedWhole

-----------------------------------------------------------------------------
(***************************************************************************)
(* The launcher.                                                           *)
(***************************************************************************)
Kinds == Launch!Buffers \cup {"int", "flt"}
SlotRecords == {s \in [kind : Kinds, path : Paths \cup {Launch!NoPath}, host : Int, dptr : Nat] :
                  s.kind \in Launch!Buffers => s.path \in Paths}

LaunchShapes ==
  /\ pc \in {"idle", "load", "stage", "sync", "fetch", "finish"}
  /\ slots \in Seq(SlotRecords) /\ Len(slots) <= MaxSlots
  /\ at \in 1 .. Len(slots) + 1
  /\ exit \in Int /\ (pc # "idle" => exit = -1)
  /\ mem \in [Launch!Addrs -> Int] /\ files \in [Paths -> Int]

IsBuf(j) == slots[j].kind \in Launch!Buffers
IsOut(j) == slots[j].kind \in Launch!OutKinds
Addr(j)  == slots[j].dptr
Live(a)  == mem[a] # Launch!Absent

(* The first n arguments have been staged, the others have nothing. *)
Staged(n) ==
  \A j \in DOMAIN slots :
    IF j <= n /\ IsBuf(j) THEN Addr(j) \in Launch!Addrs /\ Live(Addr(j))
    ELSE Addr(j) = Launch!NoMem /\ slots[j].host = Launch!Absent

(* The inputs among them hold what the files hold. *)
Loaded(n) ==
  \A j \in DOMAIN slots : j <= n /\ slots[j].kind \in Launch!InKinds =>
    mem[Addr(j)] = files[slots[j].path]

(* Device memory belongs to one argument. *)
OneOwner ==
  /\ \A a \in Launch!Addrs : Live(a) => \E j \in DOMAIN slots : Addr(j) = a
  /\ \A j, k \in DOMAIN slots : Addr(j) = Addr(k) /\ Addr(j) # Launch!NoMem => j = k

(* The outputs hold what the kernel computed, and the first n of them are  *)
(* on disk.                                                                *)
Computed == \A j \in DOMAIN slots : IsOut(j) => mem[Addr(j)] = j
Fetched(n) ==
  \A j \in DOMAIN slots : j <= n /\ IsOut(j) =>
    files[slots[j].path] =
      Launch!Max({k \in DOMAIN slots : k <= n /\ IsOut(k) /\ slots[k].path = slots[j].path})

Phases ==
  /\ pc \in {"idle", "load"} => at = 1 /\ Staged(0) /\ ~kern /\ \A a \in Launch!Addrs : ~Live(a)
  /\ pc = "idle" => dev = "none"
  /\ pc = "stage" => /\ Staged(at - 1) /\ Loaded(at - 1)
                     /\ \A a \in Launch!Addrs : a >= at => ~Live(a)
  /\ pc \in {"idle", "load", "stage"} => kstate = "none" /\ rc = "ok"
  /\ pc = "sync" => /\ Staged(Len(slots)) /\ kstate \in {"running", "done", "faulted"}
                    /\ kstate = "done" => Computed
                    /\ kstate = "running" => Loaded(Len(slots)) /\ (dev = "cpu" => call = Launch!Banks /\ ~Launch!TooManyArgs)
  /\ pc = "fetch" => Staged(Len(slots)) /\ kstate = "done" /\ Computed /\ Fetched(at - 1)
  /\ pc = "finish" => kstate # "running" /\ (rc = "ok" => Fetched(Len(slots)))
  /\ exit = 0 => Fetched(Len(slots))

LaunchInv == LaunchShapes /\ OneOwner /\ Phases

-----------------------------------------------------------------------------
(* What the properties say, from the invariant. *)
LEMMA LargestIs ==
  ASSUME NEW T, T \subseteq Int, NEW x \in T, \A y \in T : y <= x
  PROVE  Launch!Max(T) = x
<1>1. \A z \in T : (\A y \in T : y <= z) => z = x
  OBVIOUS
<1> QED
  BY <1>1, Zenon DEF Launch!Max

LEMMA SlotOf ==
  ASSUME LaunchShapes, NEW j \in DOMAIN slots
  PROVE  /\ slots[j] \in SlotRecords /\ Addr(j) \in Nat /\ slots[j].host \in Int
         /\ IsBuf(j) => slots[j].path \in Paths
         /\ j \in 1 .. Len(slots) /\ Len(slots) \in Nat /\ j \in Nat \ {0} /\ j <= MaxSlots
<1>1. slots[j] \in SlotRecords /\ Len(slots) \in Nat /\ j \in 1 .. Len(slots)
  BY DEF LaunchShapes
<1> QED
  BY <1>1, RegAssumption DEF LaunchShapes, SlotRecords, Addr, IsBuf

(* Registers: no two arguments of a class have the same one. *)
LEMMA Registers ==
  ASSUME LaunchShapes, NEW j \in DOMAIN slots
  PROVE  LET c == IF Launch!IsFlt(j) THEN Launch!Flts ELSE Launch!Ints IN
         /\ Launch!Reg(j) \in 1 .. Cardinality(c)
         /\ {k \in c : Launch!Reg(k) = Launch!Reg(j)} = {j}
         /\ Launch!Reg(j) = Launch!Cardinality({k \in 1 .. j : (slots[k].kind = "flt") = (slots[j].kind = "flt")})
<1> DEFINE c == IF Launch!IsFlt(j) THEN Launch!Flts ELSE Launch!Ints
           B(k) == {i \in c : i < k}
<1>1. DOMAIN slots = 1 .. Len(slots) /\ Len(slots) \in Nat
  BY DEF LaunchShapes
<1>2. j \in c /\ c \subseteq 1 .. Len(slots) /\ \A k \in DOMAIN slots :
        k \in c <=> Launch!IsFlt(k) = Launch!IsFlt(j)
  BY <1>1 DEF Launch!Flts, Launch!Ints, Launch!IsFlt
<1> HIDE DEF c
<1>3. IsFiniteSet(c)
  <2>1. IsFiniteSet(1 .. Len(slots))
    BY <1>1, FS_Interval
  <2> QED
    BY <1>2, <2>1, FS_Subset
<1>4. ASSUME NEW k \in c
      PROVE  /\ IsFiniteSet(B(k)) /\ Cardinality(B(k)) \in Nat
             /\ Launch!Reg(k) = 1 + Cardinality(B(k))
             /\ IsFiniteSet(B(k) \cup {k}) /\ Cardinality(B(k) \cup {k}) = Cardinality(B(k)) + 1
  <2>1. IsFiniteSet(B(k)) /\ Cardinality(B(k)) \in Nat
    BY <1>3, FS_Subset, FS_CardinalityType
  <2>2. k \in DOMAIN slots /\ k \in Nat
    BY <1>1, <1>2
  <2>3. {i \in 1 .. k - 1 : Launch!IsFlt(i) = Launch!IsFlt(k)} = B(k)
    BY <1>1, <1>2, <2>2
  <2>4. Launch!Reg(k) = 1 + Cardinality(B(k))
    <3>1. Launch!Reg(k) = 1 + Launch!Cardinality(B(k))
      BY <2>3 DEF Launch!Reg
    <3>2. \A S : Launch!Cardinality(S) = Cardinality(S)
      BY Zenon DEF Launch!Cardinality, Cardinality
    <3> QED
      BY <3>1, <3>2
  <2>5. k \notin B(k)
    BY <2>2
  <2> QED
    BY <2>1, <2>4, <2>5, FS_AddElement
<1>9. ASSUME NEW k \in c PROVE k \in Nat /\ Launch!Reg(k) \in Nat
  <2>1. k \in Nat
    BY <1>1, <1>2
  <2>2. Cardinality(B(k)) \in Nat /\ Launch!Reg(k) = 1 + Cardinality(B(k))
    BY <1>4
  <2> HIDE DEF B
  <2> QED
    BY <2>1, <2>2
<1>10. B(j) \cup {j} \subseteq c
  BY <1>2
<1>11. {k \in 1 .. j : (slots[k].kind = "flt") = (slots[j].kind = "flt")} = B(j) \cup {j}
  BY <1>1, <1>2 DEF Launch!IsFlt
<1>12. ASSUME NEW i \in c, NEW k \in c, i < k PROVE B(i) \cup {i} \subseteq B(k)
  BY <1>9, <1>12
<1> HIDE DEF B
<1>5. ASSUME NEW i \in c, NEW k \in c, i < k PROVE Launch!Reg(i) < Launch!Reg(k)
  <2>1. B(i) \cup {i} \subseteq B(k)
    BY <1>5, <1>12
  <2>2. Cardinality(B(i)) + 1 <= Cardinality(B(k))
    BY <1>4, <2>1, FS_Subset, ZenonT(40)
  <2>3. /\ Cardinality(B(i)) \in Nat /\ Cardinality(B(k)) \in Nat
        /\ Launch!Reg(i) = 1 + Cardinality(B(i)) /\ Launch!Reg(k) = 1 + Cardinality(B(k))
    BY <1>4
  <2> QED
    BY <2>2, <2>3
<1>6. {k \in c : Launch!Reg(k) = Launch!Reg(j)} = {j}
  <2>1. ASSUME NEW k \in c, k # j PROVE Launch!Reg(k) # Launch!Reg(j)
    <3>1. k \in Nat /\ j \in Nat /\ Launch!Reg(k) \in Nat /\ Launch!Reg(j) \in Nat
      BY <1>2, <1>9
    <3> QED
      BY <1>2, <1>5, <2>1, <3>1
  <2> QED
    BY <1>2, <2>1
<1>7. Launch!Reg(j) \in 1 .. Cardinality(c)
  <2>2. Cardinality(B(j)) + 1 <= Cardinality(c) /\ Cardinality(c) \in Nat
    BY <1>2, <1>3, <1>4, <1>10, FS_Subset, FS_CardinalityType
  <2>3. Cardinality(B(j)) \in Nat /\ Launch!Reg(j) = 1 + Cardinality(B(j))
    BY <1>2, <1>4
  <2> QED
    BY <2>2, <2>3
<1>8. Launch!Reg(j) = Launch!Cardinality({k \in 1 .. j : (slots[k].kind = "flt") = (slots[j].kind = "flt")})
  <2>2. \A S : Launch!Cardinality(S) = Cardinality(S)
    BY Zenon DEF Launch!Cardinality, Cardinality
  <2> QED
    <3>1. /\ Launch!Reg(j) = 1 + Cardinality(B(j)) /\ Cardinality(B(j)) \in Nat
          /\ Cardinality(B(j) \cup {j}) = Cardinality(B(j)) + 1
      BY <1>2, <1>4
    <3> DEFINE S == {k \in 1 .. j : (slots[k].kind = "flt") = (slots[j].kind = "flt")}
    <3>2. S = B(j) \cup {j} /\ Launch!Cardinality(S) = Cardinality(S)
      BY <1>11, <2>2, Zenon
    <3>3. 1 + Cardinality(B(j)) = Cardinality(B(j)) + 1
      BY <3>1
    <3> QED
      BY <3>1, <3>2, <3>3, Zenon
<1> QED
  BY <1>6, <1>7, <1>8 DEF c

LEMMA LaunchImplied ==
  ASSUME LaunchInv
  PROVE  /\ Launch!KernelSeesFiles /\ Launch!CalledInOrder
         /\ Launch!ZeroMeansWritten /\ Launch!NothingHeld
<1>0. LaunchShapes /\ OneOwner /\ Phases
  BY DEF LaunchInv
<1>1. DOMAIN slots = 1 .. Len(slots) /\ Len(slots) \in Nat
  BY <1>0 DEF LaunchShapes
<1>2. Launch!NothingHeld
  <2>1. SUFFICES ASSUME pc = "idle"
                 PROVE  /\ dev = "none" /\ ~kern /\ kstate = "none"
                        /\ \A a \in Launch!Addrs : ~Live(a)
                        /\ Staged(0)
    <3>1. ASSUME Staged(0), NEW j \in DOMAIN slots
          PROVE  slots[j].host = Launch!Absent /\ slots[j].dptr = Launch!NoMem
      BY <1>1, <3>1 DEF Staged, Addr
    <3> QED
      BY <3>1 DEF Launch!NothingHeld, Live
  <2> QED
    BY <1>0, <2>1 DEF Phases
<1>3. kstate = "running" => /\ pc = "sync" /\ Staged(Len(slots)) /\ Loaded(Len(slots))
                            /\ dev = "cpu" => call = Launch!Banks /\ ~Launch!TooManyArgs
  BY <1>0 DEF Phases, LaunchShapes
<1>4. Launch!KernelSeesFiles
  <2>1. SUFFICES ASSUME kstate = "running", NEW j \in DOMAIN slots, IsBuf(j)
                 PROVE  /\ Addr(j) # Launch!NoMem
                        /\ \A k \in DOMAIN slots : k # j => Addr(k) # Addr(j)
                        /\ slots[j].kind \in Launch!InKinds => mem[Addr(j)] = files[slots[j].path]
    BY DEF Launch!KernelSeesFiles, IsBuf, Addr
  <2>2. Addr(j) # Launch!NoMem /\ j <= Len(slots)
    BY <1>1, <1>3, <2>1 DEF Staged, Launch!Addrs, Launch!NoMem
  <2> QED
    BY <1>0, <1>3, <2>1, <2>2 DEF OneOwner, Loaded
<1>5. Launch!CalledInOrder
  <2>1. SUFFICES ASSUME dev = "cpu", kstate = "running"
                 PROVE  /\ \A j \in DOMAIN slots :
                             (IF Launch!IsFlt(j) THEN call.fv ELSE call.iv)[Launch!Reg(j)] = Launch!Value(j)
                        /\ call.iv[Launch!Cardinality(Launch!Ints) + 1] = Launch!NThreads
    BY <1>0, Registers, Zenon DEF Launch!CalledInOrder, Launch!IsFlt
  <2> DEFINE ni == Cardinality(Launch!Ints)
             nf == Cardinality(Launch!Flts)
  <2>2. \A S : Launch!Cardinality(S) = Cardinality(S)
    BY Zenon DEF Launch!Cardinality, Cardinality
  <2>3. ni \in Nat /\ nf \in Nat
    <3>1. IsFiniteSet(1 .. Len(slots))
      BY <1>1, FS_Interval
    <3>2. Launch!Ints \in SUBSET (1 .. Len(slots)) /\ Launch!Flts \in SUBSET (1 .. Len(slots))
      BY <1>1 DEF Launch!Ints, Launch!Flts
    <3> QED
      BY <3>1, <3>2, FS_Subset, FS_CardinalityType
  <2>4. ~(ni + 1 > IntRegs) /\ ~(nf > FltRegs)
    BY <1>3, <2>1, <2>2 DEF Launch!TooManyArgs
  <2>5. call.iv = [r \in 1 .. IntRegs |-> IF r = ni + 1 THEN Launch!NThreads
                                          ELSE Launch!Loaded(Launch!Ints, r)]
        /\ call.fv = [r \in 1 .. FltRegs |-> Launch!Loaded(Launch!Flts, r)]
    BY <1>3, <2>1, <2>2 DEF Launch!Banks
  <2> HIDE DEF ni, nf
  <2>6. call.iv[ni + 1] = Launch!NThreads
    BY <2>3, <2>4, <2>5, RegAssumption
  <2>7. ASSUME NEW j \in DOMAIN slots
        PROVE  (IF Launch!IsFlt(j) THEN call.fv ELSE call.iv)[Launch!Reg(j)] = Launch!Value(j)
    <3> DEFINE c == IF Launch!IsFlt(j) THEN Launch!Flts ELSE Launch!Ints
               r == Launch!Reg(j)
    <3>1. r \in 1 .. Cardinality(c) /\ {k \in c : Launch!Reg(k) = r} = {j}
      BY <1>0, Registers
    <3>2. Launch!Max({j}) = j
      <4>1. j \in {j} /\ {j} \subseteq Int /\ \A y \in {j} : y <= j
        BY <1>1
      <4> QED
        BY <4>1, LargestIs
    <3>3. Launch!Loaded(c, r) = Launch!Value(j)
      BY <3>1, <3>2 DEF Launch!Loaded
    <3> HIDE DEF r, c
    <3>4. CASE Launch!IsFlt(j)
      <4>1. c = Launch!Flts /\ r \in 1 .. nf
        BY <3>1, <3>4 DEF nf, c
      <4>2. r \in 1 .. FltRegs
        BY <2>3, <2>4, <4>1, RegAssumption
      <4> QED
        BY <2>5, <3>3, <3>4, <4>1, <4>2 DEF r
    <3>5. CASE ~Launch!IsFlt(j)
      <4>1. c = Launch!Ints /\ r \in 1 .. ni
        BY <3>1, <3>5 DEF ni, c
      <4>2. r \in 1 .. IntRegs /\ r # ni + 1
        BY <2>3, <2>4, <4>1, RegAssumption
      <4> QED
        BY <2>5, <3>3, <3>5, <4>1, <4>2 DEF r
    <3> QED
      BY <3>4, <3>5
  <2> QED
    BY <2>2, <2>6, <2>7 DEF ni
<1>6. Launch!ZeroMeansWritten
  <2>1. SUFFICES ASSUME exit = 0, NEW j \in DOMAIN slots, IsOut(j)
                 PROVE  files[slots[j].path] =
                          Launch!Max({k \in DOMAIN slots : IsOut(k) /\ slots[k].path = slots[j].path})
    BY DEF Launch!ZeroMeansWritten, IsOut
  <2>2. Fetched(Len(slots)) /\ j <= Len(slots)
    BY <1>0, <1>1, <2>1 DEF Phases
  <2>3. {k \in DOMAIN slots : k <= Len(slots) /\ IsOut(k) /\ slots[k].path = slots[j].path}
          = {k \in DOMAIN slots : IsOut(k) /\ slots[k].path = slots[j].path}
    BY <1>1
  <2> QED
    BY <2>1, <2>2, <2>3, Zenon DEF Fetched
<1> QED
  BY <1>2, <1>4, <1>5, <1>6

-----------------------------------------------------------------------------
LEMMA LaunchInitially ==
  ASSUME Launch!Init
  PROVE  LaunchInv
<1>1. LaunchShapes
  <2>1. <<>> \in Seq(SlotRecords) /\ Len(<<>>) = 0
    OBVIOUS
  <2>2. mem \in [Launch!Addrs -> Int] /\ files \in [Paths -> Int]
    BY DEF Launch!Init, Launch!Absent, Launch!Orig
  <2> QED
    BY <2>1, <2>2, RegAssumption DEF Launch!Init, LaunchShapes
<1>2. DOMAIN slots = {} /\ \A a \in Launch!Addrs : ~Live(a)
  BY DEF Launch!Init, Live
<1>3. OneOwner
  BY <1>2 DEF OneOwner
<1>4. Phases
  BY <1>2 DEF Launch!Init, Phases, Staged
<1> QED
  BY <1>1, <1>3, <1>4 DEF LaunchInv

(* What a step that leaves the arguments and the memory alone keeps. *)
LEMMA SameMemory ==
  ASSUME UNCHANGED <<slots, mem>>
  PROVE  /\ OneOwner' <=> OneOwner
         /\ \A n : Staged(n)' <=> Staged(n)
         /\ Computed' <=> Computed
         /\ (\A a \in Launch!Addrs : ~Live(a))' <=> \A a \in Launch!Addrs : ~Live(a)
BY DEF OneOwner, Staged, Computed, Live, Addr, IsBuf, IsOut

LEMMA SameFiles ==
  ASSUME UNCHANGED <<slots, mem, files>>
  PROVE  \A n : (Loaded(n)' <=> Loaded(n)) /\ (Fetched(n)' <=> Fetched(n))
BY DEF Loaded, Fetched, Addr, IsOut

LEMMA LaunchLaunch ==
  ASSUME LaunchInv, NEW t, NEW nvok, Launch!Launch(t, nvok)
  PROVE  LaunchInv'
<1>1. /\ LaunchShapes /\ OneOwner /\ Phases /\ pc = "idle" /\ UNCHANGED <<slots, mem, files, at, rc, kern, kstate>>
      /\ exit' \in {-1, 1, 2} /\ pc' \in {"idle", "load"}
      /\ pc' # "idle" => exit' = -1
      /\ pc' = "idle" => dev' \in {"none", dev}
  BY DEF LaunchInv, Launch!Launch
<1>2. LaunchShapes'
  BY <1>1 DEF LaunchShapes
<1>3. OneOwner'
  BY <1>1, SameMemory
<1>4. Phases'
  <2>1. Staged(0)'
    BY <1>1, SameMemory DEF Phases
  <2> QED
    BY <1>1, <2>1 DEF Phases, Live
<1> QED
  BY <1>2, <1>3, <1>4 DEF LaunchInv

LEMMA LoadStep ==
  ASSUME LaunchInv, NEW ok \in BOOLEAN, Launch!Load(ok)
  PROVE  LaunchInv'
<1>1. /\ LaunchShapes /\ OneOwner /\ Phases /\ pc = "load" /\ UNCHANGED <<slots, mem, files, rc, kstate>>
      /\ at' = 1 /\ exit' \in {-1, 1} /\ pc' \in {"idle", "stage"}
      /\ pc' # "idle" => exit' = -1
      /\ pc' = "idle" => dev' = "none" /\ ~kern'
  BY DEF LaunchInv, Launch!Load
<1>2. LaunchShapes'
  BY <1>1 DEF LaunchShapes
<1>3. OneOwner'
  BY <1>1, SameMemory
<1>4. Phases'
  <2>1. Staged(0)' /\ \A a \in Launch!Addrs : ~Live(a)'
    BY <1>1, SameMemory DEF Phases, Live
  <2>2. Loaded(0)'
    <3>1. \A j \in DOMAIN slots' : ~(j <= 0)
      BY <1>1 DEF LaunchShapes
    <3> QED
      BY <3>1 DEF Loaded
  <2> QED
    BY <1>1, <2>1, <2>2 DEF Phases
<1> QED
  BY <1>2, <1>3, <1>4 DEF LaunchInv

LEMMA ResetStep ==
  ASSUME LaunchInv, Launch!Reset
  PROVE  LaunchInv'
<1>1. /\ LaunchShapes /\ OneOwner /\ Phases /\ pc = "idle" /\ slots' = <<>> /\ exit' = -1
      /\ UNCHANGED <<pc, mem, files, at, rc, dev, kern, kstate>>
  BY DEF LaunchInv, Launch!Reset
<1>2. at = 1 /\ DOMAIN slots' = {} /\ \A a \in Launch!Addrs : ~Live(a)'
  BY <1>1 DEF Phases, Live
<1>3. LaunchShapes'
  <2>1. <<>> \in Seq(SlotRecords) /\ Len(<<>>) = 0
    OBVIOUS
  <2> QED
    BY <1>1, <1>2, <2>1, RegAssumption DEF LaunchShapes
<1>4. OneOwner'
  BY <1>2 DEF OneOwner
<1>5. Phases'
  BY <1>1, <1>2 DEF Phases, Staged
<1> QED
  BY <1>3, <1>4, <1>5 DEF LaunchInv

LEMMA AddArgStep ==
  ASSUME LaunchInv, NEW spec \in Launch!ArgSpecs, Launch!AddArg(spec[1], spec[2])
  PROVE  LaunchInv'
<1> DEFINE new == Launch!NewSlot(spec[1], spec[2])
<1>1. /\ LaunchShapes /\ OneOwner /\ Phases /\ pc = "idle" /\ Len(slots) < MaxSlots
      /\ slots' = Append(slots, new) /\ exit' = -1
      /\ UNCHANGED <<pc, mem, files, at, rc, dev, kern, kstate>>
  BY DEF LaunchInv, Launch!AddArg
<1>2. new \in SlotRecords /\ new.dptr = Launch!NoMem /\ new.host = Launch!Absent
  BY DEF Launch!NewSlot, SlotRecords, Launch!ArgSpecs, Kinds, Launch!Absent, Launch!NoMem,
         Launch!Buffers
<1> HIDE DEF new
<1>3. /\ slots' \in Seq(SlotRecords) /\ Len(slots') = Len(slots) + 1 /\ Len(slots) \in Nat
      /\ \A j \in DOMAIN slots' : slots'[j] = IF j \in DOMAIN slots THEN slots[j] ELSE new
  BY <1>1, <1>2, AppendProperties DEF LaunchShapes
<1>4. LaunchShapes'
  BY <1>1, <1>3, RegAssumption DEF LaunchShapes
<1>5. /\ \A j \in DOMAIN slots' : j \notin {0} /\ slots'[j].dptr = Launch!NoMem /\ slots'[j].host = Launch!Absent
      /\ \A a \in Launch!Addrs : ~Live(a)'
  <2>1. ASSUME NEW j \in DOMAIN slots
        PROVE  slots[j].dptr = Launch!NoMem /\ slots[j].host = Launch!Absent
    BY <1>1 DEF Phases, Staged, Addr, LaunchShapes
  <2> QED
    BY <1>1, <1>2, <1>3, <2>1 DEF Phases, Live
<1>6. OneOwner'
  BY <1>5 DEF OneOwner, Addr
<1>7. Phases'
  <2>1. Staged(0)'
    <3>1. \A j \in DOMAIN slots' : ~(j <= 0)
      BY <1>3
    <3> QED
      BY <1>5, <3>1 DEF Staged, Addr
  <2> QED
    BY <1>1, <1>5, <2>1 DEF Phases
<1> QED
  BY <1>4, <1>6, <1>7 DEF LaunchInv

LEMMA RunStep ==
  ASSUME LaunchInv, NEW ok \in BOOLEAN, Launch!Run(ok)
  PROVE  LaunchInv'
<1>1. /\ LaunchShapes /\ OneOwner /\ Phases /\ pc = "stage" /\ at > Len(slots)
      /\ UNCHANGED <<slots, mem, files, at, exit, dev, kern>>
      /\ \/ /\ kstate' = "running" /\ pc' = "sync" /\ rc' = "ok"
            /\ dev = "cpu" => call' = Launch!Banks /\ ~Launch!TooManyArgs
         \/ kstate' = kstate /\ pc' = "finish" /\ rc' = "err"
  BY DEF LaunchInv, Launch!Run
<1>2. at - 1 = Len(slots) /\ kstate = "none"
  BY <1>1 DEF LaunchShapes, Phases
<1>3. LaunchShapes'
  BY <1>1 DEF LaunchShapes
<1>4. OneOwner'
  BY <1>1, SameMemory
<1>5. Phases'
  <2>1. Staged(Len(slots))' /\ Loaded(Len(slots))'
    <3>1. Staged(Len(slots)) /\ Loaded(Len(slots))
      BY <1>1, <1>2 DEF Phases
    <3> QED
      BY <1>1, <3>1, SameMemory, SameFiles
  <2>2. dev = "cpu" /\ kstate' = "running" => call' = Launch!Banks' /\ ~Launch!TooManyArgs'
    <3>1. UNCHANGED <<Launch!Banks, Launch!TooManyArgs>>
      BY <1>1, ZenonT(40) DEF Launch!Banks, Launch!TooManyArgs, Launch!Ints, Launch!Flts, Launch!Loaded, Launch!IsFlt,
                  Launch!Reg, Launch!Value, Launch!NThreads
    <3> QED
      BY <1>1, <1>2, <3>1
  <2>3. exit' = -1
    BY <1>1 DEF LaunchShapes
  <2> QED
    BY <1>1, <1>2, <2>1, <2>2, <2>3 DEF Phases
<1> QED
  BY <1>3, <1>4, <1>5 DEF LaunchInv

LEMMA SyncStep ==
  ASSUME LaunchInv, Launch!Sync
  PROVE  LaunchInv'
<1>1. /\ LaunchShapes /\ OneOwner /\ Phases /\ pc = "sync" /\ kstate # "running" /\ at' = 1
      /\ UNCHANGED <<slots, mem, files, exit, dev, kern, kstate>>
      /\ \/ kstate = "done" /\ pc' = "fetch" /\ rc' = "ok"
         \/ kstate # "done" /\ pc' = "finish" /\ rc' = "err"
  BY DEF LaunchInv, Launch!Sync
<1>3. LaunchShapes'
  BY <1>1 DEF LaunchShapes
<1>4. OneOwner'
  BY <1>1, SameMemory
<1>5. Phases'
  <2>1. Staged(Len(slots))' /\ (kstate = "done" => Computed')
    <3>1. Staged(Len(slots)) /\ (kstate = "done" => Computed)
      BY <1>1 DEF Phases
    <3> QED
      BY <1>1, <3>1, SameMemory
  <2>2. Fetched(0)'
    <3>1. \A j \in DOMAIN slots' : ~(j <= 0)
      BY <1>1 DEF LaunchShapes
    <3> QED
      BY <3>1 DEF Fetched
  <2>3. exit' = -1
    BY <1>1 DEF LaunchShapes
  <2> QED
    BY <1>1, <2>1, <2>2, <2>3 DEF Phases
<1> QED
  BY <1>3, <1>4, <1>5 DEF LaunchInv

LEMMA FetchDoneStep ==
  ASSUME LaunchInv, Launch!FetchDone
  PROVE  LaunchInv'
<1>1. /\ LaunchShapes /\ OneOwner /\ Phases /\ pc = "fetch" /\ at > Len(slots) /\ pc' = "finish"
      /\ UNCHANGED <<slots, mem, files, at, rc, exit, dev, kern, kstate>>
  BY DEF LaunchInv, Launch!FetchDone
<1>2. at - 1 = Len(slots) /\ exit = -1
  BY <1>1 DEF LaunchShapes
<1>3. LaunchShapes'
  BY <1>1 DEF LaunchShapes
<1>4. OneOwner'
  BY <1>1, SameMemory
<1>5. Fetched(Len(slots))'
  <2>1. Fetched(Len(slots))
    BY <1>1, <1>2 DEF Phases
  <2> QED
    BY <1>1, <2>1, SameFiles
<1>6. Phases'
  BY <1>1, <1>2, <1>5 DEF Phases
<1> QED
  BY <1>3, <1>4, <1>6 DEF LaunchInv

(* One argument gets other buffers. *)
LEMMA SlotEdit ==
  ASSUME slots \in Seq(SlotRecords), NEW i \in DOMAIN slots, NEW r \in SlotRecords,
         r.kind = slots[i].kind, r.path = slots[i].path, slots' = [slots EXCEPT ![i] = r]
  PROVE  /\ slots' \in Seq(SlotRecords) /\ Len(slots') = Len(slots) /\ DOMAIN slots' = DOMAIN slots
         /\ \A j \in DOMAIN slots : /\ slots'[j].kind = slots[j].kind /\ slots'[j].path = slots[j].path
                                    /\ j # i => slots'[j] = slots[j]
         /\ slots'[i] = r
<1>1. slots' \in Seq(SlotRecords) /\ Len(slots') = Len(slots)
  BY ExceptSeq
<1> QED
  BY <1>1

LEMMA StageStep ==
  ASSUME LaunchInv, NEW res, Launch!StageSlot(res)
  PROVE  LaunchInv'
<1> DEFINE s    == slots[at]
           host == Launch!HostBuffer(s, res)
           addr == IF host = Launch!Absent \/ res = "alloc" THEN Launch!NoMem ELSE Launch!FreeAddr
           val  == IF res = "h2d" THEN Launch!Junk ELSE Launch!Uploaded(s, host)
<1>0. LaunchShapes /\ OneOwner /\ Phases
  BY DEF LaunchInv
<1>1. /\ pc = "stage" /\ at <= Len(slots) /\ UNCHANGED <<exit, dev, kern, kstate, files>>
  BY DEF Launch!StageSlot
<1>2. /\ Len(slots) \in Nat /\ DOMAIN slots = 1 .. Len(slots) /\ slots \in Seq(SlotRecords)
      /\ at \in DOMAIN slots /\ at \in Launch!Addrs /\ at \in Nat /\ MaxSlots \in Nat /\ exit = -1
  BY <1>0, <1>1, RegAssumption DEF LaunchShapes, Launch!Addrs
<1>3. /\ kstate = "none" /\ rc = "ok" /\ Staged(at - 1) /\ Loaded(at - 1)
      /\ \A a \in Launch!Addrs : a >= at => ~Live(a)
  BY <1>0, <1>1 DEF Phases
<1>4. Addr(at) = Launch!NoMem
  BY <1>2, <1>3 DEF Staged
<1>5. CASE ~IsBuf(at)
  <2>1. at' = at + 1 /\ UNCHANGED <<pc, slots, rc, mem>>
    BY <1>5 DEF Launch!StageSlot, IsBuf
  <2>2. LaunchShapes'
    BY <1>0, <1>1, <1>2, <2>1 DEF LaunchShapes
  <2>3. OneOwner'
    BY <1>0, <2>1, SameMemory
  <2>4. Staged(at - 1)' /\ Loaded(at - 1)'
    <3>1. Staged(at)
      BY <1>2, <1>3, <1>5 DEF Staged
    <3>2. Loaded(at)
      BY <1>2, <1>3, <1>5 DEF Loaded, IsBuf, Launch!InKinds, Launch!Buffers
    <3>3. at' - 1 = at
      BY <1>2, <2>1
    <3> QED
      BY <1>1, <2>1, <3>1, <3>2, <3>3, SameMemory, SameFiles
  <2>5. \A a \in Launch!Addrs : a >= at' => ~Live(a)'
    BY <1>2, <1>3, <2>1 DEF Live, Launch!Addrs
  <2>6. Phases'
    BY <1>1, <1>2, <1>3, <2>1, <2>4, <2>5 DEF Phases
  <2> QED
    BY <2>2, <2>3, <2>6 DEF LaunchInv
<1>6. CASE IsBuf(at)
  <2>1. /\ slots' = [slots EXCEPT ![at] = [@ EXCEPT !.host = host, !.dptr = addr]]
        /\ mem' = IF addr = Launch!NoMem THEN mem ELSE [mem EXCEPT ![addr] = val]
        /\ IF addr = Launch!NoMem \/ res = "h2d"
           THEN rc' = "err" /\ pc' = "finish" /\ at' = at
           ELSE at' = at + 1 /\ rc' = rc /\ pc' = pc
    BY <1>6 DEF Launch!StageSlot, IsBuf
  <2>2. s.path \in Paths /\ host \in Int /\ val \in Int
    <3>1. s.path \in Paths /\ files \in [Paths -> Int]
      BY <1>0, <1>2, <1>6, SlotOf DEF LaunchShapes
    <3>2. host \in Int
      BY <3>1 DEF Launch!HostBuffer, Launch!Absent, Launch!Zeroed
    <3> QED
      BY <3>1, <3>2 DEF Launch!Uploaded, Launch!Junk
  <2>3. /\ Launch!FreeAddr \in Launch!Addrs /\ ~Live(Launch!FreeAddr) /\ Launch!FreeAddr <= at
    <3> DEFINE T == {a \in Launch!Addrs : mem[a] = Launch!Absent}
    <3>1. at \in T /\ T \subseteq Nat
      BY <1>2, <1>3 DEF Live, Launch!Addrs
    <3>2. Launch!Min(T) = Driver!Min(T)
      BY Zenon DEF Launch!Min, Driver!Min
    <3>3. Launch!Min(T) \in T /\ \A y \in T : Launch!Min(T) <= y
      BY <3>1, <3>2, MinIn
    <3>4. Launch!FreeAddr = Launch!Min(T)
      BY Zenon DEF Launch!FreeAddr
    <3> QED
      BY <3>1, <3>3, <3>4 DEF Live
  <2>4. /\ addr \in Nat
        /\ addr # Launch!NoMem =>
             /\ addr \in Launch!Addrs /\ ~Live(addr) /\ addr <= at /\ val # Launch!Absent
             /\ host # Launch!Absent
    BY <2>3 DEF Launch!Addrs, Launch!NoMem, Launch!Uploaded, Launch!Junk, Launch!Absent
  <2>5. res # "h2d" /\ s.kind \in Launch!InKinds /\ addr # Launch!NoMem => val = files[s.path]
    <3>1. addr # Launch!NoMem => host # Launch!Absent
      BY <2>4
    <3> QED
      BY <3>1 DEF Launch!Uploaded, Launch!HostBuffer
  <2> HIDE DEF host, addr, val
  <2>6. /\ slots' \in Seq(SlotRecords) /\ Len(slots') = Len(slots) /\ DOMAIN slots' = DOMAIN slots
        /\ \A j \in DOMAIN slots : /\ slots'[j].kind = slots[j].kind /\ slots'[j].path = slots[j].path
                                   /\ j # at => slots'[j] = slots[j]
        /\ slots'[at].host = host /\ slots'[at].dptr = addr
    <3>1. PICK i \in DOMAIN slots, h \in Int, d \in Nat : i = at /\ h = host /\ d = addr
      BY <1>2, <2>2, <2>4
    <3>2. PICK q \in SlotRecords : q = slots[i]
      BY <1>2
    <3>3. PICK r : r = [q EXCEPT !.host = h, !.dptr = d]
      OBVIOUS
    <3>4. slots' = [slots EXCEPT ![i] = r]
      BY <2>1, <3>1, <3>2, <3>3
    <3>5. r \in SlotRecords /\ r.kind = slots[i].kind /\ r.path = slots[i].path /\ r.host = h /\ r.dptr = d
      <4>1. r \in SlotRecords /\ r.kind = q.kind /\ r.path = q.path /\ r.host = h /\ r.dptr = d
        BY <3>3 DEF SlotRecords
      <4> QED
        BY <3>2, <4>1
    <3>6. /\ slots' \in Seq(SlotRecords) /\ Len(slots') = Len(slots) /\ DOMAIN slots' = DOMAIN slots
          /\ \A j \in DOMAIN slots : /\ slots'[j].kind = slots[j].kind /\ slots'[j].path = slots[j].path
                                     /\ j # i => slots'[j] = slots[j]
          /\ slots'[i] = r
      BY <1>2, <3>4, <3>5, SlotEdit
    <3> QED
      BY <3>1, <3>5, <3>6
  <2>7. /\ mem \in [Launch!Addrs -> Int] /\ mem' \in [Launch!Addrs -> Int]
        /\ \A a \in Launch!Addrs : a # addr => mem'[a] = mem[a]
        /\ addr # Launch!NoMem => mem'[addr] = val
    <3>1. mem \in [Launch!Addrs -> Int]
      BY <1>0 DEF LaunchShapes
    <3> QED
      BY <2>1, <2>2, <2>4, <3>1
  <2>8. LaunchShapes'
    BY <1>0, <1>1, <1>2, <2>1, <2>6, <2>7 DEF LaunchShapes
  <2>9. \A j \in DOMAIN slots : j # at /\ Addr(j) # Launch!NoMem =>
          Addr(j) \in Launch!Addrs /\ Live(Addr(j)) /\ Addr(j) # addr
    BY <1>2, <1>3, <2>4 DEF Staged
  <2>10. OneOwner'
    <3>1. ASSUME NEW a \in Launch!Addrs, Live(a)' PROVE \E j \in DOMAIN slots' : Addr(j)' = a
      <4>1. CASE a = addr
        BY <1>2, <2>6, <4>1 DEF Addr
      <4>2. CASE a # addr
        <5>1. PICK j \in DOMAIN slots : Addr(j) = a
          BY <1>0, <2>7, <3>1, <4>2 DEF OneOwner, Live
        <5>2. j # at
          BY <1>4, <5>1 DEF Launch!Addrs, Launch!NoMem
        <5> QED
          BY <2>6, <5>1, <5>2 DEF Addr
      <4> QED
        BY <4>1, <4>2
    <3>2. ASSUME NEW j \in DOMAIN slots', NEW k \in DOMAIN slots',
                 Addr(j)' = Addr(k)', Addr(j)' # Launch!NoMem
          PROVE  j = k
      <4>1. \A i \in DOMAIN slots : Addr(i)' = IF i = at THEN addr ELSE Addr(i)
        BY <2>6 DEF Addr
      <4> QED
        BY <1>0, <2>6, <2>9, <3>2, <4>1 DEF OneOwner
    <3> QED
      BY <3>1, <3>2 DEF OneOwner
  <2>11. CASE addr = Launch!NoMem \/ res = "h2d"
    <3>1. rc' = "err" /\ pc' = "finish"
      BY <2>1, <2>11
    <3>2. Phases'
      BY <1>1, <1>2, <1>3, <3>1 DEF Phases
    <3> QED
      BY <2>8, <2>10, <3>2 DEF LaunchInv
  <2>12. CASE addr # Launch!NoMem /\ res # "h2d"
    <3>1. at' = at + 1 /\ rc' = rc /\ pc' = pc
      BY <2>1, <2>12
    <3>2. ASSUME NEW j \in DOMAIN slots'
          PROVE  IF j <= at /\ slots'[j].kind \in Launch!Buffers
                 THEN slots'[j].dptr \in Launch!Addrs /\ mem'[slots'[j].dptr] # Launch!Absent
                 ELSE slots'[j].dptr = Launch!NoMem /\ slots'[j].host = Launch!Absent
      <4>1. CASE j = at
        BY <1>2, <1>6, <2>4, <2>6, <2>7, <2>12, <4>1 DEF IsBuf
      <4>2. CASE j # at
        <5>1. slots'[j] = slots[j] /\ (j <= at <=> j <= at - 1)
          BY <1>2, <2>6, <4>2
        <5>2. IF j <= at - 1 /\ IsBuf(j) THEN Addr(j) \in Launch!Addrs /\ Live(Addr(j))
              ELSE Addr(j) = Launch!NoMem /\ slots[j].host = Launch!Absent
          BY <1>3, <2>6 DEF Staged
        <5>3. CASE j <= at - 1 /\ IsBuf(j)
          <6>1. Addr(j) \in Launch!Addrs /\ Live(Addr(j)) /\ Addr(j) # addr
            BY <2>4, <2>12, <5>2, <5>3
          <6>2. mem'[Addr(j)] = mem[Addr(j)]
            BY <2>7, <6>1
          <6> QED
            BY <5>1, <5>3, <6>1, <6>2 DEF Addr, Live, IsBuf
        <5>4. CASE ~(j <= at - 1 /\ IsBuf(j))
          BY <5>1, <5>2, <5>4 DEF Addr, IsBuf
        <5> QED
          BY <5>3, <5>4
      <4> QED
        BY <4>1, <4>2
    <3>3. ASSUME NEW j \in DOMAIN slots', j <= at, slots'[j].kind \in Launch!InKinds
          PROVE  mem'[slots'[j].dptr] = files'[slots'[j].path]
      <4>1. CASE j = at
        BY <1>1, <1>2, <2>5, <2>6, <2>7, <2>12, <3>3, <4>1
      <4>2. CASE j # at
        <5>1. slots'[j] = slots[j] /\ j <= at - 1 /\ j \in DOMAIN slots
          BY <1>2, <2>6, <3>3, <4>2
        <5>2. IsBuf(j)
          BY <3>3, <5>1 DEF IsBuf, Launch!InKinds, Launch!Buffers
        <5>3. Addr(j) \in Launch!Addrs /\ Live(Addr(j)) /\ mem[Addr(j)] = files[slots[j].path]
          BY <1>3, <3>3, <5>1, <5>2 DEF Staged, Loaded
        <5>4. mem'[Addr(j)] = mem[Addr(j)]
          BY <2>4, <2>7, <2>12, <5>3
        <5> QED
          BY <1>1, <5>1, <5>3, <5>4 DEF Addr
      <4> QED
        BY <4>1, <4>2
    <3>4. ASSUME NEW a \in Launch!Addrs, a >= at + 1 PROVE mem'[a] = Launch!Absent
      <4>1. a # addr /\ a >= at
        BY <1>2, <2>4, <2>12, <3>4 DEF Launch!Addrs
      <4> QED
        BY <1>3, <2>7, <4>1 DEF Live
    <3>5. at' - 1 = at
      BY <1>2, <3>1
    <3>6. Staged(at - 1)'
      BY <3>2, <3>5 DEF Staged, IsBuf, Addr, Live
    <3>7. Loaded(at - 1)'
      BY <3>3, <3>5 DEF Loaded, Addr
    <3>8. Phases'
      BY <1>1, <1>2, <1>3, <3>1, <3>4, <3>6, <3>7 DEF Phases, Live
    <3> QED
      BY <2>8, <2>10, <3>8 DEF LaunchInv
  <2> QED
    BY <2>11, <2>12
<1> QED
  BY <1>5, <1>6

LEMMA KernelStep ==
  ASSUME LaunchInv, NEW faults \in BOOLEAN, Launch!KernelEnds(faults)
  PROVE  LaunchInv'
<1> DEFINE W(a) == {j \in DOMAIN slots : slots[j].dptr = a /\ slots[j].kind \in Launch!OutKinds}
<1>0. LaunchShapes /\ OneOwner /\ Phases
  BY DEF LaunchInv
<1>1. /\ kstate = "running" /\ kstate' = IF faults THEN "faulted" ELSE "done"
      /\ mem' = [a \in Launch!Addrs |->
                   IF W(a) = {} THEN mem[a] ELSE IF faults THEN Launch!Junk ELSE Launch!Max(W(a))]
      /\ UNCHANGED <<pc, slots, at, rc, exit, dev, kern, call, files>>
  BY DEF Launch!KernelEnds
<1>2. pc = "sync" /\ Staged(Len(slots)) /\ exit = -1
  BY <1>0, <1>1 DEF Phases, LaunchShapes
<1>3. ASSUME NEW j \in DOMAIN slots, IsOut(j)
      PROVE  Addr(j) \in Launch!Addrs /\ Live(Addr(j)) /\ W(Addr(j)) = {j} /\ Launch!Max(W(Addr(j))) = j
  <2>1. j <= Len(slots) /\ j \in Nat /\ IsBuf(j)
    BY <1>0, <1>3, SlotOf DEF IsOut, IsBuf, Launch!OutKinds, Launch!Buffers
  <2>2. Addr(j) \in Launch!Addrs /\ Live(Addr(j)) /\ Addr(j) # Launch!NoMem
    BY <1>2, <2>1 DEF Staged, Launch!Addrs, Launch!NoMem
  <2>3. W(Addr(j)) = {j}
    BY <1>0, <1>3, <2>2 DEF OneOwner, Addr, IsOut
  <2>4. j \in {j} /\ {j} \subseteq Int /\ \A y \in {j} : y <= j
    BY <2>1
  <2>5. Launch!Max({j}) = j
    BY <2>4, LargestIs
  <2> QED
    BY <2>2, <2>3, <2>5
<1>4. ASSUME NEW a \in Launch!Addrs
      PROVE  \/ mem'[a] = mem[a]
             \/ mem'[a] \in Int /\ mem'[a] # Launch!Absent /\ Live(a)
  <2>1. CASE W(a) = {}
    BY <1>1, <2>1
  <2>2. CASE W(a) # {}
    <3>1. PICK j \in DOMAIN slots : Addr(j) = a /\ IsOut(j)
      BY <2>2 DEF Addr, IsOut
    <3>2. Live(a) /\ Launch!Max(W(a)) = j /\ j \in Nat
      BY <1>0, <1>3, <3>1, SlotOf
    <3> HIDE DEF W
    <3>3. mem'[a] = IF faults THEN Launch!Junk ELSE j
      BY <1>1, <2>2, <3>2
    <3> QED
      BY <3>2, <3>3 DEF Launch!Junk, Launch!Absent
  <2> QED
    BY <2>1, <2>2
<1>5. ASSUME NEW a \in Launch!Addrs PROVE Live(a)' <=> Live(a)
  BY <1>4 DEF Live
<1>6. LaunchShapes'
  <2>1. DOMAIN mem' = Launch!Addrs /\ mem' = [a \in Launch!Addrs |-> mem'[a]]
    BY <1>1
  <2>2. \A a \in Launch!Addrs : mem'[a] \in Int
    BY <1>0, <1>4 DEF LaunchShapes
  <2>3. mem' \in [Launch!Addrs -> Int]
    BY <2>1, <2>2
  <2> QED
    BY <1>0, <1>1, <2>3 DEF LaunchShapes
<1>7. OneOwner'
  <2>1. DOMAIN slots' = DOMAIN slots /\ \A j : Addr(j)' = Addr(j)
    BY <1>1 DEF Addr
  <2> QED
    BY <1>0, <1>5, <2>1 DEF OneOwner
<1>8. Staged(Len(slots))'
  <2>1. slots' = slots /\ \A j : (Addr(j)' = Addr(j)) /\ (IsBuf(j)' <=> IsBuf(j))
    BY <1>1 DEF Addr, IsBuf
  <2> QED
    BY <1>2, <1>5, <2>1 DEF Staged
<1>9. kstate' = "done" => Computed'
  <2>1. ASSUME ~faults, NEW j \in DOMAIN slots, IsOut(j)
        PROVE  mem'[Addr(j)] = j
    <3>1. Addr(j) \in Launch!Addrs /\ W(Addr(j)) # {} /\ Launch!Max(W(Addr(j))) = j
      BY <1>3, <2>1
    <3> HIDE DEF W
    <3> QED
      BY <1>1, <2>1, <3>1
  <2> QED
    BY <1>1, <2>1 DEF Computed, Addr, IsOut
<1>10. Phases'
  BY <1>1, <1>2, <1>8, <1>9 DEF Phases
<1> QED
  BY <1>6, <1>7, <1>10 DEF LaunchInv

LEMMA FinishStep ==
  ASSUME LaunchInv, Launch!Finish
  PROVE  LaunchInv'
<1>0. LaunchShapes /\ OneOwner /\ Phases
  BY DEF LaunchInv
<1>1. /\ pc = "finish" /\ pc' = "idle" /\ at' = 1 /\ rc' = "ok" /\ kern' = FALSE /\ dev' = "none"
      /\ kstate' = "none" /\ files' = files /\ exit' = IF rc = "ok" THEN 0 ELSE 1
  BY DEF Launch!Finish
<1>11. /\ mem' = [a \in Launch!Addrs |->
                    IF \E j \in DOMAIN slots : slots[j].dptr = a THEN Launch!Absent ELSE mem[a]]
       /\ slots' = [j \in DOMAIN slots |-> [slots[j] EXCEPT !.host = Launch!Absent, !.dptr = Launch!NoMem]]
  BY DEF Launch!Finish
<1>2. Len(slots) \in Nat /\ DOMAIN slots = 1 .. Len(slots)
  BY <1>0 DEF LaunchShapes
<1>3. \A a \in Launch!Addrs : mem'[a] = Launch!Absent
  BY <1>0, <1>11 DEF OneOwner, Live, Addr
<1>4. ASSUME NEW j \in DOMAIN slots
      PROVE  /\ slots'[j] \in SlotRecords
             /\ slots'[j].kind = slots[j].kind /\ slots'[j].path = slots[j].path
             /\ slots'[j].host = Launch!Absent /\ slots'[j].dptr = Launch!NoMem
  <2>1. PICK q \in SlotRecords : q = slots[j]
    BY <1>0, SlotOf
  <2>2. PICK h \in Int, d \in Nat : h = Launch!Absent /\ d = Launch!NoMem
    BY DEF Launch!Absent, Launch!NoMem
  <2>3. PICK r : r = [q EXCEPT !.host = h, !.dptr = d]
    OBVIOUS
  <2>4. slots'[j] = r
    BY <1>11, <2>1, <2>2, <2>3
  <2>5. r \in SlotRecords /\ r.kind = q.kind /\ r.path = q.path /\ r.host = h /\ r.dptr = d
    BY <2>3 DEF SlotRecords
  <2> QED
    BY <2>1, <2>2, <2>4, <2>5
<1>5. DOMAIN slots' = DOMAIN slots /\ slots' \in Seq(SlotRecords) /\ Len(slots') = Len(slots)
  <2>1. DOMAIN slots' = DOMAIN slots /\ slots' = [j \in DOMAIN slots |-> slots'[j]]
    BY <1>11
  <2>2. slots' \in [1 .. Len(slots) -> SlotRecords]
    BY <1>2, <1>4, <2>1
  <2>3. slots' \in Seq(SlotRecords)
    BY <1>2, <2>2
  <2> QED
    BY <1>2, <2>1, <2>3
<1>6. LaunchShapes'
  <2>1. mem' \in [Launch!Addrs -> Int]
    <3>1. mem' = [a \in Launch!Addrs |-> mem'[a]]
      BY <1>11
    <3> QED
      BY <1>3, <3>1 DEF Launch!Absent
  <2>2. exit' \in Int /\ at' \in 1 .. Len(slots') + 1
    BY <1>1, <1>2, <1>5
  <2> QED
    BY <1>0, <1>1, <1>5, <2>1, <2>2 DEF LaunchShapes
<1>7. OneOwner'
  BY <1>3, <1>4, <1>5 DEF OneOwner, Live, Addr
<1>8. Staged(0)'
  <2>1. \A j \in DOMAIN slots : ~(j <= 0)
    BY <1>2
  <2> QED
    BY <1>4, <1>5, <2>1 DEF Staged, Addr
<1>9. exit' = 0 => Fetched(Len(slots))'
  <2>1. SUFFICES ASSUME Fetched(Len(slots)), NEW j \in DOMAIN slots, j <= Len(slots), IsOut(j)
                 PROVE  files[slots[j].path] =
                          Launch!Max({k \in DOMAIN slots' : k <= Len(slots') /\ IsOut(k)'
                                                            /\ slots'[k].path = slots[j].path})
    <3>1. exit' = 0 => Fetched(Len(slots))
      <4>1. exit' = 0 => rc = "ok"
        BY <1>1
      <4> QED
        BY <1>0, <1>1, <4>1 DEF Phases
    <3> QED
      BY <1>1, <1>4, <1>5, <3>1 DEF Fetched, IsOut
  <2>2. {k \in DOMAIN slots' : k <= Len(slots') /\ IsOut(k)' /\ slots'[k].path = slots[j].path}
          = {k \in DOMAIN slots : k <= Len(slots) /\ IsOut(k) /\ slots[k].path = slots[j].path}
    BY <1>4, <1>5 DEF IsOut
  <2> QED
    BY <2>1, <2>2, Zenon DEF Fetched
<1>10. Phases'
  BY <1>1, <1>3, <1>8, <1>9 DEF Phases, Live
<1> QED
  BY <1>6, <1>7, <1>10 DEF LaunchInv

LEMMA FetchStep ==
  ASSUME LaunchInv, NEW res, Launch!FetchSlot(res)
  PROVE  LaunchInv'
<1>0. LaunchShapes /\ OneOwner /\ Phases
  BY DEF LaunchInv
<1>1. /\ pc = "fetch" /\ at <= Len(slots) /\ UNCHANGED <<exit, dev, kern, mem, kstate>>
      /\ \/ res = "ok" /\ at' = at + 1 /\ rc' = rc /\ pc' = pc
         \/ res # "ok" /\ at' = at /\ rc' = "err" /\ pc' = "finish"
  BY DEF Launch!FetchSlot
<1>2. /\ Len(slots) \in Nat /\ DOMAIN slots = 1 .. Len(slots) /\ slots \in Seq(SlotRecords)
      /\ at \in DOMAIN slots /\ at \in Nat /\ exit = -1
      /\ files \in [Paths -> Int] /\ mem \in [Launch!Addrs -> Int]
  BY <1>0, <1>1 DEF LaunchShapes
<1>3. kstate = "done" /\ Staged(Len(slots)) /\ Computed /\ Fetched(at - 1)
  BY <1>0, <1>1 DEF Phases
<1>4. IsOut(at) => /\ IsBuf(at) /\ slots[at].path \in Paths
                   /\ Addr(at) \in Launch!Addrs /\ mem[Addr(at)] = at
  BY <1>0, <1>1, <1>2, <1>3, SlotOf DEF Staged, Computed, IsBuf, IsOut, Launch!Buffers, Launch!OutKinds
(* The arguments keep what they are and where they are. *)
<1>5. /\ slots' \in Seq(SlotRecords) /\ Len(slots') = Len(slots) /\ DOMAIN slots' = DOMAIN slots
      /\ \A j \in DOMAIN slots : /\ slots'[j].kind = slots[j].kind /\ slots'[j].path = slots[j].path
                                 /\ slots'[j].dptr = slots[j].dptr
                                 /\ ~IsBuf(j) => slots'[j].host = slots[j].host
  <2>1. CASE slots' = slots
    BY <1>2, <2>1
  <2>2. CASE slots' # slots
    <3>1. IsOut(at) /\ slots' = [slots EXCEPT ![at] = [@ EXCEPT !.host = mem[Addr(at)]]]
      BY <2>2 DEF Launch!FetchSlot, IsOut, Addr
    <3>2. PICK i \in DOMAIN slots, h \in Int : i = at /\ h = mem[Addr(at)]
      BY <1>2, <1>4, <3>1
    <3>3. PICK q \in SlotRecords : q = slots[i]
      BY <1>2
    <3>4. PICK r : r = [q EXCEPT !.host = h]
      OBVIOUS
    <3>5. slots' = [slots EXCEPT ![i] = r]
      BY <3>1, <3>2, <3>3, <3>4
    <3>6. r \in SlotRecords /\ r.kind = q.kind /\ r.path = q.path /\ r.dptr = q.dptr
      BY <3>4 DEF SlotRecords
    <3>7. r.kind = slots[i].kind /\ r.path = slots[i].path /\ r.dptr = slots[i].dptr /\ IsBuf(i)
      BY <1>4, <3>1, <3>2, <3>3, <3>6
    <3>8. /\ slots' \in Seq(SlotRecords) /\ Len(slots') = Len(slots) /\ DOMAIN slots' = DOMAIN slots
          /\ \A j \in DOMAIN slots : /\ slots'[j].kind = slots[j].kind /\ slots'[j].path = slots[j].path
                                     /\ j # i => slots'[j] = slots[j]
          /\ slots'[i] = r
      BY <1>2, <3>5, <3>6, <3>7, SlotEdit
    <3> QED
      BY <3>7, <3>8
  <2> QED
    BY <2>1, <2>2
<1>6. files' \in [Paths -> Int]
  <2>1. CASE ~IsOut(at)
    BY <1>2, <2>1 DEF Launch!FetchSlot, IsOut
  <2>2. CASE IsOut(at)
    <3>1. PICK v : files' = [files EXCEPT ![slots[at].path] = v]
                   /\ v \in {mem[Addr(at)], Launch!Partial, files[slots[at].path]}
      <4>1. files' = [files EXCEPT ![slots[at].path] =
              CASE res = "ok" -> mem[Addr(at)] [] res = "write" -> Launch!Partial
                [] OTHER -> files[slots[at].path]]
        BY <2>2 DEF Launch!FetchSlot, IsOut, Addr
      <4> DEFINE w == CASE res = "ok" -> mem[Addr(at)] [] res = "write" -> Launch!Partial
                        [] OTHER -> files[slots[at].path]
      <4>2. w \in {mem[Addr(at)], Launch!Partial, files[slots[at].path]}
        BY Zenon
      <4> QED
        BY <4>1, <4>2, Zenon
    <3>2. v \in Int
      BY <1>2, <1>4, <2>2, <3>1 DEF Launch!Partial
    <3> QED
      BY <1>2, <3>1, <3>2
  <2> QED
    BY <2>1, <2>2
<1>7. LaunchShapes'
  BY <1>0, <1>1, <1>2, <1>5, <1>6 DEF LaunchShapes
<1>8. \A j \in DOMAIN slots : (Addr(j)' = Addr(j)) /\ (IsBuf(j)' <=> IsBuf(j)) /\ (IsOut(j)' <=> IsOut(j))
  BY <1>5 DEF Addr, IsBuf, IsOut
<1>9. OneOwner'
  BY <1>0, <1>1, <1>5, <1>8 DEF OneOwner, Live
<1>10. Staged(Len(slots))' /\ Computed'
  <2>1. Staged(Len(slots))'
    BY <1>1, <1>3, <1>5, <1>8 DEF Staged, Live
  <2> QED
    BY <1>1, <1>3, <1>5, <1>8, <2>1 DEF Computed
<1>11. CASE res # "ok"
  <2>1. Phases'
    BY <1>1, <1>2, <1>3, <1>11 DEF Phases
  <2> QED
    BY <1>7, <1>9, <2>1 DEF LaunchInv
<1>12. CASE res = "ok"
  <2>1. at' - 1 = at /\ pc' = "fetch"
    BY <1>1, <1>2, <1>12
  <2>2. files' = IF IsOut(at) THEN [files EXCEPT ![slots[at].path] = at] ELSE files
    <3>1. CASE ~IsOut(at)
      BY <3>1 DEF Launch!FetchSlot, IsOut
    <3>2. CASE IsOut(at)
      <4>1. files' = [files EXCEPT ![slots[at].path] =
              CASE res = "ok" -> mem[Addr(at)] [] res = "write" -> Launch!Partial
                [] OTHER -> files[slots[at].path]]
        BY <3>2 DEF Launch!FetchSlot, IsOut, Addr
      <4>2. (CASE res = "ok" -> mem[Addr(at)] [] res = "write" -> Launch!Partial
               [] OTHER -> files[slots[at].path]) = mem[Addr(at)]
        BY <1>12
      <4> QED
        BY <1>4, <3>2, <4>1, <4>2
    <3> QED
      BY <3>1, <3>2
  <2> DEFINE Same(n, p) == {k \in DOMAIN slots : k <= n /\ IsOut(k) /\ slots[k].path = p}
  <2>3. ASSUME NEW j \in DOMAIN slots, j <= at, IsOut(j)
        PROVE  files'[slots[j].path] = Launch!Max(Same(at, slots[j].path))
    <3>1. slots[j].path \in Paths /\ j \in Nat
      BY <1>0, <2>3, SlotOf DEF IsOut, IsBuf, Launch!OutKinds, Launch!Buffers
    <3>2. CASE IsOut(at) /\ slots[at].path = slots[j].path
      <4>1. at \in Same(at, slots[j].path) /\ Same(at, slots[j].path) \subseteq Int
            /\ \A y \in Same(at, slots[j].path) : y <= at
        BY <1>2, <3>2
      <4> HIDE DEF Same
      <4>2. Launch!Max(Same(at, slots[j].path)) = at
        BY <4>1, LargestIs
      <4> QED
        BY <1>2, <2>2, <3>1, <3>2, <4>2
    <3>3. CASE ~(IsOut(at) /\ slots[at].path = slots[j].path)
      <4>1. Same(at, slots[j].path) = Same(at - 1, slots[j].path)
        BY <1>2, <3>3
      <4>2. j <= at - 1 /\ files'[slots[j].path] = files[slots[j].path]
        BY <1>2, <2>2, <2>3, <3>1, <3>3
      <4>3. files[slots[j].path] = Launch!Max(Same(at - 1, slots[j].path))
        BY <1>3, <2>3, <4>2 DEF Fetched
      <4> HIDE DEF Same
      <4> QED
        BY <4>1, <4>2, <4>3
    <3> QED
      BY <3>2, <3>3
  <2>4. Fetched(at - 1)'
    <3>1. ASSUME NEW j \in DOMAIN slots
          PROVE  Same(at, slots[j].path) =
                   {k \in DOMAIN slots' : k <= at /\ IsOut(k)' /\ slots'[k].path = slots'[j].path}
      BY <1>5, <1>8
    <3> HIDE DEF Same
    <3>2. ASSUME NEW j \in DOMAIN slots', j <= at' - 1, IsOut(j)'
          PROVE  files'[slots'[j].path] =
                   Launch!Max({k \in DOMAIN slots' : k <= at' - 1 /\ IsOut(k)' /\ slots'[k].path = slots'[j].path})
      <4>1. j \in DOMAIN slots /\ j <= at /\ IsOut(j) /\ slots'[j].path = slots[j].path
        BY <1>5, <1>8, <2>1, <3>2
      <4>2. files'[slots'[j].path] = Launch!Max(Same(at, slots[j].path))
        BY <2>3, <4>1
      <4> QED
        BY <2>1, <3>1, <4>1, <4>2, Zenon
    <3> QED
      BY <3>2 DEF Fetched
  <2>5. Phases'
    BY <1>1, <1>2, <1>3, <1>10, <2>1, <2>4 DEF Phases
  <2> QED
    BY <1>7, <1>9, <2>5 DEF LaunchInv
<1> QED
  BY <1>11, <1>12

LEMMA LaunchStep ==
  ASSUME LaunchInv, Launch!Next
  PROVE  LaunchInv'
<1>1. CASE Launch!HostStep
  BY <1>1, LoadStep, StageStep, RunStep, SyncStep, FetchStep, FetchDoneStep, FinishStep
  DEF Launch!HostStep
<1>2. CASE Launch!KernelStep
  BY <1>2, KernelStep DEF Launch!KernelStep
<1> QED
  BY <1>1, <1>2, ResetStep, AddArgStep, LaunchLaunch DEF Launch!Next

LEMMA LaunchCorrect == Spec => [](part = "launch" => LaunchInv)
<1>1. Init => (part = "launch" => LaunchInv)
  BY LaunchInitially DEF Init
<1>2. (part = "launch" => LaunchInv) /\ [Next]_vars => (part = "launch" => LaunchInv)'
  <2>1. SUFFICES ASSUME part = "launch" => LaunchInv, [Next]_vars, part' = "launch"
                 PROVE  LaunchInv'
    OBVIOUS
  <2>2. part = "launch" /\ LaunchInv
    BY <2>1 DEF Next, vars
  <2>3. CASE Launch!Next
    BY <2>2, <2>3, LaunchStep
  <2>4. CASE UNCHANGED vars
    <3>1. UNCHANGED <<pc, exit, slots, at, rc, dev, kern, mem, kstate, call, files>>
      BY <2>4 DEF vars, launchVars
    <3>2. LaunchShapes' /\ OneOwner'
      BY <2>2, <3>1, SameMemory DEF LaunchInv, LaunchShapes
    <3>3. UNCHANGED <<Launch!Banks, Launch!TooManyArgs>>
      BY <3>1 DEF Launch!Banks, Launch!TooManyArgs, Launch!Ints, Launch!Flts, Launch!Loaded, Launch!IsFlt,
                  Launch!Reg, Launch!Value, Launch!NThreads
    <3>4. UNCHANGED <<Staged(0), Staged(at - 1), Staged(Len(slots)), Loaded(at - 1), Loaded(Len(slots)),
                      Computed, Fetched(at - 1), Fetched(Len(slots))>>
      BY <3>1 DEF Staged, Loaded, Computed, Fetched, Addr, IsBuf, IsOut, Live
    <3>5. Phases'
      BY <2>2, <3>1, <3>3, <3>4 DEF LaunchInv, Phases, Live
    <3> QED
      BY <3>2, <3>5 DEF LaunchInv
  <2> QED
    BY <2>1, <2>2, <2>3, <2>4 DEF Next
<1> QED
  BY <1>1, <1>2, PTL DEF Spec

(* THEOREM.  For any number of arguments, registers and files: while a     *)
(* kernel runs every buffer argument has memory of its own, the inputs     *)
(* hold what their files hold, and the CPU kernel is called with its       *)
(* parameters in order, the thread count after the last integer.           *)
THEOREM LaunchShowsFiles == Spec => []KernelSeesFiles
BY LaunchCorrect, LaunchImplied, PTL DEF KernelSeesFiles

(* THEOREM.  brun_launch returns 0 only when every output file holds what  *)
(* the kernel left for it.                                                 *)
THEOREM LaunchWritesOutputs == Spec => []ZeroMeansWritten
BY LaunchCorrect, LaunchImplied, PTL DEF ZeroMeansWritten

(* THEOREM.  A launch that has returned holds no device, kernel, memory or *)
(* buffer, whichever of its calls failed.                                  *)
THEOREM LaunchHoldsNothing == Spec => []NothingHeld
BY LaunchCorrect, LaunchImplied, PTL DEF NothingHeld

-----------------------------------------------------------------------------
(***************************************************************************)
(* The verbs.                                                              *)
(***************************************************************************)
VerbStates == {"new", "cubin", "ptx", "fat", "host", "cc", "clean",
               "lfortran", "cut", "build", "launch", "fail", "done"}
CudaStates == {"cubin", "ptx", "fat", "host", "cc", "clean"}
RunStates  == {"lfortran", "cut", "build", "launch"}

AllNames == {Verbs!NoName} \cup (Dirs \X {"cuda", "run", "lf"} \X Nat
              \X ({"cubin", "ptx", "fatbin", "cpp", "o", "o.cuda.cu", "cu"} \cup Exts))
NameRecords == [cub : AllNames, ptx : AllNames, fat : AllNames, cpp : AllNames,
                art : AllNames, obj : AllNames, side : AllNames, cu : AllNames]

VerbShapes ==
  /\ pc \in [Procs -> VerbStates] /\ verb \in [Procs -> {Verbs!None, "cuda", "run"}]
  /\ opts \in [Procs -> [fb : BOOLEAN, f90 : BOOLEAN]]
  /\ seq \in [Procs -> Nat] /\ path \in [Procs -> NameRecords]
  /\ DOMAIN nocub = Procs /\ exit \in [Procs -> Int] /\ DOMAIN result = Procs

(* The names of a process, as tmppath numbers them. *)
CudaName(p, n, e) == <<DirOf[p], "cuda", n, e>>
LfName(p, n, e)   == <<DirOf[p], "lf", n, e>>
RunName(p, e)     == <<DirOf[p], "run", 1, e>>
NoLf(p) == path[p].obj = Verbs!NoName /\ path[p].side = Verbs!NoName /\ path[p].cu = Verbs!NoName

CudaNames(p) ==
  /\ path[p].cub = CudaName(p, 1, "cubin") /\ path[p].ptx = CudaName(p, 2, "ptx")
  /\ path[p].fat = CudaName(p, 3, "fatbin") /\ path[p].cpp = CudaName(p, 4, "cpp")
  /\ path[p].art = Verbs!NoName /\ NoLf(p)

RunNames(p) ==
  /\ path[p].cub = Verbs!NoName /\ path[p].ptx = Verbs!NoName
  /\ path[p].fat = Verbs!NoName /\ path[p].cpp = Verbs!NoName
  /\ \E e \in Exts : path[p].art = RunName(p, e)
  /\ path[p].obj \in {Verbs!NoName, LfName(p, 2, "o")}
  /\ path[p].side \in {Verbs!NoName, LfName(p, 2, "o.cuda.cu")}
  /\ path[p].cu \in {Verbs!NoName, LfName(p, 3, "cu")}
  /\ ~opts[p].f90 \/ pc[p] = "lfortran" => NoLf(p)
  /\ pc[p] \in {"cut", "build", "launch"} /\ opts[p].f90 =>
       /\ path[p].obj = LfName(p, 2, "o") /\ path[p].side = LfName(p, 2, "o.cuda.cu")
       /\ path[p].cu = IF pc[p] = "cut" THEN Verbs!NoName ELSE LfName(p, 3, "cu")
  /\ pc[p] = "lfortran" => seq[p] = 1 /\ opts[p].f90
  /\ pc[p] = "cut" => seq[p] = 2 /\ opts[p].f90

NamesOf(p) ==
  /\ pc[p] = "new" => path[p] = Verbs!NoNames /\ seq[p] = 0
  /\ verb[p] = "cuda" => ~opts[p].f90
  /\ pc[p] \in CudaStates => verb[p] = "cuda"
  /\ pc[p] \in RunStates => verb[p] = "run"
  /\ pc[p] # "new" => \/ verb[p] = "cuda" /\ CudaNames(p)
                      \/ verb[p] = "run" /\ RunNames(p)

(* What p has to show for the steps it has taken is its own. *)
Has(f, c) == f \in DOMAIN tmp /\ tmp[f] = c
Source(p) == [Verbs!Blank EXCEPT !.host = p]
Device(p, h) == [host |-> h, ptx |-> p, sass |-> IF nocub[p] THEN Verbs!None ELSE p]

CudaProgress(p) ==
  /\ pc[p] \in {"ptx", "fat"} /\ ~nocub[p] => Has(path[p].cub, [Verbs!Blank EXCEPT !.sass = p])
  /\ pc[p] = "fat" => Has(path[p].ptx, [Verbs!Blank EXCEPT !.ptx = p])
  /\ pc[p] = "host" => Has(path[p].fat, Device(p, Verbs!None))
  /\ pc[p] = "cc" => Has(path[p].cpp, Device(p, p))
  /\ pc[p] = "clean" => result[p] = Device(p, p)

RunProgress(p) ==
  /\ pc[p] = "cut" => Has(path[p].side, Source(p))
  /\ pc[p] = "build" /\ opts[p].f90 => Has(path[p].cu, Source(p))
  /\ pc[p] = "launch" => Has(path[p].art, Source(p))

Ended(p) ==
  /\ pc[p] # "done" => exit[p] = -1
  /\ p \notin met /\ exit[p] = 0 =>
       result[p] = IF verb[p] = "run" THEN Source(p) ELSE Device(p, p)

Of(p) == NamesOf(p) /\ Ended(p) /\ (p \notin met => CudaProgress(p) /\ RunProgress(p))

(* A verb in a directory: two of one place use the same names, two of      *)
(* different places never.  Who has met none is alone in its place.        *)
Place(p) == <<DirOf[p], verb[p]>>
Where(f) == <<f[1], IF f[2] = "cuda" THEN "cuda" ELSE "run">>
Apart ==
  \A p, q \in Procs :
    pc[p] \notin {"new", "done"} /\ pc[q] \notin {"new", "done"} /\ p # q /\ p \notin met
    => Place(p) # Place(q)

(* The names p has removed for good; who writes one after that has a       *)
(* reason of its own.                                                      *)
Removed(p, f) ==
  /\ opts[p].f90
  /\ \/ pc[p] \in {"build", "launch"} /\ f \in {path[p].obj, path[p].side}
     \/ pc[p] = "launch" /\ f = path[p].cu

(* Why a file is there. *)
Reason(p, f) ==
  \/ pc[p] \notin {"new", "done"} /\ f \in Verbs!Names(p) /\ ~Removed(p, f)
  \/ exit[p] = 1 /\ verb[p] = "cuda" /\ f = path[p].cpp
  \/ exit[p] = 1 /\ verb[p] = "run" /\ opts[p].f90 /\ f[2] = "lf"
  \/ exit[p] = 130 /\ f \in Verbs!Names(p)
Reasons == \A f \in DOMAIN tmp : \E p \in Procs : Reason(p, f)

VerbInv == VerbShapes /\ (\A p \in Procs : Of(p)) /\ Apart /\ Reasons

-----------------------------------------------------------------------------
(* A step of q touches its own variables and the files of its place. *)
SameProc(p) ==
  /\ pc'[p] = pc[p] /\ verb'[p] = verb[p] /\ opts'[p] = opts[p] /\ seq'[p] = seq[p]
  /\ path'[p] = path[p] /\ nocub'[p] = nocub[p] /\ exit'[p] = exit[p] /\ result'[p] = result[p]
OnlyIn(d) ==
  \A f : Where(f) # d => /\ f \in DOMAIN tmp' <=> f \in DOMAIN tmp
                         /\ f \in DOMAIN tmp => tmp'[f] = tmp[f]
Idle(p) == pc[p] \in {"new", "done"}

LEMMA OtherKept ==
  ASSUME NEW p \in Procs, Of(p), SameProc(p), met \subseteq met',
         ~Idle(p) /\ p \notin met' => \E d : Place(p) # d /\ OnlyIn(d)
  PROVE  Of(p)'
<1>1. NamesOf(p)'
  BY DEF Of, SameProc, NamesOf, CudaNames, RunNames, RunName, NoLf, CudaName, LfName
<1>2. Ended(p)'
  BY DEF Of, SameProc, Ended, Source, Device
<1>3. ASSUME NEW f, Where(f) = Place(p), NEW c, ~Idle(p), p \notin met'
      PROVE  /\ Has(f, c)' <=> Has(f, c)
             /\ f \in DOMAIN tmp' <=> f \in DOMAIN tmp
  <2>1. PICK d : Place(p) # d /\ OnlyIn(d)
    BY <1>3
  <2>2. /\ f \in DOMAIN tmp' <=> f \in DOMAIN tmp
        /\ f \in DOMAIN tmp => tmp'[f] = tmp[f]
    BY <1>3, <2>1 DEF OnlyIn
  <2> QED
    BY <2>2 DEF Has
<1>4. ASSUME p \notin met' PROVE CudaProgress(p)'
  <2>0. CudaProgress(p)
    BY <1>4 DEF Of
  <2>1. CASE verb[p] = "cuda" /\ ~Idle(p)
    <3>1. Where(path[p].cub) = Place(p) /\ Where(path[p].ptx) = Place(p)
          /\ Where(path[p].fat) = Place(p) /\ Where(path[p].cpp) = Place(p)
      BY <2>1 DEF Of, NamesOf, CudaNames, CudaName, Idle, Where, Place
    <3> QED
      BY <1>3, <1>4, <2>0, <2>1, <3>1 DEF CudaProgress, SameProc, Device
  <2>2. CASE verb[p] # "cuda" \/ Idle(p)
    <3>1. pc[p] \notin CudaStates
      BY <2>2 DEF Of, NamesOf, Idle, CudaStates
    <3> QED
      BY <3>1 DEF CudaProgress, SameProc, CudaStates
  <2> QED
    BY <2>1, <2>2
<1>5. ASSUME p \notin met' PROVE RunProgress(p)'
  <2>0. RunProgress(p)
    BY <1>5 DEF Of
  <2>1. CASE verb[p] = "run" /\ ~Idle(p)
    <3>0. RunNames(p)
      BY <2>1 DEF Of, NamesOf, Idle
    <3>1. Where(path[p].art) = Place(p)
      BY <2>1, <3>0 DEF RunNames, RunName, Where, Place
    <3>2. pc[p] \in {"cut", "build", "launch"} /\ opts[p].f90 =>
            Where(path[p].obj) = Place(p) /\ Where(path[p].side) = Place(p)
      BY <2>1, <3>0 DEF RunNames, LfName, Where, Place
    <3>3. pc[p] \in {"build", "launch"} /\ opts[p].f90 => Where(path[p].cu) = Place(p)
      BY <2>1, <3>0 DEF RunNames, LfName, Where, Place
    <3>4. pc[p] = "cut" => opts[p].f90
      BY <3>0 DEF RunNames
    <3> QED
      BY <1>3, <1>5, <2>0, <2>1, <3>1, <3>2, <3>3, <3>4 DEF RunProgress, SameProc, Source
  <2>2. CASE verb[p] # "run" \/ Idle(p)
    <3>1. pc[p] \notin RunStates
      BY <2>2 DEF Of, NamesOf, Idle, RunStates
    <3> QED
      BY <3>1 DEF RunProgress, SameProc, RunStates
  <2> QED
    BY <2>1, <2>2
<1> QED
  BY <1>1, <1>2, <1>4, <1>5 DEF Of

LEMMA Elsewhere == ASSUME NEW x PROVE \E d : x # d
<1>1. x # {} \/ x # {{}}
  BY Zenon
<1> QED
  BY <1>1

(* What a step of q has to show for the invariant to hold after it. *)
LEMMA Moved ==
  ASSUME VerbInv, NEW q \in Procs, VerbShapes', pc'[q] # "new",
         \A p \in Procs : p # q => SameProc(p),
         \/ ~Idle(q) /\ OnlyIn(Place(q)) /\ met' = met
         \/ tmp' = tmp,
         met \subseteq met', Apart', Of(q)',
         \A f \in DOMAIN tmp' : \/ f \in DOMAIN tmp /\ (Reason(q, f) => Reason(q, f)')
                                \/ Reason(q, f)'
  PROVE  VerbInv'
<1>1. ASSUME NEW p \in Procs PROVE Of(p)'
  <2>1. CASE p # q
    <3>1. ASSUME ~Idle(p), p \notin met' PROVE \E d : Place(p) # d /\ OnlyIn(d)
      <4>1. CASE ~Idle(q) /\ OnlyIn(Place(q)) /\ met' = met
        <5>1. Place(p) # Place(q)
          BY <2>1, <3>1, <4>1 DEF VerbInv, Apart, Idle
        <5> QED
          BY <4>1, <5>1
      <4>2. CASE tmp' = tmp
        BY <4>2, Elsewhere DEF OnlyIn
      <4> QED
        BY <4>1, <4>2
    <3> QED
      BY <2>1, <3>1, OtherKept DEF VerbInv
  <2> QED
    BY <2>1
<1>3. Reasons'
  <2>1. ASSUME NEW f \in DOMAIN tmp' PROVE \E p \in Procs : Reason(p, f)'
    <3>1. CASE Reason(q, f)'
      BY <3>1
    <3>2. CASE ~Reason(q, f)'
      <4>1. f \in DOMAIN tmp /\ ~Reason(q, f)
        BY <3>2
      <4>2. PICK p \in Procs : Reason(p, f)
        BY <4>1 DEF VerbInv, Reasons
      <4>3. p # q /\ SameProc(p)
        BY <4>1, <4>2
      <4>4. Reason(p, f)'
        BY <4>2, <4>3 DEF SameProc, Reason, Removed, Verbs!Names
      <4> QED
        BY <4>4
    <3> QED
      BY <3>1, <3>2
  <2> QED
    BY <2>1 DEF Reasons
<1> QED
  BY <1>1, <1>3 DEF VerbInv

LEMMA VerbImplied ==
  ASSUME VerbInv
  PROVE  Verbs!OwnCode /\ Verbs!LeftForAReason
<1>1. Verbs!OwnCode
  BY DEF VerbInv, Of, Ended, Source, Device, Verbs!OwnCode
<1>2. Verbs!LeftForAReason
  <2>1. SUFFICES ASSUME Verbs!Active = {}, NEW f \in DOMAIN tmp
                 PROVE  \E p \in Procs :
                          \/ exit[p] = 1 /\ verb[p] = "cuda" /\ f = path[p].cpp
                          \/ exit[p] = 1 /\ verb[p] = "run" /\ opts[p].f90 /\ f[2] = "lf"
                          \/ exit[p] = 130 /\ f \in Verbs!Names(p)
    BY DEF Verbs!LeftForAReason
  <2>2. PICK p \in Procs : Reason(p, f)
    BY DEF VerbInv, Reasons
  <2> QED
    BY <2>1, <2>2 DEF Reason, Verbs!Active
<1> QED
  BY <1>1, <1>2

LEMMA VerbInitially ==
  ASSUME Verbs!Init
  PROVE  VerbInv
<1>1. Verbs!NoName \in AllNames /\ Verbs!NoNames \in NameRecords
  BY DEF AllNames, NameRecords, Verbs!NoNames
<1>2. VerbShapes
  BY <1>1 DEF Verbs!Init, VerbShapes, VerbStates
<1>3. ASSUME NEW p \in Procs PROVE Of(p)
  <2>1. pc[p] = "new" /\ path[p] = Verbs!NoNames /\ seq[p] = 0 /\ exit[p] = -1
        /\ (verb[p] = "cuda" => ~opts[p].f90)
    BY DEF Verbs!Init
  <2> QED
    BY <2>1 DEF Of, NamesOf, CudaStates, RunStates, CudaProgress, RunProgress, Ended
<1>4. Apart
  BY DEF Verbs!Init, Apart
<1>5. Reasons
  <2>1. tmp = <<>> /\ DOMAIN <<>> = {}
    BY DEF Verbs!Init
  <2> QED
    BY <2>1 DEF Reasons
<1> QED
  BY <1>2, <1>3, <1>4, <1>5 DEF VerbInv

(* Who starts beside a namesake has met it, and it has met who starts. *)
LEMMA StartApart ==
  ASSUME VerbInv, NEW q \in Procs, NEW v \in {"cuda", "run"}, NEW o, Verbs!Starts(q, v, o),
         NEW l, pc' = [pc EXCEPT ![q] = l]
  PROVE  Apart' /\ met \subseteq met'
<1>1. /\ pc[q] = "new" /\ verb' = [verb EXCEPT ![q] = v]
      /\ met' = IF Verbs!Namesakes(q, v) = {} THEN met ELSE (met \cup Verbs!Namesakes(q, v)) \cup {q}
  BY DEF Verbs!Starts
<1>2. met \subseteq met'
  BY <1>1
<1>3. ASSUME NEW p \in Procs, p # q, ~Idle(p), DirOf[p] = DirOf[q], verb[p] = v
      PROVE  p \in met' /\ q \in met'
  <2>1. p \in Verbs!Namesakes(q, v)
    BY <1>3 DEF Verbs!Namesakes, Verbs!Active, Idle
  <2> QED
    BY <1>1, <2>1
<1>4. /\ verb'[q] = v
      /\ \A p \in Procs : p # q => pc'[p] = pc[p] /\ verb'[p] = verb[p]
  BY <1>1 DEF VerbInv, VerbShapes
<1>5. ASSUME NEW p \in Procs, NEW r \in Procs, pc'[p] \notin {"new", "done"},
             pc'[r] \notin {"new", "done"}, p # r, p \notin met'
      PROVE  Place(p)' # Place(r)'
  <2>1. CASE p # q /\ r # q
    BY <1>2, <1>4, <1>5, <2>1 DEF VerbInv, Apart, Place
  <2>2. CASE p = q
    BY <1>3, <1>4, <1>5, <2>2 DEF Place, Idle
  <2>3. CASE r = q
    BY <1>3, <1>4, <1>5, <2>3 DEF Place, Idle
  <2> QED
    BY <2>1, <2>2, <2>3
<1> QED
  BY <1>2, <1>5 DEF Apart

LEMMA CudaStartStep ==
  ASSUME VerbInv, NEW q \in Procs, NEW fb \in BOOLEAN, Verbs!CudaStart(q, fb)
  PROVE  VerbInv'
<1>0. VerbShapes /\ Of(q)
  BY DEF VerbInv
<1> DEFINE o == [fb |-> fb, f90 |-> FALSE]
<1>1. /\ pc[q] = "new" /\ verb' = [verb EXCEPT ![q] = "cuda"] /\ pc' = [pc EXCEPT ![q] = "cubin"]
      /\ opts' = [opts EXCEPT ![q] = o] /\ Verbs!Starts(q, "cuda", o)
      /\ UNCHANGED <<nocub, exit, result, tmp>> /\ seq' = [seq EXCEPT ![q] = @ + 4]
  BY DEF Verbs!CudaStart, Verbs!Starts, Verbs!Goto
<1>2. path[q] = Verbs!NoNames /\ seq[q] = 0 /\ DirOf[q] \in Dirs /\ exit[q] = -1
  BY <1>0, <1>1, DirAssumption DEF Of, NamesOf, Ended
<1>3. PICK r : /\ path' = [path EXCEPT ![q] = r]
               /\ r = [Verbs!NoNames EXCEPT !.cub = CudaName(q, 1, "cubin"), !.ptx = CudaName(q, 2, "ptx"),
                                            !.fat = CudaName(q, 3, "fatbin"), !.cpp = CudaName(q, 4, "cpp")]
  <2>1. Verbs!TmpPath(q, 1, "cuda", "cubin") = CudaName(q, 1, "cubin")
        /\ Verbs!TmpPath(q, 2, "cuda", "ptx") = CudaName(q, 2, "ptx")
        /\ Verbs!TmpPath(q, 3, "cuda", "fatbin") = CudaName(q, 3, "fatbin")
        /\ Verbs!TmpPath(q, 4, "cuda", "cpp") = CudaName(q, 4, "cpp")
    BY <1>2 DEF Verbs!TmpPath, CudaName
  <2>2. path' = [path EXCEPT ![q] = [@ EXCEPT
          !.cub = Verbs!TmpPath(q, 1, "cuda", "cubin"), !.ptx = Verbs!TmpPath(q, 2, "cuda", "ptx"),
          !.fat = Verbs!TmpPath(q, 3, "cuda", "fatbin"), !.cpp = Verbs!TmpPath(q, 4, "cuda", "cpp")]]
    BY Zenon DEF Verbs!CudaStart
  <2> QED
    BY <1>2, <2>1, <2>2
<1>4. /\ r.cub = CudaName(q, 1, "cubin") /\ r.ptx = CudaName(q, 2, "ptx")
      /\ r.fat = CudaName(q, 3, "fatbin") /\ r.cpp = CudaName(q, 4, "cpp")
      /\ r.art = Verbs!NoName /\ r.obj = Verbs!NoName /\ r.side = Verbs!NoName /\ r.cu = Verbs!NoName
      /\ r = [cub |-> r.cub, ptx |-> r.ptx, fat |-> r.fat, cpp |-> r.cpp,
              art |-> r.art, obj |-> r.obj, side |-> r.side, cu |-> r.cu]
  BY <1>3 DEF Verbs!NoNames
<1>5. r \in NameRecords
  <2>1. Verbs!NoName \in AllNames /\ CudaName(q, 1, "cubin") \in AllNames /\ CudaName(q, 2, "ptx") \in AllNames
        /\ CudaName(q, 3, "fatbin") \in AllNames /\ CudaName(q, 4, "cpp") \in AllNames
    BY <1>2 DEF CudaName, AllNames
  <2> QED
    BY <1>4, <2>1 DEF NameRecords
<1>6. VerbShapes' /\ pc'[q] = "cubin" /\ path'[q] = r /\ verb'[q] = "cuda" /\ ~opts'[q].f90
  BY <1>0, <1>1, <1>2, <1>3, <1>5 DEF VerbShapes, VerbStates
<1>7. \A p \in Procs : p # q => SameProc(p)
  BY <1>0, <1>1, <1>3 DEF SameProc, VerbShapes
<1>8. Of(q)'
  BY <1>1, <1>2, <1>4, <1>6 DEF Of, NamesOf, CudaNames, NoLf, CudaName, CudaStates, RunStates, CudaProgress, RunProgress, Ended
<1>9. \A f : Reason(q, f) => Reason(q, f)'
  BY <1>1, <1>2 DEF Reason
<1>10. Apart' /\ met \subseteq met' /\ UNCHANGED exit
  BY <1>1, StartApart
<1> QED
  BY <1>1, <1>6, <1>7, <1>8, <1>9, <1>10, Moved

LEMMA NamesInPlace ==
  ASSUME NEW q \in Procs, Of(q), pc[q] # "new", NEW f \in Verbs!Names(q)
  PROVE  Where(f) = Place(q)
<1>1. CASE verb[q] = "cuda"
  BY <1>1 DEF Of, NamesOf, CudaNames, NoLf, CudaName, Verbs!Names, Where, Place
<1>2. CASE verb[q] # "cuda"
  <2>1. verb[q] = "run"
    BY <1>2 DEF Of, NamesOf
  <2> QED
    BY <1>2, <2>1 DEF Of, NamesOf, RunNames, RunName, NoLf, LfName, Verbs!Names, Where, Place
<1> QED
  BY <1>1, <1>2

(* A step that works on the files F, whose names have been made; it writes *)
(* none that is removed for good after it, and removes no other for good.  *)
Touches(F) == \A f : f \notin F => /\ f \in DOMAIN tmp' <=> f \in DOMAIN tmp
                                   /\ f \in DOMAIN tmp => tmp'[f] = tmp[f]
StaysNamed(q, F) ==
  \A f \in DOMAIN tmp' : f \in F \/ ~Removed(q, f) => ~Removed(q, f)'

LEMMA Works ==
  ASSUME VerbInv, NEW q \in Procs, ~Idle(q), NEW l \in VerbStates \ {"new", "done"},
         pc' = [pc EXCEPT ![q] = l], UNCHANGED <<verb, opts, seq, path, exit, met>>,
         DOMAIN nocub' = Procs, DOMAIN result' = Procs,
         \A p \in Procs : p # q => nocub'[p] = nocub[p] /\ result'[p] = result[p],
         NEW F \in SUBSET Verbs!Names(q), Touches(F), StaysNamed(q, F),
         NamesOf(q)', q \notin met => CudaProgress(q)' /\ RunProgress(q)'
  PROVE  VerbInv'
<1>0. VerbShapes /\ Of(q) /\ exit[q] = -1 /\ pc[q] # "new"
  BY DEF VerbInv, Of, Ended, Idle
<1>1. VerbShapes' /\ pc'[q] = l
  BY <1>0 DEF VerbShapes
<1>2. \A p \in Procs : p # q => SameProc(p)
  BY <1>0 DEF SameProc, VerbShapes
<1>3. OnlyIn(Place(q))
  <2>1. \A f \in F : Where(f) = Place(q)
    BY <1>0, NamesInPlace
  <2> QED
    BY <2>1 DEF OnlyIn, Touches
<1>4. Of(q)'
  BY <1>0, <1>1 DEF Of, Ended
<1>5. ASSUME NEW f \in DOMAIN tmp'
      PROVE  \/ f \in DOMAIN tmp /\ (Reason(q, f) => Reason(q, f)')
             \/ Reason(q, f)'
  <2>1. Verbs!Names(q)' = Verbs!Names(q)
    BY DEF Verbs!Names
  <2>2. f \in Verbs!Names(q) /\ ~Removed(q, f)' => Reason(q, f)'
    BY <1>1, <2>1 DEF Reason
  <2>3. Reason(q, f) => f \in Verbs!Names(q) /\ ~Removed(q, f)
    BY <1>0 DEF Reason
  <2> QED
    BY <2>2, <2>3 DEF Touches, StaysNamed
<1>6. \A f \in DOMAIN tmp' : \/ f \in DOMAIN tmp /\ (Reason(q, f) => Reason(q, f)')
                             \/ Reason(q, f)'
  BY <1>5
<1>7. pc'[q] # "new" /\ met \subseteq met' /\ met' = met
  BY <1>1
<1>8. Apart'
  BY <1>0, <1>1 DEF VerbInv, Apart, Place, Idle, VerbShapes
<1> QED
  BY <1>1, <1>2, <1>3, <1>4, <1>6, <1>7, <1>8, Moved, Zenon

(* A step with which a process ends. *)
LEMMA Ends ==
  ASSUME VerbInv, NEW q \in Procs, ~Idle(q), NEW e \in Int,
         pc' = [pc EXCEPT ![q] = "done"], exit' = [exit EXCEPT ![q] = e],
         UNCHANGED <<verb, opts, seq, path, nocub, met>>, DOMAIN result' = Procs,
         \A p \in Procs : p # q => result'[p] = result[p],
         NEW F \in SUBSET Verbs!Names(q), Touches(F), DOMAIN tmp' \subseteq DOMAIN tmp,
         q \notin met /\ e = 0 => result'[q] = IF verb[q] = "run" THEN Source(q) ELSE Device(q, q),
         e # 130 => \A f \in (DOMAIN tmp') \cap Verbs!Names(q) : ~Removed(q, f) =>
           \/ e = 1 /\ verb[q] = "cuda" /\ f = path[q].cpp
           \/ e = 1 /\ verb[q] = "run" /\ opts[q].f90 /\ f[2] = "lf"
  PROVE  VerbInv'
<1>0. VerbShapes /\ Of(q) /\ exit[q] = -1 /\ pc[q] # "new"
  BY DEF VerbInv, Of, Ended, Idle
<1>1. VerbShapes' /\ pc'[q] = "done" /\ exit'[q] = e
  BY <1>0 DEF VerbShapes, VerbStates
<1>2. \A p \in Procs : p # q => SameProc(p)
  BY <1>0 DEF SameProc, VerbShapes
<1>3. OnlyIn(Place(q))
  <2>1. \A f \in F : Where(f) = Place(q)
    BY <1>0, NamesInPlace
  <2> QED
    BY <2>1 DEF OnlyIn, Touches
<1>4. Of(q)'
  <2>1. NamesOf(q)'
    BY <1>0, <1>1 DEF Of, NamesOf, CudaNames, RunNames, RunName, NoLf, CudaName, LfName, CudaStates, RunStates
  <2> QED
    BY <1>1, <2>1 DEF Of, CudaProgress, RunProgress, Ended, Source, Device
<1>5. ASSUME NEW f \in DOMAIN tmp'
      PROVE  f \in DOMAIN tmp /\ (Reason(q, f) => Reason(q, f)')
  <2>1. Verbs!Names(q)' = Verbs!Names(q)
    BY DEF Verbs!Names
  <2>2. Reason(q, f) => f \in Verbs!Names(q) /\ ~Removed(q, f)
    BY <1>0 DEF Reason
  <2> QED
    BY <1>1, <2>1, <2>2 DEF Reason
<1>6. \A f \in DOMAIN tmp' : \/ f \in DOMAIN tmp /\ (Reason(q, f) => Reason(q, f)')
                             \/ Reason(q, f)'
  BY <1>5
<1>7. pc'[q] # "new" /\ met \subseteq met' /\ met' = met
  BY <1>1
<1>8. Apart'
  BY <1>0, <1>1 DEF VerbInv, Apart, Place, Idle, VerbShapes
<1> QED
  BY <1>1, <1>2, <1>3, <1>4, <1>6, <1>7, <1>8, Moved, Zenon

LEMMA KilledStep ==
  ASSUME VerbInv, NEW q \in Procs, Verbs!Killed(q)
  PROVE  VerbInv'
<1>1. /\ ~Idle(q) /\ pc' = [pc EXCEPT ![q] = "done"] /\ exit' = [exit EXCEPT ![q] = 130]
      /\ UNCHANGED <<verb, opts, seq, path, nocub, result, tmp, met>> /\ DOMAIN result = Procs
  BY DEF Verbs!Killed, Verbs!Active, Verbs!Goto, Idle, VerbInv, VerbShapes
<1>2. Touches({})
  BY <1>1 DEF Touches
<1>3. {} \in SUBSET Verbs!Names(q) /\ DOMAIN tmp' \subseteq DOMAIN tmp /\ 130 \in Int /\ 130 # 0
  BY <1>1
<1>4. DOMAIN result' = Procs /\ \A p \in Procs : p # q => result'[p] = result[p]
  BY <1>1
<1>5. UNCHANGED <<verb, opts, seq, path, nocub, met>>
  BY <1>1
<1> QED
  BY <1>1, <1>2, <1>3, <1>4, <1>5, Ends, Zenon

(* One file is written, or none. *)
LEMMA OnePut ==
  ASSUME NEW f, NEW c, tmp' = tmp \/ tmp' = Verbs!With(tmp, f, c)
  PROVE  Touches({f}) /\ (tmp' = Verbs!With(tmp, f, c) => Has(f, c)')
<1>1. CASE tmp' = tmp /\ tmp' # Verbs!With(tmp, f, c)
  BY <1>1 DEF Touches
<1>2. CASE tmp' = Verbs!With(tmp, f, c)
  <2>1. DOMAIN tmp' = DOMAIN tmp \cup {f} /\ tmp'[f] = c /\ \A g \in DOMAIN tmp : g # f => tmp'[g] = tmp[g]
    BY <1>2 DEF Verbs!With
  <2> QED
    BY <2>1 DEF Touches, Has
<1> QED
  BY <1>1, <1>2

LEMMA CudaKeeps ==
  ASSUME NEW q \in Procs, Of(q), pc[q] \in CudaStates, pc'[q] \in CudaStates \cup {"fail"},
         UNCHANGED <<verb, opts, path, seq>>
  PROVE  /\ ~Idle(q) /\ NamesOf(q)' /\ RunProgress(q)' /\ CudaNames(q) /\ verb[q] = "cuda"
         /\ {path[q].cub, path[q].ptx, path[q].fat, path[q].cpp} = Verbs!Names(q)
         /\ \A F : StaysNamed(q, F)
<1>1. CudaNames(q) /\ verb[q] = "cuda" /\ ~opts[q].f90
  BY DEF Of, NamesOf, CudaStates
<1>2. NamesOf(q)'
  BY <1>1 DEF NamesOf, CudaNames, NoLf, CudaName, CudaStates, RunStates
<1>3. {path[q].cub, path[q].ptx, path[q].fat, path[q].cpp} = Verbs!Names(q)
  BY <1>1 DEF CudaNames, NoLf, CudaName, Verbs!Names, Verbs!NoName
<1> QED
  BY <1>1, <1>2, <1>3 DEF Idle, CudaStates, RunProgress, StaysNamed, Removed

LEMMA CudaCubinStep ==
  ASSUME VerbInv, NEW q \in Procs, NEW ok \in BOOLEAN, Verbs!CudaCubin(q, ok)
  PROVE  VerbInv'
<1> DEFINE f == path[q].cub
           c == [Verbs!Blank EXCEPT !.sass = q]
           l == IF ok \/ opts[q].fb THEN "ptx" ELSE "fail"
<1>0. VerbShapes /\ Of(q)
  BY DEF VerbInv
<1>1. /\ pc[q] = "cubin" /\ pc' = [pc EXCEPT ![q] = l]
      /\ nocub' = [nocub EXCEPT ![q] = ~ok /\ opts[q].fb]
      /\ UNCHANGED <<verb, opts, seq, path, exit, result, met>>
      /\ IF ok THEN tmp' = Verbs!With(tmp, f, c) ELSE tmp' = tmp
  BY DEF Verbs!CudaCubin, Verbs!Goto, Verbs!Put
<1>2. pc'[q] = l /\ l \in {"ptx", "fail"} /\ (nocub'[q] = (~ok /\ opts[q].fb))
      /\ DOMAIN nocub' = Procs /\ DOMAIN result' = Procs
      /\ \A p \in Procs : p # q => nocub'[p] = nocub[p] /\ result'[p] = result[p]
  BY <1>0, <1>1 DEF VerbShapes
<1>3. ~Idle(q) /\ NamesOf(q)' /\ RunProgress(q)' /\ {f} \in SUBSET Verbs!Names(q)
      /\ StaysNamed(q, {f})
  BY <1>0, <1>1, <1>2, CudaKeeps DEF CudaStates
<1>4. Touches({f}) /\ (ok => Has(f, c)')
  BY <1>1, OnePut
<1>5. ASSUME q \notin met PROVE CudaProgress(q)'
  <2>1. CASE pc'[q] = "ptx" /\ ~nocub'[q]
    <3>1. ok
      BY <1>2, <2>1
    <3> QED
      BY <1>1, <1>4, <2>1, <3>1 DEF CudaProgress, Has
  <2>2. CASE pc'[q] = "ptx" /\ nocub'[q]
    BY <2>2 DEF CudaProgress
  <2>3. CASE pc'[q] = "fail"
    BY <2>3 DEF CudaProgress
  <2> QED
    BY <1>2, <2>1, <2>2, <2>3
<1>6. l \in VerbStates \ {"new", "done"} /\ UNCHANGED <<verb, opts, seq, path, exit, met>>
  BY <1>1, <1>2 DEF VerbStates
<1> HIDE DEF f, c, l
<1> QED
  BY <1>1, <1>2, <1>3, <1>4, <1>5, <1>6, Works

LEMMA CudaPtxStep ==
  ASSUME VerbInv, NEW q \in Procs, NEW ok \in BOOLEAN, Verbs!CudaPtx(q, ok)
  PROVE  VerbInv'
<1> DEFINE f == path[q].ptx
           c == [Verbs!Blank EXCEPT !.ptx = q]
           l == IF ok THEN "fat" ELSE "fail"
<1>0. VerbShapes /\ Of(q)
  BY DEF VerbInv
<1>1. /\ pc[q] = "ptx" /\ pc' = [pc EXCEPT ![q] = l]
      /\ UNCHANGED <<verb, opts, seq, path, nocub, exit, result, met>>
      /\ IF ok THEN tmp' = Verbs!With(tmp, f, c) ELSE tmp' = tmp
  BY DEF Verbs!CudaPtx, Verbs!Goto, Verbs!Put
<1>2. pc'[q] = l /\ l \in {"fat", "fail"}
      /\ DOMAIN nocub' = Procs /\ DOMAIN result' = Procs
      /\ \A p \in Procs : p # q => nocub'[p] = nocub[p] /\ result'[p] = result[p]
  BY <1>0, <1>1 DEF VerbShapes
<1>3. ~Idle(q) /\ NamesOf(q)' /\ RunProgress(q)' /\ {f} \in SUBSET Verbs!Names(q) /\ path[q].cub # f
      /\ StaysNamed(q, {f})
  <2>1. path[q].cub # f /\ pc[q] \in CudaStates
    BY <1>0, <1>1 DEF Of, NamesOf, CudaNames, CudaName, CudaStates
  <2> QED
    BY <1>0, <1>1, <1>2, <2>1, CudaKeeps DEF CudaStates
<1>4. Touches({f}) /\ (ok => Has(f, c)')
  BY <1>1, OnePut
<1>5. ASSUME q \notin met PROVE CudaProgress(q)'
  <2>1. CASE ok
    <3>1. ~nocub[q] => Has(path[q].cub, [Verbs!Blank EXCEPT !.sass = q])
      BY <1>0, <1>1, <1>5 DEF Of, CudaProgress
    <3>2. ~nocub[q] => Has(path[q].cub, [Verbs!Blank EXCEPT !.sass = q])'
      BY <1>1, <1>3, <1>4, <3>1 DEF Has, Touches
    <3> QED
      BY <1>1, <1>2, <1>4, <2>1, <3>2 DEF CudaProgress, Has
  <2>2. CASE ~ok
    BY <1>2, <2>2 DEF CudaProgress
  <2> QED
    BY <2>1, <2>2
<1>6. l \in VerbStates \ {"new", "done"} /\ UNCHANGED <<verb, opts, seq, path, exit, met>>
  BY <1>1, <1>2 DEF VerbStates
<1> HIDE DEF f, c, l
<1> QED
  BY <1>1, <1>2, <1>3, <1>4, <1>5, <1>6, Works

LEMMA CudaFatStep ==
  ASSUME VerbInv, NEW q \in Procs, NEW ok \in BOOLEAN, Verbs!CudaFat(q, ok)
  PROVE  VerbInv'
<1> DEFINE f == path[q].fat
           s == IF nocub[q] THEN Verbs!None ELSE Verbs!SassOf(path[q].cub)
           x == Verbs!PtxOf(path[q].ptx)
           good == ok /\ (nocub[q] \/ s # Verbs!None) /\ (s # Verbs!None \/ x # Verbs!None)
           l == IF good THEN "host" ELSE "fail"
<1>0. VerbShapes /\ Of(q)
  BY DEF VerbInv
<1>1. /\ pc[q] = "fat" /\ pc' = [pc EXCEPT ![q] = l]
      /\ UNCHANGED <<verb, opts, seq, path, nocub, exit, result, met>>
      /\ IF good THEN tmp' = Verbs!With(tmp, f, [host |-> Verbs!None, sass |-> s, ptx |-> x])
                 ELSE tmp' = Verbs!Without(tmp, {f})
  BY DEF Verbs!CudaFat, Verbs!Goto, Verbs!Put, Verbs!Remove
<1>2. ASSUME q \notin met PROVE s = (IF nocub[q] THEN Verbs!None ELSE q) /\ x = q
  <2>1. (~nocub[q] => Has(path[q].cub, [Verbs!Blank EXCEPT !.sass = q]))
        /\ Has(path[q].ptx, [Verbs!Blank EXCEPT !.ptx = q])
    BY <1>0, <1>1, <1>2 DEF Of, CudaProgress
  <2> QED
    BY <2>1 DEF Has, Verbs!SassOf, Verbs!PtxOf, Verbs!Exists, Verbs!Blank
<1> DEFINE d == [host |-> Verbs!None, sass |-> s, ptx |-> x]
<1>3. q \notin met => d = Device(q, Verbs!None)
  BY <1>2 DEF Device
<1> HIDE DEF s, x, good, d
<1>4. pc'[q] = l /\ l \in {"host", "fail"}
      /\ DOMAIN nocub' = Procs /\ DOMAIN result' = Procs
      /\ \A p \in Procs : p # q => nocub'[p] = nocub[p] /\ result'[p] = result[p]
  BY <1>0, <1>1 DEF VerbShapes
<1>5. ~Idle(q) /\ NamesOf(q)' /\ RunProgress(q)' /\ {f} \in SUBSET Verbs!Names(q)
      /\ StaysNamed(q, {f})
  BY <1>0, <1>1, <1>4, CudaKeeps DEF CudaStates
<1>6. Touches({f}) /\ (good /\ q \notin met => Has(f, Device(q, Verbs!None))')
  <2>1. CASE good
    <3>1. tmp' = Verbs!With(tmp, f, d) /\ Device(q, Verbs!None)' = Device(q, Verbs!None) /\ f' = f
      BY <1>1, <2>1 DEF Device, d
    <3> HIDE DEF f
    <3>2. Touches({f}) /\ f \in DOMAIN tmp' /\ tmp'[f] = d
      BY <3>1 DEF Verbs!With, Touches
    <3> QED
      BY <1>3, <3>1, <3>2 DEF Has
  <2>2. CASE ~good
    BY <1>1, <2>2 DEF Verbs!Without, Verbs!Restrict, Touches
  <2> QED
    BY <2>1, <2>2
<1>7. ASSUME q \notin met PROVE CudaProgress(q)'
  BY <1>1, <1>4, <1>6, <1>7 DEF CudaProgress
<1>8. l \in VerbStates \ {"new", "done"} /\ UNCHANGED <<verb, opts, seq, path, exit, met>>
  BY <1>1, <1>4 DEF VerbStates
<1>9. pc' = [pc EXCEPT ![q] = l]
  BY <1>1
<1> HIDE DEF f, l
<1> QED
  BY <1>4, <1>5, <1>6, <1>7, <1>8, <1>9, Works

LEMMA CudaHostStep ==
  ASSUME VerbInv, NEW q \in Procs, NEW ok \in BOOLEAN, Verbs!CudaHost(q, ok)
  PROVE  VerbInv'
<1> DEFINE f == path[q].cpp
           c == [host |-> q, sass |-> Verbs!SassOf(path[q].fat), ptx |-> Verbs!PtxOf(path[q].fat)]
           l == IF ok THEN "cc" ELSE "fail"
<1>0. VerbShapes /\ Of(q)
  BY DEF VerbInv
<1>1. /\ pc[q] = "host" /\ pc' = [pc EXCEPT ![q] = l]
      /\ UNCHANGED <<verb, opts, seq, path, nocub, exit, result, met>>
      /\ IF ok THEN tmp' = Verbs!With(tmp, f, c) ELSE tmp' = tmp
  BY DEF Verbs!CudaHost, Verbs!Goto, Verbs!Put
<1>2. ASSUME q \notin met PROVE c = Device(q, q)
  <2>1. Has(path[q].fat, Device(q, Verbs!None))
    BY <1>0, <1>1, <1>2 DEF Of, CudaProgress
  <2> QED
    BY <2>1 DEF Has, Verbs!SassOf, Verbs!PtxOf, Verbs!Exists, Device
<1> HIDE DEF c
<1>3. pc'[q] = l /\ l \in {"cc", "fail"}
      /\ DOMAIN nocub' = Procs /\ DOMAIN result' = Procs
      /\ \A p \in Procs : p # q => nocub'[p] = nocub[p] /\ result'[p] = result[p]
  BY <1>0, <1>1 DEF VerbShapes
<1>4. ~Idle(q) /\ NamesOf(q)' /\ RunProgress(q)' /\ {f} \in SUBSET Verbs!Names(q)
      /\ StaysNamed(q, {f})
  BY <1>0, <1>1, <1>3, CudaKeeps DEF CudaStates
<1>5. Touches({f}) /\ (ok => f \in DOMAIN tmp' /\ tmp'[f] = c)
  <2>1. CASE ok
    BY <1>1, <2>1 DEF Verbs!With, Touches
  <2>2. CASE ~ok
    BY <1>1, <2>2 DEF Touches
  <2> QED
    BY <2>1, <2>2
<1>6. ASSUME q \notin met PROVE CudaProgress(q)'
  <2>1. f' = f /\ Device(q, q)' = Device(q, q)
    BY <1>1 DEF Device
  <2> QED
    BY <1>2, <1>3, <1>5, <1>6, <2>1 DEF CudaProgress, Has
<1>7. l \in VerbStates \ {"new", "done"} /\ UNCHANGED <<verb, opts, seq, path, exit, met>>
  BY <1>1, <1>3 DEF VerbStates
<1>8. pc' = [pc EXCEPT ![q] = l]
  BY <1>1
<1> HIDE DEF f, l
<1> QED
  BY <1>3, <1>4, <1>5, <1>6, <1>7, <1>8, Works

LEMMA CudaCcStep ==
  ASSUME VerbInv, NEW q \in Procs, NEW ok \in BOOLEAN, Verbs!CudaCc(q, ok)
  PROVE  VerbInv'
<1> DEFINE good == ok /\ Verbs!Exists(path[q].cpp)
           l == IF good THEN "clean" ELSE "fail"
<1>0. VerbShapes /\ Of(q)
  BY DEF VerbInv
<1>1. /\ pc[q] = "cc" /\ pc' = [pc EXCEPT ![q] = l]
      /\ result' = IF good THEN [result EXCEPT ![q] = tmp[path[q].cpp]] ELSE result
      /\ UNCHANGED <<verb, opts, seq, path, nocub, exit, tmp, met>>
  BY DEF Verbs!CudaCc, Verbs!Goto
<1>2. ASSUME q \notin met PROVE tmp[path[q].cpp] = Device(q, q)
  BY <1>0, <1>1, <1>2 DEF Of, CudaProgress, Has
<1> HIDE DEF good
<1>3. pc'[q] = l /\ l \in {"clean", "fail"}
      /\ DOMAIN nocub' = Procs /\ DOMAIN result' = Procs
      /\ \A p \in Procs : p # q => nocub'[p] = nocub[p] /\ result'[p] = result[p]
  BY <1>0, <1>1 DEF VerbShapes
<1>4. ~Idle(q) /\ NamesOf(q)' /\ RunProgress(q)' /\ {} \in SUBSET Verbs!Names(q)
      /\ StaysNamed(q, {})
  BY <1>0, <1>1, <1>3, CudaKeeps DEF CudaStates
<1>5. Touches({})
  BY <1>1 DEF Touches
<1>6. ASSUME q \notin met PROVE CudaProgress(q)'
  <2>1. pc'[q] = "clean" => result'[q] = Device(q, q)
    BY <1>0, <1>1, <1>2, <1>3, <1>6 DEF VerbShapes
  <2>2. Device(q, q)' = Device(q, q)
    BY <1>1 DEF Device
  <2> QED
    BY <1>3, <2>1, <2>2 DEF CudaProgress
<1>7. l \in VerbStates \ {"new", "done"} /\ UNCHANGED <<verb, opts, seq, path, exit, met>>
  BY <1>1, <1>3 DEF VerbStates
<1>8. pc' = [pc EXCEPT ![q] = l]
  BY <1>1
<1> HIDE DEF l
<1> QED
  BY <1>3, <1>4, <1>5, <1>6, <1>7, <1>8, Works

(* Some files are removed. *)
LEMMA SomeRemoved ==
  ASSUME NEW G, tmp' = Verbs!Without(tmp, G)
  PROVE  /\ Touches(G) /\ DOMAIN tmp' = DOMAIN tmp \ G
         /\ \A f \in DOMAIN tmp' : tmp'[f] = tmp[f]
BY DEF Verbs!Without, Verbs!Restrict, Touches

LEMMA CudaDoneStep ==
  ASSUME VerbInv, NEW q \in Procs, Verbs!CudaDone(q)
  PROVE  VerbInv'
<1> DEFINE G == {path[q].cub, path[q].ptx, path[q].fat} \cup (IF pc[q] = "clean" THEN {path[q].cpp} ELSE {})
           e == IF pc[q] = "clean" THEN 0 ELSE 1
<1>0. VerbShapes /\ Of(q)
  BY DEF VerbInv
<1>1. /\ verb[q] = "cuda" /\ pc[q] \in {"clean", "fail"} /\ pc' = [pc EXCEPT ![q] = "done"]
      /\ exit' = [exit EXCEPT ![q] = e] /\ tmp' = Verbs!Without(tmp, G)
      /\ UNCHANGED <<verb, opts, seq, path, nocub, result, met>>
  BY DEF Verbs!CudaDone, Verbs!Goto, Verbs!Remove
<1>2. Verbs!Names(q) = {path[q].cub, path[q].ptx, path[q].fat, path[q].cpp} /\ ~Idle(q)
  BY <1>0, <1>1 DEF Of, NamesOf, CudaNames, NoLf, CudaName, Verbs!Names, Verbs!NoName, Idle
<1>3. G \in SUBSET Verbs!Names(q)
  BY <1>2
<1>4. q \notin met /\ e = 0 => result'[q] = IF verb[q] = "run" THEN Source(q) ELSE Device(q, q)
  BY <1>0, <1>1 DEF Of, CudaProgress
<1>5. DOMAIN result' = Procs /\ \A p \in Procs : p # q => result'[p] = result[p]
  BY <1>0, <1>1 DEF VerbShapes
<1>6. Touches(G) /\ DOMAIN tmp' = DOMAIN tmp \ G
  <2>1. tmp' = Verbs!Without(tmp, G)
    BY <1>1
  <2> HIDE DEF G
  <2> QED
    BY <2>1, SomeRemoved
<1>7. \A f \in (DOMAIN tmp') \cap Verbs!Names(q) : e = 1 /\ verb[q] = "cuda" /\ f = path[q].cpp
  BY <1>1, <1>2, <1>6
<1>8. e \in Int /\ DOMAIN tmp' \subseteq DOMAIN tmp
  BY <1>6
<1> HIDE DEF G, e
<1> QED
  BY <1>1, <1>2, <1>3, <1>4, <1>5, <1>6, <1>7, <1>8, Ends, ZenonT(40)

(* A name of kath run other than its artefact is one of LFortran's. *)
LEMMA RunBases ==
  ASSUME NEW q \in Procs, RunNames(q), NEW f \in Verbs!Names(q), f # path[q].art
  PROVE  opts[q].f90 /\ f[2] = "lf" /\ f \in {path[q].obj, path[q].side, path[q].cu}
<1>1. f \in {path[q].obj, path[q].side, path[q].cu} /\ f # Verbs!NoName
  BY DEF RunNames, Verbs!Names
<1> QED
  BY <1>1 DEF RunNames, NoLf, LfName

LEMMA RunFailedStep ==
  ASSUME VerbInv, NEW q \in Procs, Verbs!RunFailed(q)
  PROVE  VerbInv'
<1>0. VerbShapes /\ Of(q)
  BY DEF VerbInv
<1>1. /\ verb[q] = "run" /\ pc[q] = "fail" /\ pc' = [pc EXCEPT ![q] = "done"]
      /\ exit' = [exit EXCEPT ![q] = 1] /\ tmp' = Verbs!Without(tmp, {path[q].art})
      /\ UNCHANGED <<verb, opts, seq, path, nocub, result, met>>
  BY DEF Verbs!RunFailed, Verbs!Goto, Verbs!Remove
<1>2. RunNames(q) /\ ~Idle(q)
  BY <1>0, <1>1 DEF Of, NamesOf, Idle
<1>3. {path[q].art} \in SUBSET Verbs!Names(q)
  <2>1. PICK x \in Exts : path[q].art = RunName(q, x)
    BY <1>2 DEF RunNames
  <2>2. path[q].art # Verbs!NoName
    BY <2>1, SMTT(30) DEF RunName, Verbs!NoName
  <2> QED
    BY <2>2 DEF Verbs!Names
<1>4. Touches({path[q].art}) /\ DOMAIN tmp' = DOMAIN tmp \ {path[q].art}
  BY <1>1, SomeRemoved
<1>5. \A f \in (DOMAIN tmp') \cap Verbs!Names(q) :
        verb[q] = "run" /\ opts[q].f90 /\ f[2] = "lf"
  BY <1>1, <1>2, <1>4, RunBases
<1>6. DOMAIN result' = Procs /\ \A p \in Procs : p # q => result'[p] = result[p]
  BY <1>0, <1>1 DEF VerbShapes
<1>7. DOMAIN tmp' \subseteq DOMAIN tmp
  BY <1>4
<1>8. PICK e \in Int : e = 1
  OBVIOUS
<1>9. e # 0 /\ exit' = [exit EXCEPT ![q] = e]
  BY <1>1, <1>8
<1>10. \A f \in (DOMAIN tmp') \cap Verbs!Names(q) : ~Removed(q, f) =>
         \/ e = 1 /\ verb[q] = "cuda" /\ f = path[q].cpp
         \/ e = 1 /\ verb[q] = "run" /\ opts[q].f90 /\ f[2] = "lf"
  BY <1>5, <1>8
<1>11. UNCHANGED <<verb, opts, seq, path, nocub, met>>
  BY <1>1
<1> QED
  BY <1>1, <1>2, <1>3, <1>4, <1>6, <1>7, <1>9, <1>10, <1>11, Ends, ZenonT(40)

LEMMA RunLaunchStep ==
  ASSUME VerbInv, NEW q \in Procs, NEW ok \in BOOLEAN, Verbs!RunLaunch(q, ok)
  PROVE  VerbInv'
<1> DEFINE good == ok /\ Verbs!Exists(path[q].art)
           e == IF good THEN 0 ELSE 1
<1>0. VerbShapes /\ Of(q)
  BY DEF VerbInv
<1>1. /\ pc[q] = "launch" /\ pc' = [pc EXCEPT ![q] = "done"]
      /\ exit' = [exit EXCEPT ![q] = e] /\ tmp' = Verbs!Without(tmp, {path[q].art})
      /\ result' = IF good THEN [result EXCEPT ![q] = tmp[path[q].art]] ELSE result
      /\ UNCHANGED <<verb, opts, seq, path, nocub, met>>
  BY DEF Verbs!RunLaunch, Verbs!Goto, Verbs!Remove
<1> HIDE DEF good
<1>2. RunNames(q) /\ ~Idle(q) /\ verb[q] = "run"
  BY <1>0, <1>1 DEF Of, NamesOf, Idle, RunStates
<1>3. {path[q].art} \in SUBSET Verbs!Names(q)
  <2>1. PICK x \in Exts : path[q].art = RunName(q, x)
    BY <1>2 DEF RunNames
  <2>2. path[q].art # Verbs!NoName
    BY <2>1 DEF RunName, Verbs!NoName
  <2> QED
    BY <2>2 DEF Verbs!Names
<1>4. Touches({path[q].art}) /\ DOMAIN tmp' = DOMAIN tmp \ {path[q].art}
  BY <1>1, SomeRemoved
<1>5. \A f \in (DOMAIN tmp') \cap Verbs!Names(q) : Removed(q, f)
  BY <1>1, <1>2, <1>4, RunBases DEF Removed
<1>6. DOMAIN result' = Procs /\ \A p \in Procs : p # q => result'[p] = result[p]
  BY <1>0, <1>1 DEF VerbShapes
<1>7. DOMAIN tmp' \subseteq DOMAIN tmp /\ e \in Int
  BY <1>4
<1>8. ASSUME q \notin met, e = 0
      PROVE  result'[q] = IF verb[q] = "run" THEN Source(q) ELSE Device(q, q)
  <2>1. tmp[path[q].art] = Source(q)
    BY <1>0, <1>1, <1>8 DEF Of, RunProgress, Has
  <2> QED
    BY <1>0, <1>1, <1>2, <1>8, <2>1 DEF VerbShapes
<1> HIDE DEF e
<1> QED
  BY <1>1, <1>2, <1>3, <1>4, <1>5, <1>6, <1>7, <1>8, Ends

LEMMA RunStartStep ==
  ASSUME VerbInv, NEW q \in Procs, NEW ext \in Exts, NEW f90 \in BOOLEAN, Verbs!RunStart(q, ext, f90)
  PROVE  VerbInv'
<1> DEFINE l == IF f90 THEN "lfortran" ELSE "build"
           a == RunName(q, ext)
           o == [fb |-> FALSE, f90 |-> f90]
<1>0. VerbShapes /\ Of(q)
  BY DEF VerbInv
<1>1. /\ pc[q] = "new" /\ verb' = [verb EXCEPT ![q] = "run"] /\ pc' = [pc EXCEPT ![q] = l]
      /\ opts' = [opts EXCEPT ![q] = o] /\ Verbs!Starts(q, "run", o)
      /\ UNCHANGED <<nocub, exit, result, tmp>> /\ seq' = [seq EXCEPT ![q] = @ + 1]
  BY DEF Verbs!RunStart, Verbs!Starts, Verbs!Goto
<1>2. path[q] = Verbs!NoNames /\ seq[q] = 0 /\ DirOf[q] \in Dirs /\ exit[q] = -1
  BY <1>0, <1>1, DirAssumption DEF Of, NamesOf, Ended
<1>3. PICK r : path' = [path EXCEPT ![q] = r] /\ r = [Verbs!NoNames EXCEPT !.art = a]
  <2>1. Verbs!TmpPath(q, 1, "run", ext) = a
    BY <1>2 DEF Verbs!TmpPath, RunName
  <2>2. path' = [path EXCEPT ![q] = [@ EXCEPT !.art = Verbs!TmpPath(q, 1, "run", ext)]]
    BY Zenon DEF Verbs!RunStart
  <2> QED
    BY <1>2, <2>1, <2>2
<1>4. /\ r.cub = Verbs!NoName /\ r.ptx = Verbs!NoName /\ r.fat = Verbs!NoName /\ r.cpp = Verbs!NoName
      /\ r.art = a /\ r.obj = Verbs!NoName /\ r.side = Verbs!NoName /\ r.cu = Verbs!NoName
      /\ r = [cub |-> r.cub, ptx |-> r.ptx, fat |-> r.fat, cpp |-> r.cpp,
              art |-> r.art, obj |-> r.obj, side |-> r.side, cu |-> r.cu]
  BY <1>3 DEF Verbs!NoNames
<1>5. r \in NameRecords
  <2>1. Verbs!NoName \in AllNames /\ a \in AllNames
    BY <1>2 DEF AllNames, RunName
  <2> QED
    BY <1>4, <2>1 DEF NameRecords
<1>6. /\ VerbShapes' /\ pc'[q] = l /\ path'[q] = r /\ seq'[q] = 1 /\ l \in {"lfortran", "build"}
      /\ verb'[q] = "run" /\ opts'[q].f90 = f90
  BY <1>0, <1>1, <1>2, <1>3, <1>5 DEF VerbShapes, VerbStates
<1>7. \A p \in Procs : p # q => SameProc(p)
  BY <1>0, <1>1, <1>3 DEF SameProc, VerbShapes
<1>8. RunNames(q)'
  <2>1. a = RunName(q, ext) /\ RunName(q, ext)' = RunName(q, ext)
    BY DEF RunName
  <2>2. (l = "lfortran" <=> f90) /\ (l = "lfortran" => f90)
    OBVIOUS
  <2> HIDE DEF a, l, o
  <2> QED
    BY <1>1, <1>4, <1>6, <2>1, <2>2 DEF RunNames, NoLf
<1>9. Of(q)'
  <2>1. l = "build" => ~opts'[q].f90
    BY <1>6
  <2> HIDE DEF l, o
  <2> QED
    BY <1>1, <1>2, <1>6, <1>8, <2>1 DEF Of, NamesOf, CudaStates, RunStates, CudaProgress, RunProgress, Ended
<1>10. \A f : Reason(q, f) => Reason(q, f)'
  BY <1>1, <1>2 DEF Reason
<1> HIDE DEF l
<1>11. pc'[q] # "new"
  BY <1>6
<1>12. Apart' /\ met \subseteq met' /\ UNCHANGED exit
  BY <1>1, StartApart
<1> QED
  BY <1>1, <1>6, <1>7, <1>9, <1>10, <1>11, <1>12, Moved

LEMMA RunBuildStep ==
  ASSUME VerbInv, NEW q \in Procs, NEW ok \in BOOLEAN, Verbs!RunBuild(q, ok)
  PROVE  VerbInv'
<1> DEFINE conv == IF opts[q].f90 THEN {path[q].cu} ELSE {}
           src  == IF ~opts[q].f90 THEN q
                   ELSE IF Verbs!Exists(path[q].cu) THEN tmp[path[q].cu].host ELSE Verbs!None
           good == ok /\ src # Verbs!None
           rest == Verbs!Without(tmp, conv)
           art  == path[q].art
           l    == IF good THEN "launch" ELSE "fail"
           F    == conv \cup {art}
<1>0. VerbShapes /\ Of(q)
  BY DEF VerbInv
<1>1. /\ pc[q] = "build" /\ pc' = [pc EXCEPT ![q] = l]
      /\ tmp' = IF good THEN Verbs!With(rest, art, [Verbs!Blank EXCEPT !.host = src]) ELSE rest
      /\ UNCHANGED <<verb, opts, seq, path, nocub, exit, result, met>>
  BY DEF Verbs!RunBuild, Verbs!Goto
<1>2. RunNames(q) /\ verb[q] = "run" /\ ~Idle(q)
  BY <1>0, <1>1 DEF Of, NamesOf, RunStates, Idle
<1> DEFINE c == [Verbs!Blank EXCEPT !.host = src]
<1>3. ASSUME q \notin met PROVE c = Source(q)
  <2>1. opts[q].f90 => Has(path[q].cu, Source(q))
    BY <1>0, <1>1, <1>3 DEF Of, RunProgress
  <2>2. src = q
    BY <2>1 DEF Has, Source, Verbs!Exists, Verbs!Blank
  <2> QED
    BY <2>2 DEF Source
<1>4. tmp' = IF good THEN Verbs!With(rest, art, c) ELSE rest
  BY <1>1
<1> HIDE DEF good, src, c
<1>5. art # Verbs!NoName /\ art # path[q].cu /\ art # path[q].obj /\ art # path[q].side
  <2>0. PICK x \in Exts : art = RunName(q, x)
    BY <1>2 DEF RunNames
  <2>1. /\ path[q].obj \in {Verbs!NoName, LfName(q, 2, "o")}
        /\ path[q].side \in {Verbs!NoName, LfName(q, 2, "o.cuda.cu")}
        /\ path[q].cu \in {Verbs!NoName, LfName(q, 3, "cu")}
    BY <1>2 DEF RunNames
  <2> HIDE DEF art
  <2> QED
    BY <2>0, <2>1 DEF RunName, LfName, Verbs!NoName
<1>6. opts[q].f90 => path[q].cu # Verbs!NoName
  <2>1. opts[q].f90 => path[q].cu = LfName(q, 3, "cu")
    BY <1>1, <1>2 DEF RunNames
  <2>2. LfName(q, 3, "cu") # Verbs!NoName
    BY DEF LfName, Verbs!NoName
  <2> QED
    BY <2>1, <2>2
<1>7. F \in SUBSET Verbs!Names(q)
  BY <1>5, <1>6 DEF Verbs!Names
<1>8. /\ Touches(F) /\ (good /\ q \notin met => Has(art, Source(q))')
      /\ \A f \in DOMAIN tmp' : f \in DOMAIN tmp \ conv \/ f = art
  <2>1. DOMAIN rest = DOMAIN tmp \ conv /\ \A f \in DOMAIN rest : rest[f] = tmp[f]
    BY DEF Verbs!Without, Verbs!Restrict
  <2>2. art' = art /\ Source(q)' = Source(q)
    BY <1>1 DEF Source
  <2> HIDE DEF rest, conv, art
  <2>3. CASE good
    <3>1. /\ DOMAIN tmp' = DOMAIN rest \cup {art} /\ tmp'[art] = c
          /\ \A f \in DOMAIN rest : f # art => tmp'[f] = rest[f]
      BY <1>4, <2>3 DEF Verbs!With
    <3> QED
      BY <1>3, <2>1, <2>2, <3>1 DEF Touches, Has
  <2>4. CASE ~good
    BY <1>4, <2>1, <2>4 DEF Touches
  <2> QED
    BY <2>3, <2>4
<1>9. pc'[q] = l /\ l \in {"launch", "fail"} /\ (l = "launch" => good)
      /\ DOMAIN nocub' = Procs /\ DOMAIN result' = Procs
      /\ \A p \in Procs : p # q => nocub'[p] = nocub[p] /\ result'[p] = result[p]
  BY <1>0, <1>1 DEF VerbShapes
<1>10. NamesOf(q)'
  <2>0. pc'[q] \in {"launch", "fail"} /\ pc[q] = "build" /\ path'[q] = path[q] /\ opts'[q] = opts[q]
    BY <1>1, <1>9
  <2>1. RunNames(q)'
    BY <1>2, <2>0 DEF RunNames, RunName, NoLf, LfName
  <2> QED
    BY <1>1, <1>2, <1>9, <2>1 DEF NamesOf, CudaStates, RunStates
<1>11. StaysNamed(q, F)
  <2>1. ASSUME NEW f \in DOMAIN tmp', opts[q].f90 PROVE f \in F \/ ~Removed(q, f) => ~Removed(q, f)'
    <3>1. f # path[q].cu /\ (f \in F => f = art)
      BY <1>5, <1>8, <2>1
    <3>2. pc'[q] \in {"launch", "fail"} /\ pc[q] = "build" /\ path'[q] = path[q] /\ opts'[q] = opts[q]
      BY <1>1, <1>9
    <3> HIDE DEF F, art
    <3> QED
      BY <1>5, <3>1, <3>2, <2>1 DEF Removed
  <2>2. opts' = opts
    BY <1>1
  <2> QED
    BY <2>1, <2>2 DEF StaysNamed, Removed
<1>14. ASSUME q \notin met PROVE RunProgress(q)' /\ CudaProgress(q)'
  <2> HIDE DEF l
  <2> QED
    BY <1>1, <1>8, <1>9, <1>14 DEF RunProgress, CudaProgress
<1>12. l \in VerbStates \ {"new", "done"} /\ UNCHANGED <<verb, opts, seq, path, exit, met>>
  BY <1>1, <1>9 DEF VerbStates
<1>13. pc' = [pc EXCEPT ![q] = l] /\ Touches(F)
  BY <1>1, <1>8
<1> HIDE DEF F, l
<1> QED
  BY <1>1, <1>2, <1>7, <1>9, <1>10, <1>11, <1>12, <1>13, <1>14, Works

(* A step that makes names and works on the files they name. *)
LEMMA MakesNames ==
  ASSUME VerbInv, NEW q \in Procs, ~Idle(q), NEW l \in VerbStates \ {"new", "done"},
         pc' = [pc EXCEPT ![q] = l], UNCHANGED <<verb, opts, nocub, exit, result, met>>,
         NEW r \in NameRecords, path' = [path EXCEPT ![q] = r],
         NEW n \in Nat, seq' = [seq EXCEPT ![q] = n],
         Verbs!Names(q) \subseteq Verbs!Names(q)',
         NEW F, F \subseteq Verbs!Names(q)', Touches(F), \A f \in F : Where(f) = Place(q),
         StaysNamed(q, F), NamesOf(q)', q \notin met => CudaProgress(q)' /\ RunProgress(q)'
  PROVE  VerbInv'
<1>0. VerbShapes /\ Of(q) /\ exit[q] = -1 /\ pc[q] # "new"
  BY DEF VerbInv, Of, Ended, Idle
<1>1. VerbShapes' /\ pc'[q] = l
  BY <1>0 DEF VerbShapes
<1>2. \A p \in Procs : p # q => SameProc(p)
  BY <1>0 DEF SameProc, VerbShapes
<1>3. OnlyIn(Place(q))
  BY DEF OnlyIn, Touches
<1>4. Of(q)'
  BY <1>0, <1>1 DEF Of, Ended
<1>5. ASSUME NEW f \in DOMAIN tmp'
      PROVE  \/ f \in DOMAIN tmp /\ (Reason(q, f) => Reason(q, f)')
             \/ Reason(q, f)'
  <2>2. f \in Verbs!Names(q)' /\ ~Removed(q, f)' => Reason(q, f)'
    BY <1>1 DEF Reason
  <2>3. Reason(q, f) => f \in Verbs!Names(q) /\ ~Removed(q, f)
    BY <1>0 DEF Reason
  <2> QED
    BY <2>2, <2>3 DEF Touches, StaysNamed
<1>6. \A f \in DOMAIN tmp' : \/ f \in DOMAIN tmp /\ (Reason(q, f) => Reason(q, f)')
                             \/ Reason(q, f)'
  BY <1>5
<1>7. pc'[q] # "new" /\ met \subseteq met' /\ met' = met
  BY <1>1
<1>8. Apart'
  BY <1>0, <1>1 DEF VerbInv, Apart, Place, Idle, VerbShapes
<1> QED
  BY <1>1, <1>2, <1>3, <1>4, <1>6, <1>7, <1>8, Moved, Zenon

LEMMA RunLFortranStep ==
  ASSUME VerbInv, NEW q \in Procs, NEW ok \in BOOLEAN, Verbs!RunLFortran(q, ok)
  PROVE  VerbInv'
<1> DEFINE obj  == LfName(q, 2, "o")
           side == LfName(q, 2, "o.cuda.cu")
           l == IF ok THEN "cut" ELSE "fail"
<1>0. VerbShapes /\ Of(q)
  BY DEF VerbInv
<1>1. /\ pc[q] = "lfortran" /\ pc' = [pc EXCEPT ![q] = l]
      /\ UNCHANGED <<verb, opts, nocub, exit, result, met>> /\ seq' = [seq EXCEPT ![q] = @ + 1]
  BY DEF Verbs!RunLFortran, Verbs!Goto
<1>2. /\ RunNames(q) /\ verb[q] = "run" /\ ~Idle(q) /\ seq[q] = 1 /\ opts[q].f90 /\ NoLf(q)
      /\ DirOf[q] \in Dirs
  BY <1>0, <1>1, DirAssumption DEF Of, NamesOf, RunStates, Idle, RunNames
<1>3. Verbs!TmpPath(q, 1, "lf", "o") = obj /\ Verbs!TmpPath(q, 1, "lf", "o.cuda.cu") = side
  BY <1>2 DEF Verbs!TmpPath, LfName
<1>4. /\ path' = [path EXCEPT ![q] = [@ EXCEPT !.obj = obj, !.side = side]]
      /\ IF ok THEN tmp' = Verbs!With(Verbs!With(tmp, obj, Verbs!Blank), side, Source(q)) ELSE tmp' = tmp
  <2>1. /\ path' = [path EXCEPT ![q] = [@ EXCEPT !.obj = Verbs!TmpPath(q, 1, "lf", "o"),
                                                 !.side = Verbs!TmpPath(q, 1, "lf", "o.cuda.cu")]]
        /\ IF ok THEN tmp' = Verbs!With(Verbs!With(tmp, Verbs!TmpPath(q, 1, "lf", "o"), Verbs!Blank),
                                        Verbs!TmpPath(q, 1, "lf", "o.cuda.cu"), Source(q))
           ELSE tmp' = tmp
    BY Zenon DEF Verbs!RunLFortran, Source
  <2> HIDE DEF obj, side
  <2> QED
    BY <1>3, <2>1
<1>5. obj \in AllNames /\ side \in AllNames /\ obj # side /\ Where(obj) = Place(q) /\ Where(side) = Place(q)
      /\ obj # Verbs!NoName /\ side # Verbs!NoName
  BY <1>2 DEF LfName, AllNames, Verbs!NoName, Where, Place
<1>6. PICK w \in NameRecords : w = path[q]
  BY <1>0 DEF VerbShapes
<1>7. PICK r : r = [w EXCEPT !.obj = obj, !.side = side]
  OBVIOUS
<1>8. path' = [path EXCEPT ![q] = r]
  BY <1>4, <1>6, <1>7
<1> HIDE DEF obj, side
<1>9. /\ r \in NameRecords /\ r.cub = w.cub /\ r.ptx = w.ptx /\ r.fat = w.fat /\ r.cpp = w.cpp
      /\ r.art = w.art /\ r.cu = w.cu /\ r.obj = obj /\ r.side = side
  BY <1>5, <1>7 DEF NameRecords
<1>10. path'[q] = r /\ pc'[q] = l /\ l \in {"cut", "fail"} /\ seq'[q] = 2
       /\ seq' = [seq EXCEPT ![q] = 2] /\ 2 \in Nat
  BY <1>0, <1>1, <1>2, <1>8 DEF VerbShapes
<1>11. /\ path'[q].cub = path[q].cub /\ path'[q].ptx = path[q].ptx /\ path'[q].fat = path[q].fat
       /\ path'[q].cpp = path[q].cpp /\ path'[q].art = path[q].art /\ path'[q].cu = Verbs!NoName
       /\ path'[q].obj = obj /\ path'[q].side = side
  BY <1>2, <1>6, <1>9, <1>10 DEF NoLf
<1>12. Verbs!Names(q) \subseteq Verbs!Names(q)' /\ {obj, side} \subseteq Verbs!Names(q)'
  BY <1>2, <1>5, <1>11 DEF Verbs!Names, NoLf
<1>13. Touches({obj, side}) /\ (ok => side \in DOMAIN tmp' /\ tmp'[side] = Source(q))
  <2>1. CASE ok
    <3> DEFINE t == Verbs!With(tmp, obj, Verbs!Blank)
    <3>1. DOMAIN t = DOMAIN tmp \cup {obj} /\ \A g \in DOMAIN tmp : g # obj => t[g] = tmp[g]
      BY DEF Verbs!With
    <3>2. tmp' = Verbs!With(t, side, Source(q))
      BY <1>4, <2>1
    <3> HIDE DEF t
    <3>3. /\ DOMAIN tmp' = DOMAIN t \cup {side} /\ tmp'[side] = Source(q)
          /\ \A g \in DOMAIN t : g # side => tmp'[g] = t[g]
      BY <3>2 DEF Verbs!With
    <3> QED
      BY <3>1, <3>3 DEF Touches
  <2>2. CASE ~ok
    BY <1>4, <2>2 DEF Touches
  <2> QED
    BY <2>1, <2>2
<1>14. RunNames(q)'
  <2>1. /\ obj = LfName(q, 2, "o") /\ side = LfName(q, 2, "o.cuda.cu")
        /\ LfName(q, 2, "o")' = LfName(q, 2, "o") /\ LfName(q, 2, "o.cuda.cu")' = LfName(q, 2, "o.cuda.cu")
    BY DEF obj, side, LfName
  <2>2. opts'[q] = opts[q] /\ opts[q].f90
    BY <1>1, <1>2
  <2> HIDE DEF l
  <2> QED
    BY <1>2, <1>10, <1>11, <2>1, <2>2 DEF RunNames, RunName, NoLf
<1>15. NamesOf(q)'
  BY <1>1, <1>2, <1>10, <1>14 DEF NamesOf, CudaStates, RunStates
<1>16. (CudaProgress(q)' /\ RunProgress(q)') /\ StaysNamed(q, {obj, side})
  <2>1. pc'[q] = "cut" => ok
    BY <1>10
  <2>2. Source(q)' = Source(q)
    BY DEF Source
  <2> HIDE DEF l
  <2> QED
    BY <1>10, <1>11, <1>13, <2>1, <2>2 DEF CudaProgress, RunProgress, Has, StaysNamed, Removed
<1>17. l \in VerbStates \ {"new", "done"} /\ pc' = [pc EXCEPT ![q] = l]
       /\ UNCHANGED <<verb, opts, nocub, exit, result, met>>
  BY <1>1, <1>10 DEF VerbStates
<1>18. \A f \in {obj, side} : Where(f) = Place(q)
  BY <1>5
<1>19. r \in NameRecords
  BY <1>9
<1> HIDE DEF l
<1> QED
  BY <1>2, <1>8, <1>10, <1>12, <1>13, <1>15, <1>16, <1>17, <1>18, <1>19, MakesNames

LEMMA RunCutStep ==
  ASSUME VerbInv, NEW q \in Procs, NEW res, Verbs!RunCut(q, res)
  PROVE  VerbInv'
<1> DEFINE cu   == LfName(q, 3, "cu")
           obj  == path[q].obj
           side == path[q].side
           open == res # "open" /\ Verbs!Exists(side)
           l == IF open /\ res = "ok" THEN "build" ELSE "fail"
           c == IF res = "ok" THEN tmp[side] ELSE Verbs!Blank
           G == {obj, side}
           F == {obj, side, cu}
<1>0. VerbShapes /\ Of(q)
  BY DEF VerbInv
<1>1. /\ pc[q] = "cut" /\ pc' = [pc EXCEPT ![q] = l]
      /\ UNCHANGED <<verb, opts, nocub, exit, result, met>> /\ seq' = [seq EXCEPT ![q] = @ + 1]
  BY DEF Verbs!RunCut, Verbs!Goto
<1>2. /\ RunNames(q) /\ verb[q] = "run" /\ ~Idle(q) /\ seq[q] = 2 /\ opts[q].f90
      /\ DirOf[q] \in Dirs /\ (q \notin met => Has(side, Source(q)))
      /\ obj = LfName(q, 2, "o") /\ side = LfName(q, 2, "o.cuda.cu") /\ path[q].cu = Verbs!NoName
  BY <1>0, <1>1, DirAssumption DEF Of, NamesOf, RunStates, Idle, RunNames, RunProgress
<1>3. Verbs!TmpPath(q, 1, "lf", "cu") = cu
  BY <1>2 DEF Verbs!TmpPath, LfName
<1>4. /\ path' = [path EXCEPT ![q] = [@ EXCEPT !.cu = cu]]
      /\ tmp' = IF ~open THEN tmp ELSE Verbs!With(Verbs!Without(tmp, G), cu, c)
  <2>1. /\ path' = [path EXCEPT ![q] = [@ EXCEPT !.cu = Verbs!TmpPath(q, 1, "lf", "cu")]]
        /\ tmp' = IF ~open THEN tmp
                  ELSE Verbs!With(Verbs!Without(tmp, G), Verbs!TmpPath(q, 1, "lf", "cu"), c)
    BY Zenon DEF Verbs!RunCut
  <2> HIDE DEF cu, open, c, G
  <2> QED
    BY <1>3, <2>1
<1>5. /\ cu \in AllNames /\ cu # Verbs!NoName /\ cu # obj /\ cu # side
      /\ obj # Verbs!NoName /\ side # Verbs!NoName
      /\ Where(cu) = Place(q) /\ Where(obj) = Place(q) /\ Where(side) = Place(q)
  BY <1>2 DEF LfName, AllNames, Verbs!NoName, Where, Place
<1>6. PICK w \in NameRecords : w = path[q]
  BY <1>0 DEF VerbShapes
<1>7. PICK r : r = [w EXCEPT !.cu = cu]
  OBVIOUS
<1>8. path' = [path EXCEPT ![q] = r]
  BY <1>4, <1>6, <1>7
<1> HIDE DEF cu, open, c
<1>9. /\ r \in NameRecords /\ r.cub = w.cub /\ r.ptx = w.ptx /\ r.fat = w.fat /\ r.cpp = w.cpp
      /\ r.art = w.art /\ r.cu = cu /\ r.obj = w.obj /\ r.side = w.side
  BY <1>5, <1>7 DEF NameRecords
<1>10. path'[q] = r /\ pc'[q] = l /\ l \in {"build", "fail"} /\ seq'[q] = 3
       /\ seq' = [seq EXCEPT ![q] = 3] /\ 3 \in Nat
  BY <1>0, <1>1, <1>2, <1>8 DEF VerbShapes
<1>11. /\ path'[q].cub = path[q].cub /\ path'[q].ptx = path[q].ptx /\ path'[q].fat = path[q].fat
       /\ path'[q].cpp = path[q].cpp /\ path'[q].art = path[q].art /\ path'[q].cu = cu
       /\ path'[q].obj = path[q].obj /\ path'[q].side = path[q].side
  BY <1>6, <1>9, <1>10
<1>12. Verbs!Names(q) \subseteq Verbs!Names(q)' /\ F \subseteq Verbs!Names(q)'
  BY <1>2, <1>5, <1>11 DEF Verbs!Names
<1>13. Touches(F) /\ (l = "build" => /\ cu \in DOMAIN tmp' /\ (q \notin met => tmp'[cu] = Source(q))
                                      /\ obj \notin DOMAIN tmp' /\ side \notin DOMAIN tmp')
  <2>1. CASE open
    <3> DEFINE t == Verbs!Without(tmp, G)
    <3>1. DOMAIN t = DOMAIN tmp \ G /\ \A g \in DOMAIN t : t[g] = tmp[g]
      BY DEF Verbs!Without, Verbs!Restrict
    <3>2. tmp' = Verbs!With(t, cu, c)
      BY <1>4, <2>1
    <3> HIDE DEF t
    <3>3. /\ DOMAIN tmp' = DOMAIN t \cup {cu} /\ tmp'[cu] = c
          /\ \A g \in DOMAIN t : g # cu => tmp'[g] = t[g]
      BY <3>2 DEF Verbs!With
    <3>4. l = "build" /\ q \notin met => c = Source(q)
      BY <1>2 DEF c, Has
    <3> QED
      BY <1>5, <3>1, <3>3, <3>4 DEF Touches
  <2>2. CASE ~open
    BY <1>4, <2>2 DEF Touches
  <2> QED
    BY <2>1, <2>2
<1> HIDE DEF l, obj, side
<1>14. RunNames(q)'
  <2>1. /\ obj = LfName(q, 2, "o") /\ side = LfName(q, 2, "o.cuda.cu") /\ cu = LfName(q, 3, "cu")
        /\ LfName(q, 2, "o")' = LfName(q, 2, "o") /\ LfName(q, 2, "o.cuda.cu")' = LfName(q, 2, "o.cuda.cu")
        /\ LfName(q, 3, "cu")' = LfName(q, 3, "cu") /\ path[q].obj = obj /\ path[q].side = side
    BY <1>2 DEF cu, LfName, obj, side
  <2>2. opts'[q] = opts[q] /\ opts[q].f90
    BY <1>1, <1>2
  <2> QED
    BY <1>2, <1>10, <1>11, <2>1, <2>2 DEF RunNames, RunName, NoLf
<1>15. NamesOf(q)'
  BY <1>1, <1>2, <1>10, <1>14 DEF NamesOf, CudaStates, RunStates
<1>16. (q \notin met => CudaProgress(q)' /\ RunProgress(q)') /\ StaysNamed(q, F)
  <2>1. Source(q)' = Source(q) /\ path[q].obj = obj /\ path[q].side = side
    BY DEF Source, obj, side
  <2> QED
    BY <1>10, <1>11, <1>13, <2>1 DEF CudaProgress, RunProgress, Has, StaysNamed, Removed
<1>17. l \in VerbStates \ {"new", "done"} /\ pc' = [pc EXCEPT ![q] = l]
       /\ UNCHANGED <<verb, opts, nocub, exit, result, met>>
  BY <1>1, <1>10 DEF VerbStates
<1>18. \A f \in F : Where(f) = Place(q)
  BY <1>5
<1>19. r \in NameRecords
  BY <1>9
<1> HIDE DEF F
<1> QED
  BY <1>2, <1>8, <1>10, <1>12, <1>13, <1>15, <1>16, <1>17, <1>18, <1>19, MakesNames

LEMMA VerbStutter ==
  ASSUME VerbInv, UNCHANGED <<pc, verb, opts, seq, path, nocub, exit, result, tmp, met>>
  PROVE  VerbInv'
<1>1. VerbShapes' /\ Apart'
  BY DEF VerbInv, VerbShapes, Apart, Place
<1>2. ASSUME NEW p \in Procs PROVE Of(p)'
  <2>1. SameProc(p)
    BY DEF SameProc
  <2>2. PICK d : Place(p) # d
    BY Elsewhere
  <2>3. OnlyIn(d)
    BY DEF OnlyIn
  <2> QED
    BY <2>1, <2>2, <2>3, OtherKept DEF VerbInv
<1>3. Reasons'
  BY DEF VerbInv, Reasons, Reason, Removed, Verbs!Names
<1> QED
  BY <1>1, <1>2, <1>3 DEF VerbInv

LEMMA VerbStep ==
  ASSUME VerbInv, Verbs!Next
  PROVE  VerbInv'
<1>1. ASSUME NEW q \in Procs, Verbs!Step(q) PROVE VerbInv'
  BY <1>1, CudaStartStep, CudaCubinStep, CudaPtxStep, CudaFatStep, CudaHostStep, CudaCcStep,
     CudaDoneStep, RunStartStep, RunLFortranStep, RunCutStep, RunBuildStep, RunLaunchStep,
     RunFailedStep, KilledStep
  DEF Verbs!Step
<1> QED
  BY <1>1, VerbStutter DEF Verbs!Next, Verbs!Done, Verbs!vars

LEMMA VerbsCorrect == Spec => [](part = "verbs" => VerbInv)
<1>1. Init => (part = "verbs" => VerbInv)
  BY VerbInitially DEF Init
<1>2. (part = "verbs" => VerbInv) /\ [Next]_vars => (part = "verbs" => VerbInv)'
  <2>1. SUFFICES ASSUME part = "verbs" => VerbInv, [Next]_vars, part' = "verbs"
                 PROVE  VerbInv'
    OBVIOUS
  <2>2. part = "verbs" /\ VerbInv
    BY <2>1 DEF Next, vars
  <2>3. CASE Verbs!Next
    BY <2>2, <2>3, VerbStep
  <2>4. CASE UNCHANGED vars
    <3>1. UNCHANGED <<pc, verb, opts, seq, path, nocub, exit, result, tmp, met>>
      BY <2>4 DEF vars, verbVars
    <3> QED
      BY <2>2, <3>1, VerbStutter
  <2> QED
    BY <2>1, <2>2, <2>3, <2>4 DEF Next
<1> QED
  BY <1>1, <1>2, PTL DEF Spec

(* THEOREM.  However many kath processes share the temporary directories,  *)
(* and whichever of them fail or are killed half way: what a command writes*)
(* or runs with status 0 is all its own code, with SASS in it exactly when *)
(* SASS was not refused, if no other ran the same verb in the same         *)
(* directory while it did; and, whoever met whom, every file that stays    *)
(* behind is one a failed or killed command left.                          *)
THEOREM VerbsUseOwnFiles == Spec => []OwnCode
BY VerbsCorrect, VerbImplied, PTL DEF OwnCode
=============================================================================
