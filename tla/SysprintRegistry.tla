-------------------------- MODULE SysprintRegistry --------------------------
(***************************************************************************)
(* The class table and the sink registry of SYSPRINT                       *)
(* (runtime/host/sysprint.c): file-scope singletons through which a drain  *)
(* finds the name of a record's class id and the sink that wants it.       *)
(*                                                                         *)
(* The buffer between emit and drain is a sequence of class ids here; its  *)
(* words are the subject of SysprintBuffer.  A name is a sequence of name  *)
(* parts, and a pattern is a sequence of name parts in which the part "*"  *)
(* may occur: what the code compares with memcmp are such sequences.       *)
(***************************************************************************)
EXTENDS SysprintBuffer, SequencesExt, WellFoundedInduction, TLAPS

CONSTANTS
  Names,        \* class names given to bc_sp_intern
  Patterns,     \* patterns given to bc_sp_register_sink
  Sinks,        \* sink functions
  NameMax,      \* BC_SP_MAX_CLASS_NAME
  MaxClasses,   \* BC_SP_MAX_CLASSES
  MaxSinks,     \* BC_SP_MAX_SINKS
  MaxPending,   \* bound: records between two drains
  MaxResets     \* bound: calls of bc_sp_reset_globals

ASSUME LimitAssumption ==
  {NameMax, MaxClasses, MaxSinks, MaxPending, MaxResets} \subseteq Nat

VARIABLES
  classes,    \* g_classes[0 .. g_num_classes - 1], as names
  sinks,      \* g_sinks[0 .. g_num_sinks - 1]
  handles,    \* class ids that code holds, with the name and the epoch they came from
  pending,    \* records in the buffer: the handle each was emitted with
  calls,      \* history: the sink calls of the last drain, by the record's place
  epoch       \* history: resets so far

regvars == <<classes, sinks, handles, pending, calls, epoch>>

Star == "*"

-----------------------------------------------------------------------------
(* The length checks of bc_sp_intern and bc_sp_register_sink. *)
GoodName(n) == Len(n) # 0 /\ Len(n) < NameMax

(* The id of a name already in the table, NONE if there is none. *)
Lookup(n) == IF \E i \in DOMAIN classes : classes[i] = n
             THEN CHOOSE i \in DOMAIN classes :
                    classes[i] = n /\ \A j \in 1 .. i - 1 : classes[j] # n
             ELSE NONE

(* bc_sp_class_name: the name of an id, or no name at all (NULL). *)
Known(id) == id # NONE /\ id <= Len(classes)

(* The entry bc_sp_register_sink stores: a trailing "*" is cut off. *)
Entry(p, s) == [text |-> IF Last(p) = Star THEN Front(p) ELSE p,
                prefix |-> Last(p) = Star, sink |-> s]

(* One test of sp_match_sink. *)
Matches(e, n) == IF e.prefix THEN IsPrefix(e.text, n) ELSE e.text = n

(* sp_match_sink: the index of the first entry that matches, 0 for NULL. *)
MatchSink(n) == IF \E i \in DOMAIN sinks : Matches(sinks[i], n)
                THEN CHOOSE i \in DOMAIN sinks :
                       /\ Matches(sinks[i], n)
                       /\ \A j \in 1 .. i - 1 : ~Matches(sinks[j], n)
                ELSE 0

-----------------------------------------------------------------------------
RegInit ==
  /\ classes = <<>>
  /\ sinks = <<>>
  /\ handles = {}
  /\ pending = <<>>
  /\ calls = <<>>
  /\ epoch = 0

Handle(n, id) == [name |-> n, id |-> id, epoch |-> epoch]

(* bc_sp_intern. *)
Intern(n) ==
  /\ IF GoodName(n) /\ Lookup(n) = NONE /\ Len(classes) < MaxClasses
       THEN /\ classes' = Append(classes, n)
            /\ handles' = handles \cup {Handle(n, Len(classes) + 1)}
       ELSE /\ handles' = handles \cup
                 {Handle(n, IF GoodName(n) THEN Lookup(n) ELSE NONE)}
            /\ UNCHANGED classes
  /\ UNCHANGED <<sinks, pending, calls, epoch>>

(* Mutant: the newest pattern is put in front. *)
RegisterSinkInFront(p, s) ==
  /\ Len(sinks) < MaxSinks
  /\ GoodName(p)
  /\ sinks' = <<Entry(p, s)>> \o sinks
  /\ UNCHANGED <<classes, handles, pending, calls, epoch>>

(* bc_sp_register_sink; a refused registration changes nothing. *)
RegisterSink(p, s) ==
  /\ Len(sinks) < MaxSinks
  /\ GoodName(p)
  /\ sinks' = Append(sinks, Entry(p, s))
  /\ UNCHANGED <<classes, handles, pending, calls, epoch>>

(* Code emits with an id it holds.  bc_sp_emit refuses NONE, BC_SYSPRINT   *)
(* does not.                                                               *)
HostEmitId(h) ==
  /\ Len(pending) < MaxPending
  /\ h.id # NONE
  /\ pending' = Append(pending, h)
  /\ UNCHANGED <<classes, sinks, handles, calls, epoch>>

DeviceEmitId(h) ==
  /\ Len(pending) < MaxPending
  /\ pending' = Append(pending, h)
  /\ UNCHANGED <<classes, sinks, handles, calls, epoch>>

(* Whom the dispatch of one record calls: nobody, or one sink. *)
Routed(h) == Known(h.id) /\ MatchSink(classes[h.id]) # 0

(* Mutant: the table is indexed with the id, not with the id less one. *)
CallNextName(h) == [emitted |-> h, name |-> classes[(h.id % Len(classes)) + 1],
                    entry |-> MatchSink(classes[h.id])]

Call(h) == [emitted |-> h, name |-> classes[h.id],
            entry |-> MatchSink(classes[h.id])]

(* bc_sp_drain: the records in order, each to its sink; the rest are       *)
(* discarded.                                                              *)
Drain ==
  /\ calls' = [i \in {j \in DOMAIN pending : Routed(pending[j])} |-> Call(pending[i])]
  /\ pending' = <<>>
  /\ UNCHANGED <<classes, sinks, handles, epoch>>

(* bc_sp_reset_globals.  Ids that code still holds are not called back,    *)
(* and neither are records still in the buffer.                            *)
ResetGlobals ==
  /\ epoch < MaxResets
  /\ classes' = <<>>
  /\ sinks' = <<>>
  /\ epoch' = epoch + 1
  /\ UNCHANGED <<handles, pending, calls>>

RegNext ==
  \/ \E n \in Names : Intern(n)
  \/ \E p \in Patterns, s \in Sinks : RegisterSink(p, s)
  \/ \E h \in handles : HostEmitId(h)
  \/ \E h \in handles : DeviceEmitId(h)
  \/ Drain
  \/ ResetGlobals

RegSpec == RegInit /\ [][RegNext]_regvars

(***************************************************************************)
(* Both halves of sysprint.c.  They share no state, so that a behaviour    *)
(* follows one of them.                                                    *)
(***************************************************************************)
VARIABLE half       \* "buffer" or "registry": the half this behaviour follows

svars == <<vars, regvars, half>>

SInit == Init /\ RegInit /\ half \in {"buffer", "registry"}

SNext ==
  \/ half = "buffer" /\ Next /\ UNCHANGED <<regvars, half>>
  \/ half = "registry" /\ RegNext /\ UNCHANGED <<vars, half>>

SSpec == SInit /\ [][SNext]_svars /\ Fairness

-----------------------------------------------------------------------------
(* A record is delivered under the name it was emitted under, however many *)
(* classes were interned and sinks registered meanwhile; only a reset      *)
(* between intern and drain can change its name.                           *)
DeliveredUnderItsName ==
  \A i \in DOMAIN calls :
    calls[i].emitted.epoch = epoch => calls[i].name = calls[i].emitted.name

(* No later registration takes a class away from the sink that gets it     *)
(* ("First match in registration order wins").                             *)
RoutingIsStable ==
  [][epoch' = epoch =>
       \A n \in Names : MatchSink(n) # 0 => MatchSink(n)' = MatchSink(n)]_regvars

-----------------------------------------------------------------------------
(* The names and patterns of the run: three names of which one is too long, *)
(* and the kinds of pattern sysprint.h and docs/mainframe.md mention.       *)
StepName  == <<"STEP1">>
ErrorName == <<"STEP1", ".ERROR">>
LongName  == <<"STEP1", ".STEP2", ".ERROR">>

MCNames == {StepName, ErrorName, LongName}

MCPatterns == {<<"STEP1">>, <<"STEP1", "*">>, <<"*">>}

-----------------------------------------------------------------------------
(***************************************************************************)
(* Theorems, for all names, patterns, sinks and limits.                    *)
(***************************************************************************)
Entries == {Entry(p, s) : p \in Patterns, s \in Sinks}

(* A handle of this epoch that is not NONE is the id of its own name. *)
GoodHandle(h) ==
  /\ h.epoch \in Nat /\ h.epoch <= epoch /\ h.id \in Nat
  /\ h.epoch = epoch /\ h.id # NONE => h.id <= Len(classes) /\ classes[h.id] = h.name

GoodCall(c) ==
  /\ c.emitted.epoch \in Nat /\ c.emitted.epoch <= epoch
  /\ c.emitted.epoch = epoch => c.name = c.emitted.name

(* The ids that code holds and the records in the buffer name what they    *)
(* were made for, unless the tables were reset since.                      *)
RegistryInv ==
  /\ classes \in Seq(Names) /\ sinks \in Seq(Entries) /\ epoch \in Nat
  /\ \A h \in handles : GoodHandle(h)
  /\ pending \in Seq(handles)
  /\ \A i \in DOMAIN calls : GoodCall(calls[i])

(* A non-empty set of naturals has a least element. *)
LEMMA LeastIndex ==
  ASSUME NEW T, T \subseteq Nat, T # {}
  PROVE  \E x \in T : \A y \in T : x <= y
<1> DEFINE R == {ss \in Nat \X Nat : ss[1] < ss[2]}
<1>1. IsWellFoundedOn(R, Nat)
  BY NatLessThanWellFounded, Zenon DEF OpToRel
<1> HIDE DEF R
<1>2. PICK x \in T : \A y \in T : <<y, x>> \notin R
  BY <1>1, WFMin
<1>3. ASSUME NEW y \in T PROVE x <= y
  <2>1. x \in Nat /\ y \in Nat
    OBVIOUS
  <2>2. <<y, x>> \in Nat \X Nat /\ <<y, x>>[1] = y /\ <<y, x>>[2] = x
    BY <2>1
  <2>3. ~(y < x)
    BY <1>2, <2>2, Zenon DEF R
  <2> QED
    BY <2>1, <2>3
<1> QED
  BY <1>3

(* Lookup finds an index of the name, or says that there is none. *)
LEMMA LookupFinds ==
  ASSUME classes \in Seq(Names), NEW n
  PROVE  \/ Lookup(n) = NONE
         \/ Lookup(n) \in 1 .. Len(classes) /\ classes[Lookup(n)] = n
<1> DEFINE T == {i \in DOMAIN classes : classes[i] = n}
<1>1. CASE T = {}
  BY <1>1 DEF Lookup
<1>2. CASE T # {}
  <2>1. PICK i \in T : \A j \in T : i <= j
    <3>1. T \subseteq Nat
      OBVIOUS
    <3> QED
      BY <1>2, <3>1, LeastIndex
  <2>2. i \in DOMAIN classes /\ classes[i] = n /\ \A j \in 1 .. i - 1 : classes[j] # n
    BY <2>1
  <2>3. /\ Lookup(n) \in DOMAIN classes /\ classes[Lookup(n)] = n
    BY <2>2 DEF Lookup
  <2> QED
    BY <2>3
<1> QED
  BY <1>1, <1>2

(* What intern adds to the table takes no id's name away. *)
LEMMA InternStep ==
  ASSUME RegistryInv, NEW n \in Names, Intern(n)
  PROVE  RegistryInv'
<1>0. /\ classes \in Seq(Names) /\ epoch \in Nat /\ epoch' = epoch /\ sinks' = sinks
      /\ pending' = pending /\ calls' = calls /\ Len(classes) \in Nat
  BY DEF RegistryInv, Intern
<1>1. CASE GoodName(n) /\ Lookup(n) = NONE /\ Len(classes) < MaxClasses
  <2>1. /\ classes' = Append(classes, n)
        /\ handles' = handles \cup {Handle(n, Len(classes) + 1)}
    BY <1>1 DEF Intern
  <2>2. /\ classes' \in Seq(Names) /\ Len(classes') = Len(classes) + 1
        /\ classes'[Len(classes) + 1] = n
        /\ \A i \in 1 .. Len(classes) : classes'[i] = classes[i]
    BY <1>0, <2>1
  <2>3. ASSUME NEW h \in handles' PROVE GoodHandle(h)'
    <3>1. CASE h \in handles
      <4>1. GoodHandle(h)
        BY <3>1 DEF RegistryInv
      <4> QED
        BY <1>0, <2>2, <4>1 DEF GoodHandle, NONE
    <3>2. CASE h = Handle(n, Len(classes) + 1)
      BY <1>0, <2>2, <3>2 DEF GoodHandle, Handle
    <3> QED
      BY <2>1, <3>1, <3>2
  <2>4. pending \in Seq(handles')
    BY <2>1 DEF RegistryInv
  <2> QED
    BY <1>0, <2>2, <2>3, <2>4 DEF RegistryInv, GoodCall
<1>2. CASE ~(GoodName(n) /\ Lookup(n) = NONE /\ Len(classes) < MaxClasses)
  <2> DEFINE id == IF GoodName(n) THEN Lookup(n) ELSE NONE
  <2>1. classes' = classes /\ handles' = handles \cup {Handle(n, id)}
    BY <1>2 DEF Intern
  <2>2. id \in Nat /\ (id # NONE => id <= Len(classes) /\ classes[id] = n)
    BY <1>0, LookupFinds DEF NONE
  <2>3. GoodHandle(Handle(n, id))
    BY <1>0, <2>2 DEF GoodHandle, Handle
  <2>4. ASSUME NEW h \in handles' PROVE GoodHandle(h)'
    <3>1. GoodHandle(h)
      BY <2>1, <2>3 DEF RegistryInv
    <3> QED
      BY <1>0, <2>1, <3>1 DEF GoodHandle
  <2>5. pending \in Seq(handles')
    BY <2>1 DEF RegistryInv
  <2> QED
    BY <1>0, <2>1, <2>4, <2>5 DEF RegistryInv, GoodCall
<1> QED
  BY <1>1, <1>2

(* A drain calls sinks with the names the records were emitted under. *)
LEMMA DrainNames ==
  ASSUME RegistryInv, Drain
  PROVE  RegistryInv'
<1>1. ASSUME NEW i \in DOMAIN calls' PROVE GoodCall(calls[i])'
  <2>1. i \in DOMAIN pending /\ Routed(pending[i]) /\ calls'[i] = Call(pending[i])
    BY DEF Drain
  <2> DEFINE h == pending[i]
  <2>2. GoodHandle(h)
    BY <2>1 DEF RegistryInv
  <2>3. h.id # NONE /\ calls'[i].emitted = h /\ calls'[i].name = classes[h.id]
    BY <2>1 DEF Routed, Known, Call
  <2>4. epoch' = epoch
    BY DEF Drain
  <2> HIDE DEF h
  <2> QED
    BY <2>2, <2>3, <2>4 DEF GoodHandle, GoodCall
<1> QED
  BY <1>1 DEF RegistryInv, Drain, GoodHandle

LEMMA RegistryCorrect == RegSpec => []RegistryInv
<1>1. RegInit => RegistryInv
  BY DEF RegInit, RegistryInv
<1>2. RegistryInv /\ [RegNext]_regvars => RegistryInv'
  <2> SUFFICES ASSUME RegistryInv, [RegNext]_regvars PROVE RegistryInv'
    OBVIOUS
  <2>1. ASSUME NEW p \in Patterns, NEW s \in Sinks, RegisterSink(p, s) PROVE RegistryInv'
    <3>1. Entry(p, s) \in Entries
      BY DEF Entries
    <3>2. sinks' \in Seq(Entries)
      BY <2>1, <3>1 DEF RegisterSink, RegistryInv
    <3> QED
      BY <2>1, <3>2 DEF RegisterSink, RegistryInv, GoodHandle, GoodCall
  <2>2. ASSUME NEW h \in handles, HostEmitId(h) \/ DeviceEmitId(h) PROVE RegistryInv'
    <3>0. pending' = Append(pending, h) /\ pending \in Seq(handles)
      BY <2>2 DEF HostEmitId, DeviceEmitId, RegistryInv
    <3>1. pending' \in Seq(handles)
      BY <3>0
    <3> QED
      BY <2>2, <3>1 DEF HostEmitId, DeviceEmitId, RegistryInv, GoodHandle, GoodCall
  <2>3. CASE ResetGlobals
    BY <2>3 DEF ResetGlobals, RegistryInv, GoodHandle, GoodCall
  <2>4. CASE UNCHANGED regvars
    BY <2>4 DEF regvars, RegistryInv, GoodHandle, GoodCall
  <2> QED
    BY <2>1, <2>2, <2>3, <2>4, InternStep, DrainNames DEF RegNext
<1> QED
  BY <1>1, <1>2, PTL DEF RegSpec

(* A record is delivered under the name it was emitted under, whatever was *)
(* interned or registered in between; a reset in between is the exception. *)
THEOREM NamesHold == RegSpec => []DeliveredUnderItsName
<1>1. RegistryInv => DeliveredUnderItsName
  BY DEF RegistryInv, GoodCall, DeliveredUnderItsName
<1> QED
  BY <1>1, RegistryCorrect, PTL

(* The first match of a name stays the first when an entry is appended. *)
LEMMA AppendedMatch ==
  ASSUME sinks \in Seq(Entries), NEW e \in Entries, sinks' = Append(sinks, e),
         NEW n, MatchSink(n) # 0
  PROVE  MatchSink(n)' = MatchSink(n)
<1> DEFINE T == {i \in DOMAIN sinks : Matches(sinks[i], n)}
<1>1. T # {} /\ T \subseteq Nat
  BY DEF MatchSink
<1>2. PICK i \in T : \A j \in T : i <= j
  BY <1>1, LeastIndex
<1>3. /\ Len(sinks') = Len(sinks) + 1 /\ DOMAIN sinks' = 1 .. Len(sinks) + 1
      /\ \A j \in 1 .. Len(sinks) : sinks'[j] = sinks[j]
      /\ DOMAIN sinks = 1 .. Len(sinks) /\ Len(sinks) \in Nat
  OBVIOUS
<1>4. /\ i \in DOMAIN sinks /\ Matches(sinks[i], n)
      /\ \A j \in 1 .. i - 1 : ~Matches(sinks[j], n)
  BY <1>2, <1>3
<1>5. /\ i \in DOMAIN sinks' /\ Matches(sinks'[i], n)
      /\ \A j \in 1 .. i - 1 : ~Matches(sinks'[j], n)
  BY <1>3, <1>4
<1>6. MatchSink(n) = i
  <2>1. ASSUME NEW k \in DOMAIN sinks, Matches(sinks[k], n),
               \A j \in 1 .. k - 1 : ~Matches(sinks[j], n)
        PROVE  k = i
    BY <1>3, <1>4, <2>1
  <2> QED
    BY <1>4, <2>1 DEF MatchSink
<1>7. MatchSink(n)' = i
  <2>1. ASSUME NEW k \in DOMAIN sinks', Matches(sinks'[k], n),
               \A j \in 1 .. k - 1 : ~Matches(sinks'[j], n)
        PROVE  k = i
    BY <1>3, <1>5, <2>1
  <2> QED
    BY <1>5, <2>1 DEF MatchSink
<1> QED
  BY <1>6, <1>7

(* "First match in registration order wins": until a reset, no later       *)
(* registration takes a class away from the sink that gets it.             *)
THEOREM RoutingHolds == RegSpec => RoutingIsStable
<1> DEFINE Stays == epoch' = epoch => \A n \in Names : MatchSink(n) # 0 => MatchSink(n)' = MatchSink(n)
<1>1. RegistryInv /\ [RegNext]_regvars => [Stays]_regvars
  <2> SUFFICES ASSUME RegistryInv, [RegNext]_regvars PROVE Stays
    OBVIOUS
  <2>1. CASE sinks' = sinks
    BY <2>1 DEF MatchSink
  <2>2. ASSUME NEW p \in Patterns, NEW s \in Sinks, RegisterSink(p, s) PROVE Stays
    <3>1. Entry(p, s) \in Entries /\ sinks' = Append(sinks, Entry(p, s)) /\ sinks \in Seq(Entries)
      BY <2>2 DEF Entries, RegisterSink, RegistryInv
    <3> QED
      BY <3>1, AppendedMatch
  <2>3. CASE ResetGlobals
    BY <2>3 DEF ResetGlobals, RegistryInv
  <2> QED
    BY <2>1, <2>2, <2>3 DEF RegNext, regvars, Intern, HostEmitId, DeviceEmitId, Drain
<1>2. RegSpec => []RegistryInv
  BY RegistryCorrect
<1> QED
  BY <1>1, <1>2, PTL DEF RegSpec, RoutingIsStable
=============================================================================
