------------------------ MODULE SysprintBufferProofs ------------------------
(***************************************************************************)
(* Theorems about SysprintBuffer, for every number of threads, every size  *)
(* of buffer and every set of payload lengths.                             *)
(***************************************************************************)
EXTENDS SysprintBuffer, TLAPS

(* Record sizes are naturals below the width of a uint32_t. *)
LEMMA RecWordsType ==
  ASSUME NEW n \in Nat
  PROVE  PayloadWords(n) \in Nat /\ RecWords(n) \in 0 .. Mod - 1
<1>1. (n + 3) % (4 * Mod) \in Nat
  BY SizeAssumption
<1>2. PayloadWords(n) \in Nat
  BY <1>1 DEF PayloadWords
<1> QED
  BY <1>2, SizeAssumption DEF RecWords, Hdr

(* A uint32_t sum stays a uint32_t. *)
LEMMA SumType ==
  ASSUME NEW a \in Nat, NEW n \in Nat
  PROVE  (a + RecWords(n)) % Mod \in 0 .. Mod - 1
BY RecWordsType, SizeAssumption

(* Storing naturals into the buffer leaves it a buffer of naturals. *)
LEMMA StoreSeqType ==
  ASSUME data \in [Store -> Nat], NEW a \in Nat, NEW ws \in Seq(Nat)
  PROVE  StoreSeq(a, ws) \in [Store -> Nat]
BY DEF StoreSeq, Store

(* The fields of a thread's state, as numbers. *)
LEMMA FieldTypes ==
  ASSUME NEW r \in ThreadStates
  PROVE  /\ r.at \in Nat /\ r.cls \in Nat /\ r.len \in Nat
         /\ r.val \in Nat /\ r.i \in Nat
         /\ r.len \in Lens \cup {0}
<1>1. /\ r.at \in Nat /\ r.cls \in ClassIds \cup {0}
      /\ r.len \in Lens \cup {0} /\ r.val \in Values \cup {0} /\ r.i \in Nat
  BY DEF ThreadStates
<1>2. 0 \in Nat
  OBVIOUS
<1>3. /\ ClassIds \cup {0} \subseteq Nat /\ Lens \cup {0} \subseteq Nat
      /\ Values \cup {0} \subseteq Nat
  BY <1>2, ValueAssumption, Zenon
<1> QED
  BY <1>1, <1>3, Zenon

(* Type correctness of the record buffer: what the C declarations promise  *)
(* survives every interleaving of emits, drops and drains.                 *)
THEOREM TypeCorrect == Spec => []TypeOK
<1> USE SizeAssumption, ValueAssumption, BoundAssumption
<1>1. Init => TypeOK
  BY DEF Init, TypeOK, Store, Idle, ThreadStates
<1>2. TypeOK /\ [Next]_vars => TypeOK'
  <2> SUFFICES ASSUME TypeOK, [Next]_vars PROVE TypeOK'
    OBVIOUS
  <2>0. /\ data \in [Store -> Nat] /\ head \in Nat /\ pos \in Nat
        /\ th \in [Threads -> ThreadStates]
    BY DEF TypeOK
  <2>1. ASSUME NEW c \in ClassIds, NEW n \in Lens, NEW v \in Values,
               HostEmit(c, n, v)
        PROVE  TypeOK'
    <3>1. PayloadWords(n) \in Nat /\ v \in Nat /\ c \in Nat /\ n \in Nat
      BY RecWordsType
    <3>2. Payload(n, v) \in Seq(Nat)
      BY <3>1 DEF Payload
    <3>3. <<c, n>> \o Payload(n, v) \in Seq(Nat)
      BY <3>1, <3>2
    <3>4. StoreSeq(head, <<c, n>> \o Payload(n, v)) \in [Store -> Nat]
      BY <2>0, <3>3, StoreSeqType
    <3>5. (head + RecWords(n)) % Mod \in 0 .. Mod - 1
      BY <2>0, SumType
    <3>6. /\ data' \in [Store -> Nat]
          /\ head' \in 0 .. Mod - 1
          /\ dropped' \in Nat
      BY <2>1, <3>4, <3>5 DEF HostEmit, TypeOK
    <3> QED
      BY <2>1, <3>6 DEF HostEmit, TypeOK
  <2>2. CASE Launch \/ KernelDone \/ DrainBegin
    BY <2>2 DEF Launch, KernelDone, DrainBegin, TypeOK
  <2>3. ASSUME NEW t \in Threads, NEW c \in ClassIds, NEW n \in Lens,
               NEW v \in Values, Reserve(t, c, n, v)
        PROVE  TypeOK'
    <3>1. head' \in 0 .. Mod - 1
      BY <2>0, <2>3, SumType DEF Reserve
    <3>2. th' \in [Threads -> ThreadStates]
      BY <2>0, <2>3 DEF Reserve, ThreadStates
    <3> QED
      BY <2>3, <3>1, <3>2 DEF Reserve, TypeOK
  <2>4. ASSUME NEW t \in Threads, Drop(t) \/ Finish(t)
        PROVE  TypeOK'
    <3>1. th' \in [Threads -> ThreadStates]
      BY <2>0, <2>4 DEF Drop, Finish, ThreadStates, Idle
    <3> QED
      BY <2>4, <3>1 DEF Drop, Finish, TypeOK
  <2>5. ASSUME NEW t \in Threads, WriteHeader(t)
        PROVE  TypeOK'
    <3>0. th[t].cls \in Nat /\ th[t].len \in Nat /\ th[t].at \in Nat
      BY <2>0, FieldTypes
    <3>1. <<th[t].cls, th[t].len>> \in Seq(Nat) /\ th[t].at \in Nat
      BY <3>0
    <3>2. StoreSeq(th[t].at, <<th[t].cls, th[t].len>>) \in [Store -> Nat]
      BY <2>0, <3>1, StoreSeqType
    <3>3. th' \in [Threads -> ThreadStates]
      BY <2>0, <2>5 DEF WriteHeader, ThreadStates
    <3> QED
      BY <2>5, <3>2, <3>3 DEF WriteHeader, TypeOK
  <2>6. ASSUME NEW t \in Threads, CopyWord(t)
        PROVE  TypeOK'
    <3>0. th[t].val \in Nat /\ th[t].at \in Nat /\ th[t].i \in Nat
      BY <2>0, FieldTypes
    <3>1. <<th[t].val>> \in Seq(Nat) /\ th[t].at + Hdr + th[t].i \in Nat
      BY <3>0 DEF Hdr
    <3>2. StoreSeq(th[t].at + Hdr + th[t].i, <<th[t].val>>) \in [Store -> Nat]
      BY <2>0, <3>1, StoreSeqType
    <3>3. th' \in [Threads -> ThreadStates]
      BY <2>0, <2>6 DEF CopyWord, ThreadStates
    <3> QED
      BY <2>6, <3>2, <3>3 DEF CopyWord, TypeOK
  <2>7. CASE DrainStep
    <3>1. PICK c \in Load(pos), n \in Load(pos + 1) :
            pos' = (pos + RecWords(n)) % Mod
      BY <2>7 DEF DrainStep
    <3>2. n \in Nat
      BY <2>0 DEF Load
    <3>3. pos' \in 0 .. Mod - 1
      BY <2>0, <3>1, <3>2, SumType
    <3> QED
      BY <2>7, <3>3 DEF DrainStep, TypeOK
  <2>8. CASE DrainEnd
    BY <2>8 DEF DrainEnd, TypeOK
  <2>9. CASE UNCHANGED vars
    BY <2>9 DEF vars, TypeOK
  <2> QED
    BY <2>1, <2>2, <2>3, <2>4, <2>5, <2>6, <2>7, <2>8, <2>9 DEF Next
<1> QED
  BY <1>1, <1>2, PTL DEF Spec

-----------------------------------------------------------------------------
(***************************************************************************)
(* The contents of the buffer.  Everything below assumes that head does    *)
(* not wrap between two drains: no record is longer than W words, and as   *)
(* many of them as are emitted between two drains stay below Mod.          *)
(***************************************************************************)
NoWrap(W) ==
  /\ W \in Nat
  /\ \A n \in Lens : Hdr + PayloadWords(n) <= W
  /\ MaxEmits * W < Mod

(* The first word after a record or after a thread's reservation. *)
EndOf(x) == x.at + Hdr + PayloadWords(x.len)

Apart(x, y) == EndOf(x) <= y.at \/ EndOf(y) <= x.at

Busy(t) == th[t].pc # "idle"

(* The record that thread t is emitting. *)
RecordOf(t) ==
  Record(th[t].at, th[t].cls, th[t].len, Payload(th[t].len, th[t].val))

Records ==
  {Record(a, c, n, Payload(n, v)) :
     a \in Nat, c \in ClassIds, n \in Lens, v \in Values}

(* Every byte handed out lies below head, which is no further than the     *)
(* emits so far can have moved it; an accepted record lies in the store.   *)
Bounded(W) ==
  /\ head <= emits * W
  /\ accepted \subseteq Records
  /\ \A r \in accepted : EndOf(r) <= head /\ EndOf(r) <= Size
  /\ \A t \in Threads : Busy(t) =>
       /\ th[t].cls \in ClassIds /\ th[t].len \in Lens /\ th[t].val \in Values
       /\ EndOf(th[t]) <= head

(* A thread that copies is writing an accepted record. *)
Copying ==
  \A t \in Threads :
    /\ th[t].pc = "reserved" => th[t].i = 0
    /\ th[t].pc = "copy" =>
         RecordOf(t) \in accepted /\ th[t].i <= PayloadWords(th[t].len)

(* No two emits share a word. *)
Separate ==
  /\ \A r, s \in accepted : r # s => Apart(r, s)
  /\ \A t, u \in Threads : Busy(t) /\ Busy(u) /\ t # u => Apart(th[t], th[u])
  /\ \A t \in Threads, r \in accepted :
       th[t].pc = "reserved" => Apart(th[t], r)

(* The payload word k of r is stored, unless a thread is still short of it. *)
Stored(r, k) ==
  (\A t \in Threads : th[t].pc = "copy" /\ th[t].at = r.at => k <= th[t].i)
    => data[r.at + 1 + k] = r.pay[k]

Contents ==
  \A r \in accepted :
    /\ data[r.at] = r.cls
    /\ data[r.at + 1] = r.len
    /\ \A k \in 1 .. PayloadWords(r.len) : Stored(r, k)

(* Every word below head belongs to an emit that is recorded or pending,   *)
(* or head has left the store and no granted emit reaches that far.        *)
Covered ==
  \A w \in 0 .. head - 1 :
    \/ \E r \in accepted : r.at <= w /\ w < EndOf(r)
    \/ \E t \in Threads :
         th[t].pc = "reserved" /\ th[t].at <= w /\ w < EndOf(th[t])
    \/ /\ Size < head
       /\ \A r \in accepted : EndOf(r) <= w
       /\ \A t \in Threads : th[t].pc = "reserved" /\ EndOf(th[t]) <= Size
                              => EndOf(th[t]) <= w

(* The walk stands between two records and has handed on those before it. *)
Between ==
  /\ pos <= head
  /\ \A r \in accepted : EndOf(r) <= pos \/ pos <= r.at
  /\ \A r \in accepted : EndOf(r) <= pos => r \in walked

Walking ==
  /\ phase # "kernel" => \A t \in Threads : ~Busy(t)
  /\ phase # "drain" => pos = 0 /\ walked = {}
  /\ phase = "drain" =>
       /\ Between \/ (Size < head /\ accepted \subseteq walked)
       /\ head <= Size => walked \subseteq accepted

BufferInv(W) ==
  Bounded(W) /\ Copying /\ Separate /\ Contents /\ Covered /\ Walking

-----------------------------------------------------------------------------
(* As long as it does not wrap, the code's arithmetic is that of numbers. *)
LEMMA SumExact ==
  ASSUME NEW a \in Nat, NEW n \in Nat, a + Hdr + PayloadWords(n) < Mod
  PROVE  (a + RecWords(n)) % Mod = a + Hdr + PayloadWords(n)
<1>1. PayloadWords(n) \in Nat
  BY RecWordsType
<1>2. RecWords(n) = Hdr + PayloadWords(n)
  BY <1>1, SizeAssumption DEF RecWords, Hdr
<1> QED
  BY <1>1, <1>2, SizeAssumption DEF Hdr

LEMMA Multiples ==
  ASSUME NEW a \in Nat, NEW b \in Nat, NEW w \in Nat, a < b
  PROVE  a * w \in Nat /\ (a + 1) * w = a * w + w /\ a * w + w <= b * w
<1>1. (a + 1) * w = a * w + w /\ a * w \in Nat
  OBVIOUS
<1>2. PICK d \in Nat : b = (a + 1) + d
  <2>1. b - (a + 1) \in Nat /\ b = (a + 1) + (b - (a + 1))
    OBVIOUS
  <2> QED
    BY <2>1
<1>3. b * w = (a + 1) * w + d * w /\ d * w \in Nat
  BY <1>2
<1>4. (a + 1) * w \in Nat /\ b * w \in Nat
  OBVIOUS
<1> QED
  BY <1>1, <1>3, <1>4

(* An emit that may still be made stays within a uint32_t. *)
LEMMA Room ==
  ASSUME NEW W, NoWrap(W), TypeOK, head <= emits * W, emits < MaxEmits,
         NEW n \in Lens
  PROVE  /\ n \in Nat /\ PayloadWords(n) \in Nat
         /\ head + Hdr + PayloadWords(n) <= (emits + 1) * W
         /\ head + Hdr + PayloadWords(n) < Mod
         /\ head <= (emits + 1) * W
<1>1. n \in Nat /\ PayloadWords(n) \in Nat
  BY RecWordsType, ValueAssumption
<1>2. emits \in Nat /\ W \in Nat /\ MaxEmits \in Nat /\ head \in Nat
  BY BoundAssumption, SizeAssumption DEF TypeOK, NoWrap
<1>3. emits * W \in Nat /\ (emits + 1) * W = emits * W + W
      /\ emits * W + W <= MaxEmits * W
  BY <1>2, Multiples
<1>4. Hdr + PayloadWords(n) <= W /\ MaxEmits * W < Mod
  BY DEF NoWrap
<1>5. MaxEmits * W \in Nat /\ Mod \in Nat
  BY <1>2, SizeAssumption
<1> HIDE DEF NoWrap
<1> QED
  BY <1>1, <1>2, <1>3, <1>4, <1>5 DEF Hdr

(* What a word of the store holds after a run of words is stored at a. *)
LEMMA StoreRead ==
  ASSUME NEW a \in Nat, NEW ws \in Seq(Nat), NEW w \in Store
  PROVE  /\ a <= w /\ w < a + Len(ws) => StoreSeq(a, ws)[w] = ws[w - a + 1]
         /\ w < a \/ a + Len(ws) <= w => StoreSeq(a, ws)[w] = data[w]
<1>1. w \in Int /\ DOMAIN ws = 1 .. Len(ws) /\ Len(ws) \in Nat
  BY SizeAssumption DEF Store
<1>2. StoreSeq(a, ws)[w] = IF w - a + 1 \in DOMAIN ws
                           THEN ws[w - a + 1] ELSE data[w]
  BY DEF StoreSeq
<1> QED
  BY <1>1, <1>2

(* The fields of an accepted record, as numbers. *)
LEMMA RecordTypes ==
  ASSUME NEW r \in Records
  PROVE  /\ r.at \in Nat /\ r.cls \in ClassIds /\ r.cls \in Nat
         /\ r.len \in Lens /\ r.len \in Nat
         /\ PayloadWords(r.len) \in Nat
         /\ r.pay \in [1 .. PayloadWords(r.len) -> Nat]
         /\ r = Record(r.at, r.cls, r.len, r.pay)
         /\ EndOf(r) = r.at + 2 + PayloadWords(r.len)
         /\ EndOf(r) \in Nat /\ r.at + 2 <= EndOf(r)
<1>1. PICK a \in Nat, c \in ClassIds, n \in Lens, v \in Values :
        r = Record(a, c, n, Payload(n, v))
  BY DEF Records
<1>2. /\ r.at = a /\ r.cls = c /\ r.len = n /\ r.pay = Payload(n, v)
      /\ r = Record(r.at, r.cls, r.len, r.pay)
  BY <1>1 DEF Record
<1>3. n \in Nat /\ v \in Nat /\ c \in Nat /\ PayloadWords(n) \in Nat
  BY RecWordsType, ValueAssumption
<1>4. Payload(n, v) \in [1 .. PayloadWords(n) -> Nat]
  BY <1>3 DEF Payload
<1>5. EndOf(r) = r.at + 2 + PayloadWords(r.len)
  BY <1>2, <1>3 DEF EndOf, Hdr
<1> QED
  BY <1>2, <1>3, <1>4, <1>5

(* The same for the reservation of a busy thread. *)
LEMMA ThreadTypes ==
  ASSUME TypeOK, NEW t \in Threads
  PROVE  /\ th[t].at \in Nat /\ th[t].cls \in Nat /\ th[t].len \in Nat
         /\ th[t].val \in Nat /\ th[t].i \in Nat
         /\ th[t].pc \in {"idle", "reserved", "copy"}
         /\ PayloadWords(th[t].len) \in Nat
         /\ EndOf(th[t]) = th[t].at + 2 + PayloadWords(th[t].len)
         /\ EndOf(th[t]) \in Nat /\ th[t].at + 2 <= EndOf(th[t])
<1>1. th[t] \in ThreadStates
  BY DEF TypeOK
<1>2. /\ th[t].at \in Nat /\ th[t].cls \in Nat /\ th[t].len \in Nat
      /\ th[t].val \in Nat /\ th[t].i \in Nat
  BY <1>1, FieldTypes
<1>3. th[t].pc \in {"idle", "reserved", "copy"}
  BY <1>1 DEF ThreadStates
<1>4. PayloadWords(th[t].len) \in Nat
  BY <1>2, RecWordsType
<1>5. EndOf(th[t]) = th[t].at + 2 + PayloadWords(th[t].len)
  BY <1>2, <1>4 DEF EndOf, Hdr
<1> QED
  BY <1>2, <1>3, <1>4, <1>5

(* A busy thread is granted its space exactly when it ends in the store. *)
LEMMA Granted ==
  ASSUME NEW W, NoWrap(W), TypeOK, Bounded(W), NEW t \in Threads, Busy(t)
  PROVE  TooLong(th[t].at, th[t].len) <=> Size < EndOf(th[t])
<1>1. EndOf(th[t]) <= head /\ head < Mod /\ head \in Nat
  BY SizeAssumption DEF Bounded, TypeOK
<1>2. /\ th[t].at \in Nat /\ th[t].len \in Nat
      /\ PayloadWords(th[t].len) \in Nat
      /\ EndOf(th[t]) = th[t].at + 2 + PayloadWords(th[t].len)
  BY ThreadTypes
<1>3. th[t].at + Hdr + PayloadWords(th[t].len) < Mod
  BY <1>1, <1>2, SizeAssumption DEF Hdr
<1>4. (th[t].at + RecWords(th[t].len)) % Mod = EndOf(th[t])
  BY <1>2, <1>3, SumExact DEF Hdr
<1> QED
  BY <1>1, <1>2, <1>4, SizeAssumption DEF TooLong

-----------------------------------------------------------------------------
(* A host emit: the record goes where head stands, past all the others. *)
LEMMA HostEmitStep ==
  ASSUME NEW W, NoWrap(W), TypeOK, TypeOK', BufferInv(W),
         NEW c \in ClassIds, NEW n \in Lens, NEW v \in Values,
         HostEmit(c, n, v)
  PROVE  BufferInv(W)'
<1>0. /\ Bounded(W) /\ Copying /\ Separate /\ Contents /\ Covered /\ Walking
  BY DEF BufferInv
<1>1. /\ phase = "host" /\ phase' = phase /\ th' = th /\ pos' = pos
      /\ walked' = walked /\ emits < MaxEmits /\ emits' = emits + 1
  BY DEF HostEmit
<1>2. /\ n \in Nat /\ PayloadWords(n) \in Nat
      /\ head + Hdr + PayloadWords(n) <= (emits + 1) * W
      /\ head + Hdr + PayloadWords(n) < Mod
      /\ head <= (emits + 1) * W
  <2>1. head <= emits * W
    BY <1>0 DEF Bounded
  <2> QED
    BY <1>1, <2>1, Room
<1>3. \A t \in Threads : th[t].pc = "idle"
  BY <1>0, <1>1 DEF Walking, Busy
<1>4. head \in Nat /\ Size \in Nat /\ c \in Nat /\ v \in Nat
  BY SizeAssumption, ValueAssumption DEF TypeOK
<1>5. Walking'
  BY <1>0, <1>1, <1>3 DEF Walking, Busy
<1>6. Copying'
  BY <1>1, <1>3 DEF Copying
<1>7. CASE c = NONE \/ TooLong(head, n)
  <2>1. data' = data /\ head' = head /\ accepted' = accepted
    BY <1>7 DEF HostEmit
  <2>2. Bounded(W)'
    BY <1>0, <1>1, <1>2, <2>1 DEF Bounded, Busy
  <2>3. Separate' /\ Contents' /\ Covered'
    BY <1>0, <1>1, <2>1 DEF Separate, Contents, Stored, Covered, Busy
  <2> QED
    BY <1>5, <1>6, <2>2, <2>3 DEF BufferInv
<1>8. CASE ~(c = NONE \/ TooLong(head, n))
  <2>0. PICK p : p = Payload(n, v)
    OBVIOUS
  <2>1. PICK q : q = Record(head, c, n, p)
    OBVIOUS
  <2>2. /\ data' = StoreSeq(head, <<c, n>> \o p)
        /\ accepted' = accepted \cup {q}
        /\ head' = (head + RecWords(n)) % Mod
    BY <1>8, <2>0, <2>1 DEF HostEmit
  <2>3. q \in Records
    BY <1>4, <2>0, <2>1 DEF Records
  <2>4. /\ q.at = head /\ q.cls = c /\ q.len = n /\ q.pay = p
        /\ EndOf(q) = head + 2 + PayloadWords(n)
    BY <1>2, <1>4, <2>1 DEF Record, EndOf, Hdr
  <2>5. head' = EndOf(q)
    BY <1>2, <1>4, <2>2, <2>4, SumExact DEF Hdr
  <2>6. EndOf(q) <= Size
    <3>1. ~((head + RecWords(n)) % Mod > Size)
      BY <1>8 DEF TooLong
    <3>2. EndOf(q) \in Nat
      BY <1>2, <1>4, <2>4
    <3> QED
      BY <1>4, <2>2, <2>5, <3>1, <3>2
  <2>7. \A r \in accepted :
          /\ r \in Records /\ EndOf(r) <= head /\ EndOf(r) <= Size
          /\ r.at \in Nat /\ r.at + 2 <= EndOf(r) /\ EndOf(r) \in Nat
          /\ PayloadWords(r.len) \in Nat
          /\ EndOf(r) = r.at + 2 + PayloadWords(r.len)
    <3>1. \A r \in accepted : r \in Records /\ EndOf(r) <= head /\ EndOf(r) <= Size
      BY <1>0 DEF Bounded
    <3> QED
      BY <3>1, RecordTypes
  <2>8. Bounded(W)'
    <3>1. head' <= emits' * W
      BY <1>1, <1>2, <1>4, <2>4, <2>5 DEF Hdr
    <3>2. accepted' \subseteq Records
      BY <2>2, <2>3, <2>7
    <3>3. \A r \in accepted' : EndOf(r) <= head' /\ EndOf(r) <= Size
      BY <1>2, <1>4, <2>2, <2>4, <2>5, <2>6, <2>7
    <3>4. \A t \in Threads : ~(Busy(t))'
      BY <1>1, <1>3 DEF Busy
    <3> QED
      BY <3>1, <3>2, <3>3, <3>4 DEF Bounded, Records
  <2>9. Separate'
    <3>1. \A r \in accepted : Apart(r, q) /\ Apart(q, r)
      BY <2>4, <2>7 DEF Apart
    <3>2. \A r, s \in accepted' : r # s => Apart(r, s)
      BY <1>0, <2>2, <3>1 DEF Separate
    <3> QED
      BY <1>1, <1>3, <3>2 DEF Separate, Busy, Apart
  <2>10. Contents'
    <3>0. PICK ws : ws = <<c, n>> \o p
      OBVIOUS
    <3>1. /\ p \in Seq(Nat) /\ Len(p) = PayloadWords(n)
          /\ \A k \in 1 .. PayloadWords(n) : p[k] = v
      BY <1>2, <1>4, <2>0 DEF Payload
    <3>2. /\ ws \in Seq(Nat) /\ Len(ws) = 2 + PayloadWords(n)
          /\ ws[1] = c /\ ws[2] = n
          /\ \A k \in 1 .. PayloadWords(n) : ws[2 + k] = p[k]
      <4>1. <<c, n>> \in Seq(Nat) /\ Len(<<c, n>>) = 2
        BY <1>2, <1>4
      <4> QED
        BY <1>2, <1>4, <3>0, <3>1, <4>1
    <3>3. /\ \A w \in Store : w < head => data'[w] = data[w]
          /\ \A w \in Store : head <= w /\ w < EndOf(q)
               => data'[w] = ws[w - head + 1]
      <4>0. data' = StoreSeq(head, ws)
        BY <2>2, <3>0, Zenon
      <4>1. EndOf(q) = head + Len(ws)
        BY <1>2, <1>4, <2>4, <3>2
      <4>2. \A w \in Store :
              /\ head <= w /\ w < head + Len(ws)
                   => StoreSeq(head, ws)[w] = ws[w - head + 1]
              /\ w < head \/ head + Len(ws) <= w
                   => StoreSeq(head, ws)[w] = data[w]
        BY <1>4, <3>2, StoreRead
      <4> QED
        BY <4>0, <4>1, <4>2, Zenon
    <3>4. ASSUME NEW r \in accepted
          PROVE  /\ data'[r.at] = r.cls
                 /\ data'[r.at + 1] = r.len
                 /\ \A k \in 1 .. PayloadWords(r.len) : Stored(r, k)'
      <4>1. /\ data[r.at] = r.cls /\ data[r.at + 1] = r.len
            /\ \A k \in 1 .. PayloadWords(r.len) : Stored(r, k)
        BY <1>0 DEF Contents
      <4>2. \A w \in r.at .. EndOf(r) - 1 : w \in Store /\ w < head
        BY <1>4, <2>7 DEF Store
      <4>3. \A w \in r.at .. EndOf(r) - 1 : data'[w] = data[w]
        BY <3>3, <4>2
      <4>4. /\ r.at \in r.at .. EndOf(r) - 1 /\ r.at + 1 \in r.at .. EndOf(r) - 1
            /\ \A k \in 1 .. PayloadWords(r.len) :
                 r.at + 1 + k \in r.at .. EndOf(r) - 1
        BY <2>7
      <4> QED
        BY <1>1, <4>1, <4>3, <4>4 DEF Stored
    <3>5. /\ data'[q.at] = q.cls
          /\ data'[q.at + 1] = q.len
          /\ \A k \in 1 .. PayloadWords(q.len) : Stored(q, k)'
      <4>1. \A w \in head .. EndOf(q) - 1 : data'[w] = ws[w - head + 1]
        BY <1>4, <1>2, <2>4, <2>6, <3>3 DEF Store
      <4>2. data'[head] = ws[1] /\ data'[head + 1] = ws[2]
        BY <1>2, <1>4, <2>4, <4>1
      <4>3. \A k \in 1 .. PayloadWords(n) : data'[head + 1 + k] = ws[2 + k]
        BY <1>2, <1>4, <2>4, <4>1
      <4> QED
        BY <2>4, <3>2, <4>2, <4>3 DEF Stored
    <3> QED
      BY <2>2, <3>4, <3>5 DEF Contents
  <2>11. Covered'
    <3> SUFFICES ASSUME NEW w \in 0 .. head' - 1
                 PROVE  \E r \in accepted' : r.at <= w /\ w < EndOf(r)
      BY DEF Covered
    <3>1. CASE w < head
      <4>1. \E r \in accepted : r.at <= w /\ w < EndOf(r)
        <5>1. w \in 0 .. head - 1
          BY <1>4, <3>1
        <5>2. ~(Size < head)
          BY <1>2, <1>4, <2>4, <2>6
        <5> QED
          BY <1>0, <1>3, <5>1, <5>2 DEF Covered
      <4> QED
        BY <2>2, <4>1
    <3>2. CASE ~(w < head)
      BY <1>4, <2>2, <2>4, <2>5, <3>2
    <3> QED
      BY <3>1, <3>2
  <2> QED
    BY <1>5, <1>6, <2>8, <2>9, <2>10, <2>11 DEF BufferInv
<1> QED
  BY <1>7, <1>8

(* The steps that change the phase alone. *)
LEMMA PhaseStep ==
  ASSUME NEW W, TypeOK, BufferInv(W), Launch \/ KernelDone \/ DrainBegin
  PROVE  BufferInv(W)'
<1>0. /\ Bounded(W) /\ Copying /\ Separate /\ Contents /\ Covered /\ Walking
  BY DEF BufferInv
<1>1. /\ data' = data /\ head' = head /\ th' = th /\ pos' = pos
      /\ accepted' = accepted /\ walked' = walked /\ emits' = emits
  BY DEF Launch, KernelDone, DrainBegin
<1>2. Bounded(W)' /\ Copying' /\ Separate' /\ Contents' /\ Covered'
  BY <1>0, <1>1 DEF Bounded, Copying, RecordOf, Separate, Contents, Stored,
                    Covered, Busy
<1>3. pos = 0 /\ walked = {}
  BY <1>0 DEF Walking, Launch, KernelDone, DrainBegin
<1>4. phase' # "kernel" => \A t \in Threads : ~Busy(t)
  BY <1>0 DEF Walking, Launch, KernelDone, DrainBegin, Busy
<1>5. Between /\ walked \subseteq accepted
  <2>1. \A r \in accepted : r \in Records
    BY <1>0 DEF Bounded
  <2>2. \A r \in accepted : r.at \in Nat /\ r.at + 2 <= EndOf(r) /\ EndOf(r) \in Nat
    BY <2>1, RecordTypes
  <2>4. head \in Nat
    BY SizeAssumption DEF TypeOK
  <2> QED
    BY <1>3, <2>2, <2>4 DEF Between
<1>6. Walking'
  BY <1>1, <1>3, <1>4, <1>5 DEF Walking, Between, Busy
<1> QED
  BY <1>2, <1>6 DEF BufferInv

(* A reservation: the thread gets the words from head on. *)
LEMMA ReserveStep ==
  ASSUME NEW W, NoWrap(W), TypeOK, TypeOK', BufferInv(W),
         NEW t \in Threads, NEW c \in ClassIds, NEW n \in Lens,
         NEW v \in Values, Reserve(t, c, n, v)
  PROVE  BufferInv(W)'
<1>0. /\ Bounded(W) /\ Copying /\ Separate /\ Contents /\ Covered /\ Walking
  BY DEF BufferInv
<1>1. /\ phase = "kernel" /\ phase' = phase /\ pos' = pos /\ th[t].pc = "idle"
      /\ walked' = walked /\ emits < MaxEmits /\ emits' = emits + 1
      /\ data' = data /\ accepted' = accepted
      /\ head' = (head + RecWords(n)) % Mod
  BY DEF Reserve
<1>2. /\ n \in Nat /\ PayloadWords(n) \in Nat
      /\ head + Hdr + PayloadWords(n) <= (emits + 1) * W
      /\ head + Hdr + PayloadWords(n) < Mod
  <2>1. head <= emits * W
    BY <1>0 DEF Bounded
  <2> QED
    BY <1>1, <2>1, Room
<1>3. head \in Nat /\ Size \in Nat
  BY SizeAssumption DEF TypeOK
<1>4. PICK q : q = [pc |-> "reserved", at |-> head, cls |-> c,
                    len |-> n, val |-> v, i |-> 0]
  OBVIOUS
<1>5. /\ q.pc = "reserved" /\ q.at = head /\ q.cls = c /\ q.len = n
      /\ q.val = v /\ q.i = 0 /\ EndOf(q) = head + 2 + PayloadWords(n)
  BY <1>2, <1>3, <1>4 DEF EndOf, Hdr
<1>6. /\ th'[t] = q
      /\ \A u \in Threads : u # t => th'[u] = th[u]
  BY <1>4 DEF Reserve, TypeOK
<1>7. head' = EndOf(q) /\ EndOf(q) \in Nat /\ head + 2 <= EndOf(q)
  BY <1>1, <1>2, <1>3, <1>5, SumExact DEF Hdr
<1>8. \A r \in accepted :
        /\ r \in Records /\ EndOf(r) <= head /\ EndOf(r) <= Size
        /\ r.at \in Nat /\ r.at + 2 <= EndOf(r) /\ EndOf(r) \in Nat
  <2>1. \A r \in accepted : r \in Records /\ EndOf(r) <= head /\ EndOf(r) <= Size
    BY <1>0 DEF Bounded
  <2> QED
    BY <2>1, RecordTypes
<1>9. \A u \in Threads : Busy(u) =>
        /\ EndOf(th[u]) <= head /\ EndOf(th[u]) \in Nat
        /\ th[u].at \in Nat /\ th[u].at + 2 <= EndOf(th[u])
        /\ u # t
  BY <1>0, <1>1, ThreadTypes DEF Bounded, Busy
<1>10. Bounded(W)'
  <2>1. head' <= emits' * W
    BY <1>1, <1>2, <1>3, <1>5, <1>7 DEF Hdr
  <2>2. \A r \in accepted' : EndOf(r) <= head' /\ EndOf(r) <= Size
    BY <1>1, <1>3, <1>7, <1>8
  <2>3. ASSUME NEW u \in Threads, th'[u].pc # "idle"
        PROVE  /\ th'[u].cls \in ClassIds /\ th'[u].len \in Lens
               /\ th'[u].val \in Values /\ EndOf(th'[u]) <= head'
    <3>1. CASE u = t
      BY <1>5, <1>6, <1>7, <3>1
    <3>2. CASE u # t
      <4>1. th'[u] = th[u] /\ Busy(u)
        BY <1>6, <2>3, <3>2 DEF Busy
      <4>2. /\ th[u].cls \in ClassIds /\ th[u].len \in Lens
            /\ th[u].val \in Values
        BY <1>0, <4>1 DEF Bounded
      <4> QED
        BY <1>3, <1>7, <1>9, <4>1, <4>2
    <3> QED
      BY <3>1, <3>2
  <2> QED
    BY <1>0, <1>1, <2>1, <2>2, <2>3 DEF Bounded, Busy, Records, EndOf
<1>11. Copying'
  <2>1. ASSUME NEW u \in Threads
        PROVE  /\ th'[u].pc = "reserved" => th'[u].i = 0
               /\ th'[u].pc = "copy" =>
                    RecordOf(u)' \in accepted /\ th'[u].i <= PayloadWords(th'[u].len)
    <3>1. CASE u = t
      BY <1>5, <1>6, <3>1
    <3>2. CASE u # t
      BY <1>0, <1>6, <3>2 DEF Copying, RecordOf
    <3> QED
      BY <3>1, <3>2
  <2> QED
    BY <1>1, <2>1 DEF Copying
<1>12. Separate'
  <2>1. \A r \in accepted : Apart(q, r)
    BY <1>5, <1>8 DEF Apart
  <2>2. \A u \in Threads : Busy(u) => Apart(q, th[u]) /\ Apart(th[u], q)
    BY <1>5, <1>9 DEF Apart
  <2>3. \A x, y \in Threads : th'[x].pc # "idle" /\ th'[y].pc # "idle" /\ x # y
          => Apart(th'[x], th'[y])
    <3> SUFFICES ASSUME NEW x \in Threads, NEW y \in Threads,
                        th'[x].pc # "idle", th'[y].pc # "idle", x # y
                 PROVE  Apart(th'[x], th'[y])
      OBVIOUS
    <3>1. CASE x = t
      BY <1>6, <2>2, <3>1, Zenon DEF Busy
    <3>2. CASE y = t
      BY <1>6, <2>2, <3>2, Zenon DEF Busy
    <3>3. CASE x # t /\ y # t
      <4>1. th'[x] = th[x] /\ th'[y] = th[y] /\ Busy(x) /\ Busy(y)
        BY <1>6, <3>3 DEF Busy
      <4>2. Apart(th[x], th[y])
        BY <1>0, <4>1 DEF Separate
      <4> QED
        BY <4>1, <4>2
    <3> QED
      BY <3>1, <3>2, <3>3
  <2>4. \A u \in Threads, r \in accepted :
          th'[u].pc = "reserved" => Apart(th'[u], r)
    <3> SUFFICES ASSUME NEW u \in Threads, NEW r \in accepted,
                        th'[u].pc = "reserved"
                 PROVE  Apart(th'[u], r)
      OBVIOUS
    <3>1. CASE u = t
      BY <1>6, <2>1, <3>1
    <3>2. CASE u # t
      BY <1>0, <1>6, <3>2 DEF Separate
    <3> QED
      BY <3>1, <3>2
  <2> QED
    BY <1>0, <1>1, <2>3, <2>4 DEF Separate, Busy, Apart, EndOf
<1>13. Contents'
  <2>1. ASSUME NEW r \in accepted, NEW k \in 1 .. PayloadWords(r.len),
               \A u \in Threads : th'[u].pc = "copy" /\ th'[u].at = r.at => k <= th'[u].i
        PROVE  data[r.at + 1 + k] = r.pay[k]
    <3>1. \A u \in Threads : th[u].pc = "copy" /\ th[u].at = r.at => k <= th[u].i
      <4> SUFFICES ASSUME NEW u \in Threads, th[u].pc = "copy", th[u].at = r.at
                   PROVE  k <= th[u].i
        OBVIOUS
      <4>1. u # t
        BY <1>1
      <4>2. th'[u] = th[u]
        BY <1>6, <4>1
      <4> QED
        BY <2>1, <4>2
    <3>2. Stored(r, k)
      BY <1>0 DEF Contents
    <3> QED
      BY <3>1, <3>2 DEF Stored
  <2> QED
    BY <1>0, <1>1, <2>1 DEF Contents, Stored
<1>14. Covered'
  <2>1. ASSUME NEW w \in 0 .. head' - 1
        PROVE  \/ \E r \in accepted : r.at <= w /\ w < EndOf(r)
               \/ \E u \in Threads :
                    th'[u].pc = "reserved" /\ th'[u].at <= w /\ w < EndOf(th'[u])
               \/ /\ Size < head'
                  /\ \A r \in accepted : EndOf(r) <= w
                  /\ \A u \in Threads :
                       th'[u].pc = "reserved" /\ EndOf(th'[u]) <= Size
                         => EndOf(th'[u]) <= w
    <3>1. CASE ~(w < head)
      BY <1>3, <1>5, <1>6, <1>7, <3>1
    <3>2. CASE w < head /\ \E r \in accepted : r.at <= w /\ w < EndOf(r)
      BY <3>2
    <3>3. CASE \E u \in Threads :
                 th[u].pc = "reserved" /\ th[u].at <= w /\ w < EndOf(th[u])
      <4>1. PICK u \in Threads :
              th[u].pc = "reserved" /\ th[u].at <= w /\ w < EndOf(th[u])
        BY <3>3
      <4>2. th'[u] = th[u]
        BY <1>1, <1>6, <4>1
      <4> QED
        BY <4>1, <4>2
    <3>4. CASE /\ Size < head
               /\ \A r \in accepted : EndOf(r) <= w
               /\ \A u \in Threads : th[u].pc = "reserved" /\ EndOf(th[u]) <= Size
                                      => EndOf(th[u]) <= w
      <4>1. Size < head' /\ ~(EndOf(q) <= Size)
        BY <1>3, <1>7, <3>4
      <4>2. ASSUME NEW u \in Threads, th'[u].pc = "reserved", EndOf(th'[u]) <= Size
            PROVE  EndOf(th'[u]) <= w
        <5>1. u # t
          BY <1>6, <4>1, <4>2
        <5> QED
          BY <1>6, <3>4, <4>2, <5>1
      <4> QED
        BY <3>4, <4>1, <4>2
    <3>5. w < head => w \in 0 .. head - 1
      BY <1>3
    <3> QED
      BY <1>0, <3>1, <3>2, <3>3, <3>4, <3>5 DEF Covered
  <2> QED
    BY <1>1, <2>1 DEF Covered, EndOf
<1>15. Walking'
  BY <1>0, <1>1 DEF Walking
<1> QED
  BY <1>10, <1>11, <1>12, <1>13, <1>14, <1>15 DEF BufferInv

(* A drop: the words stay a hole behind which nothing is ever granted. *)
LEMMA DropStep ==
  ASSUME NEW W, NoWrap(W), TypeOK, TypeOK', BufferInv(W),
         NEW t \in Threads, Drop(t)
  PROVE  BufferInv(W)'
<1>0. /\ Bounded(W) /\ Copying /\ Separate /\ Contents /\ Covered /\ Walking
  BY DEF BufferInv
<1>1. /\ th[t].pc = "reserved" /\ head' = head /\ emits' = emits
      /\ phase' = phase /\ pos' = pos /\ walked' = walked
      /\ data' = data /\ accepted' = accepted
  BY DEF Drop
<1>2. /\ th'[t].pc = "idle"
      /\ \A u \in Threads : u # t => th'[u] = th[u]
  BY DEF Drop, TypeOK, Idle
<1>3. Size < EndOf(th[t]) /\ EndOf(th[t]) <= head
  BY <1>0, <1>1, Granted DEF Drop, Busy, Bounded
<1>4. head \in Nat /\ Size \in Nat
  BY SizeAssumption DEF TypeOK
<1>5. \A u \in Threads : th'[u].pc # "idle" => u # t /\ th'[u] = th[u] /\ Busy(u)
  BY <1>2 DEF Busy
<1>6. Bounded(W)'
  BY <1>0, <1>1, <1>5 DEF Bounded, Busy, Records, EndOf
<1>7. Copying'
  BY <1>0, <1>1, <1>5 DEF Copying, RecordOf
<1>8. Separate'
  BY <1>0, <1>1, <1>5 DEF Separate, Busy, Apart, EndOf
<1>9. Contents'
  <2>1. ASSUME NEW r \in accepted, NEW k \in 1 .. PayloadWords(r.len),
               \A u \in Threads : th'[u].pc = "copy" /\ th'[u].at = r.at => k <= th'[u].i
        PROVE  data[r.at + 1 + k] = r.pay[k]
    <3>1. \A u \in Threads : th[u].pc = "copy" /\ th[u].at = r.at => k <= th[u].i
      <4> SUFFICES ASSUME NEW u \in Threads, th[u].pc = "copy", th[u].at = r.at
                   PROVE  k <= th[u].i
        OBVIOUS
      <4>1. u # t
        BY <1>1
      <4>2. th'[u] = th[u]
        BY <1>2, <4>1
      <4> QED
        BY <2>1, <4>2
    <3>2. Stored(r, k)
      BY <1>0 DEF Contents
    <3> QED
      BY <3>1, <3>2 DEF Stored
  <2> QED
    BY <1>0, <1>1, <2>1 DEF Contents, Stored
<1>10. Covered'
  <2>1. ASSUME NEW w \in 0 .. head - 1
        PROVE  \/ \E r \in accepted : r.at <= w /\ w < EndOf(r)
               \/ \E u \in Threads :
                    th'[u].pc = "reserved" /\ th'[u].at <= w /\ w < EndOf(th'[u])
               \/ /\ Size < head
                  /\ \A r \in accepted : EndOf(r) <= w
                  /\ \A u \in Threads :
                       th'[u].pc = "reserved" /\ EndOf(th'[u]) <= Size
                         => EndOf(th'[u]) <= w
    <3>1. CASE th[t].at <= w /\ w < EndOf(th[t])
      <4>1. /\ th[t].at \in Nat /\ EndOf(th[t]) \in Nat
            /\ th[t].at + 2 <= EndOf(th[t])
        BY ThreadTypes
      <4>2. \A r \in accepted : EndOf(r) <= w
        <5> SUFFICES ASSUME NEW r \in accepted PROVE EndOf(r) <= w
          OBVIOUS
        <5>1. Apart(th[t], r) /\ r \in Records /\ EndOf(r) <= Size
          BY <1>0, <1>1 DEF Separate, Bounded
        <5>2. r.at \in Nat /\ r.at + 2 <= EndOf(r) /\ EndOf(r) \in Nat
          BY <5>1, RecordTypes
        <5> QED
          BY <1>3, <1>4, <3>1, <4>1, <5>1, <5>2 DEF Apart
      <4>3. ASSUME NEW u \in Threads, th'[u].pc = "reserved", EndOf(th'[u]) <= Size
            PROVE  EndOf(th'[u]) <= w
        <5>1. u # t /\ th'[u] = th[u] /\ Busy(u)
          BY <1>5, <4>3
        <5>2. Apart(th[t], th[u])
          BY <1>0, <1>1, <5>1 DEF Separate, Busy
        <5>3. /\ th[u].at \in Nat /\ EndOf(th[u]) \in Nat
              /\ th[u].at + 2 <= EndOf(th[u])
          BY ThreadTypes
        <5> QED
          BY <1>3, <1>4, <3>1, <4>1, <4>3, <5>1, <5>2, <5>3 DEF Apart
      <4>4. Size < head
        BY <1>3, <1>4, <4>1
      <4> QED
        BY <4>2, <4>3, <4>4
    <3>2. CASE \E r \in accepted : r.at <= w /\ w < EndOf(r)
      BY <3>2
    <3>3. CASE /\ ~(th[t].at <= w /\ w < EndOf(th[t]))
               /\ \E u \in Threads :
                    th[u].pc = "reserved" /\ th[u].at <= w /\ w < EndOf(th[u])
      <4>1. PICK u \in Threads :
              th[u].pc = "reserved" /\ th[u].at <= w /\ w < EndOf(th[u])
        BY <3>3
      <4>2. th'[u] = th[u]
        BY <1>2, <3>3, <4>1
      <4> QED
        BY <4>1, <4>2
    <3>4. CASE /\ Size < head
               /\ \A r \in accepted : EndOf(r) <= w
               /\ \A u \in Threads : th[u].pc = "reserved" /\ EndOf(th[u]) <= Size
                                      => EndOf(th[u]) <= w
      <4>2. ASSUME NEW u \in Threads, th'[u].pc = "reserved", EndOf(th'[u]) <= Size
            PROVE  EndOf(th'[u]) <= w
        BY <1>5, <3>4, <4>2
      <4> QED
        BY <3>4, <4>2
    <3> QED
      BY <1>0, <3>1, <3>2, <3>3, <3>4 DEF Covered
  <2> QED
    BY <1>1, <2>1 DEF Covered, EndOf
<1>11. Walking'
  <2>1. phase = "kernel"
    BY <1>0, <1>1 DEF Walking, Busy, TypeOK
  <2> QED
    BY <1>0, <1>1, <2>1 DEF Walking
<1> QED
  BY <1>6, <1>7, <1>8, <1>9, <1>10, <1>11 DEF BufferInv

(* The header is stored: the reservation becomes an accepted record. *)
LEMMA WriteHeaderStep ==
  ASSUME NEW W, NoWrap(W), TypeOK, TypeOK', BufferInv(W),
         NEW t \in Threads, WriteHeader(t)
  PROVE  BufferInv(W)'
<1>0. /\ Bounded(W) /\ Copying /\ Separate /\ Contents /\ Covered /\ Walking
  BY DEF BufferInv
<1>1. /\ th[t].pc = "reserved" /\ head' = head /\ emits' = emits
      /\ phase' = phase /\ pos' = pos /\ walked' = walked
  BY DEF WriteHeader
<1>2. Busy(t) /\ EndOf(th[t]) <= Size /\ EndOf(th[t]) <= head
  <2>1. Busy(t)
    BY <1>1 DEF Busy
  <2>2. ~(Size < EndOf(th[t])) /\ EndOf(th[t]) <= head
    BY <1>0, <2>1, Granted DEF WriteHeader, Bounded
  <2> QED
    BY <2>1, <2>2, ThreadTypes, SizeAssumption
<1>3. PICK q : q = RecordOf(t)
  OBVIOUS
<1>4. /\ data' = StoreSeq(th[t].at, <<th[t].cls, th[t].len>>)
      /\ accepted' = accepted \cup {q}
  BY <1>3 DEF WriteHeader, RecordOf
<1>5. /\ th[t].at \in Nat /\ th[t].cls \in Nat /\ th[t].len \in Nat
      /\ PayloadWords(th[t].len) \in Nat
      /\ EndOf(th[t]) = th[t].at + 2 + PayloadWords(th[t].len)
      /\ EndOf(th[t]) \in Nat /\ th[t].at + 2 <= EndOf(th[t])
  BY ThreadTypes
<1>6. /\ q \in Records /\ q.at = th[t].at /\ q.cls = th[t].cls
      /\ q.len = th[t].len /\ EndOf(q) = EndOf(th[t])
  <2>1. th[t].cls \in ClassIds /\ th[t].len \in Lens /\ th[t].val \in Values
    BY <1>0, <1>2 DEF Bounded
  <2>2. q \in Records
    BY <1>3, <1>5, <2>1 DEF Records, RecordOf
  <2>3. q.at = th[t].at /\ q.cls = th[t].cls /\ q.len = th[t].len
    BY <1>3 DEF RecordOf, Record
  <2> QED
    BY <2>2, <2>3 DEF EndOf
<1>7. /\ th'[t].pc = "copy" /\ th'[t].at = th[t].at /\ th'[t].cls = th[t].cls
      /\ th'[t].len = th[t].len /\ th'[t].val = th[t].val /\ th'[t].i = th[t].i
      /\ \A u \in Threads : u # t => th'[u] = th[u]
  BY DEF WriteHeader, TypeOK, ThreadStates
<1>8. EndOf(th'[t]) = EndOf(th[t]) /\ RecordOf(t)' = q
  BY <1>3, <1>7 DEF EndOf, RecordOf
<1>9. head \in Nat /\ Size \in Nat
  BY SizeAssumption DEF TypeOK
<1>10. \A r \in accepted :
         /\ r \in Records /\ EndOf(r) <= head /\ EndOf(r) <= Size
         /\ r.at \in Nat /\ r.at + 2 <= EndOf(r) /\ EndOf(r) \in Nat
         /\ PayloadWords(r.len) \in Nat
         /\ EndOf(r) = r.at + 2 + PayloadWords(r.len)
         /\ Apart(th[t], r)
  <2>1. \A r \in accepted :
          r \in Records /\ EndOf(r) <= head /\ EndOf(r) <= Size /\ Apart(th[t], r)
    BY <1>0, <1>1 DEF Bounded, Separate
  <2> QED
    BY <2>1, RecordTypes
<1>11. Bounded(W)'
  <2>1. \A r \in accepted' : r \in Records /\ EndOf(r) <= head' /\ EndOf(r) <= Size
    BY <1>1, <1>2, <1>4, <1>6, <1>10
  <2>2. ASSUME NEW u \in Threads, th'[u].pc # "idle"
        PROVE  /\ th'[u].cls \in ClassIds /\ th'[u].len \in Lens
               /\ th'[u].val \in Values /\ EndOf(th'[u]) <= head'
    <3>1. CASE u = t
      BY <1>0, <1>1, <1>2, <1>7, <1>8, <3>1 DEF Bounded
    <3>2. CASE u # t
      BY <1>0, <1>1, <1>7, <2>2, <3>2 DEF Bounded, Busy
    <3> QED
      BY <3>1, <3>2
  <2> QED
    BY <1>0, <1>1, <2>1, <2>2 DEF Bounded, Busy, Records, EndOf
<1>12. Copying'
  <2>1. ASSUME NEW u \in Threads
        PROVE  /\ th'[u].pc = "reserved" => th'[u].i = 0
               /\ th'[u].pc = "copy" =>
                    /\ RecordOf(u)' \in accepted'
                    /\ th'[u].i <= PayloadWords(th'[u].len)
    <3>1. CASE u = t
      BY <1>0, <1>1, <1>4, <1>5, <1>7, <1>8, <3>1 DEF Copying
    <3>2. CASE u # t
      BY <1>0, <1>4, <1>7, <3>2 DEF Copying, RecordOf
    <3> QED
      BY <3>1, <3>2
  <2> QED
    BY <2>1 DEF Copying
<1>13. Separate'
  <2>1. \A r \in accepted : Apart(q, r) /\ Apart(r, q)
    BY <1>6, <1>10 DEF Apart
  <2>2. \A r, s \in accepted' : r # s => Apart(r, s)
    BY <1>0, <1>4, <2>1 DEF Separate
  <2>3. \A u \in Threads :
          Busy(u) /\ u # t => Apart(th'[t], th[u]) /\ Apart(th[u], th'[t])
    BY <1>0, <1>2, <1>7, <1>8 DEF Separate, Apart
  <2>4. \A x, y \in Threads : th'[x].pc # "idle" /\ th'[y].pc # "idle" /\ x # y
          => Apart(th'[x], th'[y])
    <3> SUFFICES ASSUME NEW x \in Threads, NEW y \in Threads,
                        th'[x].pc # "idle", th'[y].pc # "idle", x # y
                 PROVE  Apart(th'[x], th'[y])
      OBVIOUS
    <3>1. CASE x = t
      BY <1>7, <2>3, <3>1, Zenon DEF Busy
    <3>2. CASE y = t
      BY <1>7, <2>3, <3>2, Zenon DEF Busy
    <3>3. CASE x # t /\ y # t
      <4>1. th'[x] = th[x] /\ th'[y] = th[y] /\ Busy(x) /\ Busy(y)
        BY <1>7, <3>3 DEF Busy
      <4>2. Apart(th[x], th[y])
        BY <1>0, <4>1 DEF Separate
      <4> QED
        BY <4>1, <4>2
    <3> QED
      BY <3>1, <3>2, <3>3
  <2>5. \A u \in Threads, r \in accepted' :
          th'[u].pc = "reserved" => Apart(th'[u], r)
    <3> SUFFICES ASSUME NEW u \in Threads, NEW r \in accepted',
                        th'[u].pc = "reserved"
                 PROVE  Apart(th'[u], r)
      OBVIOUS
    <3>1. u # t /\ th'[u] = th[u] /\ Busy(u)
      BY <1>7 DEF Busy
    <3>2. CASE r \in accepted
      BY <1>0, <3>1, <3>2 DEF Separate
    <3>3. CASE r = q
      BY <1>6, <1>7, <1>8, <2>3, <3>1, <3>3 DEF Apart
    <3> QED
      BY <1>4, <3>2, <3>3
  <2> QED
    BY <2>2, <2>4, <2>5 DEF Separate, Busy, Apart, EndOf
<1>14. Contents'
  <2>0. PICK ws : ws = <<th[t].cls, th[t].len>>
    OBVIOUS
  <2>1. ws \in Seq(Nat) /\ Len(ws) = 2 /\ ws[1] = th[t].cls /\ ws[2] = th[t].len
    BY <1>5, <2>0
  <2>2. data' = StoreSeq(th[t].at, ws)
    BY <1>4, <2>0
  <2>3. \A w \in Store :
          /\ th[t].at <= w /\ w < th[t].at + Len(ws)
               => StoreSeq(th[t].at, ws)[w] = ws[w - th[t].at + 1]
          /\ w < th[t].at \/ th[t].at + Len(ws) <= w
               => StoreSeq(th[t].at, ws)[w] = data[w]
    BY <1>5, <2>1, StoreRead
  <2>4. ASSUME NEW r \in accepted
        PROVE  /\ data'[r.at] = r.cls
               /\ data'[r.at + 1] = r.len
               /\ \A k \in 1 .. PayloadWords(r.len) : Stored(r, k)'
    <3>1. /\ data[r.at] = r.cls /\ data[r.at + 1] = r.len
          /\ \A k \in 1 .. PayloadWords(r.len) : Stored(r, k)
      BY <1>0 DEF Contents
    <3>2. \A w \in r.at .. EndOf(r) - 1 :
            w \in Store /\ (w < th[t].at \/ th[t].at + 2 <= w)
      BY <1>5, <1>9, <1>10 DEF Store, Apart
    <3>3. \A w \in r.at .. EndOf(r) - 1 : data'[w] = data[w]
      BY <2>1, <2>2, <2>3, <3>2
    <3>4. /\ r.at \in r.at .. EndOf(r) - 1 /\ r.at + 1 \in r.at .. EndOf(r) - 1
          /\ \A k \in 1 .. PayloadWords(r.len) :
               r.at + 1 + k \in r.at .. EndOf(r) - 1
      BY <1>10
    <3>5. ASSUME NEW k \in 1 .. PayloadWords(r.len),
                 \A u \in Threads : th'[u].pc = "copy" /\ th'[u].at = r.at
                                      => k <= th'[u].i
          PROVE  data'[r.at + 1 + k] = r.pay[k]
      <4>1. \A u \in Threads : th[u].pc = "copy" /\ th[u].at = r.at => k <= th[u].i
        BY <1>1, <1>7, <3>5
      <4> QED
        BY <3>1, <3>3, <3>4, <4>1 DEF Stored
    <3> QED
      BY <3>1, <3>3, <3>4, <3>5 DEF Stored
  <2>5. /\ data'[q.at] = q.cls
        /\ data'[q.at + 1] = q.len
        /\ \A k \in 1 .. PayloadWords(q.len) : Stored(q, k)'
    <3>1. th[t].at \in Store /\ th[t].at + 1 \in Store
      BY <1>2, <1>5, <1>9 DEF Store
    <3>2. data'[th[t].at] = ws[1] /\ data'[th[t].at + 1] = ws[2]
      <4>1. /\ th[t].at <= th[t].at /\ th[t].at < th[t].at + Len(ws)
            /\ th[t].at <= th[t].at + 1 /\ th[t].at + 1 < th[t].at + Len(ws)
            /\ th[t].at - th[t].at + 1 = 1 /\ (th[t].at + 1) - th[t].at + 1 = 2
        BY <1>5, <2>1, SMTT(30)
      <4> QED
        BY <2>2, <2>3, <3>1, <4>1
    <3>3. ASSUME NEW k \in 1 .. PayloadWords(q.len) PROVE Stored(q, k)'
      <4>1. th'[t].i = 0
        BY <1>0, <1>1, <1>7 DEF Copying
      <4> QED
        BY <1>6, <1>7, <4>1 DEF Stored
    <3> QED
      BY <1>6, <2>1, <3>2, <3>3
  <2> QED
    BY <1>4, <2>4, <2>5 DEF Contents
<1>15. Covered'
  <2>1. ASSUME NEW w \in 0 .. head - 1
        PROVE  \/ \E r \in accepted' : r.at <= w /\ w < EndOf(r)
               \/ \E u \in Threads :
                    th'[u].pc = "reserved" /\ th'[u].at <= w /\ w < EndOf(th'[u])
               \/ /\ Size < head
                  /\ \A r \in accepted' : EndOf(r) <= w
                  /\ \A u \in Threads :
                       th'[u].pc = "reserved" /\ EndOf(th'[u]) <= Size
                         => EndOf(th'[u]) <= w
    <3>1. CASE th[t].at <= w /\ w < EndOf(th[t])
      BY <1>4, <1>6, <3>1
    <3>2. CASE \E r \in accepted : r.at <= w /\ w < EndOf(r)
      BY <1>4, <3>2
    <3>3. CASE /\ ~(th[t].at <= w /\ w < EndOf(th[t]))
               /\ \E u \in Threads :
                    th[u].pc = "reserved" /\ th[u].at <= w /\ w < EndOf(th[u])
      <4>1. PICK u \in Threads :
              th[u].pc = "reserved" /\ th[u].at <= w /\ w < EndOf(th[u])
        BY <3>3
      <4>2. th'[u] = th[u]
        BY <1>7, <3>3, <4>1
      <4> QED
        BY <4>1, <4>2
    <3>4. CASE /\ Size < head
               /\ \A r \in accepted : EndOf(r) <= w
               /\ \A u \in Threads : th[u].pc = "reserved" /\ EndOf(th[u]) <= Size
                                      => EndOf(th[u]) <= w
      <4>1. \A r \in accepted' : EndOf(r) <= w
        BY <1>1, <1>2, <1>4, <1>6, <3>4
      <4>2. ASSUME NEW u \in Threads, th'[u].pc = "reserved", EndOf(th'[u]) <= Size
            PROVE  EndOf(th'[u]) <= w
        BY <1>7, <3>4, <4>2
      <4> QED
        BY <3>4, <4>1, <4>2
    <3> QED
      BY <1>0, <3>1, <3>2, <3>3, <3>4 DEF Covered
  <2> QED
    BY <1>1, <2>1 DEF Covered, EndOf
<1>16. Walking'
  <2>1. phase = "kernel"
    BY <1>0, <1>2 DEF Walking, TypeOK
  <2> QED
    BY <1>0, <1>1, <2>1 DEF Walking
<1> QED
  BY <1>11, <1>12, <1>13, <1>14, <1>15, <1>16 DEF BufferInv

(* What copying needs to know of the thread's record among the others. *)
LEMMA OwnRecord ==
  ASSUME NEW W, NoWrap(W), TypeOK, BufferInv(W),
         NEW t \in Threads, th[t].pc = "copy"
  PROVE  /\ RecordOf(t) \in accepted
         /\ RecordOf(t).at = th[t].at /\ RecordOf(t).len = th[t].len
         /\ RecordOf(t).pay = Payload(th[t].len, th[t].val)
         /\ EndOf(RecordOf(t)) = EndOf(th[t])
         /\ \A r \in accepted : r # RecordOf(t) => Apart(th[t], r) /\ r.at # th[t].at
<1>1. RecordOf(t) \in accepted
  BY DEF BufferInv, Copying
<1>2. /\ RecordOf(t).at = th[t].at /\ RecordOf(t).len = th[t].len
      /\ RecordOf(t).pay = Payload(th[t].len, th[t].val)
  BY DEF RecordOf, Record
<1>3. EndOf(RecordOf(t)) = EndOf(th[t])
  BY <1>2 DEF EndOf
<1>4. ASSUME NEW r \in accepted, r # RecordOf(t)
      PROVE  Apart(th[t], r) /\ r.at # th[t].at
  <2>1. Apart(RecordOf(t), r)
    BY <1>1, <1>4 DEF BufferInv, Separate
  <2>2. r \in Records
    BY DEF BufferInv, Bounded
  <2>3. r.at \in Nat /\ r.at + 2 <= EndOf(r) /\ EndOf(r) \in Nat
    BY <2>2, RecordTypes
  <2>4. /\ th[t].at \in Nat /\ EndOf(th[t]) \in Nat
        /\ th[t].at + 2 <= EndOf(th[t])
    BY ThreadTypes
  <2> QED
    BY <1>2, <1>3, <2>1, <2>3, <2>4 DEF Apart
<1> QED
  BY <1>1, <1>2, <1>3, <1>4

(* A payload word: it falls into the thread's own record. *)
LEMMA CopyWordStep ==
  ASSUME NEW W, NoWrap(W), TypeOK, TypeOK', BufferInv(W),
         NEW t \in Threads, CopyWord(t)
  PROVE  BufferInv(W)'
<1>0. /\ Bounded(W) /\ Copying /\ Separate /\ Contents /\ Covered /\ Walking
  BY DEF BufferInv
<1>1. /\ th[t].pc = "copy" /\ head' = head /\ emits' = emits
      /\ phase' = phase /\ pos' = pos /\ walked' = walked
      /\ accepted' = accepted /\ th[t].i < PayloadWords(th[t].len)
      /\ data' = StoreSeq(th[t].at + Hdr + th[t].i, <<th[t].val>>)
  BY DEF CopyWord
<1>2. /\ th'[t].pc = "copy" /\ th'[t].at = th[t].at /\ th'[t].cls = th[t].cls
      /\ th'[t].len = th[t].len /\ th'[t].val = th[t].val
      /\ th'[t].i = th[t].i + 1
      /\ \A u \in Threads : u # t => th'[u] = th[u]
  BY DEF CopyWord, TypeOK, ThreadStates
<1>3. \A u \in Threads :
        /\ th'[u].pc = th[u].pc /\ th'[u].at = th[u].at /\ th'[u].cls = th[u].cls
        /\ th'[u].len = th[u].len /\ th'[u].val = th[u].val
        /\ EndOf(th'[u]) = EndOf(th[u]) /\ RecordOf(u)' = RecordOf(u)
        /\ u # t => th'[u].i = th[u].i
  BY <1>1, <1>2 DEF EndOf, RecordOf
<1>4. /\ th[t].at \in Nat /\ th[t].len \in Nat /\ th[t].val \in Nat
      /\ th[t].i \in Nat /\ PayloadWords(th[t].len) \in Nat
      /\ EndOf(th[t]) = th[t].at + 2 + PayloadWords(th[t].len)
      /\ EndOf(th[t]) \in Nat
  BY ThreadTypes
<1>5. head \in Nat /\ Size \in Nat
  BY SizeAssumption DEF TypeOK
<1>6. Bounded(W)'
  BY <1>0, <1>1, <1>3 DEF Bounded, Busy, Records, EndOf
<1>7. Copying'
  <2>1. ASSUME NEW u \in Threads, th'[u].pc = "copy"
        PROVE  th'[u].i <= PayloadWords(th'[u].len)
    <3>1. CASE u = t
      BY <1>1, <1>2, <1>4, <3>1
    <3>2. CASE u # t
      BY <1>0, <1>2, <2>1, <3>2 DEF Copying
    <3> QED
      BY <3>1, <3>2
  <2>2. \A u \in Threads : th'[u].pc = "reserved" => th'[u].i = 0
    BY <1>0, <1>1, <1>3 DEF Copying
  <2>3. \A u \in Threads : th'[u].pc = "copy" => RecordOf(u)' \in accepted'
    BY <1>0, <1>1, <1>3 DEF Copying
  <2> QED
    BY <2>1, <2>2, <2>3 DEF Copying
<1>8. Separate'
  BY <1>0, <1>1, <1>3 DEF Separate, Busy, Apart, EndOf
<1>9. Covered'
  BY <1>0, <1>1, <1>3 DEF Covered, EndOf
<1>10. Walking'
  <2>1. phase = "kernel"
    BY <1>0, <1>1 DEF Walking, TypeOK, Busy
  <2> QED
    BY <1>0, <1>1, <2>1 DEF Walking
<1>11. Contents'
  <2>0. PICK a : a = th[t].at + Hdr + th[t].i
    OBVIOUS
  <2>1. a \in Nat /\ a = th[t].at + 2 + th[t].i /\ a < EndOf(th[t])
    BY <1>1, <1>4, <2>0 DEF Hdr
  <2>2. PICK ws : ws = <<th[t].val>>
    OBVIOUS
  <2>3. ws \in Seq(Nat) /\ Len(ws) = 1 /\ ws[1] = th[t].val
    BY <1>4, <2>2
  <2>4. data' = StoreSeq(a, ws)
    BY <1>1, <2>0, <2>2
  <2>5. \A w \in Store :
          /\ a <= w /\ w < a + Len(ws) => StoreSeq(a, ws)[w] = ws[w - a + 1]
          /\ w < a \/ a + Len(ws) <= w => StoreSeq(a, ws)[w] = data[w]
    BY <2>1, <2>3, StoreRead
  <2>6. PICK q : q = RecordOf(t)
    OBVIOUS
  <2>7. /\ q \in accepted /\ q.at = th[t].at /\ q.len = th[t].len
        /\ q.pay = Payload(th[t].len, th[t].val)
        /\ EndOf(q) = EndOf(th[t])
        /\ \A r \in accepted : r # q => Apart(th[t], r) /\ r.at # th[t].at
    BY <1>1, <2>6, OwnRecord
  <2>8. \A w \in Store : w # a => data'[w] = data[w]
    <3>1. ASSUME NEW w \in Store, w # a PROVE w < a \/ a + Len(ws) <= w
      BY <1>5, <2>1, <2>3, <3>1 DEF Store
    <3> QED
      BY <2>4, <2>5, <3>1
  <2>9. \A r \in accepted :
          /\ EndOf(r) <= Size /\ EndOf(r) <= head
          /\ r.at \in Nat /\ r.at + 2 <= EndOf(r) /\ EndOf(r) \in Nat
          /\ PayloadWords(r.len) \in Nat
          /\ EndOf(r) = r.at + 2 + PayloadWords(r.len)
    <3>1. \A r \in accepted : r \in Records /\ EndOf(r) <= head /\ EndOf(r) <= Size
      BY <1>0 DEF Bounded
    <3> QED
      BY <3>1, RecordTypes
  <2>10. \A r \in accepted : \A w \in r.at .. EndOf(r) - 1 : w \in Store
    BY <1>5, <2>9 DEF Store
  <2>11. data'[a] = th[t].val
    <3>0. a \in q.at .. EndOf(q) - 1
      BY <1>4, <2>1, <2>7
    <3>1. a \in Store /\ a <= a /\ a < a + Len(ws) /\ a - a + 1 = 1
      BY <2>1, <2>3, <2>7, <2>10, <3>0
    <3> QED
      BY <2>3, <2>4, <2>5, <3>1
  <2>12. ASSUME NEW r \in accepted
         PROVE  /\ data'[r.at] = r.cls
                /\ data'[r.at + 1] = r.len
                /\ \A k \in 1 .. PayloadWords(r.len) : Stored(r, k)'
    <3>1. /\ data[r.at] = r.cls /\ data[r.at + 1] = r.len
          /\ \A k \in 1 .. PayloadWords(r.len) : Stored(r, k)
      BY <1>0 DEF Contents
    <3>2. /\ r.at \in r.at .. EndOf(r) - 1 /\ r.at + 1 \in r.at .. EndOf(r) - 1
          /\ \A k \in 1 .. PayloadWords(r.len) :
               r.at + 1 + k \in r.at .. EndOf(r) - 1
      BY <2>9
    <3>3. CASE r # q
      <4>1. \A w \in r.at .. EndOf(r) - 1 : w # a
        BY <1>4, <2>1, <2>7, <2>9, <3>3 DEF Apart
      <4>2. \A w \in r.at .. EndOf(r) - 1 : data'[w] = data[w]
        BY <2>8, <2>10, <4>1
      <4>3. ASSUME NEW k \in 1 .. PayloadWords(r.len),
                   \A u \in Threads : th'[u].pc = "copy" /\ th'[u].at = r.at
                                        => k <= th'[u].i
            PROVE  data'[r.at + 1 + k] = r.pay[k]
        <5>1. \A u \in Threads : th[u].pc = "copy" /\ th[u].at = r.at => k <= th[u].i
          <6> SUFFICES ASSUME NEW u \in Threads, th[u].pc = "copy", th[u].at = r.at
                       PROVE  k <= th[u].i
            OBVIOUS
          <6>1. u # t
            BY <2>7, <3>3
          <6> QED
            BY <1>2, <4>3, <6>1
        <5> QED
          BY <3>1, <3>2, <4>2, <5>1 DEF Stored
      <4> QED
        BY <3>1, <3>2, <4>2, <4>3 DEF Stored
    <3>4. CASE r = q
      <4>1. r.at = th[t].at /\ r.at # a /\ r.at + 1 # a
        BY <1>4, <2>1, <2>7, <3>4
      <4>2. ASSUME NEW k \in 1 .. PayloadWords(r.len),
                   \A u \in Threads : th'[u].pc = "copy" /\ th'[u].at = r.at
                                        => k <= th'[u].i
            PROVE  data'[r.at + 1 + k] = r.pay[k]
        <5>1. k <= th[t].i + 1
          BY <1>2, <4>1, <4>2
        <5>2. CASE k = th[t].i + 1
          <6>1. r.at + 1 + k = a
            BY <1>4, <2>1, <4>1, <5>2
          <6>2. r.pay[k] = th[t].val
            BY <1>4, <2>7, <3>4 DEF Payload
          <6> QED
            BY <2>11, <6>1, <6>2
        <5>3. CASE k # th[t].i + 1
          <6>1. k <= th[t].i /\ r.at + 1 + k # a
            BY <1>4, <2>1, <4>1, <5>1, <5>3
          <6>2. \A u \in Threads :
                  th[u].pc = "copy" /\ th[u].at = r.at => k <= th[u].i
            <7> SUFFICES ASSUME NEW u \in Threads, th[u].pc = "copy", th[u].at = r.at
                         PROVE  k <= th[u].i
              OBVIOUS
            <7>1. CASE u = t
              BY <6>1, <7>1
            <7>2. CASE u # t
              BY <1>2, <4>2, <7>2
            <7> QED
              BY <7>1, <7>2
          <6>3. data'[r.at + 1 + k] = data[r.at + 1 + k]
            BY <2>8, <2>10, <3>2, <6>1
          <6> QED
            BY <3>1, <6>2, <6>3 DEF Stored
        <5> QED
          BY <5>2, <5>3
      <4>3. data'[r.at] = data[r.at] /\ data'[r.at + 1] = data[r.at + 1]
        BY <2>8, <2>10, <3>2, <4>1
      <4> QED
        BY <3>1, <4>2, <4>3 DEF Stored
    <3> QED
      BY <3>3, <3>4
  <2> QED
    BY <1>1, <2>12 DEF Contents
<1> QED
  BY <1>6, <1>7, <1>8, <1>9, <1>10, <1>11 DEF BufferInv

(* The end of the macro: every word of the record is stored. *)
LEMMA FinishStep ==
  ASSUME NEW W, NoWrap(W), TypeOK, TypeOK', BufferInv(W),
         NEW t \in Threads, Finish(t)
  PROVE  BufferInv(W)'
<1>0. /\ Bounded(W) /\ Copying /\ Separate /\ Contents /\ Covered /\ Walking
  BY DEF BufferInv
<1>1. /\ th[t].pc = "copy" /\ head' = head /\ emits' = emits
      /\ phase' = phase /\ pos' = pos /\ walked' = walked
      /\ data' = data /\ accepted' = accepted
      /\ th[t].i = PayloadWords(th[t].len)
  BY DEF Finish
<1>2. /\ th'[t].pc = "idle"
      /\ \A u \in Threads : u # t => th'[u] = th[u]
  BY DEF Finish, TypeOK, Idle
<1>3. \A u \in Threads : th'[u].pc # "idle" => u # t /\ th'[u] = th[u] /\ Busy(u)
  BY <1>2 DEF Busy
<1>4. Bounded(W)'
  BY <1>0, <1>1, <1>3 DEF Bounded, Busy, Records, EndOf
<1>5. Copying'
  BY <1>0, <1>1, <1>3 DEF Copying, RecordOf
<1>6. Separate'
  BY <1>0, <1>1, <1>3 DEF Separate, Busy, Apart, EndOf
<1>7. Contents'
  <2>0. PICK q : q = RecordOf(t)
    OBVIOUS
  <2>1. /\ q \in accepted /\ q.at = th[t].at /\ q.len = th[t].len
        /\ \A r \in accepted : r # q => r.at # th[t].at
    BY <1>1, <2>0, OwnRecord
  <2>2. ASSUME NEW r \in accepted, NEW k \in 1 .. PayloadWords(r.len),
               \A u \in Threads : th'[u].pc = "copy" /\ th'[u].at = r.at => k <= th'[u].i
        PROVE  data[r.at + 1 + k] = r.pay[k]
    <3>1. \A u \in Threads : th[u].pc = "copy" /\ th[u].at = r.at => k <= th[u].i
      <4> SUFFICES ASSUME NEW u \in Threads, th[u].pc = "copy", th[u].at = r.at
                   PROVE  k <= th[u].i
        OBVIOUS
      <4>1. CASE u = t
        <5>1. r = q
          BY <2>1, <4>1
        <5> QED
          BY <1>1, <2>1, <4>1, <5>1
      <4>2. CASE u # t
        BY <1>2, <2>2, <4>2
      <4> QED
        BY <4>1, <4>2
    <3>2. Stored(r, k)
      BY <1>0 DEF Contents
    <3> QED
      BY <3>1, <3>2 DEF Stored
  <2> QED
    BY <1>0, <1>1, <2>2 DEF Contents, Stored
<1>8. Covered'
  <2>1. \A u \in Threads :
          /\ (th[u].pc = "reserved") = (th'[u].pc = "reserved")
          /\ th[u].pc = "reserved" => th'[u] = th[u]
    <3> SUFFICES ASSUME NEW u \in Threads
                 PROVE  /\ (th[u].pc = "reserved") = (th'[u].pc = "reserved")
                        /\ th[u].pc = "reserved" => th'[u] = th[u]
      OBVIOUS
    <3>1. CASE u = t
      BY <1>1, <1>2, <3>1
    <3>2. CASE u # t
      BY <1>2, <3>2
    <3> QED
      BY <3>1, <3>2
  <2> QED
    BY <1>0, <1>1, <2>1 DEF Covered, EndOf
<1>9. Walking'
  <2>1. phase = "kernel"
    BY <1>0, <1>1 DEF Walking, TypeOK, Busy
  <2> QED
    BY <1>0, <1>1, <2>1 DEF Walking
<1> QED
  BY <1>4, <1>5, <1>6, <1>7, <1>8, <1>9 DEF BufferInv

(* What a record of the store looks like to the walk that stands on it. *)
LEMMA ReadBack ==
  ASSUME NEW W, NoWrap(W), TypeOK, BufferInv(W), NEW r \in accepted,
         \A t \in Threads : ~Busy(t)
  PROVE  /\ Load(r.at) = {r.cls} /\ Load(r.at + 1) = {r.len}
         /\ LoadSeq(r.at + Hdr, PayloadWords(r.len)) = r.pay
         /\ (r.at + RecWords(r.len)) % Mod = EndOf(r)
         /\ r.at + Hdr <= head /\ EndOf(r) <= head
<1>1. /\ r \in Records /\ EndOf(r) <= Size /\ EndOf(r) <= head
      /\ data[r.at] = r.cls /\ data[r.at + 1] = r.len
      /\ \A k \in 1 .. PayloadWords(r.len) : Stored(r, k)
  BY DEF BufferInv, Bounded, Contents
<1>2. /\ r.at \in Nat /\ r.at + 2 <= EndOf(r) /\ EndOf(r) \in Nat
      /\ PayloadWords(r.len) \in Nat /\ r.len \in Nat
      /\ EndOf(r) = r.at + 2 + PayloadWords(r.len)
      /\ r.pay \in [1 .. PayloadWords(r.len) -> Nat]
  BY <1>1, RecordTypes
<1>3. head \in Nat /\ Size \in Nat /\ head < Mod /\ Mod \in Nat
  BY SizeAssumption DEF TypeOK
<1>4. \A w \in r.at .. EndOf(r) - 1 : w \in Store
  BY <1>1, <1>2, <1>3 DEF Store
<1>5. r.at \in Store /\ r.at + 1 \in Store
  BY <1>2, <1>4
<1>6. Load(r.at) = {r.cls} /\ Load(r.at + 1) = {r.len}
  BY <1>1, <1>5 DEF Load
<1>7. LoadSeq(r.at + Hdr, PayloadWords(r.len)) = r.pay
  <2>1. ASSUME NEW k \in 1 .. PayloadWords(r.len)
        PROVE  (IF r.at + Hdr + k - 1 \in Store
                THEN data[r.at + Hdr + k - 1] ELSE -1) = r.pay[k]
    <3>1. r.at + Hdr + k - 1 = r.at + 1 + k
      BY <1>2 DEF Hdr
    <3>2. r.at + 1 + k \in Store
      BY <1>2, <1>4, SMTT(30)
    <3>3. data[r.at + 1 + k] = r.pay[k]
      BY <1>1 DEF Stored, Busy
    <3> QED
      BY <3>1, <3>2, <3>3
  <2> QED
    BY <1>2, <2>1 DEF LoadSeq
<1>8. (r.at + RecWords(r.len)) % Mod = EndOf(r)
  BY <1>1, <1>2, <1>3, SumExact DEF Hdr
<1> QED
  BY <1>1, <1>2, <1>3, <1>6, <1>7, <1>8 DEF Hdr

(* Where the walk stands: on a record, or behind all of them. *)
LEMMA WhereItStands ==
  ASSUME NEW W, NoWrap(W), TypeOK, BufferInv(W), phase = "drain", Between,
         pos < head
  PROVE  \/ \E r \in accepted : r.at = pos
         \/ Size < head /\ \A r \in accepted : EndOf(r) <= pos
<1>1. pos \in 0 .. head - 1
  BY SizeAssumption DEF TypeOK
<1>2. \A t \in Threads : th[t].pc = "idle"
  BY DEF BufferInv, Walking, Busy
<1>3. \/ \E r \in accepted : r.at <= pos /\ pos < EndOf(r)
      \/ Size < head /\ \A r \in accepted : EndOf(r) <= pos
  BY <1>1, <1>2 DEF BufferInv, Covered
<1>4. ASSUME NEW r \in accepted, r.at <= pos, pos < EndOf(r)
      PROVE  r.at = pos
  <2>1. r \in Records
    BY DEF BufferInv, Bounded
  <2>2. r.at \in Nat /\ EndOf(r) \in Nat /\ pos \in Nat
    BY <1>1, <2>1, RecordTypes
  <2> QED
    BY <1>4, <2>2 DEF Between
<1> QED
  BY <1>3, <1>4

(* A step of the walk. *)
LEMMA DrainStepStep ==
  ASSUME NEW W, NoWrap(W), TypeOK, TypeOK', BufferInv(W), DrainStep
  PROVE  BufferInv(W)'
<1>0. /\ Bounded(W) /\ Copying /\ Separate /\ Contents /\ Covered /\ Walking
  BY DEF BufferInv
<1>1. /\ phase = "drain" /\ phase' = phase /\ head' = head /\ emits' = emits
      /\ data' = data /\ accepted' = accepted /\ th' = th /\ pos + Hdr <= head
  BY DEF DrainStep
<1>2. Bounded(W)' /\ Copying' /\ Separate' /\ Contents' /\ Covered'
  BY <1>0, <1>1 DEF Bounded, Copying, RecordOf, Separate, Contents, Stored,
                    Covered, Busy
<1>3. PICK c \in Load(pos), n \in Load(pos + 1) :
        /\ walked' = walked \cup
             {Record(pos, c, n, LoadSeq(pos + Hdr, PayloadWords(n)))}
        /\ pos' = (pos + RecWords(n)) % Mod
  BY DEF DrainStep
<1>4. PICK q : q = Record(pos, c, n, LoadSeq(pos + Hdr, PayloadWords(n)))
  OBVIOUS
<1>5. pos \in Nat /\ head \in Nat /\ Size \in Nat
  BY SizeAssumption DEF TypeOK
<1>7. walked' = walked \cup {q}
  BY <1>3, <1>4
<1>8. \A t \in Threads : ~Busy(t)
  BY <1>0, <1>1 DEF Walking
<1>9. /\ (Between \/ (Size < head /\ accepted \subseteq walked))'
      /\ head <= Size => walked' \subseteq accepted
  <2>1. CASE Size < head /\ accepted \subseteq walked
    BY <1>1, <1>5, <1>7, <2>1
  <2>2. CASE Between
    <3>0. pos < head
      BY <1>1, <1>5 DEF Hdr
    <3>1. CASE Size < head /\ \A r \in accepted : EndOf(r) <= pos
      <4>1. accepted \subseteq walked
        BY <2>2, <3>1 DEF Between
      <4> QED
        BY <2>1, <3>1, <4>1
    <3>2. CASE \E r \in accepted : r.at = pos
      <4>1. PICK r \in accepted : r.at = pos
        BY <3>2
      <4>2. /\ Load(pos) = {r.cls} /\ Load(pos + 1) = {r.len}
            /\ LoadSeq(pos + Hdr, PayloadWords(r.len)) = r.pay
            /\ (pos + RecWords(r.len)) % Mod = EndOf(r)
            /\ EndOf(r) <= head
        <5>1. /\ Load(r.at) = {r.cls} /\ Load(r.at + 1) = {r.len}
              /\ LoadSeq(r.at + Hdr, PayloadWords(r.len)) = r.pay
              /\ (r.at + RecWords(r.len)) % Mod = EndOf(r)
              /\ EndOf(r) <= head
          BY <1>8, ReadBack
        <5> QED
          BY <4>1, <5>1
      <4>3. \A s \in accepted : s \in Records
        BY <1>0 DEF Bounded
      <4>4. r = Record(r.at, r.cls, r.len, r.pay)
        BY <4>3, RecordTypes
      <4>5. c = r.cls /\ n = r.len
        BY <4>2
      <4>6. q = r
        BY <1>4, <4>1, <4>2, <4>4, <4>5
      <4>7. pos' = EndOf(r)
        BY <1>3, <4>2, <4>5
      <4>8. \A s \in accepted :
              s.at \in Nat /\ s.at + 2 <= EndOf(s) /\ EndOf(s) \in Nat
        BY <4>3, RecordTypes
      <4>9. ASSUME NEW s \in accepted
            PROVE  /\ EndOf(s) <= EndOf(r) \/ EndOf(r) <= s.at
                   /\ EndOf(s) <= EndOf(r) => s \in walked'
        <5>1. CASE s = r
          BY <1>7, <4>6, <4>8, <5>1
        <5>2. CASE s # r
          <6>1. Apart(r, s)
            BY <1>0, <5>2 DEF Separate
          <6>2. EndOf(s) <= pos => s \in walked
            BY <2>2 DEF Between
          <6> QED
            BY <1>7, <4>1, <4>8, <6>1, <6>2 DEF Apart
        <5> QED
          BY <5>1, <5>2
      <4>10. Between'
        BY <1>1, <4>2, <4>7, <4>9 DEF Between, EndOf
      <4>11. head <= Size => walked' \subseteq accepted
        BY <1>0, <1>1, <1>7, <4>6 DEF Walking
      <4> QED
        BY <4>10, <4>11
    <3> QED
      BY <1>1, <2>2, <3>0, <3>1, <3>2, WhereItStands
  <2> QED
    BY <1>0, <1>1, <2>1, <2>2 DEF Walking
<1>10. Walking'
  BY <1>1, <1>7, <1>8, <1>9 DEF Walking, Busy
<1> QED
  BY <1>2, <1>10 DEF BufferInv

(* The drain empties the buffer. *)
LEMMA DrainEndStep ==
  ASSUME NEW W, NoWrap(W), TypeOK, TypeOK', BufferInv(W), DrainEnd
  PROVE  BufferInv(W)'
<1>0. Walking
  BY DEF BufferInv
<1>1. /\ phase = "drain" /\ phase' = "host" /\ head' = 0 /\ emits' = 0
      /\ accepted' = {} /\ pos' = 0 /\ walked' = {} /\ th' = th
  BY DEF DrainEnd
<1>2. \A t \in Threads : th'[t].pc = "idle"
  BY <1>0, <1>1 DEF Walking, Busy
<1>3. emits' * W = 0
  BY <1>1 DEF NoWrap
<1>4. Bounded(W)'
  BY <1>1, <1>2, <1>3 DEF Bounded, Busy
<1>5. Copying' /\ Separate' /\ Contents' /\ Covered' /\ Walking'
  BY <1>1, <1>2 DEF Copying, Separate, Contents, Covered, Walking, Busy
<1> QED
  BY <1>4, <1>5 DEF BufferInv

(* The contents of the buffer are what the emits made of them. *)
LEMMA BufferInductive ==
  ASSUME NEW W, NoWrap(W)
  PROVE  Spec => []BufferInv(W)
<1>1. Init => BufferInv(W)
  <2> SUFFICES ASSUME Init PROVE BufferInv(W)
    OBVIOUS
  <2>1. /\ head = 0 /\ emits = 0 /\ accepted = {} /\ phase = "host"
        /\ pos = 0 /\ walked = {} /\ \A t \in Threads : th[t].pc = "idle"
    BY DEF Init, Idle
  <2>2. emits * W = 0
    BY <2>1 DEF NoWrap
  <2>3. Bounded(W)
    BY <2>1, <2>2 DEF Bounded, Busy
  <2>4. Copying /\ Separate /\ Contents /\ Covered /\ Walking
    BY <2>1 DEF Copying, Separate, Contents, Covered, Walking, Busy
  <2> QED
    BY <2>3, <2>4 DEF BufferInv
<1>2. TypeOK /\ TypeOK' /\ BufferInv(W) /\ [Next]_vars => BufferInv(W)'
  <2> SUFFICES ASSUME TypeOK, TypeOK', BufferInv(W), [Next]_vars
               PROVE  BufferInv(W)'
    OBVIOUS
  <2>1. CASE UNCHANGED vars
    BY <2>1 DEF vars, BufferInv, Bounded, Copying, RecordOf, Separate,
                Contents, Stored, Covered, Walking, Between, Busy
  <2>2. CASE Next
    BY <2>2, HostEmitStep, PhaseStep, ReserveStep, DropStep, WriteHeaderStep,
       CopyWordStep, FinishStep, DrainStepStep, DrainEndStep DEF Next
  <2> QED
    BY <2>1, <2>2
<1> QED
  BY <1>1, <1>2, TypeCorrect, PTL DEF Spec

(***************************************************************************)
(* A record that was granted space and written to its end stays in the     *)
(* store until the next drain, whatever other threads emit, drop or        *)
(* write: the atomicAdd of BC_SYSPRINT and the bounds check of bc_sp_emit  *)
(* hand out disjoint words.  For every number of threads and every size of *)
(* buffer, as long as head does not wrap.                                  *)
(***************************************************************************)
THEOREM RecordsStayIntact ==
  ASSUME NEW W, NoWrap(W)
  PROVE  Spec => []AcceptedIntact
<1>1. TypeOK /\ BufferInv(W) => AcceptedIntact
  <2> SUFFICES ASSUME TypeOK, BufferInv(W), NEW r \in accepted,
                      \A t \in Threads : th[t].pc = "copy" => th[t].at # r.at
               PROVE  LoadSeq(r.at, Hdr + PayloadWords(r.len))
                        = <<r.cls, r.len>> \o r.pay
    BY DEF AcceptedIntact
  <2>1. /\ r \in Records /\ EndOf(r) <= Size
        /\ data[r.at] = r.cls /\ data[r.at + 1] = r.len
        /\ \A k \in 1 .. PayloadWords(r.len) : Stored(r, k)
    BY DEF BufferInv, Bounded, Contents
  <2>2. /\ r.at \in Nat /\ r.at + 2 <= EndOf(r) /\ EndOf(r) \in Nat
        /\ PayloadWords(r.len) \in Nat /\ r.len \in Nat /\ r.cls \in Nat
        /\ EndOf(r) = r.at + 2 + PayloadWords(r.len)
        /\ r.pay \in [1 .. PayloadWords(r.len) -> Nat]
    BY <2>1, RecordTypes
  <2>3. PICK m \in Nat : m = PayloadWords(r.len)
    BY <2>2
  <2>4. \A k \in 1 .. m : data[r.at + 1 + k] = r.pay[k]
    BY <2>1, <2>3 DEF Stored
  <2>5. PICK ws : ws = <<r.cls, r.len>> \o r.pay
    OBVIOUS
  <2>6. r.pay \in Seq(Nat) /\ Len(r.pay) = m
    BY <2>2, <2>3, SMTT(30)
  <2>7. /\ ws \in Seq(Nat) /\ Len(ws) = 2 + m /\ ws[1] = r.cls /\ ws[2] = r.len
        /\ \A k \in 1 .. m : ws[2 + k] = r.pay[k]
    <3>1. <<r.cls, r.len>> \in Seq(Nat) /\ Len(<<r.cls, r.len>>) = 2
      BY <2>2
    <3> QED
      BY <2>2, <2>3, <2>5, <2>6, <3>1, SMTT(30)
  <2>8. ws = [j \in 1 .. Hdr + m |-> ws[j]]
    BY <2>7 DEF Hdr
  <2>9. ASSUME NEW j \in 1 .. Hdr + m
        PROVE  (IF r.at + j - 1 \in Store THEN data[r.at + j - 1] ELSE -1) = ws[j]
    <3>0. j \in 1 .. 2 + PayloadWords(r.len) /\ Size \in Nat
      BY <2>3, SizeAssumption DEF Hdr
    <3>01. PICK e \in Nat : e = EndOf(r)
      BY <2>2
    <3>02. r.at + j - 1 \in Int /\ 0 <= r.at + j - 1 /\ r.at + j - 1 < e /\ e <= Size
      BY <2>1, <2>2, <3>0, <3>01, SMTT(30)
    <3>1. r.at + j - 1 \in Store
      BY <3>0, <3>02 DEF Store
    <3>2. CASE j = 1
      BY <2>1, <2>2, <2>7, <3>1, <3>2
    <3>3. CASE j = 2
      <4>1. r.at + j - 1 = r.at + 1
        BY <2>2, <3>3
      <4> QED
        BY <2>1, <2>7, <3>1, <3>3, <4>1
    <3>4. CASE j > 2
      <4>1. PICK k \in 1 .. m : j = 2 + k
        <5>1. j - 2 \in 1 .. m /\ j = 2 + (j - 2)
          BY <2>3, <3>4 DEF Hdr
        <5> QED
          BY <5>1
      <4>2. r.at + j - 1 = r.at + 1 + k
        BY <2>2, <4>1, SMTT(30)
      <4> QED
        BY <2>4, <2>7, <3>1, <4>1, <4>2
    <3> QED
      BY <2>3, <3>2, <3>3, <3>4 DEF Hdr
  <2>10. LoadSeq(r.at, Hdr + m) = ws
    BY <2>8, <2>9 DEF LoadSeq
  <2> QED
    BY <2>3, <2>5, <2>10
<1> QED
  BY <1>1, TypeCorrect, BufferInductive, PTL

(***************************************************************************)
(* When bc_sp_drain leaves its loop it has handed on every record that was *)
(* granted space, word for word, and, as long as no emit ran past the end  *)
(* of the buffer, nothing else: the holes that dropped emits leave behind  *)
(* never hide an accepted record from the walk.                            *)
(***************************************************************************)
THEOREM DrainsAreComplete ==
  ASSUME NEW W, NoWrap(W)
  PROVE  Spec => []DrainComplete
<1>1. TypeOK /\ BufferInv(W) => DrainComplete
  <2> SUFFICES ASSUME TypeOK, BufferInv(W), WalkOver
               PROVE  /\ accepted \subseteq walked
                      /\ head <= Size => walked = accepted
    BY DEF DrainComplete
  <2>1. /\ phase = "drain"
        /\ Between \/ (Size < head /\ accepted \subseteq walked)
        /\ head <= Size => walked \subseteq accepted
        /\ \A t \in Threads : ~Busy(t)
    BY DEF WalkOver, BufferInv, Walking
  <2>2. pos \in Nat /\ head \in Nat /\ Size \in Nat
    BY SizeAssumption DEF TypeOK
  <2>3. ~\E r \in accepted : r.at = pos
    <3> SUFFICES ASSUME NEW r \in accepted, r.at = pos PROVE FALSE
      OBVIOUS
    <3>1. /\ Load(r.at + 1) = {r.len}
          /\ (r.at + RecWords(r.len)) % Mod = EndOf(r)
          /\ r.at + Hdr <= head /\ EndOf(r) <= head
      BY <2>1, ReadBack
    <3>2. EndOf(r) \in Nat
      BY RecordTypes DEF BufferInv, Bounded
    <3>3. ~(pos + Hdr > head)
      BY <2>2, <3>1 DEF Hdr
    <3>4. Breaks(r.len)
      BY <3>1, <3>3 DEF WalkOver
    <3> QED
      BY <2>2, <3>1, <3>2, <3>4 DEF Breaks
  <2>4. accepted \subseteq walked
    <3>1. CASE ~Between
      BY <2>1, <3>1
    <3>2. CASE Between
      <4>1. \A r \in accepted : EndOf(r) <= pos
        <5>1. CASE pos < head
          BY <2>1, <2>3, <3>2, <5>1, WhereItStands
        <5>2. CASE ~(pos < head)
          <6>1. pos = head
            BY <2>2, <3>2, <5>2 DEF Between
          <6> QED
            BY <6>1 DEF BufferInv, Bounded
        <5> QED
          BY <5>1, <5>2
      <4> QED
        BY <3>2, <4>1 DEF Between
    <3> QED
      BY <3>1, <3>2
  <2> QED
    BY <2>1, <2>4
<1> QED
  BY <1>1, TypeCorrect, BufferInductive, PTL
=============================================================================
