--------------------------- MODULE SysprintBuffer ---------------------------
(***************************************************************************)
(* The record buffer of SYSPRINT, the runtime's structured kernel output   *)
(* (runtime/host/sysprint.c, runtime/include/booth/sysprint_device.h).     *)
(*                                                                         *)
(* Device threads append class-tagged records to one linear buffer: a      *)
(* thread reserves its bytes with an atomicAdd on head, looks at what it   *)
(* was given, and then stores the header and the payload.  The host may    *)
(* append records itself while no kernel runs, and once a kernel has       *)
(* finished it walks the buffer.  The backing store is never cleared, so   *)
(* what an earlier kernel wrote stays in it until it is overwritten.       *)
(*                                                                         *)
(* The unit of address is the 4-byte word: sp_align4 rounds every quantity *)
(* that is ever added to head or to the drain's position to whole words.   *)
(* Payload lengths stay in bytes.  uint32_t sums wrap at Mod words.        *)
(***************************************************************************)
EXTENDS Integers, Sequences

CONSTANTS
  Threads,      \* device threads of one kernel
  ClassIds,     \* class ids that code passes to an emit
  Lens,         \* payload lengths, in bytes
  Values,       \* contents of a payload word
  Size,         \* buf->size, in whole words
  Mod,          \* 2^30 words = 2^32 bytes in the code
  MaxEmits,     \* bound: emits between two drains
  MaxDrains     \* bound: drains of one behaviour

ASSUME SizeAssumption ==
  Size \in Nat /\ Mod \in Nat /\ Size < Mod /\ 2 < Mod
ASSUME ValueAssumption ==
  Lens \subseteq Nat /\ Values \subseteq Nat /\ ClassIds \subseteq Nat
ASSUME BoundAssumption ==
  MaxEmits \in Nat /\ MaxDrains \in Nat

VARIABLES
  data,      \* the backing store
  head,      \* buf->head
  dropped,   \* buf->dropped
  phase,     \* "host": no kernel runs; "kernel"; "drain": bc_sp_drain walks
  th,        \* per thread: the BC_SYSPRINT it is executing
  pos,       \* bc_sp_drain's pos
  accepted,  \* history: records granted space since the last drain
  walked,    \* history: records the current drain has handed on
  emits,     \* history: emits since the last drain
  drains     \* history: drains so far

vars == <<data, head, dropped, phase, th, pos, accepted, walked, emits, drains>>

-----------------------------------------------------------------------------
NONE  == 0                   \* BC_SP_CLASS_NONE
Hdr   == 2                   \* sizeof(bc_sp_record_t)
Store == 0 .. Size - 1       \* the words of the backing store

(* sp_align4(n), in words. *)
PayloadWords(n) == ((n + 3) % (4 * Mod)) \div 4

(* record_bytes / _sp_bytes, in words. *)
RecWords(n) == (Hdr + PayloadWords(n)) % Mod

(* head + record_bytes > size, as uint32_t arithmetic decides it. *)
TooLong(at, n) == (at + RecWords(n)) % Mod > Size

Payload(n, v) == [i \in 1 .. PayloadWords(n) |-> v]

Record(a, c, n, p) == [at |-> a, cls |-> c, len |-> n, pay |-> p]

Idle == [pc |-> "idle", at |-> 0, cls |-> 0, len |-> 0, val |-> 0, i |-> 0]

(* What a load yields: the word stored, or anything past the end of it. *)
Load(a) == IF a \in Store THEN {data[a]} ELSE Values

LoadSeq(a, k) == [i \in 1 .. k |-> IF a + i - 1 \in Store
                                   THEN data[a + i - 1] ELSE -1]

(* The words at a .. a + Len(ws) - 1 take the values ws. *)
StoreSeq(a, ws) == [w \in Store |-> IF w - a + 1 \in DOMAIN ws
                                    THEN ws[w - a + 1] ELSE data[w]]

-----------------------------------------------------------------------------
(* bc_sp_buf_init over zeroed storage. *)
Init ==
  /\ data = [w \in Store |-> 0]
  /\ head = 0
  /\ dropped = 0
  /\ phase = "host"
  /\ th = [t \in Threads |-> Idle]
  /\ pos = 0
  /\ accepted = {}
  /\ walked = {}
  /\ emits = 0
  /\ drains = 0

(***************************************************************************)
(* Host emit, bc_sp_emit: refuses BC_SP_CLASS_NONE, and compares before it *)
(* moves head.                                                             *)
(***************************************************************************)
HostEmit(c, n, v) ==
  /\ phase = "host"
  /\ emits < MaxEmits
  /\ emits' = emits + 1
  /\ IF c = NONE \/ TooLong(head, n)
       THEN /\ dropped' = dropped + 1
            /\ UNCHANGED <<data, head, accepted>>
       ELSE /\ data' = StoreSeq(head, <<c, n>> \o Payload(n, v))
            /\ accepted' = accepted \cup {Record(head, c, n, Payload(n, v))}
            /\ head' = (head + RecWords(n)) % Mod
            /\ UNCHANGED dropped
  /\ UNCHANGED <<phase, th, pos, walked, drains>>

(* The launcher dispatches a kernel, and waits for it. *)
Launch ==
  /\ phase = "host"
  /\ phase' = "kernel"
  /\ UNCHANGED <<data, head, dropped, th, pos, accepted, walked, emits, drains>>

KernelDone ==
  /\ phase = "kernel"
  /\ \A t \in Threads : th[t].pc = "idle"
  /\ phase' = "host"
  /\ UNCHANGED <<data, head, dropped, th, pos, accepted, walked, emits, drains>>

(***************************************************************************)
(* Device emit, the BC_SYSPRINT macro.  The only shared accesses a thread  *)
(* makes are the two atomicAdds and the stores into the space it owns.     *)
(***************************************************************************)

(* atomicAdd(&head, bytes): head moves whether or not the record fits. *)
Reserve(t, c, n, v) ==
  /\ phase = "kernel"
  /\ th[t].pc = "idle"
  /\ emits < MaxEmits
  /\ emits' = emits + 1
  /\ th' = [th EXCEPT ![t] = [pc |-> "reserved", at |-> head, cls |-> c,
                              len |-> n, val |-> v, i |-> 0]]
  /\ head' = (head + RecWords(n)) % Mod
  /\ UNCHANGED <<data, dropped, phase, pos, accepted, walked, drains>>

(* Mutant: the drop is counted the wrong way. *)
DropUncounts(t) ==
  /\ th[t].pc = "reserved"
  /\ TooLong(th[t].at, th[t].len)
  /\ dropped' = dropped - 1
  /\ th' = [th EXCEPT ![t] = Idle]
  /\ UNCHANGED <<data, head, phase, pos, accepted, walked, emits, drains>>

(* The comparison fails: atomicAdd(&dropped, 1) and the macro is done. *)
Drop(t) ==
  /\ th[t].pc = "reserved"
  /\ TooLong(th[t].at, th[t].len)
  /\ dropped' = dropped + 1
  /\ th' = [th EXCEPT ![t] = Idle]
  /\ UNCHANGED <<data, head, phase, pos, accepted, walked, emits, drains>>

(* It succeeds: the two header words are stored. *)
WriteHeader(t) ==
  /\ th[t].pc = "reserved"
  /\ ~TooLong(th[t].at, th[t].len)
  /\ data' = StoreSeq(th[t].at, <<th[t].cls, th[t].len>>)
  /\ accepted' = accepted \cup
       {Record(th[t].at, th[t].cls, th[t].len, Payload(th[t].len, th[t].val))}
  /\ th' = [th EXCEPT ![t].pc = "copy"]
  /\ UNCHANGED <<head, dropped, phase, pos, walked, emits, drains>>

(* Mutant: the payload is stored over the header. *)
CopyWordAtHeader(t) ==
  /\ th[t].pc = "copy"
  /\ th[t].i < PayloadWords(th[t].len)
  /\ data' = StoreSeq(th[t].at + th[t].i, <<th[t].val>>)
  /\ th' = [th EXCEPT ![t].i = @ + 1]
  /\ UNCHANGED <<head, dropped, phase, pos, accepted, walked, emits, drains>>

(* One word of the payload loop. *)
CopyWord(t) ==
  /\ th[t].pc = "copy"
  /\ th[t].i < PayloadWords(th[t].len)
  /\ data' = StoreSeq(th[t].at + Hdr + th[t].i, <<th[t].val>>)
  /\ th' = [th EXCEPT ![t].i = @ + 1]
  /\ UNCHANGED <<head, dropped, phase, pos, accepted, walked, emits, drains>>

(* The loop ends. *)
Finish(t) ==
  /\ th[t].pc = "copy"
  /\ th[t].i = PayloadWords(th[t].len)
  /\ th' = [th EXCEPT ![t] = Idle]
  /\ UNCHANGED <<data, head, dropped, phase, pos, accepted, walked, emits, drains>>

(***************************************************************************)
(* bc_sp_drain: walk the records up to head, then set head to 0.           *)
(***************************************************************************)
DrainBegin ==
  /\ phase = "host"
  /\ drains < MaxDrains
  /\ phase' = "drain"
  /\ drains' = drains + 1
  /\ UNCHANGED <<data, head, dropped, th, pos, accepted, walked, emits>>

(* The header length n says where the record ends; past head is a break. *)
Breaks(n) == (pos + RecWords(n)) % Mod > head

(* Mutant: the walk advances by the header and misreads the payload. *)
DrainStepByHeader ==
  /\ phase = "drain"
  /\ pos + Hdr <= head
  /\ \E c \in Load(pos), n \in Load(pos + 1) :
       /\ ~Breaks(n)
       /\ walked' = walked \cup
            {Record(pos, c, n, LoadSeq(pos + Hdr, PayloadWords(n)))}
       /\ pos' = (pos + Hdr) % Mod
  /\ UNCHANGED <<data, head, dropped, phase, th, accepted, emits, drains>>

(* Mutant: a record nobody has a sink for is skipped before pos moves. *)
DrainStepSkipsEarly ==
  /\ phase = "drain"
  /\ pos + Hdr <= head
  /\ \E c \in Load(pos), n \in Load(pos + 1) :
       /\ ~Breaks(n)
       /\ walked' = walked \cup
            {Record(pos, c, n, LoadSeq(pos + Hdr, PayloadWords(n)))}
       /\ pos' = IF c = NONE THEN pos ELSE (pos + RecWords(n)) % Mod
  /\ UNCHANGED <<data, head, dropped, phase, th, accepted, emits, drains>>

(***************************************************************************)
(* One turn of the loop.  n is whatever word stands there: a stale one may *)
(* wrap RecWords to 0, and pos stands still, or wrap the sum, and pos turns *)
(* back.                                                                   *)
(***************************************************************************)
DrainStep ==
  /\ phase = "drain"
  /\ pos + Hdr <= head
  /\ \E c \in Load(pos), n \in Load(pos + 1) :
       /\ ~Breaks(n)
       /\ walked' = walked \cup
            {Record(pos, c, n, LoadSeq(pos + Hdr, PayloadWords(n)))}
       /\ pos' = (pos + RecWords(n)) % Mod
  /\ UNCHANGED <<data, head, dropped, phase, th, accepted, emits, drains>>

DrainEnd ==
  /\ phase = "drain"
  /\ \/ pos + Hdr > head
     \/ \E n \in Load(pos + 1) : Breaks(n)
  /\ phase' = "host"
  /\ head' = 0
  /\ accepted' = {}
  /\ emits' = 0
  /\ pos' = 0
  /\ walked' = {}
  /\ UNCHANGED <<data, dropped, th, drains>>

Emitting(t) == Drop(t) \/ WriteHeader(t) \/ CopyWord(t) \/ Finish(t)

Next ==
  \/ \E c \in ClassIds, n \in Lens, v \in Values : HostEmit(c, n, v)
  \/ Launch
  \/ KernelDone
  \/ \E t \in Threads, c \in ClassIds, n \in Lens, v \in Values :
       Reserve(t, c, n, v)
  \/ \E t \in Threads : Drop(t)
  \/ \E t \in Threads : WriteHeader(t)
  \/ \E t \in Threads : CopyWord(t)
  \/ \E t \in Threads : Finish(t)
  \/ DrainBegin
  \/ DrainStep
  \/ DrainEnd

(* A thread that entered the macro runs it to its end, and the drain's     *)
(* loop runs without blocking; nothing makes the program emit or drain.    *)
Fairness ==
  /\ \A t \in Threads : WF_vars(Emitting(t))
  /\ WF_vars(DrainStep \/ DrainEnd)

Spec == Init /\ [][Next]_vars /\ Fairness

-----------------------------------------------------------------------------
(***************************************************************************)
(* Properties.                                                             *)
(***************************************************************************)
ThreadStates ==
  [pc : {"idle", "reserved", "copy"}, at : Nat, cls : ClassIds \cup {0},
   len : Lens \cup {0}, val : Values \cup {0}, i : Nat]

(* Every variable has the shape the C declarations give it; head and pos   *)
(* stay within a uint32_t.                                                 *)
TypeOK ==
  /\ data \in [Store -> Nat]
  /\ head \in 0 .. Mod - 1
  /\ dropped \in Nat
  /\ phase \in {"host", "kernel", "drain"}
  /\ th \in [Threads -> ThreadStates]
  /\ pos \in 0 .. Mod - 1
  /\ emits \in 0 .. MaxEmits
  /\ drains \in 0 .. MaxDrains

(* A thread that was granted its space and has not finished the macro. *)
Writing(t) ==
  \/ th[t].pc = "copy"
  \/ th[t].pc = "reserved" /\ ~TooLong(th[t].at, th[t].len)

(* The words a reservation or a record covers. *)
Span(r) == r.at .. r.at + RecWords(r.len) - 1

(* A record that is granted space and completely written stays in the      *)
(* store, word for word, until the next drain: neither a later emit of any *)
(* thread, nor a dropped one, nor a host emit damages it.                  *)
AcceptedIntact ==
  \A r \in accepted :
    (\A t \in Threads : th[t].pc = "copy" => th[t].at # r.at) =>
      LoadSeq(r.at, Hdr + PayloadWords(r.len)) = <<r.cls, r.len>> \o r.pay

(* bc_sp_drain has left its loop, or must leave it at the next test. *)
WalkOver ==
  /\ phase = "drain"
  /\ \/ pos + Hdr > head
     \/ \A n \in Load(pos + 1) : Breaks(n)

(* A drain hands on every record that was granted space, each one as it    *)
(* was emitted, and hands on nothing else as long as no emit overflowed.   *)
DrainComplete ==
  WalkOver => /\ accepted \subseteq walked
              /\ head <= Size => walked = accepted

(* What sysprint.c says of a full buffer ("when full, emits drop"): the    *)
(* drain hands on exactly the records that were accepted.                  *)
DrainExact ==
  WalkOver => walked = accepted

(* A drain of a buffer that no emit overflowed comes to an end: up to head *)
(* there are only headers that were stored whole, whatever words, payloads *)
(* among them, an earlier kernel left behind.  After an overflow it may    *)
(* not end: a stale word taken for payload_len, 0xFFFFFFF8 say, wraps      *)
(* record_bytes to 0.                                                      *)
DrainTerminates ==
  (phase = "drain" /\ head <= Size) ~> phase = "host"
=============================================================================
