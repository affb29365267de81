-------------------------- MODULE TensixPipeProofs --------------------------
(***************************************************************************)
(* Proofs about TensixPipe, for every ring depth, tile count and counter  *)
(* width, and for every order in which the cores start and the atomics    *)
(* land.                                                                   *)
(***************************************************************************)
EXTENDS TensixPipe, TLAPS

DmaLabels     == {"seed", "gate", "xfer", "barrier", "done"}
ComputeLabels == {"seed", "gate", "reserve", "math", "pop", "done"}

\* Types, with each core confined to the labels of its own program.
Typed ==
    /\ pc \in [Cores -> Labels]
    /\ pc["reader"] \in DmaLabels
    /\ pc["writer"] \in DmaLabels
    /\ pc["compute"] \in ComputeLabels
    /\ k \in [Cores -> Nat]
    /\ cnt \in [Counters -> Nat]
    /\ plus \in [Counters -> Nat]
    /\ minus \in [Counters -> Nat]
    /\ fly \in [{"reader", "writer"} -> SUBSET Nat]
    /\ lost \in [Counters -> Nat]
    /\ overdrawn \subseteq Counters

\* No core runs past the last tile, and a counter has its width.
Within ==
    /\ \A c \in Cores : k[c] <= NTiles
    /\ \A c \in Cores : pc[c] \notin {"seed", "done"} => k[c] < NTiles
    /\ \A c \in Cores : pc[c] = "seed" => k[c] = 0
    /\ \A s \in Counters : cnt[s] < Mod

\* A transfer is outstanding only between its issue and its barrier.
OneFlight ==
    \A c \in {"reader", "writer"} :
        fly[c] \subseteq (IF pc[c] = "barrier" THEN {k[c]} ELSE {})

\* The signals of a counter posted so far, and the credits taken from it.
Given(s) == CASE s = "in_recv"  -> k["reader"]
              [] s = "in_free"  -> k["compute"]
              [] s = "out_recv" -> Made
              [] s = "out_free" -> k["writer"]
Taken(s) == CASE s = "in_recv"  -> k["compute"] + UsedIn
              [] s = "in_free"  -> k["reader"] + HeldIn
              [] s = "out_recv" -> k["writer"] + UsedOut
              [] s = "out_free" -> Made + HeldOut

Balance(s) == Start(s) + Given(s) - Taken(s) - lost[s]

\* A counter, with what is posted to it, is its seed and the signals less the
\* credits taken, modulo its width; and exactly so, the subtractions still
\* to land being covered by what it holds, until a credit is taken twice.
Ledger(s) ==
    /\ \E q \in Int : Credit(s) = Balance(s) + q * Mod
    /\ minus[s] <= Taken(s)
    /\ ~Seeded(s) => minus[s] = 0
    /\ s \notin overdrawn => /\ Credit(s) = Balance(s)
                             /\ Seeded(s) => minus[s] <= cnt[s]

PipeInv == Typed /\ Within /\ OneFlight /\ \A s \in Counters : Ledger(s)

-----------------------------------------------------------------------------
\* The numbers a ledger is made of.
LEMMA Numbers ==
  ASSUME Typed, NEW s \in Counters
  PROVE  /\ cnt[s] \in Nat /\ plus[s] \in Nat /\ minus[s] \in Nat /\ lost[s] \in Nat
         /\ Start(s) \in {0, Depth} /\ Start(s) \in Nat /\ Given(s) \in Nat /\ Taken(s) \in Nat
         /\ Credit(s) \in Int /\ Balance(s) \in Int
         /\ Depth \in Nat /\ Mod \in Nat /\ NTiles \in Nat /\ Mod > NTiles + Depth
  <1>1. Depth \in Nat /\ Mod \in Nat /\ NTiles \in Nat /\ Mod > NTiles + Depth
    BY TensixAssumption
  <1>2. cnt[s] \in Nat /\ plus[s] \in Nat /\ minus[s] \in Nat /\ lost[s] \in Nat
    BY DEF Typed
  <1>3. Start(s) \in {0, Depth}
    BY DEF Start, Seeds, Acquirer, Counters
  <1>4. k["reader"] \in Nat /\ k["compute"] \in Nat /\ k["writer"] \in Nat
    BY DEF Typed, Cores
  <1>5. UsedIn \in Nat /\ HeldIn \in Nat /\ UsedOut \in Nat /\ HeldOut \in Nat /\ Made \in Nat
    BY <1>4 DEF UsedIn, HeldIn, UsedOut, HeldOut, Made
  <1>6. Given(s) \in Nat /\ Taken(s) \in Nat
    BY <1>4, <1>5 DEF Given, Taken, Counters
  <1> QED
    BY <1>1, <1>2, <1>3, <1>6 DEF Credit, Balance

\* Nothing about the counter changes.
LEMMA Kept ==
  ASSUME NEW s \in Counters, Ledger(s),
         cnt'[s] = cnt[s], plus'[s] = plus[s], minus'[s] = minus[s], lost'[s] = lost[s],
         s \in overdrawn' <=> s \in overdrawn, Seeded(s)' <=> Seeded(s),
         Given(s)' = Given(s), Taken(s)' = Taken(s)
  PROVE  Ledger(s)'
  <1>1. Credit(s)' = Credit(s) /\ Balance(s)' = Balance(s)
    BY DEF Credit, Balance, Start
  <1> QED
    BY <1>1 DEF Ledger

\* A signal is posted.
LEMMA Signalled ==
  ASSUME Typed, NEW s \in Counters, Ledger(s),
         cnt'[s] = cnt[s], plus'[s] = plus[s] + 1, minus'[s] = minus[s], lost'[s] = lost[s],
         s \in overdrawn' <=> s \in overdrawn, Seeded(s)' <=> Seeded(s),
         Given(s)' = Given(s) + 1, Taken(s)' = Taken(s)
  PROVE  Ledger(s)'
  <1>0. /\ cnt[s] \in Nat /\ plus[s] \in Nat /\ minus[s] \in Nat /\ lost[s] \in Nat
        /\ Start(s) \in Nat /\ Given(s) \in Nat /\ Taken(s) \in Nat
    BY Numbers
  <1>s. Start(s)' = Start(s)
    BY DEF Start
  <1>1. Credit(s)' = Credit(s) + 1 /\ Balance(s)' = Balance(s) + 1
    BY <1>0, <1>s DEF Credit, Balance
  <1>2. Credit(s) \in Int /\ Balance(s) \in Int /\ Mod \in Nat
    BY Numbers
  <1>3. \A q \in Int : Credit(s) = Balance(s) + q * Mod => Credit(s)' = Balance(s)' + q * Mod
    BY <1>1, <1>2
  <1> QED
    BY <1>1, <1>3 DEF Ledger

\* A credit is taken: the counter shows one, and the subtraction is posted.
LEMMA CreditTaken ==
  ASSUME Typed, NEW s \in Counters, Ledger(s), Seeded(s),
         cnt'[s] = cnt[s], plus'[s] = plus[s], minus'[s] = minus[s] + 1, lost'[s] = lost[s],
         overdrawn' = IF cnt[s] <= minus[s] THEN overdrawn \cup {s} ELSE overdrawn,
         Seeded(s)', Given(s)' = Given(s), Taken(s)' = Taken(s) + 1
  PROVE  Ledger(s)'
  <1>1. Credit(s)' = Credit(s) - 1 /\ Balance(s)' = Balance(s) - 1
    BY Numbers DEF Credit, Balance, Start
  <1>2. Credit(s) \in Int /\ Balance(s) \in Int /\ Mod \in Nat /\ Taken(s) \in Nat
        /\ cnt[s] \in Nat /\ minus[s] \in Nat
    BY Numbers
  <1>3. \A q \in Int : Credit(s) = Balance(s) + q * Mod => Credit(s)' = Balance(s)' + q * Mod
    BY <1>1, <1>2
  <1>4. s \notin overdrawn' => s \notin overdrawn /\ minus[s] + 1 <= cnt[s]
    BY <1>2
  <1>5. minus'[s] <= Taken(s)'
    BY <1>2 DEF Ledger
  <1> QED
    BY <1>1, <1>2, <1>3, <1>4, <1>5 DEF Ledger

\* A core seeds the counter: signals that had landed are gone, and counted.
LEMMA SeedStored ==
  ASSUME Typed, NEW s \in Counters, Ledger(s), ~Seeded(s), Seeded(s)',
         cnt'[s] = Start(s), plus'[s] = plus[s], minus'[s] = minus[s], lost'[s] = lost[s],
         s \in overdrawn' <=> s \in overdrawn,
         Given(s)' = Given(s), Taken(s)' = Taken(s)
  PROVE  Ledger(s)'
  <1>1. Credit(s)' = Credit(s) /\ Balance(s)' = Balance(s)
    BY DEF Credit, Balance, Start
  <1>2. minus'[s] <= cnt'[s]
    BY Numbers DEF Ledger
  <1> QED
    BY <1>1, <1>2 DEF Ledger

\* The NoC applies a signal.
LEMMA SignalLands ==
  ASSUME Typed, Within, NEW s \in Counters, Ledger(s), plus[s] > 0, Given(s) <= NTiles,
         cnt'[s] = Up(cnt[s]), plus'[s] = plus[s] - 1, minus'[s] = minus[s],
         lost'[s] = IF Seeded(s) THEN lost[s] ELSE lost[s] + 1,
         overdrawn' = overdrawn, Seeded(s)' <=> Seeded(s),
         Given(s)' = Given(s), Taken(s)' = Taken(s)
  PROVE  Ledger(s)'
  <1>0. /\ cnt[s] \in Nat /\ plus[s] \in Nat /\ minus[s] \in Nat /\ lost[s] \in Nat
        /\ Start(s) \in {0, Depth} /\ Start(s) \in Nat /\ Given(s) \in Nat /\ Taken(s) \in Nat
        /\ Credit(s) \in Int /\ Balance(s) \in Int
        /\ Depth \in Nat /\ Mod \in Nat /\ NTiles \in Nat /\ Mod > NTiles + Depth
    BY Numbers
  <1>1. CASE ~Seeded(s)
    <2>1. Credit(s)' = Credit(s) - 1 /\ Balance(s)' = Balance(s) - 1
      BY <1>0, <1>1 DEF Credit, Balance, Start
    <2>2. \A q \in Int : Credit(s) = Balance(s) + q * Mod => Credit(s)' = Balance(s)' + q * Mod
      BY <1>0, <2>1
    <2> QED
      BY <1>0, <1>1, <2>1, <2>2 DEF Ledger
  <1>2. CASE Seeded(s) /\ cnt[s] # Mod - 1
    <2>1. cnt'[s] = cnt[s] + 1
      BY <1>2 DEF Up
    <2>2. Credit(s)' = Credit(s) /\ Balance(s)' = Balance(s)
      BY <1>0, <1>2, <2>1 DEF Credit, Balance, Start
    <2>3. minus[s] <= cnt[s] => minus[s] <= cnt[s] + 1
      BY <1>0
    <2> QED
      BY <1>2, <2>1, <2>2, <2>3 DEF Ledger
  <1>3. CASE Seeded(s) /\ cnt[s] = Mod - 1
    <2>1. cnt'[s] = 0
      BY <1>3 DEF Up
    <2>2. Credit(s)' = Credit(s) - Mod /\ Balance(s)' = Balance(s)
      BY <1>0, <1>3, <2>1 DEF Credit, Balance, Start
    <2>3. s \in overdrawn
      <3>1. SUFFICES ASSUME Credit(s) = Balance(s) PROVE FALSE
        BY DEF Ledger
      <3>2. cnt[s] + plus[s] - minus[s] = Start(s) + Given(s) - Taken(s) - lost[s]
        BY <1>3, <3>1 DEF Credit, Balance
      <3>3. minus[s] <= Taken(s)
        BY DEF Ledger
      <3>4. Start(s) <= Depth
        BY <1>0
      <3> QED
        BY <1>0, <1>3, <3>2, <3>3, <3>4
    <2>4. \A q \in Int : Credit(s) = Balance(s) + q * Mod => Credit(s)' = Balance(s)' + (q - 1) * Mod
      BY <1>0, <2>2
    <2>5. \E q \in Int : Credit(s)' = Balance(s)' + q * Mod
      BY <2>4 DEF Ledger
    <2> QED
      BY <1>3, <2>3, <2>5 DEF Ledger
  <1> QED
    BY <1>1, <1>2, <1>3

\* The NoC applies a subtraction.
LEMMA SubtractionLands ==
  ASSUME Typed, Within, NEW s \in Counters, Ledger(s), minus[s] > 0,
         cnt'[s] = Down(cnt[s]), plus'[s] = plus[s], minus'[s] = minus[s] - 1, lost'[s] = lost[s],
         overdrawn' = overdrawn, Seeded(s)' <=> Seeded(s),
         Given(s)' = Given(s), Taken(s)' = Taken(s)
  PROVE  Ledger(s)'
  <1>0. /\ cnt[s] \in Nat /\ plus[s] \in Nat /\ minus[s] \in Nat /\ Taken(s) \in Nat
        /\ Credit(s) \in Int /\ Balance(s) \in Int /\ Mod \in Nat
    BY Numbers
  <1>1. Seeded(s) /\ minus'[s] <= Taken(s)
    BY <1>0 DEF Ledger
  <1>2. CASE cnt[s] # 0
    <2>1. cnt'[s] = cnt[s] - 1
      BY <1>2 DEF Down
    <2>2. Credit(s)' = Credit(s) /\ Balance(s)' = Balance(s)
      BY <1>0, <1>1, <2>1 DEF Credit, Balance, Start
    <2>3. minus[s] <= cnt[s] => minus'[s] <= cnt'[s]
      BY <1>0, <1>2, <2>1
    <2> QED
      BY <1>1, <2>2, <2>3 DEF Ledger
  <1>3. CASE cnt[s] = 0
    <2>1. cnt'[s] = Mod - 1
      BY <1>3 DEF Down
    <2>2. Credit(s)' = Credit(s) + Mod /\ Balance(s)' = Balance(s)
      BY <1>0, <1>1, <1>3, <2>1 DEF Credit, Balance, Start
    <2>3. s \in overdrawn
      BY <1>0, <1>1, <1>3 DEF Ledger
    <2>4. \A q \in Int : Credit(s) = Balance(s) + q * Mod => Credit(s)' = Balance(s)' + (q + 1) * Mod
      BY <1>0, <2>2
    <2>5. \E q \in Int : Credit(s)' = Balance(s)' + q * Mod
      BY <2>4 DEF Ledger
    <2> QED
      BY <1>1, <2>3, <2>5 DEF Ledger
  <1> QED
    BY <1>2, <1>3

-----------------------------------------------------------------------------
(* What the primitives do to the four ledgers at once.                    *)

\* One core acquires counter g; nothing else is given or taken.
LEMMA OneTaken ==
  ASSUME PipeInv, NEW g \in Counters, Acquire(g), Seeded(g),
         \A s \in Counters : Seeded(s)' <=> Seeded(s),
         \A s \in Counters : Given(s)' = Given(s),
         \A s \in Counters \ {g} : Taken(s)' = Taken(s),
         Taken(g)' = Taken(g) + 1
  PROVE  /\ minus' \in [Counters -> Nat] /\ overdrawn' \subseteq Counters
         /\ UNCHANGED <<cnt, plus, lost>>
         /\ \A s \in Counters : Ledger(s)'
  <1>1. /\ UNCHANGED <<cnt, plus, lost>>
        /\ minus' = [minus EXCEPT ![g] = minus[g] + 1]
        /\ overdrawn' = IF cnt[g] <= minus[g] THEN overdrawn \cup {g} ELSE overdrawn
    BY DEF Acquire, Overdraws
  <1>2. minus \in [Counters -> Nat] /\ overdrawn \subseteq Counters
    BY DEF PipeInv, Typed
  <1>3. minus' \in [Counters -> Nat] /\ overdrawn' \subseteq Counters
    BY <1>1, <1>2
  <1>4. Ledger(g)'
    <2>1. minus'[g] = minus[g] + 1
      BY <1>1, <1>2
    <2> QED
      BY <1>1, <2>1, CreditTaken DEF PipeInv
  <1>5. ASSUME NEW s \in Counters \ {g} PROVE Ledger(s)'
    <2>1. minus'[s] = minus[s] /\ (s \in overdrawn' <=> s \in overdrawn)
      BY <1>1, <1>2
    <2> QED
      BY <1>1, <2>1, Kept DEF PipeInv
  <1> QED
    BY <1>1, <1>3, <1>4, <1>5

\* One core signals counter g; nothing else is given or taken.
LEMMA OnePosted ==
  ASSUME PipeInv, NEW g \in Counters, Post(g),
         \A s \in Counters : Seeded(s)' <=> Seeded(s),
         \A s \in Counters : Taken(s)' = Taken(s),
         \A s \in Counters \ {g} : Given(s)' = Given(s),
         Given(g)' = Given(g) + 1
  PROVE  /\ plus' \in [Counters -> Nat]
         /\ UNCHANGED <<cnt, minus, lost, overdrawn>>
         /\ \A s \in Counters : Ledger(s)'
  <1>1. UNCHANGED <<cnt, minus, lost, overdrawn>> /\ plus' = [plus EXCEPT ![g] = plus[g] + 1]
    BY DEF Post
  <1>2. plus \in [Counters -> Nat]
    BY DEF PipeInv, Typed
  <1>3. plus' \in [Counters -> Nat]
    BY <1>1, <1>2
  <1>4. Ledger(g)'
    <2>1. plus'[g] = plus[g] + 1
      BY <1>1, <1>2
    <2> QED
      BY <1>1, <2>1, Signalled DEF PipeInv
  <1>5. ASSUME NEW s \in Counters \ {g} PROVE Ledger(s)'
    <2>1. plus'[s] = plus[s]
      BY <1>1, <1>2
    <2> QED
      BY <1>1, <2>1, Kept DEF PipeInv
  <1> QED
    BY <1>1, <1>3, <1>4, <1>5

\* A core that is running moves to another label of its program.
LEMMA Moves ==
  ASSUME Typed, NEW c \in Cores, pc[c] # "seed", NEW l \in Labels, l # "seed",
         pc' = [pc EXCEPT ![c] = l]
  PROVE  /\ pc' \in [Cores -> Labels]
         /\ pc'[c] = l /\ \A d \in Cores \ {c} : pc'[d] = pc[d]
         /\ \A s \in Counters : Seeded(s)' <=> Seeded(s)
  <1>1. pc' \in [Cores -> Labels]
    BY DEF Typed
  <1>2. pc'[c] = l /\ \A d \in Cores \ {c} : pc'[d] = pc[d]
    BY DEF Typed
  <1>3. \A s \in Counters : Acquirer(s) \in Cores
    BY DEF Acquirer, Counters, Cores
  <1>4. \A s \in Counters : Acquirer(s)' = Acquirer(s)
    BY DEF Acquirer
  <1>5. \A s \in Counters : pc'[Acquirer(s)] # "seed" <=> pc[Acquirer(s)] # "seed"
    BY <1>2, <1>3
  <1> QED
    BY <1>1, <1>2, <1>4, <1>5 DEF Seeded

-----------------------------------------------------------------------------
(* The inductive step, action by action.                                  *)

\* A data-movement core passing its gate keeps the invariant.
LEMMA StepDmaGate ==
  ASSUME PipeInv, NEW c \in {"reader", "writer"}, DmaGate(c) PROVE PipeInv'
  <1>1. /\ c \in Cores /\ pc[c] = "gate" /\ pc' = [pc EXCEPT ![c] = "xfer"]
        /\ k' = k /\ fly' = fly /\ Acquire(GateOf(c)) /\ GateOf(c) \in Counters
    BY DEF DmaGate, Goto, GateOf, Counters, Cores
  <1>2. Typed
    BY DEF PipeInv
  <1>3. /\ pc' \in [Cores -> Labels] /\ pc'[c] = "xfer" /\ \A d \in Cores \ {c} : pc'[d] = pc[d]
        /\ \A s \in Counters : Seeded(s)' <=> Seeded(s)
    BY <1>1, <1>2, Moves DEF Labels
  <1>4. Seeded(GateOf(c))
    BY <1>1 DEF Seeded, Acquirer, GateOf
  <1>5. k["reader"] \in Nat /\ k["writer"] \in Nat
    BY <1>2 DEF Typed, Cores
  <1>6. /\ Made' = Made /\ UsedIn' = UsedIn /\ HeldOut' = HeldOut
        /\ c = "reader" => HeldIn = 0 /\ HeldIn' = 1 /\ UsedOut' = UsedOut
        /\ c = "writer" => UsedOut = 0 /\ UsedOut' = 1 /\ HeldIn' = HeldIn
    BY <1>1, <1>3 DEF Made, UsedIn, HeldOut, HeldIn, UsedOut, Cores
  <1>7. \A s \in Counters : Given(s)' = Given(s)
    BY <1>1, <1>6 DEF Given, Counters
  <1>8. \A s \in Counters \ {GateOf(c)} : Taken(s)' = Taken(s)
    BY <1>1, <1>6 DEF Taken, Counters, GateOf
  <1>9. Taken(GateOf(c))' = Taken(GateOf(c)) + 1
    BY <1>1, <1>5, <1>6 DEF Taken, GateOf
  <1>10. /\ minus' \in [Counters -> Nat] /\ overdrawn' \subseteq Counters
         /\ UNCHANGED <<cnt, plus, lost>>
         /\ \A s \in Counters : Ledger(s)'
    BY <1>1, <1>3, <1>4, <1>7, <1>8, <1>9, OneTaken
  <1>11. Typed'
    BY <1>1, <1>2, <1>3, <1>10 DEF Typed, DmaLabels, Cores
  <1>12. Within'
    BY <1>1, <1>3, <1>10 DEF PipeInv, Within
  <1>13. OneFlight'
    BY <1>1, <1>3 DEF PipeInv, OneFlight, Cores
  <1> QED
    BY <1>10, <1>11, <1>12, <1>13 DEF PipeInv

\* The same for compute, which acquires two counters a tile.
LEMMA StepCompute ==
  ASSUME PipeInv, NEW f, NEW g, NEW l,
         \/ f = "gate" /\ g = "in_recv" /\ l = "reserve"
         \/ f = "reserve" /\ g = "out_free" /\ l = "math",
         pc["compute"] = f, Acquire(g), Goto("compute", l), UNCHANGED <<k, fly>>
  PROVE  PipeInv'
  <1>1. /\ pc["compute"] = f /\ f \in {"gate", "reserve"} /\ pc' = [pc EXCEPT !["compute"] = l]
        /\ k' = k /\ fly' = fly /\ Acquire(g) /\ g \in Counters
        /\ l \in {"reserve", "math"} /\ "compute" \in Cores
    BY DEF Goto, Counters, Cores
  <1>2. Typed
    BY DEF PipeInv
  <1>3. /\ pc' \in [Cores -> Labels] /\ pc'["compute"] = l
        /\ \A d \in Cores \ {"compute"} : pc'[d] = pc[d]
        /\ \A s \in Counters : Seeded(s)' <=> Seeded(s)
    BY <1>1, <1>2, Moves DEF Labels
  <1>4. Seeded(g)
    BY <1>1 DEF Seeded, Acquirer
  <1>5. k["compute"] \in Nat
    BY <1>2 DEF Typed, Cores
  <1>6. /\ HeldIn' = HeldIn /\ UsedOut' = UsedOut
        /\ Made = k["compute"] /\ Made' = k["compute"]
        /\ g = "in_recv" => UsedIn = 0 /\ UsedIn' = 1 /\ HeldOut = 0 /\ HeldOut' = 0
        /\ g = "out_free" => UsedIn = 1 /\ UsedIn' = 1 /\ HeldOut = 0 /\ HeldOut' = 1
    BY <1>1, <1>3, <1>5 DEF Made, UsedIn, HeldOut, HeldIn, UsedOut, Cores
  <1>7. \A s \in Counters : Given(s)' = Given(s)
    BY <1>1, <1>6 DEF Given, Counters
  <1>8. \A s \in Counters \ {g} : Taken(s)' = Taken(s)
    BY <1>1, <1>6 DEF Taken, Counters
  <1>9. Taken(g)' = Taken(g) + 1
    BY <1>1, <1>5, <1>6 DEF Taken
  <1>10. /\ minus' \in [Counters -> Nat] /\ overdrawn' \subseteq Counters
         /\ UNCHANGED <<cnt, plus, lost>>
         /\ \A s \in Counters : Ledger(s)'
    BY <1>1, <1>3, <1>4, <1>7, <1>8, <1>9, OneTaken
  <1>11. Typed'
    BY <1>1, <1>2, <1>3, <1>10 DEF Typed, ComputeLabels, Cores
  <1>12. Within'
    BY <1>1, <1>3, <1>10 DEF PipeInv, Within
  <1>13. OneFlight'
    BY <1>1, <1>3 DEF PipeInv, OneFlight, Cores
  <1> QED
    BY <1>10, <1>11, <1>12, <1>13 DEF PipeInv

\* Issuing the transfer keeps the invariant.
LEMMA StepDmaXfer ==
  ASSUME PipeInv, NEW c \in {"reader", "writer"}, DmaXfer(c) PROVE PipeInv'
  <1>1. /\ c \in Cores /\ pc[c] = "xfer" /\ pc' = [pc EXCEPT ![c] = "barrier"]
        /\ fly' = [fly EXCEPT ![c] = fly[c] \cup {k[c]}]
        /\ UNCHANGED <<k, cnt, plus, minus, lost, overdrawn>>
    BY DEF DmaXfer, Goto, Cores
  <1>2. Typed
    BY DEF PipeInv
  <1>3. /\ pc' \in [Cores -> Labels] /\ pc'[c] = "barrier" /\ \A d \in Cores \ {c} : pc'[d] = pc[d]
        /\ \A s \in Counters : Seeded(s)' <=> Seeded(s)
    BY <1>1, <1>2, Moves DEF Labels
  <1>4. fly[c] = {}
    BY <1>1 DEF PipeInv, OneFlight
  <1>5. fly'[c] = {k[c]} /\ \A d \in {"reader", "writer"} \ {c} : fly'[d] = fly[d]
    BY <1>1, <1>2, <1>4 DEF Typed
  <1>6. fly' \in [{"reader", "writer"} -> SUBSET Nat]
    <2>1. fly[c] \cup {k[c]} \in SUBSET Nat
      BY <1>1, <1>2 DEF Typed
    <2> QED
      BY <1>1, <1>2, <2>1 DEF Typed
  <1>7. /\ Made' = Made /\ UsedIn' = UsedIn /\ HeldOut' = HeldOut
        /\ HeldIn' = HeldIn /\ UsedOut' = UsedOut
    BY <1>1, <1>3 DEF Made, UsedIn, HeldOut, HeldIn, UsedOut, Cores
  <1>8. \A s \in Counters : Given(s)' = Given(s) /\ Taken(s)' = Taken(s)
    BY <1>1, <1>7 DEF Given, Taken, Counters
  <1>9. \A s \in Counters : Ledger(s)'
    BY <1>1, <1>3, <1>8, Kept DEF PipeInv
  <1>10. Typed'
    BY <1>1, <1>2, <1>3, <1>6 DEF Typed, DmaLabels, Cores
  <1>11. Within'
    BY <1>1, <1>3 DEF PipeInv, Within
  <1>12. OneFlight'
    BY <1>1, <1>3, <1>5 DEF PipeInv, OneFlight, Cores
  <1> QED
    BY <1>9, <1>10, <1>11, <1>12 DEF PipeInv

\* The NoC completing a transfer keeps the invariant.
LEMMA StepNocCompletes ==
  ASSUME PipeInv, NEW c \in {"reader", "writer"}, NocCompletes(c) PROVE PipeInv'
  <1>1. PICK t \in fly[c] : fly' = [fly EXCEPT ![c] = fly[c] \ {t}]
    BY DEF NocCompletes
  <1>2. UNCHANGED <<pc, k, cnt, plus, minus, lost, overdrawn>>
    BY DEF NocCompletes
  <1>3. Typed
    BY DEF PipeInv
  <1>4. fly'[c] \subseteq fly[c] /\ \A d \in {"reader", "writer"} \ {c} : fly'[d] = fly[d]
    BY <1>1, <1>3 DEF Typed
  <1>5. fly' \in [{"reader", "writer"} -> SUBSET Nat]
    <2>1. fly[c] \ {t} \in SUBSET Nat
      BY <1>3 DEF Typed
    <2> QED
      BY <1>1, <1>3, <2>1 DEF Typed
  <1>6. \A s \in Counters : Given(s)' = Given(s) /\ Taken(s)' = Taken(s) /\ (Seeded(s)' <=> Seeded(s))
    <2>1. /\ Made' = Made /\ UsedIn' = UsedIn /\ HeldOut' = HeldOut
          /\ HeldIn' = HeldIn /\ UsedOut' = UsedOut
      BY <1>2 DEF Made, UsedIn, HeldOut, HeldIn, UsedOut
    <2> QED
      BY <1>2, <2>1 DEF Given, Taken, Seeded, Acquirer, Counters
  <1>7. \A s \in Counters : Ledger(s)'
    BY <1>2, <1>6, Kept DEF PipeInv
  <1>8. Typed'
    BY <1>2, <1>3, <1>5 DEF Typed
  <1>9. Within'
    BY <1>2 DEF PipeInv, Within
  <1>10. OneFlight'
    BY <1>2, <1>4 DEF PipeInv, OneFlight
  <1> QED
    BY <1>7, <1>8, <1>9, <1>10 DEF PipeInv

\* What going back to the loop head does: the core counts a tile, and goes on
\* while there is one left.
LEMMA Looped ==
  ASSUME PipeInv, NEW c \in Cores, pc[c] \notin {"seed", "done"}, LoopBack(c)
  PROVE  /\ pc' \in [Cores -> Labels] /\ pc'[c] \in {"gate", "done"}
         /\ \A d \in Cores \ {c} : pc'[d] = pc[d]
         /\ k' \in [Cores -> Nat] /\ k'[c] = k[c] + 1
         /\ \A d \in Cores \ {c} : k'[d] = k[d]
         /\ \A s \in Counters : Seeded(s)' <=> Seeded(s)
         /\ cnt' = cnt => Within'
  <1> DEFINE l == IF k[c] + 1 = NTiles THEN "done" ELSE "gate"
  <1>1. pc' = [pc EXCEPT ![c] = l] /\ k' = [k EXCEPT ![c] = k[c] + 1]
    BY DEF LoopBack, LoopHead, Goto
  <1>2. Typed /\ Within /\ k \in [Cores -> Nat] /\ NTiles \in Nat
    BY TensixAssumption DEF PipeInv, Typed
  <1>3. l \in {"gate", "done"}
    OBVIOUS
  <1>4. /\ pc' \in [Cores -> Labels]
        /\ pc'[c] = l /\ \A d \in Cores \ {c} : pc'[d] = pc[d]
        /\ \A s \in Counters : Seeded(s)' <=> Seeded(s)
    <2>1. ASSUME NEW m \in {"gate", "done"}, pc' = [pc EXCEPT ![c] = m]
          PROVE  /\ pc' \in [Cores -> Labels]
                 /\ pc'[c] = m /\ \A d \in Cores \ {c} : pc'[d] = pc[d]
                 /\ \A s \in Counters : Seeded(s)' <=> Seeded(s)
      BY <1>2, <2>1, Moves DEF Labels
    <2> QED
      BY <1>1, <2>1
  <1>5. /\ k' \in [Cores -> Nat] /\ k'[c] = k[c] + 1 /\ \A d \in Cores \ {c} : k'[d] = k[d]
    BY <1>1, <1>2
  <1>6. k[c] < NTiles
    BY <1>2 DEF Within
  <1>7. k[c] \in Nat
    BY <1>2
  <1>8. ASSUME cnt' = cnt PROVE Within'
    <2>1. k'[c] <= NTiles /\ (pc'[c] # "done" => k'[c] < NTiles)
      BY <1>2, <1>4, <1>5, <1>6, <1>7
    <2>2. pc'[c] # "seed"
      BY <1>4
    <2> QED
      BY <1>2, <1>4, <1>5, <1>8, <2>1, <2>2 DEF Within
  <1> QED
    BY <1>3, <1>4, <1>5, <1>8

\* A data-movement core publishing its tile, or giving the slot back, keeps
\* the invariant.
LEMMA StepDmaSignal ==
  ASSUME PipeInv, NEW c \in {"reader", "writer"}, DmaSignal(c) PROVE PipeInv'
  <1>1. /\ c \in Cores /\ pc[c] = "barrier" /\ fly[c] = {} /\ fly' = fly
        /\ Post(SignalOf(c)) /\ LoopBack(c) /\ SignalOf(c) \in Counters
    BY DEF DmaSignal, SignalOf, Counters, Cores
  <1>2. Typed
    BY DEF PipeInv
  <1>3. /\ pc' \in [Cores -> Labels] /\ pc'[c] \in {"gate", "done"}
        /\ \A d \in Cores \ {c} : pc'[d] = pc[d]
        /\ k' \in [Cores -> Nat] /\ k'[c] = k[c] + 1
        /\ \A d \in Cores \ {c} : k'[d] = k[d]
        /\ \A s \in Counters : Seeded(s)' <=> Seeded(s)
        /\ cnt' = cnt => Within'
    BY <1>1, Looped
  <1>4. k["reader"] \in Nat /\ k["writer"] \in Nat
    BY <1>2 DEF Typed, Cores
  <1>5. /\ Made' = Made /\ UsedIn' = UsedIn /\ HeldOut' = HeldOut /\ k'["compute"] = k["compute"]
        /\ c = "reader" => HeldIn = 1 /\ HeldIn' = 0 /\ UsedOut' = UsedOut /\ k'["writer"] = k["writer"]
        /\ c = "writer" => UsedOut = 1 /\ UsedOut' = 0 /\ HeldIn' = HeldIn /\ k'["reader"] = k["reader"]
    BY <1>1, <1>3 DEF Made, UsedIn, HeldOut, HeldIn, UsedOut, Cores
  <1>6. \A s \in Counters : Taken(s)' = Taken(s)
    BY <1>3, <1>4, <1>5 DEF Taken, Counters
  <1>7. \A s \in Counters \ {SignalOf(c)} : Given(s)' = Given(s)
    BY <1>3, <1>5 DEF Given, Counters, SignalOf
  <1>8. Given(SignalOf(c))' = Given(SignalOf(c)) + 1
    BY <1>3, <1>5 DEF Given, SignalOf
  <1>9. /\ plus' \in [Counters -> Nat]
        /\ UNCHANGED <<cnt, minus, lost, overdrawn>>
        /\ \A s \in Counters : Ledger(s)'
    BY <1>1, <1>3, <1>6, <1>7, <1>8, OnePosted
  <1>10. Typed'
    BY <1>1, <1>2, <1>3, <1>9 DEF Typed, DmaLabels, Cores
  <1>11. OneFlight'
    BY <1>1, <1>3 DEF PipeInv, OneFlight, Cores
  <1> QED
    BY <1>3, <1>9, <1>10, <1>11 DEF PipeInv

\* Compute publishing its output tile keeps the invariant.
LEMMA StepComputePush ==
  ASSUME PipeInv, ComputePush PROVE PipeInv'
  <1>1. /\ "compute" \in Cores /\ "out_recv" \in Counters /\ pc["compute"] = "math"
        /\ pc' = [pc EXCEPT !["compute"] = "pop"] /\ k' = k /\ fly' = fly /\ Post("out_recv")
    BY DEF ComputePush, Goto, Counters, Cores
  <1>2. Typed
    BY DEF PipeInv
  <1>3. /\ pc' \in [Cores -> Labels] /\ pc'["compute"] = "pop"
        /\ \A d \in Cores \ {"compute"} : pc'[d] = pc[d]
        /\ \A s \in Counters : Seeded(s)' <=> Seeded(s)
    BY <1>1, <1>2, Moves DEF Labels
  <1>4. k["compute"] \in Nat
    BY <1>2 DEF Typed, Cores
  <1>5. /\ HeldIn' = HeldIn /\ UsedOut' = UsedOut /\ UsedIn = 1 /\ UsedIn' = 1
        /\ HeldOut = 1 /\ HeldOut' = 0 /\ Made = k["compute"] /\ Made' = k["compute"] + 1
    BY <1>1, <1>3, <1>4 DEF Made, UsedIn, HeldOut, HeldIn, UsedOut, Cores
  <1>6. \A s \in Counters : Taken(s)' = Taken(s)
    BY <1>1, <1>4, <1>5 DEF Taken, Counters
  <1>7. /\ \A s \in Counters \ {"out_recv"} : Given(s)' = Given(s)
        /\ Given("out_recv")' = Given("out_recv") + 1
    BY <1>1, <1>5 DEF Given, Counters
  <1>8. /\ plus' \in [Counters -> Nat]
        /\ UNCHANGED <<cnt, minus, lost, overdrawn>>
        /\ \A s \in Counters : Ledger(s)'
    BY <1>1, <1>3, <1>6, <1>7, OnePosted
  <1>9. Typed'
    BY <1>1, <1>2, <1>3, <1>8 DEF Typed, ComputeLabels, Cores
  <1>10. Within'
    BY <1>1, <1>3, <1>8 DEF PipeInv, Within
  <1>11. OneFlight'
    BY <1>1, <1>3 DEF PipeInv, OneFlight, Cores
  <1> QED
    BY <1>8, <1>9, <1>10, <1>11 DEF PipeInv

\* Compute giving the input slot back keeps the invariant.
LEMMA StepComputePop ==
  ASSUME PipeInv, ComputePop PROVE PipeInv'
  <1>1. /\ "compute" \in Cores /\ "in_free" \in Counters /\ pc["compute"] = "pop"
        /\ fly' = fly /\ Post("in_free") /\ LoopBack("compute")
    BY DEF ComputePop, Counters, Cores
  <1>2. Typed
    BY DEF PipeInv
  <1>3. /\ pc' \in [Cores -> Labels] /\ pc'["compute"] \in {"gate", "done"}
        /\ \A d \in Cores \ {"compute"} : pc'[d] = pc[d]
        /\ k' \in [Cores -> Nat] /\ k'["compute"] = k["compute"] + 1
        /\ \A d \in Cores \ {"compute"} : k'[d] = k[d]
        /\ \A s \in Counters : Seeded(s)' <=> Seeded(s)
        /\ cnt' = cnt => Within'
    BY <1>1, Looped
  <1>4. k["compute"] \in Nat
    BY <1>2 DEF Typed, Cores
  <1>5. /\ HeldIn' = HeldIn /\ UsedOut' = UsedOut /\ UsedIn = 1 /\ UsedIn' = 0
        /\ HeldOut = 0 /\ HeldOut' = 0 /\ Made = k["compute"] + 1 /\ Made' = k["compute"] + 1
        /\ k'["reader"] = k["reader"] /\ k'["writer"] = k["writer"]
    BY <1>1, <1>3, <1>4 DEF Made, UsedIn, HeldOut, HeldIn, UsedOut, Cores
  <1>6. \A s \in Counters : Taken(s)' = Taken(s)
    BY <1>3, <1>4, <1>5 DEF Taken, Counters
  <1>7. /\ \A s \in Counters \ {"in_free"} : Given(s)' = Given(s)
        /\ Given("in_free")' = Given("in_free") + 1
    BY <1>3, <1>5 DEF Given, Counters
  <1>8. /\ plus' \in [Counters -> Nat]
        /\ UNCHANGED <<cnt, minus, lost, overdrawn>>
        /\ \A s \in Counters : Ledger(s)'
    BY <1>1, <1>3, <1>6, <1>7, OnePosted
  <1>9. Typed'
    BY <1>1, <1>2, <1>3, <1>8 DEF Typed, ComputeLabels, Cores
  <1>10. OneFlight'
    BY <1>1, <1>3 DEF PipeInv, OneFlight, Cores
  <1> QED
    BY <1>3, <1>8, <1>9, <1>10 DEF PipeInv

\* A core seeding its counters and coming to its loop keeps the invariant,
\* whatever the others have signalled by then.
LEMMA StepSeed ==
  ASSUME PipeInv, NEW c \in Cores, Seed(c) PROVE PipeInv'
  <1>1. Typed /\ Within /\ NTiles \in Nat
    BY TensixAssumption DEF PipeInv
  <1>2. PICK l \in {"gate", "done"} :
            pc' = [pc EXCEPT ![c] = l] /\ (l = "gate" => NTiles # 0)
    BY DEF Seed, LoopHead, Goto
  <1>3. /\ pc[c] = "seed" /\ UNCHANGED <<k, plus, minus, fly, lost, overdrawn>>
        /\ cnt' = [s \in Counters |-> IF Acquirer(s) = c THEN Start(s) ELSE cnt[s]]
    BY DEF Seed
  <1>4. pc' \in [Cores -> Labels] /\ pc'[c] = l /\ \A d \in Cores \ {c} : pc'[d] = pc[d]
    BY <1>1, <1>2 DEF Typed, Labels
  <1>5. k[c] = 0
    BY <1>1, <1>3 DEF Within
  <1>6. /\ Made' = Made /\ UsedIn' = UsedIn /\ HeldOut' = HeldOut
        /\ HeldIn' = HeldIn /\ UsedOut' = UsedOut
    BY <1>2, <1>3, <1>4 DEF Made, UsedIn, HeldOut, HeldIn, UsedOut, Cores
  <1>7. \A s \in Counters : Given(s)' = Given(s) /\ Taken(s)' = Taken(s)
    BY <1>3, <1>6 DEF Given, Taken, Counters
  <1>8. \A s \in Counters : Acquirer(s) \in Cores /\ Acquirer(s)' = Acquirer(s)
    BY DEF Acquirer, Counters, Cores
  <1>9. ASSUME NEW s \in Counters PROVE Ledger(s)'
    <2>1. CASE Acquirer(s) = c
      <3>1. ~Seeded(s) /\ Seeded(s)' /\ cnt'[s] = Start(s)
        BY <1>2, <1>3, <1>4, <1>8, <2>1 DEF Seeded
      <3> QED
        BY <1>3, <1>7, <3>1, SeedStored DEF PipeInv
    <2>2. CASE Acquirer(s) # c
      <3>1. (Seeded(s)' <=> Seeded(s)) /\ cnt'[s] = cnt[s]
        BY <1>3, <1>4, <1>8, <2>2 DEF Seeded
      <3> QED
        BY <1>3, <1>7, <3>1, Kept DEF PipeInv
    <2> QED
      BY <2>1, <2>2
  <1>10. \A s \in Counters : Start(s) \in Nat /\ Start(s) < Mod
    BY <1>1, Numbers, TensixAssumption
  <1>11. Typed'
    <2>1. cnt' \in [Counters -> Nat]
      BY <1>1, <1>3, <1>10 DEF Typed
    <2> QED
      BY <1>1, <1>2, <1>3, <1>4, <2>1 DEF Typed, DmaLabels, ComputeLabels, Cores
  <1>12. Within'
    <2>1. \A s \in Counters : cnt'[s] < Mod
      BY <1>1, <1>3, <1>10 DEF Within
    <2>2. l = "gate" => k[c] < NTiles
      BY <1>1, <1>2, <1>5
    <2> QED
      BY <1>1, <1>2, <1>3, <1>4, <2>1, <2>2 DEF Within
  <1>13. OneFlight'
    BY <1>2, <1>3, <1>4 DEF PipeInv, OneFlight, Cores
  <1> QED
    BY <1>9, <1>11, <1>12, <1>13 DEF PipeInv

\* A posted atomic landing changes no core, and one counter.
LEMMA StepLands ==
  ASSUME PipeInv, NEW g \in Counters, ApplyPlus(g) \/ ApplyMinus(g) PROVE PipeInv'
  <1>1. Typed /\ Within /\ NTiles \in Nat /\ Mod \in Nat /\ Mod > 0
    BY TensixAssumption DEF PipeInv
  <1>2. pc' = pc /\ k' = k /\ fly' = fly /\ overdrawn' = overdrawn
    BY DEF ApplyPlus, ApplyMinus
  <1>3. \A s \in Counters : /\ Given(s)' = Given(s) /\ Taken(s)' = Taken(s)
                            /\ Seeded(s)' <=> Seeded(s)
    <2>1. /\ Made' = Made /\ UsedIn' = UsedIn /\ HeldOut' = HeldOut
          /\ HeldIn' = HeldIn /\ UsedOut' = UsedOut
      BY <1>2 DEF Made, UsedIn, HeldOut, HeldIn, UsedOut
    <2> QED
      BY <1>2, <2>1 DEF Given, Taken, Seeded, Acquirer, Counters
  <1>4. cnt[g] \in Nat /\ plus[g] \in Nat /\ minus[g] \in Nat /\ lost[g] \in Nat /\ cnt[g] < Mod
    BY <1>1 DEF Typed, Within
  <1>5. Up(cnt[g]) \in Nat /\ Up(cnt[g]) < Mod /\ Down(cnt[g]) \in Nat /\ Down(cnt[g]) < Mod
    BY <1>1, <1>4 DEF Up, Down
  <1>6. CASE ApplyPlus(g)
    <2>1. /\ plus[g] > 0 /\ minus' = minus /\ plus' = [plus EXCEPT ![g] = plus[g] - 1]
          /\ cnt' = [cnt EXCEPT ![g] = Up(cnt[g])]
          /\ lost' = IF Seeded(g) THEN lost ELSE [lost EXCEPT ![g] = lost[g] + 1]
      BY <1>6 DEF ApplyPlus
    <2>2. /\ cnt'[g] = Up(cnt[g]) /\ plus'[g] = plus[g] - 1
          /\ lost'[g] = IF Seeded(g) THEN lost[g] ELSE lost[g] + 1
          /\ \A s \in Counters \ {g} : cnt'[s] = cnt[s] /\ plus'[s] = plus[s] /\ lost'[s] = lost[s]
      BY <1>1, <2>1 DEF Typed
    <2>3. Given(g) <= NTiles
      <3>1. \A c \in Cores : k[c] \in Nat /\ k[c] <= NTiles
        BY <1>1 DEF Typed, Within
      <3>2. pc["compute"] = "pop" => k["compute"] < NTiles
        BY <1>1 DEF Within, Cores
      <3>3. Made <= NTiles
        BY <1>1, <3>1, <3>2 DEF Made, Cores
      <3> QED
        BY <3>1, <3>3 DEF Given, Counters, Cores
    <2>4. Ledger(g)'
      <3>1. /\ minus'[g] = minus[g] /\ Given(g)' = Given(g) /\ Taken(g)' = Taken(g)
            /\ (Seeded(g)' <=> Seeded(g)) /\ Ledger(g)
        BY <1>3, <2>1 DEF PipeInv
      <3> QED
        BY <1>1, <1>2, <2>1, <2>2, <2>3, <3>1, SignalLands
    <2>5. ASSUME NEW s \in Counters \ {g} PROVE Ledger(s)'
      <3>1. /\ cnt'[s] = cnt[s] /\ plus'[s] = plus[s] /\ minus'[s] = minus[s] /\ lost'[s] = lost[s]
            /\ Given(s)' = Given(s) /\ Taken(s)' = Taken(s)
            /\ (Seeded(s)' <=> Seeded(s)) /\ Ledger(s)
        BY <1>3, <2>1, <2>2 DEF PipeInv
      <3> QED
        BY <1>2, <3>1, Kept
    <2>6. Typed'
      <3>1. plus[g] - 1 \in Nat
        BY <1>4, <2>1
      <3>2. cnt' \in [Counters -> Nat] /\ plus' \in [Counters -> Nat] /\ lost' \in [Counters -> Nat]
        BY <1>1, <1>4, <1>5, <2>1, <3>1 DEF Typed
      <3> QED
        BY <1>1, <1>2, <2>1, <3>2 DEF Typed
    <2>7. Within'
      BY <1>1, <1>2, <1>5, <2>2 DEF Within
    <2> QED
      BY <1>2, <2>4, <2>5, <2>6, <2>7 DEF PipeInv, OneFlight
  <1>7. CASE ApplyMinus(g)
    <2>1. /\ minus[g] > 0 /\ plus' = plus /\ lost' = lost
          /\ minus' = [minus EXCEPT ![g] = minus[g] - 1]
          /\ cnt' = [cnt EXCEPT ![g] = Down(cnt[g])]
      BY <1>7 DEF ApplyMinus
    <2>2. /\ cnt'[g] = Down(cnt[g]) /\ minus'[g] = minus[g] - 1
          /\ \A s \in Counters \ {g} : cnt'[s] = cnt[s] /\ minus'[s] = minus[s]
      BY <1>1, <2>1 DEF Typed
    <2>3. Ledger(g)'
      <3>1. /\ plus'[g] = plus[g] /\ lost'[g] = lost[g] /\ Given(g)' = Given(g) /\ Taken(g)' = Taken(g)
            /\ (Seeded(g)' <=> Seeded(g)) /\ Ledger(g)
        BY <1>3, <2>1 DEF PipeInv
      <3> QED
        BY <1>1, <1>2, <2>1, <2>2, <3>1, SubtractionLands
    <2>4. ASSUME NEW s \in Counters \ {g} PROVE Ledger(s)'
      <3>1. /\ cnt'[s] = cnt[s] /\ plus'[s] = plus[s] /\ minus'[s] = minus[s] /\ lost'[s] = lost[s]
            /\ Given(s)' = Given(s) /\ Taken(s)' = Taken(s)
            /\ (Seeded(s)' <=> Seeded(s)) /\ Ledger(s)
        BY <1>3, <2>1, <2>2 DEF PipeInv
      <3> QED
        BY <1>2, <3>1, Kept
    <2>5. Typed'
      <3>1. minus[g] - 1 \in Nat
        BY <1>4, <2>1
      <3>2. cnt' \in [Counters -> Nat] /\ minus' \in [Counters -> Nat]
        BY <1>1, <1>5, <2>1, <3>1 DEF Typed
      <3> QED
        BY <1>1, <1>2, <2>1, <3>2 DEF Typed
    <2>6. Within'
      BY <1>1, <1>2, <1>5, <2>2 DEF Within
    <2> QED
      BY <1>2, <2>3, <2>4, <2>5, <2>6 DEF PipeInv, OneFlight
  <1> QED
    BY <1>6, <1>7

\* The programs start in the invariant.
LEMMA InitHolds == Init => PipeInv
  <1> SUFFICES ASSUME Init PROVE PipeInv
    OBVIOUS
  <1>1. PICK junk \in {0, 1} : cnt = [s \in Counters |-> junk]
    BY DEF Init
  <1>2. Typed
    BY <1>1 DEF Init, Typed, DmaLabels, ComputeLabels, Labels, Cores
  <1>3. Within
    BY <1>1, TensixAssumption DEF Init, Within
  <1>4. OneFlight
    BY DEF Init, OneFlight
  <1>5. ASSUME NEW s \in Counters PROVE Ledger(s)
    <2>1. Start(s) \in Nat /\ Mod \in Nat
      BY <1>2, Numbers
    <2>2. ~Seeded(s)
      BY DEF Init, Seeded, Acquirer, Counters, Cores
    <2>3. Given(s) = 0 /\ Taken(s) = 0 /\ minus[s] = 0
      BY DEF Init, Given, Taken, Made, UsedIn, HeldIn, UsedOut, HeldOut, Counters, Cores
    <2>4. Credit(s) = Balance(s)
      BY <2>1, <2>2, <2>3 DEF Init, Credit, Balance
    <2>5. \E q \in Int : Credit(s) = Balance(s) + q * Mod
      <3>1. Balance(s) \in Int
        BY <1>2, Numbers
      <3>2. Credit(s) = Balance(s) + 0 * Mod
        BY <2>1, <2>4, <3>1
      <3> QED
        BY <3>2
    <2> QED
      BY <2>2, <2>3, <2>4, <2>5 DEF Ledger
  <1> QED
    BY <1>2, <1>3, <1>4, <1>5 DEF PipeInv

\* Every step keeps the invariant.
LEMMA NextHolds == PipeInv /\ [Next]_vars => PipeInv'
  <1> SUFFICES ASSUME PipeInv, [Next]_vars PROVE PipeInv'
    OBVIOUS
  <1>1. CASE UNCHANGED vars
    <2>1. \A s \in Counters : Ledger(s)' <=> Ledger(s)
      BY <1>1 DEF vars, Ledger, Credit, Balance, Start, Seeded, Acquirer, Seeds, Given, Taken,
                  Made, UsedIn, HeldIn, UsedOut, HeldOut
    <2> QED
      BY <1>1, <2>1 DEF vars, PipeInv, Typed, Within, OneFlight
  <1>2. ASSUME NEW c \in Cores, Seed(c) PROVE PipeInv'
    BY <1>2, StepSeed
  <1>3. ASSUME NEW c \in {"reader", "writer"}, DmaGate(c) PROVE PipeInv'
    BY <1>3, StepDmaGate
  <1>4. ASSUME NEW c \in {"reader", "writer"}, DmaXfer(c) PROVE PipeInv'
    BY <1>4, StepDmaXfer
  <1>5. ASSUME NEW c \in {"reader", "writer"}, DmaSignal(c) PROVE PipeInv'
    BY <1>5, StepDmaSignal
  <1>6. ASSUME NEW c \in {"reader", "writer"}, NocCompletes(c) PROVE PipeInv'
    BY <1>6, StepNocCompletes
  <1>7. CASE ComputeWait
    BY <1>7, StepCompute DEF ComputeWait
  <1>8. CASE ComputeReserve
    BY <1>8, StepCompute DEF ComputeReserve
  <1>9. CASE ComputePush
    BY <1>9, StepComputePush
  <1>10. CASE ComputePop
    BY <1>10, StepComputePop
  <1>11. ASSUME NEW s \in Counters, ApplyPlus(s) \/ ApplyMinus(s) PROVE PipeInv'
    BY <1>11, StepLands
  <1> QED
    BY <1>1, <1>2, <1>3, <1>4, <1>5, <1>6, <1>7, <1>8, <1>9, <1>10, <1>11
       DEF Next, CoreStep, NocStep

-----------------------------------------------------------------------------
(* What follows for the cores.                                            *)

\* The two counters of each ring add up to its depth, with what the cores
\* hold and what was lost to a late seeding, in the counters' arithmetic: in
\* every launch, whatever the ring depth and the tile count.
THEOREM CreditsSafe == Spec => []CreditsConserved
  <1>1. PipeInv => CreditsConserved
    <2> SUFFICES ASSUME PipeInv PROVE CreditsConserved
      OBVIOUS
    <2>1. Typed /\ Mod \in Nat /\ Mod > 0 /\ Depth \in Nat
      BY TensixAssumption DEF PipeInv
    <2>2. /\ k["reader"] \in Nat /\ k["compute"] \in Nat /\ k["writer"] \in Nat
          /\ HeldIn \in Nat /\ UsedIn \in Nat /\ HeldOut \in Nat /\ UsedOut \in Nat
      BY <2>1 DEF Typed, Cores, HeldIn, UsedIn, HeldOut, UsedOut
    <2>3. Made \in Nat
      BY <2>2 DEF Made
    <2>4. \A s \in Counters : Credit(s) \in Int /\ Balance(s) \in Int /\ lost[s] \in Nat
      BY <2>1, Numbers
    <2>5. \A s \in Counters : \E q \in Int : Credit(s) = Balance(s) + q * Mod
      BY DEF PipeInv, Ledger
    <2>6. \A x \in Int, q \in Int : x = q * Mod => x % Mod = 0
      BY <2>1
    <2>7. (Credit("in_free") + lost["in_free"] + Credit("in_recv") + lost["in_recv"]
              + HeldIn + UsedIn - Depth) % Mod = 0
      <3>1. "in_free" \in Counters /\ "in_recv" \in Counters
        BY DEF Counters
      <3>2. PICK p \in Int : Credit("in_free") = Balance("in_free") + p * Mod
        BY <2>5, <3>1
      <3>3. PICK q \in Int : Credit("in_recv") = Balance("in_recv") + q * Mod
        BY <2>5, <3>1
      <3>4. /\ Balance("in_free") = Depth + k["compute"] - (k["reader"] + HeldIn) - lost["in_free"]
            /\ Balance("in_recv") = 0 + k["reader"] - (k["compute"] + UsedIn) - lost["in_recv"]
        BY DEF Balance, Start, Seeds, Acquirer, Given, Taken
      <3> DEFINE sum == Credit("in_free") + lost["in_free"] + Credit("in_recv") + lost["in_recv"]
                           + HeldIn + UsedIn - Depth
      <3>5. Balance("in_free") + lost["in_free"] + Balance("in_recv") + lost["in_recv"]
               + HeldIn + UsedIn - Depth = 0
        BY <2>1, <2>2, <2>4, <3>1, <3>4
      <3>6. sum = p * Mod + q * Mod
        <4>1. p * Mod \in Int /\ q * Mod \in Int
          BY <2>1
        <4>2. ASSUME NEW u \in Int, NEW v \in Int,
                     Credit("in_free") = Balance("in_free") + u, Credit("in_recv") = Balance("in_recv") + v
              PROVE  sum = u + v
          <5>1. /\ Credit("in_free") \in Int /\ Balance("in_free") \in Int /\ lost["in_free"] \in Int
                /\ Credit("in_recv") \in Int /\ Balance("in_recv") \in Int /\ lost["in_recv"] \in Int
            BY <2>4, <3>1
          <5>2. HeldIn + UsedIn - Depth \in Int
            BY <2>1, <2>2
          <5>3. u + v \in Int
            OBVIOUS
          <5> QED
            BY <2>1, <2>2, <3>5, <4>2, <5>1, <5>2, <5>3
        <4> QED
          BY <3>2, <3>3, <4>1, <4>2
      <3>7. sum = (p + q) * Mod
        BY <2>1, <3>6
      <3>8. sum \in Int /\ p + q \in Int
        BY <2>1, <2>2, <2>4, <3>1
      <3> QED
        BY <2>6, <3>7, <3>8
    <2>8. (Credit("out_free") + lost["out_free"] + Credit("out_recv") + lost["out_recv"]
              + HeldOut + UsedOut - Depth) % Mod = 0
      <3>1. "out_free" \in Counters /\ "out_recv" \in Counters
        BY DEF Counters
      <3>2. PICK p \in Int : Credit("out_free") = Balance("out_free") + p * Mod
        BY <2>5, <3>1
      <3>3. PICK q \in Int : Credit("out_recv") = Balance("out_recv") + q * Mod
        BY <2>5, <3>1
      <3>4. /\ Balance("out_free") = Depth + k["writer"] - (Made + HeldOut) - lost["out_free"]
            /\ Balance("out_recv") = 0 + Made - (k["writer"] + UsedOut) - lost["out_recv"]
        BY DEF Balance, Start, Seeds, Acquirer, Given, Taken
      <3> DEFINE sum == Credit("out_free") + lost["out_free"] + Credit("out_recv") + lost["out_recv"]
                           + HeldOut + UsedOut - Depth
      <3>5. Balance("out_free") + lost["out_free"] + Balance("out_recv") + lost["out_recv"]
               + HeldOut + UsedOut - Depth = 0
        BY <2>1, <2>2, <2>3, <2>4, <3>1, <3>4
      <3>6. sum = p * Mod + q * Mod
        <4>1. p * Mod \in Int /\ q * Mod \in Int
          BY <2>1
        <4>2. ASSUME NEW u \in Int, NEW v \in Int,
                     Credit("out_free") = Balance("out_free") + u, Credit("out_recv") = Balance("out_recv") + v
              PROVE  sum = u + v
          <5>1. /\ Credit("out_free") \in Int /\ Balance("out_free") \in Int /\ lost["out_free"] \in Int
                /\ Credit("out_recv") \in Int /\ Balance("out_recv") \in Int /\ lost["out_recv"] \in Int
            BY <2>4, <3>1
          <5>2. HeldOut + UsedOut - Depth \in Int
            BY <2>1, <2>2
          <5>3. u + v \in Int
            OBVIOUS
          <5> QED
            BY <2>1, <2>2, <3>5, <4>2, <5>1, <5>2, <5>3
        <4> QED
          BY <3>2, <3>3, <4>1, <4>2
      <3>7. sum = (p + q) * Mod
        BY <2>1, <3>6
      <3>8. sum \in Int /\ p + q \in Int
        BY <2>1, <2>2, <2>3, <2>4, <3>1
      <3> QED
        BY <2>6, <3>7, <3>8
    <2> QED
      BY <2>7, <2>8 DEF CreditsConserved
  <1> QED
    BY <1>1, InitHolds, NextHolds, PTL DEF Spec

\* A core that has taken no credit of a counter twice has taken no more than
\* its seed and the signals posted to it.
LEMMA NotOwed ==
  ASSUME PipeInv, NEW s \in Counters, s \notin overdrawn, Seeded(s)
  PROVE  Taken(s) <= Start(s) + Given(s)
  <1>1. /\ cnt[s] \in Nat /\ plus[s] \in Nat /\ minus[s] \in Nat /\ lost[s] \in Nat
        /\ Start(s) \in Nat /\ Given(s) \in Nat /\ Taken(s) \in Nat
    BY Numbers DEF PipeInv
  <1>2. Credit(s) = Balance(s) /\ minus[s] <= cnt[s]
    BY DEF PipeInv, Ledger
  <1> QED
    BY <1>1, <1>2 DEF Credit, Balance

\* Compute works only on tiles that have arrived and the writer sends only
\* tiles that were published, until it takes a credit twice: whatever the
\* ring depth and the tile count, and in whatever order the cores start.
THEOREM ArrivedSafe == Spec => []OnlyArrivedTiles
  <1>1. PipeInv => OnlyArrivedTiles
    <2> SUFFICES ASSUME PipeInv PROVE OnlyArrivedTiles
      OBVIOUS
    <2>1. k["reader"] \in Nat /\ k["compute"] \in Nat /\ k["writer"] \in Nat
      BY DEF PipeInv, Typed, Cores
    <2>2. Made \in Nat
      BY <2>1 DEF Made
    <2>3. ASSUME "in_recv" \notin overdrawn, pc["compute"] \in {"reserve", "math"}
          PROVE  k["compute"] < k["reader"] /\ k["compute"] \notin fly["reader"]
      <3>1. "in_recv" \in Counters /\ Seeded("in_recv")
        BY <2>3 DEF Counters, Seeded, Acquirer
      <3>2. Taken("in_recv") <= Start("in_recv") + Given("in_recv")
        BY <2>3, <3>1, NotOwed
      <3>3. UsedIn = 1
        BY <2>3 DEF UsedIn
      <3>4. k["compute"] + 1 <= 0 + k["reader"]
        BY <3>2, <3>3 DEF Taken, Given, Start, Seeds, Acquirer
      <3>5. fly["reader"] \subseteq {k["reader"]}
        BY DEF PipeInv, OneFlight
      <3> QED
        BY <2>1, <3>4, <3>5
    <2>4. ASSUME "out_recv" \notin overdrawn, pc["writer"] \in {"xfer", "barrier"}
          PROVE  k["writer"] < Made
      <3>1. "out_recv" \in Counters /\ Seeded("out_recv")
        BY <2>4 DEF Counters, Seeded, Acquirer
      <3>2. Taken("out_recv") <= Start("out_recv") + Given("out_recv")
        BY <2>4, <3>1, NotOwed
      <3>3. UsedOut = 1
        BY <2>4 DEF UsedOut
      <3>4. k["writer"] + 1 <= 0 + Made
        BY <3>2, <3>3 DEF Taken, Given, Start, Seeds, Acquirer
      <3> QED
        BY <2>1, <2>2, <3>4
    <2> QED
      BY <2>3, <2>4 DEF OnlyArrivedTiles
  <1> QED
    BY <1>1, InitHolds, NextHolds, PTL DEF Spec

\* No core writes into a ring slot its consumer has not given back, until it
\* takes a credit twice: whatever the ring depth and the tile count, and in
\* whatever order the cores start.
THEOREM SlotsSafe == Spec => []OnlyDrainedSlots
  <1>1. PipeInv => OnlyDrainedSlots
    <2> SUFFICES ASSUME PipeInv PROVE OnlyDrainedSlots
      OBVIOUS
    <2>1. /\ k["reader"] \in Nat /\ k["compute"] \in Nat /\ k["writer"] \in Nat
          /\ Depth \in Nat
      BY TensixAssumption DEF PipeInv, Typed, Cores
    <2>2. ASSUME "in_free" \notin overdrawn, pc["reader"] \in {"xfer", "barrier"}
          PROVE  k["reader"] < k["compute"] + Depth
      <3>1. "in_free" \in Counters /\ Seeded("in_free")
        BY <2>2 DEF Counters, Seeded, Acquirer
      <3>2. Taken("in_free") <= Start("in_free") + Given("in_free")
        BY <2>2, <3>1, NotOwed
      <3>3. HeldIn = 1
        BY <2>2 DEF HeldIn
      <3>4. k["reader"] + 1 <= Depth + k["compute"]
        BY <3>2, <3>3 DEF Taken, Given, Start, Seeds, Acquirer
      <3> QED
        BY <2>1, <3>4
    <2>3. ASSUME "out_free" \notin overdrawn, pc["compute"] = "math"
          PROVE  k["compute"] < k["writer"] + Depth /\ k["compute"] - Depth \notin fly["writer"]
      <3>1. "out_free" \in Counters /\ Seeded("out_free")
        BY <2>3 DEF Counters, Seeded, Acquirer
      <3>2. Taken("out_free") <= Start("out_free") + Given("out_free")
        BY <2>3, <3>1, NotOwed
      <3>3. HeldOut = 1 /\ Made = k["compute"]
        BY <2>1, <2>3 DEF HeldOut, Made
      <3>4. k["compute"] + 1 <= Depth + k["writer"]
        BY <3>2, <3>3 DEF Taken, Given, Start, Seeds, Acquirer
      <3>5. fly["writer"] \subseteq {k["writer"]}
        BY DEF PipeInv, OneFlight
      <3> QED
        BY <2>1, <3>4, <3>5
    <2> QED
      BY <2>2, <2>3 DEF OnlyDrainedSlots
  <1> QED
    BY <1>1, InitHolds, NextHolds, PTL DEF Spec

\* Every variable of the three programs keeps its type in every launch.
THEOREM TypeSafe == Spec => []TypeOK
  <1>1. PipeInv => TypeOK
    <2> SUFFICES ASSUME PipeInv PROVE TypeOK
      OBVIOUS
    <2>1. Typed /\ Within /\ NTiles \in Nat /\ Mod \in Nat
      BY TensixAssumption DEF PipeInv
    <2>2. k \in [Cores -> 0..NTiles]
      BY <2>1 DEF Typed, Within
    <2>3. cnt \in [Counters -> 0..Mod - 1]
      BY <2>1 DEF Typed, Within
    <2>4. \A c \in {"reader", "writer"} : fly[c] \in SUBSET (0..NTiles - 1)
      <3> SUFFICES ASSUME NEW c \in {"reader", "writer"} PROVE fly[c] \in SUBSET (0..NTiles - 1)
        OBVIOUS
      <3>1. fly[c] \subseteq (IF pc[c] = "barrier" THEN {k[c]} ELSE {})
        BY DEF PipeInv, OneFlight
      <3>2. pc[c] = "barrier" => k[c] \in 0..NTiles - 1
        BY <2>1 DEF Typed, Within, Cores
      <3> QED
        BY <3>1, <3>2
    <2>5. fly \in [{"reader", "writer"} -> SUBSET (0..NTiles - 1)]
      BY <2>1, <2>4 DEF Typed
    <2> QED
      BY <2>1, <2>2, <2>3, <2>5 DEF TypeOK, Typed
  <1> QED
    BY <1>1, InitHolds, NextHolds, PTL DEF Spec

-----------------------------------------------------------------------------
(* Refinement: until a credit is taken twice, every step of the emitted   *)
(* programs is a step of the two-ring pipeline or leaves its four pointers *)
(* alone.                                                                  *)

\* A step that publishes or releases a tile is one TilePipe allows.
LEMMA PipeStep == PipeInv /\ [Next]_vars => [overdrawn = {} => Pipe!Next]_(Pipe!vars)
  <1> SUFFICES ASSUME PipeInv, [Next]_vars, overdrawn = {}
               PROVE  Pipe!Next \/ Pipe!vars' = Pipe!vars
    OBVIOUS
  <1>t. /\ NTiles \in Nat /\ Depth \in Nat /\ Within
        /\ k["reader"] \in Nat /\ k["compute"] \in Nat /\ k["writer"] \in Nat
        /\ pc \in [Cores -> Labels] /\ k \in [Cores -> Nat]
    BY TensixAssumption DEF PipeInv, Typed, Cores
  <1>m. Made \in Nat
    BY <1>t DEF Made
  <1>s. ASSUME k' = k, Made' = Made PROVE Pipe!vars' = Pipe!vars
    BY <1>s DEF Pipe!vars
  <1>o. ASSUME NEW s \in Counters, pc[Acquirer(s)] # "seed" PROVE Taken(s) <= Start(s) + Given(s)
    BY <1>o, NotOwed DEF Seeded
  <1>1. CASE UNCHANGED vars
    BY <1>1, <1>s DEF vars, Made
  <1>2. ASSUME NEW c \in Cores, Seed(c) PROVE Pipe!vars' = Pipe!vars
    <2>1. k' = k /\ pc[c] = "seed" /\ \E l \in {"gate", "done"} : pc' = [pc EXCEPT ![c] = l]
      BY <1>2 DEF Seed, LoopHead, Goto
    <2>2. pc'["compute"] = "pop" <=> pc["compute"] = "pop"
      BY <1>t, <2>1 DEF Cores
    <2> QED
      BY <1>s, <2>1, <2>2 DEF Made
  <1>3. ASSUME NEW c \in {"reader", "writer"}, DmaGate(c) \/ DmaXfer(c) PROVE Pipe!vars' = Pipe!vars
    <2>1. k' = k /\ \E l \in {"xfer", "barrier"} : pc' = [pc EXCEPT ![c] = l]
      BY <1>3 DEF DmaGate, DmaXfer, Goto
    <2>2. pc'["compute"] = pc["compute"]
      BY <1>t, <2>1 DEF Cores
    <2> QED
      BY <1>s, <2>1, <2>2 DEF Made
  <1>4. ASSUME NEW c \in {"reader", "writer"}, DmaSignal(c) PROVE Pipe!Next
    <2>1. c \in Cores /\ pc[c] = "barrier" /\ LoopBack(c)
      BY <1>4 DEF DmaSignal, Cores
    <2>2. /\ k'[c] = k[c] + 1 /\ \A d \in Cores \ {c} : k'[d] = k[d] /\ pc'[d] = pc[d]
      BY <2>1, Looped
    <2>3. /\ pc'["compute"] = pc["compute"] /\ k'["compute"] = k["compute"] /\ Made' = Made
      BY <2>2 DEF Made, Cores
    <2>4. k[c] < NTiles
      BY <1>t, <2>1 DEF Within
    <2>5. CASE c = "reader"
      <3>1. HeldIn = 1 /\ pc[Acquirer("in_free")] # "seed" /\ "in_free" \in Counters
        BY <2>1, <2>5 DEF HeldIn, Acquirer, Counters
      <3>2. k["reader"] + 1 <= Depth + k["compute"]
        BY <1>o, <3>1 DEF Taken, Given, Start, Seeds, Acquirer
      <3>3. k["reader"] < k["compute"] + Depth
        BY <1>t, <3>2
      <3>4. k'["reader"] = k["reader"] + 1 /\ k'["writer"] = k["writer"]
        BY <2>2, <2>5 DEF Cores
      <3>5. Pipe!Fill
        BY <2>3, <2>4, <2>5, <3>3, <3>4 DEF Pipe!Fill
      <3> QED
        BY <3>5 DEF Pipe!Next
    <2>6. CASE c = "writer"
      <3>1. UsedOut = 1 /\ pc[Acquirer("out_recv")] # "seed" /\ "out_recv" \in Counters
        BY <2>1, <2>6 DEF UsedOut, Acquirer, Counters
      <3>2. k["writer"] + 1 <= 0 + Made
        BY <1>o, <3>1 DEF Taken, Given, Start, Seeds, Acquirer
      <3>3. k["writer"] < Made
        BY <1>t, <1>m, <3>2
      <3>4. k'["writer"] = k["writer"] + 1 /\ k'["reader"] = k["reader"]
        BY <2>2, <2>6 DEF Cores
      <3>5. Pipe!Drain
        BY <2>3, <3>3, <3>4 DEF Pipe!Drain
      <3> QED
        BY <3>5 DEF Pipe!Next
    <2> QED
      BY <2>5, <2>6
  <1>5. ASSUME NEW c \in {"reader", "writer"}, NocCompletes(c) PROVE Pipe!vars' = Pipe!vars
    BY <1>5, <1>s DEF NocCompletes, Made
  <1>6. CASE ComputeWait \/ ComputeReserve
    <2>1. /\ k' = k /\ pc["compute"] # "pop"
          /\ \E l \in {"reserve", "math"} : pc' = [pc EXCEPT !["compute"] = l]
      BY <1>6 DEF ComputeWait, ComputeReserve, Goto
    <2>2. pc'["compute"] # "pop"
      BY <1>t, <2>1 DEF Cores
    <2> QED
      BY <1>s, <2>1, <2>2 DEF Made
  <1>7. CASE ComputePush
    <2>1. pc["compute"] = "math" /\ pc' = [pc EXCEPT !["compute"] = "pop"] /\ k' = k
      BY <1>7 DEF ComputePush, Goto
    <2>2. pc'["compute"] = "pop" /\ "compute" \in Cores
      BY <1>t, <2>1 DEF Cores
    <2>3. /\ UsedIn = 1 /\ HeldOut = 1 /\ Made = k["compute"] /\ Made' = k["compute"] + 1
          /\ pc[Acquirer("in_recv")] # "seed" /\ "in_recv" \in Counters
          /\ pc[Acquirer("out_free")] # "seed" /\ "out_free" \in Counters
      BY <1>t, <2>1, <2>2 DEF UsedIn, HeldOut, Made, Acquirer, Counters
    <2>4. k["compute"] + 1 <= 0 + k["reader"]
      BY <1>o, <2>3 DEF Taken, Given, Start, Seeds, Acquirer
    <2>5. Made + 1 <= Depth + k["writer"]
      BY <1>o, <2>3 DEF Taken, Given, Start, Seeds, Acquirer
    <2>6. Made < k["reader"] /\ Made < k["writer"] + Depth
      BY <1>t, <2>3, <2>4, <2>5
    <2>7. Pipe!Make
      BY <2>1, <2>3, <2>6 DEF Pipe!Make
    <2> QED
      BY <2>7 DEF Pipe!Next
  <1>8. CASE ComputePop
    <2>1. "compute" \in Cores /\ pc["compute"] = "pop" /\ LoopBack("compute")
      BY <1>8 DEF ComputePop, Cores
    <2>2. /\ pc'["compute"] \in {"gate", "done"} /\ k'["compute"] = k["compute"] + 1
          /\ k'["reader"] = k["reader"] /\ k'["writer"] = k["writer"]
      BY <2>1, Looped DEF Cores
    <2>3. Made = k["compute"] + 1 /\ Made' = k["compute"] + 1
      BY <1>t, <2>1, <2>2 DEF Made
    <2>4. Pipe!Release
      BY <1>t, <2>2, <2>3 DEF Pipe!Release
    <2> QED
      BY <2>4 DEF Pipe!Next
  <1>9. ASSUME NEW s \in Counters, ApplyPlus(s) \/ ApplyMinus(s) PROVE Pipe!vars' = Pipe!vars
    BY <1>9, <1>s DEF ApplyPlus, ApplyMinus, Made
  <1> QED
    BY <1>1, <1>2, <1>3, <1>4, <1>5, <1>6, <1>7, <1>8, <1>9 DEF Next, CoreStep, NocStep

\* The three emitted programs implement the bounded two-ring pipeline until a
\* credit is taken twice, for every ring depth and tile count.
THEOREM PipeRefined == Spec => ImplementsPipe
  <1>1. Init => Pipe!Init
    BY DEF Init, Pipe!Init, Made, Cores
  <1> QED
    BY <1>1, InitHolds, NextHolds, PipeStep, PTL DEF Spec, ImplementsPipe
=============================================================================
