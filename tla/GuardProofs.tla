---------------------------- MODULE GuardProofs -----------------------------
(***************************************************************************)
(* Proofs about Guard, for any number of processes and slots and any       *)
(* threshold, window and interval: its types, what guard_note_oops         *)
(* promises of a storm of oopses and of the table, and that mode 2 panics  *)
(* in time.                                                                *)
(***************************************************************************)
EXTENDS Guard, SequenceTheorems, FiniteSetTheorems, WellFoundedInduction, TLAPS

\* A used slot has a window that has begun; an unused one looks like the oldest.
Windows ==
  \A s \in Slots : /\ guard_oops[s].window_start <= now
                   /\ guard_oops[s].pid = 0 => guard_oops[s].window_start = 0
                   /\ guard_oops[s].pid # 0 => guard_oops[s].window_start >= 1

\* A process has one record at most.
OneRecord ==
  \A s, t \in Slots :
    guard_oops[s].pid = guard_oops[t].pid /\ guard_oops[s].pid # 0 => s = t

\* What lies in burst without an alarm is known to the table.
Remembered == \A p \in Pids : ~IsKnown(p) => burst[p] = << >>

\* The times b of the oopses of a process and its record r: the last r.count of
\* them lie in the present window, those before it in earlier windows, and of
\* those no more than GUARD_OOPS_THRESH - 1 in the length of a window before it.
Layers(b, r) ==
  /\ r.count <= Len(b)
  /\ \A i \in 1 .. Len(b) :
       /\ i > Len(b) - r.count =>
            /\ r.window_start <= b[i]
            /\ b[i] <= r.window_start + GUARD_OOPS_WINDOW
       /\ i <= Len(b) - r.count => b[i] < r.window_start
       /\ i <= Len(b) - r.count - (GUARD_OOPS_THRESH - 1) =>
            b[i] + GUARD_OOPS_WINDOW < r.window_start

Layered ==
  \A s \in Slots : guard_oops[s].pid # 0 =>
    Layers(burst[guard_oops[s].pid], guard_oops[s])

\* The timer that will find the sentinel changed was set before it was, or at once.
Exposure ==
  ~panicked => /\ exposed # Never <=> MustPanic
               /\ exposed # Never => guard_timer <= exposed + GUARD_CRC_INTERVAL

Inv == TypeOK /\ Windows /\ OneRecord /\ Remembered /\ Layered /\ Exposure

----------------------------------------------------------------------------
(* The slot of a process *)

\* A set of natural numbers has a least one.
LEMMA Least ==
  ASSUME NEW T \in SUBSET Nat, T # {}
  PROVE  \E x \in T : \A y \in T : x <= y
  <1>1. PICK x \in T : \A y \in T : ~ (<<y, x>> \in OpToRel(<, Nat))
    BY WFMin, NatLessThanWellFounded, Zenon
  <1>2. \A y \in T : ~(y < x)
    BY <1>1 DEF OpToRel
  <1>. QED  BY <1>2

\* Oldest is a slot, and no window began before its own.
LEMMA OldestSlot ==
  ASSUME TypeOK
  PROVE  /\ Oldest \in Slots
         /\ \A t \in Slots : guard_oops[Oldest].window_start <= guard_oops[t].window_start
  <1>. DEFINE w(s) == guard_oops[s].window_start
              W == {w(s) : s \in Slots}
  <1>1. \A s \in Slots : w(s) \in Nat
    BY DEF TypeOK, Record
  <1>2. 1 \in Slots
    BY GuardAssumption DEF Slots
  <1>3. W \in SUBSET Nat /\ W # {}
    BY <1>1, <1>2
  <1>4. PICK m \in W : \A x \in W : m <= x
    BY <1>3, Least
  <1>. DEFINE S == {s \in Slots : w(s) = m}
  <1>5. S \in SUBSET Nat /\ S # {}
    BY <1>4 DEF Slots
  <1>6. PICK s \in S : \A t \in S : s <= t
    BY <1>5, Least
  <1>7. s \in Slots /\ \A t \in Slots : w(s) < w(t) \/ (w(s) = w(t) /\ s <= t)
    <2>1. s \in Slots /\ w(s) = m
      BY <1>6
    <2>2. ASSUME NEW t \in Slots
          PROVE  w(s) < w(t) \/ (w(s) = w(t) /\ s <= t)
      <3>1. w(t) \in W
        OBVIOUS
      <3>2. m <= w(t)
        BY <1>4, <3>1
      <3>3. w(t) = m => s <= t
        BY <1>6
      <3>. HIDE DEF w, W
      <3>. QED  BY <1>1, <2>1, <3>2, <3>3
    <2>. QED  BY <2>1, <2>2
  <1>8. /\ Oldest \in Slots
        /\ \A t \in Slots : w(Oldest) < w(t) \/ (w(Oldest) = w(t) /\ Oldest <= t)
    BY <1>7, Zenon DEF Oldest
  <1>. QED  BY <1>1, <1>8

\* guard_note_oops works on the slot of the process if it has one, and otherwise on
\* one with the oldest window.
LEMMA SlotIsOwnOrOldest ==
  ASSUME TypeOK, NEW p \in Pids
  PROVE  /\ SlotOf(p) \in Slots
         /\ IsKnown(p) => guard_oops[SlotOf(p)].pid = p
         /\ ~IsKnown(p) => \A t \in Slots :
              guard_oops[SlotOf(p)].window_start <= guard_oops[t].window_start
  <1>1. CASE IsKnown(p)
    <2>1. SlotOf(p) = CHOOSE s \in Slots : guard_oops[s].pid = p
      BY <1>1 DEF SlotOf
    <2>2. \E s \in Slots : guard_oops[s].pid = p
      BY <1>1 DEF IsKnown
    <2>3. SlotOf(p) \in Slots /\ guard_oops[SlotOf(p)].pid = p
      BY <2>1, <2>2, Zenon
    <2>. QED  BY <1>1, <2>3
  <1>2. CASE ~IsKnown(p)
    <2>1. SlotOf(p) = Oldest
      BY <1>2 DEF SlotOf
    <2>. QED  BY <1>2, <2>1, OldestSlot
  <1>. QED  BY <1>1, <1>2

----------------------------------------------------------------------------
(* The record of a process *)

\* The record that an oops is counted in is one of the process, with a window that
\* is not over; it is a new one, or the one of its slot.
LEMMA CountingRecord ==
  ASSUME TypeOK, Windows, NEW p \in Pids
  PROVE  /\ Counting(p) \in Record
         /\ Counting(p).pid = p
         /\ Counting(p).window_start \in 1 .. now
         /\ now - Counting(p).window_start <= GUARD_OOPS_WINDOW
         /\ \/ Counting(p) = [pid |-> p, count |-> 0, window_start |-> now]
            \/ Counting(p) = guard_oops[SlotOf(p)] /\ IsKnown(p)
  <1>. DEFINE r == guard_oops[SlotOf(p)]
  <1>1. SlotOf(p) \in Slots /\ r \in Record /\ p # 0
    BY SlotIsOwnOrOldest, GuardAssumption DEF TypeOK
  <1>2. CASE r.pid # p \/ IsOver(r)
    <2>1. Counting(p) = [pid |-> p, count |-> 0, window_start |-> now]
      BY <1>2 DEF Counting
    <2>. QED  BY <2>1, GuardAssumption DEF TypeOK, Record
  <1>3. CASE ~(r.pid # p \/ IsOver(r))
    <2>1. Counting(p) = r /\ IsKnown(p)
      BY <1>1, <1>3 DEF Counting, IsKnown
    <2>2. r.window_start \in 1 .. now
      BY <1>1, <1>3 DEF Windows, TypeOK, Record
    <2>3. now - r.window_start <= GUARD_OOPS_WINDOW
      BY <1>3, <2>2, GuardAssumption DEF IsOver, TypeOK
    <2>. QED  BY <1>1, <1>3, <2>1, <2>2, <2>3
  <1>. QED  BY <1>2, <1>3

\* The layers are kept as a new window begins after the end of the last one...
LEMMA LayersTurn ==
  ASSUME NEW b \in Seq(Nat), NEW r \in Record, NEW q \in Record,
         Layers(b, r), q.count = 0,
         q.window_start > r.window_start + GUARD_OOPS_WINDOW
  PROVE  Layers(b, q)
  <1>1. /\ r.count \in 0 .. GUARD_OOPS_THRESH - 1
        /\ r.window_start \in Nat /\ q.window_start \in Nat
        /\ GUARD_OOPS_WINDOW \in Nat /\ GUARD_OOPS_THRESH \in Nat
    BY GuardAssumption DEF Record
  <1>2. Len(b) \in Nat /\ \A i \in 1 .. Len(b) : b[i] \in Nat
    BY LenProperties, ElementOfSeq
  <1>3. ASSUME NEW i \in 1 .. Len(b)
        PROVE  /\ b[i] < q.window_start
               /\ i <= Len(b) - (GUARD_OOPS_THRESH - 1) =>
                    b[i] + GUARD_OOPS_WINDOW < q.window_start
    <2>1. CASE i > Len(b) - r.count
      <3>1. b[i] <= r.window_start + GUARD_OOPS_WINDOW
        BY <2>1 DEF Layers
      <3>2. b[i] < q.window_start
        BY <1>1, <1>2, <3>1
      <3>3. ~(i <= Len(b) - (GUARD_OOPS_THRESH - 1))
        BY <1>1, <1>2, <2>1
      <3>. QED  BY <3>2, <3>3
    <2>2. CASE i <= Len(b) - r.count
      <3>1. b[i] < r.window_start
        BY <2>2 DEF Layers
      <3>2. b[i] + GUARD_OOPS_WINDOW < q.window_start
        BY <1>1, <1>2, <3>1
      <3>3. b[i] < q.window_start
        BY <1>1, <1>2, <3>2
      <3>. QED  BY <3>2, <3>3
    <2>. QED  BY <1>1, <1>2, <2>1, <2>2
  <1>. QED  BY <1>1, <1>2, <1>3 DEF Layers

\* ...and as an oops is counted in the present one.
LEMMA LayersGrow ==
  ASSUME NEW b \in Seq(Nat), NEW r \in Record, NEW q, NEW t \in Nat,
         Layers(b, r), q.count = r.count + 1, q.window_start = r.window_start,
         r.window_start <= t, t <= r.window_start + GUARD_OOPS_WINDOW
  PROVE  Layers(Append(b, t), q)
  <1>. DEFINE c == Append(b, t)
  <1>1. /\ r.count \in 0 .. GUARD_OOPS_THRESH - 1
        /\ r.window_start \in Nat
        /\ GUARD_OOPS_WINDOW \in Nat /\ GUARD_OOPS_THRESH \in Nat
    BY GuardAssumption DEF Record
  <1>2. Len(b) \in Nat /\ \A i \in 1 .. Len(b) : b[i] \in Nat
    BY LenProperties, ElementOfSeq
  <1>3. Len(c) = Len(b) + 1 /\ c[Len(b) + 1] = t
        /\ \A i \in 1 .. Len(b) : c[i] = b[i]
    BY AppendProperties
  <1>. HIDE DEF c
  <1>4. ASSUME NEW i \in 1 .. Len(c)
        PROVE  /\ i > Len(c) - q.count =>
                    /\ q.window_start <= c[i]
                    /\ c[i] <= q.window_start + GUARD_OOPS_WINDOW
               /\ i <= Len(c) - q.count => c[i] < q.window_start
               /\ i <= Len(c) - q.count - (GUARD_OOPS_THRESH - 1) =>
                    c[i] + GUARD_OOPS_WINDOW < q.window_start
    <2>1. CASE i = Len(b) + 1
      BY <1>1, <1>2, <1>3, <2>1
    <2>2. CASE i \in 1 .. Len(b)
      <3>1. c[i] = b[i]
        BY <1>3, <2>2
      <3>2. Len(c) - q.count = Len(b) - r.count
        BY <1>1, <1>2, <1>3
      <3>. QED  BY <2>2, <3>1, <3>2 DEF Layers
    <2>. QED  BY <1>2, <1>3, <2>1, <2>2
  <1>5. q.count <= Len(c)
    BY <1>1, <1>2, <1>3 DEF Layers
  <1>. QED  BY <1>4, <1>5 DEF Layers, c

\* The oopses of a process are layered by the record that the next is counted in.
LEMMA CountingLayers ==
  ASSUME Inv, NEW p \in Pids
  PROVE  burst[p] \in Seq(Nat) /\ Layers(burst[p], Counting(p))
  <1>. DEFINE r == guard_oops[SlotOf(p)]
              new == [pid |-> p, count |-> 0, window_start |-> now]
  <1>1. burst[p] \in Seq(Nat)
    <2>1. burst[p] \in Seq(1 .. now)
      BY DEF Inv, TypeOK
    <2>. QED  BY <2>1 DEF Inv, TypeOK
  <1>2. SlotOf(p) \in Slots /\ r \in Record /\ p # 0
    BY SlotIsOwnOrOldest, GuardAssumption DEF Inv, TypeOK
  <1>3. CASE ~IsKnown(p)
    <2>1. burst[p] = << >>
      BY <1>3 DEF Inv, Remembered
    <2>2. Counting(p) = new
      BY <1>3, CountingRecord DEF Inv
    <2>. QED  BY <1>1, <2>1, <2>2, EmptySeq DEF Layers
  <1>4. CASE IsKnown(p)
    <2>1. r.pid = p
      BY <1>4, SlotIsOwnOrOldest DEF Inv
    <2>2. Layers(burst[p], r)
      BY <1>2, <2>1 DEF Inv, Layered
    <2>3. CASE ~IsOver(r)
      BY <1>1, <2>1, <2>2, <2>3 DEF Counting
    <2>4. CASE IsOver(r)
      <3>1. Counting(p) = new
        BY <2>4 DEF Counting
      <3>2. new \in Record
        BY <3>1, CountingRecord DEF Inv
      <3>3. now > r.window_start + GUARD_OOPS_WINDOW
        BY <1>2, <2>4, GuardAssumption DEF IsOver, Inv, TypeOK, Record
      <3>4. Layers(burst[p], new)
        BY <1>1, <1>2, <2>2, <3>2, <3>3, LayersTurn
      <3>. QED  BY <1>1, <3>1, <3>4
    <2>. QED  BY <2>3, <2>4
  <1>. QED  BY <1>3, <1>4

----------------------------------------------------------------------------
(* The invariant *)

\* Inv holds when the guard starts: an empty table and an intact sentinel.
LEMMA InvInit == Init => Inv
  <1>. SUFFICES ASSUME Init PROVE Inv
    OBVIOUS
  <1>. USE GuardAssumption
  <1>1. TypeOK
    <2>1. guard_oops \in [Slots -> Record]
      BY DEF Init, Record
    <2>2. burst \in [Pids -> Seq(1 .. now)]
      BY EmptySeq DEF Init
    <2>3. guard_rodata_check \in BOOLEAN /\ guard_oops_watch \in BOOLEAN /\ panicked \in BOOLEAN
      BY Zenon DEF Init
    <2>4. /\ now \in 1 .. MaxTime
          /\ killed \subseteq Pids
          /\ guard_mode \in 0 .. 2
          /\ sentinel \in Contents /\ guard_rodata_base_crc \in Contents
          /\ guard_timer \in now .. now + GUARD_CRC_INTERVAL
          /\ exposed \in {Never} \cup 1 .. now
      BY DEF Init
    <2>. QED  BY <2>1, <2>2, <2>3, <2>4 DEF TypeOK
  <1>2. \A s \in Slots : guard_oops[s].pid = 0 /\ guard_oops[s].window_start = 0
    BY DEF Init
  <1>3. Windows /\ OneRecord /\ Layered
    BY <1>2 DEF Init, Windows, OneRecord, Layered
  <1>4. Remembered /\ Exposure
    BY DEF Init, Remembered, Exposure, MustPanic
  <1>. QED  BY <1>1, <1>3, <1>4 DEF Inv

\* A step that leaves the table, the clock and the processes alone keeps what is
\* said of them.
LEMMA TableKept ==
  ASSUME Windows /\ OneRecord /\ Remembered /\ Layered, UNCHANGED <<now, guard_oops, burst>>
  PROVE  (Windows /\ OneRecord /\ Remembered /\ Layered)'
  BY DEF Windows, OneRecord, Remembered, IsKnown, Layered, Layers

\* What an oops leaves in the table.
LEMMA OopsTable ==
  ASSUME Inv, NEW p \in Pids, Oops(p)
  PROVE  (Windows /\ OneRecord /\ Remembered /\ Layered)'
         /\ guard_oops' \in [Slots -> Record]
         /\ burst' \in [Pids -> Seq(1 .. now)]
  <1>. USE GuardAssumption
  <1>. DEFINE k == SlotOf(p)
              c == Counting(p)
              r == [c EXCEPT !.count = IF IsStorm(p) THEN 0 ELSE @ + 1]
              old == guard_oops[k].pid
  <1>1. /\ k \in Slots /\ p # 0 /\ now \in 1 .. MaxTime
        /\ guard_oops \in [Slots -> Record]
        /\ burst \in [Pids -> Seq(1 .. now)]
        /\ IsKnown(p) => old = p
    BY SlotIsOwnOrOldest DEF Inv, TypeOK
  <1>2. /\ c \in Record /\ c.pid = p
        /\ c.window_start \in 1 .. now
        /\ now - c.window_start <= GUARD_OOPS_WINDOW
    BY CountingRecord DEF Inv
  <1>3. /\ guard_oops' = [guard_oops EXCEPT ![k] = r]
        /\ now' = now
        /\ burst' = [q \in Pids |->
             CASE q = p -> IF IsStorm(p) THEN << >> ELSE Append(burst[p], now)
               [] q # p /\ q = old -> << >>
               [] OTHER -> burst[q]]
    BY DEF Oops, NoteOops
  <1>4. /\ r \in Record /\ r.pid = p /\ r.window_start = c.window_start
        /\ r.count = IF IsStorm(p) THEN 0 ELSE c.count + 1
    BY <1>2 DEF IsStorm, Record
  <1>5. burst'[p] = IF IsStorm(p) THEN << >> ELSE Append(burst[p], now)
    BY <1>3
  <1>6. \A q \in Pids : q # p => burst'[q] = IF q = old THEN << >> ELSE burst[q]
    BY <1>3
  <1>. HIDE DEF k, c, r, old
  <1>7. /\ guard_oops'[k] = r
        /\ \A s \in Slots : s # k => guard_oops'[s] = guard_oops[s]
    BY <1>1, <1>3
  <1>8. guard_oops' \in [Slots -> Record]
    BY <1>1, <1>3, <1>4
  <1>9. burst' \in [Pids -> Seq(1 .. now)]
    <2>1. Append(burst[p], now) \in Seq(1 .. now) /\ << >> \in Seq(1 .. now)
      BY <1>1, AppendProperties, EmptySeq
    <2>2. \A q \in Pids : burst'[q] \in Seq(1 .. now)
      BY <1>1, <1>5, <1>6, <2>1
    <2>3. burst' = [q \in Pids |-> burst'[q]]
      BY <1>3, Zenon
    <2>. QED  BY <2>2, <2>3
  <1>10. Windows'
    BY <1>1, <1>2, <1>3, <1>4, <1>7 DEF Inv, Windows
  <1>11. \A s \in Slots : s # k => guard_oops[s].pid # p
    BY <1>1 DEF Inv, OneRecord, IsKnown, old
  <1>12. OneRecord'
    BY <1>4, <1>7, <1>11 DEF Inv, OneRecord
  <1>13. Remembered'
    <2>. SUFFICES ASSUME NEW q \in Pids, ~IsKnown(q)'
                  PROVE  burst'[q] = << >>
      BY DEF Remembered
    <2>1. q # p
      BY <1>1, <1>4, <1>7 DEF IsKnown
    <2>2. q = old \/ ~IsKnown(q)
      BY <1>7 DEF IsKnown, old
    <2>. QED  BY <1>6, <2>1, <2>2 DEF Inv, Remembered
  <1>14. Layered'
    <2>. SUFFICES ASSUME NEW s \in Slots, guard_oops'[s].pid # 0
                  PROVE  Layers(burst'[guard_oops'[s].pid], guard_oops'[s])
      BY DEF Layered, Layers
    <2>1. CASE s = k
      <3>1. burst[p] \in Seq(Nat) /\ Layers(burst[p], c)
        BY CountingLayers DEF c
      <3>2. CASE IsStorm(p)
        <4>1. burst'[p] = << >> /\ r.count = 0
          BY <1>4, <1>5, <3>2
        <4>2. Layers(<< >>, r)
          BY <4>1, EmptySeq DEF Layers
        <4>. QED  BY <1>4, <1>7, <2>1, <4>1, <4>2
      <3>3. CASE ~IsStorm(p)
        <4>1. burst'[p] = Append(burst[p], now) /\ r.count = c.count + 1
          BY <1>4, <1>5, <3>3
        <4>2. c.window_start <= now /\ now <= c.window_start + GUARD_OOPS_WINDOW /\ now \in Nat
          BY <1>1, <1>2
        <4>3. Layers(Append(burst[p], now), r)
          BY <1>2, <1>4, <3>1, <4>1, <4>2, LayersGrow
        <4>. QED  BY <1>4, <1>7, <2>1, <4>1, <4>3
      <3>. QED  BY <3>2, <3>3
    <2>2. CASE s # k
      <3>1. guard_oops'[s] = guard_oops[s] /\ guard_oops[s].pid # p
        BY <1>7, <1>11, <2>2
      <3>2. guard_oops[s].pid # old /\ guard_oops[s].pid \in Pids
        BY <1>1, <2>2, <3>1 DEF Inv, OneRecord, Record, old
      <3>3. burst'[guard_oops[s].pid] = burst[guard_oops[s].pid]
        BY <1>6, <3>1, <3>2
      <3>. QED  BY <3>1, <3>3 DEF Inv, Layered
    <2>. QED  BY <2>1, <2>2
  <1>. QED  BY <1>8, <1>9, <1>10, <1>12, <1>13, <1>14

\* Every step of the kernel, the guard and the administrator keeps Inv.
LEMMA InvStep == Inv /\ [Next]_vars => Inv'
  <1>. SUFFICES ASSUME Inv, [Next]_vars PROVE Inv'
    OBVIOUS
  <1>. USE GuardAssumption
  <1>1. ASSUME NEW p \in Pids, Oops(p) PROVE Inv'
    <2>1. /\ (Windows /\ OneRecord /\ Remembered /\ Layered)'
          /\ guard_oops' \in [Slots -> Record]
          /\ burst' \in [Pids -> Seq(1 .. now)]
      BY <1>1, OopsTable
    <2>2. UNCHANGED <<now, switches, integrity, exposed>>
      BY <1>1 DEF Oops
    <2>3. killed' \subseteq Pids
      BY <1>1 DEF Oops, NoteOops, Inv, TypeOK
    <2>4. TypeOK'
      BY <2>1, <2>2, <2>3 DEF Inv, TypeOK, switches, integrity
    <2>5. Exposure'
      BY <2>2 DEF Inv, Exposure, MustPanic, switches, integrity
    <2>. QED  BY <2>1, <2>4, <2>5 DEF Inv
  <1>2. ASSUME NEW p \in Pids, Exit(p) PROVE Inv'
    <2>1. (Windows /\ OneRecord /\ Remembered /\ Layered)'
      BY <1>2, TableKept DEF Exit, Inv
    <2>2. TypeOK'
      BY <1>2 DEF Exit, Inv, TypeOK, switches, integrity
    <2>3. Exposure'
      BY <1>2 DEF Exit, Inv, Exposure, MustPanic, switches, integrity
    <2>. QED  BY <2>1, <2>2, <2>3 DEF Inv
  <1>3. CASE TimerFn
    <2>1. (Windows /\ OneRecord /\ Remembered /\ Layered)'
      BY <1>3, TableKept DEF TimerFn, Inv, watch
    <2>2. panicked' \in BOOLEAN
      BY <1>3, Zenon DEF TimerFn
    <2>3. guard_timer' \in now .. now + GUARD_CRC_INTERVAL
      BY <1>3 DEF TimerFn, Inv, TypeOK
    <2>4. TypeOK'
      BY <1>3, <2>2, <2>3 DEF TimerFn, Inv, TypeOK, watch, switches
    <2>5. Exposure'
      <3>. SUFFICES ASSUME ~panicked' PROVE Exposure'
        BY DEF Exposure
      <3>1. ~(Tampered /\ guard_mode >= 2)
        BY <1>3, Zenon DEF TimerFn
      <3>2. ~MustPanic
        BY <3>1 DEF Tampered, MustPanic
      <3>3. exposed = Never /\ exposed' = Never
        BY <1>3, <3>2 DEF TimerFn, Inv, Exposure
      <3>4. ~MustPanic'
        BY <1>3, <3>2 DEF TimerFn, MustPanic, switches
      <3>. QED  BY <3>3, <3>4 DEF Exposure
    <2>. QED  BY <2>1, <2>4, <2>5 DEF Inv
  <1>4. ASSUME NoteExposure, ~panicked, UNCHANGED <<now, guard_timer, panicked>>
        PROVE  exposed' \in {Never} \cup 1 .. now /\ Exposure'
    <2>1. CASE ~MustPanic'
      <3>1. exposed' = Never
        BY <1>4, <2>1 DEF NoteExposure
      <3>. QED  BY <2>1, <3>1 DEF Exposure
    <2>2. CASE MustPanic' /\ MustPanic
      <3>1. exposed' = exposed
        BY <1>4, <2>2 DEF NoteExposure
      <3>2. exposed # Never /\ guard_timer <= exposed + GUARD_CRC_INTERVAL
        BY <1>4, <2>2 DEF Inv, Exposure
      <3>3. Exposure'
        BY <1>4, <2>2, <3>1, <3>2 DEF Exposure
      <3>. QED  BY <3>1, <3>3 DEF Inv, TypeOK
    <2>3. CASE MustPanic' /\ ~MustPanic
      <3>1. exposed' = now
        BY <1>4, <2>3 DEF NoteExposure
      <3>2. now \in 1 .. now /\ now # Never /\ guard_timer <= now + GUARD_CRC_INTERVAL
        BY DEF Inv, TypeOK, Never
      <3>3. Exposure'
        BY <1>4, <2>3, <3>1, <3>2 DEF Exposure, Never
      <3>. QED  BY <3>1, <3>2, <3>3
    <2>. QED  BY <2>1, <2>2, <2>3
  <1>5. CASE Overwrite
    <2>1. (Windows /\ OneRecord /\ Remembered /\ Layered)'
      BY <1>5, TableKept DEF Overwrite, Inv, watch
    <2>2. exposed' \in {Never} \cup 1 .. now /\ Exposure'
      BY <1>4, <1>5 DEF Overwrite
    <2>3. TypeOK'
      BY <1>5, <2>2 DEF Overwrite, Inv, TypeOK, watch, switches
    <2>. QED  BY <2>1, <2>2, <2>3 DEF Inv
  <1>6. CASE WriteSysctl
    <2>1. (Windows /\ OneRecord /\ Remembered /\ Layered)'
      BY <1>6, TableKept DEF WriteSysctl, Inv, watch
    <2>2. exposed' \in {Never} \cup 1 .. now /\ Exposure'
      BY <1>4, <1>6 DEF WriteSysctl, integrity
    <2>3. /\ guard_mode' \in 0 .. 2
          /\ guard_rodata_check' \in BOOLEAN /\ guard_oops_watch' \in BOOLEAN
      BY <1>6, Zenon DEF WriteSysctl, Inv, TypeOK
    <2>4. TypeOK'
      BY <1>6, <2>2, <2>3 DEF WriteSysctl, Inv, TypeOK, watch, integrity
    <2>. QED  BY <2>1, <2>2, <2>4 DEF Inv
  <1>7. CASE Tick
    <2>1. UNCHANGED <<guard_oops, burst>>
      BY <1>7 DEF Tick, watch
    <2>2. /\ now' \in 1 .. MaxTime /\ now' >= now
          /\ guard_timer' \in now' .. now' + GUARD_CRC_INTERVAL
      BY <1>7 DEF Tick, Inv, TypeOK, integrity
    <2>3. Windows'
      BY <2>1, <2>2 DEF Inv, TypeOK, Windows, Record
    <2>4. (OneRecord /\ Remembered /\ Layered)'
      BY <2>1 DEF Inv, OneRecord, Remembered, IsKnown, Layered, Layers
    <2>5. burst' \in [Pids -> Seq(1 .. now')]
      <3>1. 1 .. now \subseteq 1 .. now'
        BY <2>2 DEF Inv, TypeOK
      <3>2. \A q \in Pids : burst[q] \in Seq(1 .. now')
        <4>. SUFFICES ASSUME NEW q \in Pids PROVE burst[q] \in Seq(1 .. now')
          OBVIOUS
        <4>1. burst[q] \in Seq(1 .. now)
          BY DEF Inv, TypeOK
        <4>. QED  BY <3>1, <4>1, SeqMonotonic
      <3>. QED  BY <2>1, <3>2 DEF Inv, TypeOK
    <2>6. exposed' \in {Never} \cup 1 .. now'
      BY <1>7, <2>2 DEF Tick, Inv, TypeOK
    <2>7. TypeOK'
      BY <1>7, <2>2, <2>5, <2>6 DEF Tick, Inv, TypeOK, watch, switches, integrity
    <2>8. Exposure'
      BY <1>7 DEF Tick, Inv, Exposure, MustPanic, switches, integrity
    <2>. QED  BY <2>3, <2>4, <2>7, <2>8 DEF Inv
  <1>8. CASE UNCHANGED vars
    <2>1. (Windows /\ OneRecord /\ Remembered /\ Layered)'
      BY <1>8, TableKept DEF vars, Inv, watch
    <2>2. TypeOK'
      BY <1>8 DEF vars, Inv, TypeOK, watch, switches, integrity
    <2>3. Exposure'
      BY <1>8 DEF vars, Inv, Exposure, MustPanic, switches, integrity
    <2>. QED  BY <2>1, <2>2, <2>3 DEF Inv
  <1>. QED  BY <1>1, <1>2, <1>3, <1>5, <1>6, <1>7, <1>8 DEF Next

\* Inv holds in every reachable state.
LEMMA Invariance == Spec => []Inv
  BY InvInit, InvStep, PTL DEF Spec

----------------------------------------------------------------------------
(* Counting the oopses of the last window of time *)

\* All that are counted in a window that is not over are recent, and no more than
\* GUARD_OOPS_THRESH - 1 others are.
LEMMA RecentBounds ==
  ASSUME NEW b \in Seq(Nat), NEW r \in Record, Layers(b, r), now \in Nat,
         r.window_start <= now
  PROVE  /\ Recent(b) \in Nat
         /\ Recent(b) <= r.count + GUARD_OOPS_THRESH - 1
         /\ now - r.window_start <= GUARD_OOPS_WINDOW => Recent(b) >= r.count
  <1>. DEFINE R == {i \in DOMAIN b : now - b[i] <= GUARD_OOPS_WINDOW}
              In == Len(b) - r.count + 1 .. Len(b)
              Out == Len(b) - r.count - (GUARD_OOPS_THRESH - 1) + 1 .. Len(b)
  <1>1. /\ r.count \in 0 .. GUARD_OOPS_THRESH - 1
        /\ r.window_start \in Nat
        /\ GUARD_OOPS_WINDOW \in Nat /\ GUARD_OOPS_THRESH \in Nat
    BY GuardAssumption DEF Record
  <1>2. /\ Len(b) \in Nat /\ DOMAIN b = 1 .. Len(b)
        /\ \A i \in 1 .. Len(b) : b[i] \in Nat
    BY LenProperties, ElementOfSeq
  <1>3. R \subseteq Out
    <2>. SUFFICES ASSUME NEW i \in R PROVE i \in Out
      OBVIOUS
    <2>1. i \in 1 .. Len(b) /\ now - b[i] <= GUARD_OOPS_WINDOW
      BY <1>2
    <2>2. ~(b[i] + GUARD_OOPS_WINDOW < r.window_start)
      BY <1>1, <1>2, <2>1
    <2>3. ~(i <= Len(b) - r.count - (GUARD_OOPS_THRESH - 1))
      BY <2>1, <2>2 DEF Layers
    <2>. QED  BY <1>1, <1>2, <2>1, <2>3
  <1>4. IsFiniteSet(Out) /\ Cardinality(Out) = r.count + GUARD_OOPS_THRESH - 1
    <2>1. /\ Len(b) - r.count - (GUARD_OOPS_THRESH - 1) + 1 \in Int /\ Len(b) \in Int
          /\ r.count + GUARD_OOPS_THRESH - 1 \in Nat
      BY <1>1, <1>2
    <2>2. /\ IsFiniteSet(Out)
          /\ Cardinality(Out) =
               IF Len(b) - r.count - (GUARD_OOPS_THRESH - 1) + 1 > Len(b) THEN 0
               ELSE Len(b) - (Len(b) - r.count - (GUARD_OOPS_THRESH - 1) + 1) + 1
      BY <2>1, FS_Interval
    <2>. QED  BY <1>1, <1>2, <2>2
  <1>5. /\ IsFiniteSet(R) /\ Cardinality(R) \in Nat
        /\ Cardinality(R) <= Cardinality(Out)
    BY <1>3, <1>4, FS_Subset, FS_CardinalityType
  <1>6. ASSUME now - r.window_start <= GUARD_OOPS_WINDOW
        PROVE  Cardinality(R) >= r.count
    <2>1. In \subseteq R
      <3>. SUFFICES ASSUME NEW i \in In PROVE i \in R
        OBVIOUS
      <3>0. r.count <= Len(b)
        BY DEF Layers
      <3>1. i \in 1 .. Len(b) /\ i > Len(b) - r.count
        BY <1>1, <1>2, <3>0
      <3>2. r.window_start <= b[i]
        BY <3>1 DEF Layers
      <3>. QED  BY <1>1, <1>2, <1>6, <3>1, <3>2
    <2>2. Len(b) - r.count + 1 \in Int /\ Len(b) \in Int
      BY <1>1, <1>2
    <2>3. Cardinality(In) = IF Len(b) - r.count + 1 > Len(b) THEN 0
                            ELSE Len(b) - (Len(b) - r.count + 1) + 1
      BY <2>2, FS_Interval
    <2>4. Cardinality(In) = r.count
      BY <1>1, <1>2, <2>3
    <2>5. Cardinality(In) <= Cardinality(R)
      BY <1>5, <2>1, FS_Subset
    <2>. QED  BY <1>1, <1>5, <2>4, <2>5
  <1>7. Recent(b) = Cardinality(R)
    BY DEF Recent
  <1>. QED  BY <1>4, <1>5, <1>6, <1>7

----------------------------------------------------------------------------
(* Theorems *)

\* The table keeps its shape: counts stay below the threshold, and the timer is
\* never further away than its interval, nor missed.
THEOREM TypeCorrect == Spec => []TypeOK
  <1>1. Inv => TypeOK
    BY DEF Inv
  <1>. QED  BY <1>1, Invariance, PTL

\* However its oopses fall across the fixed windows of guard_note_oops, a watched
\* process never has 2 * GUARD_OOPS_THRESH - 1 of them within the length of one
\* without an alarm.
THEOREM StormsAreNoticed == Spec => []StormIsNoticed
  <1>1. Inv => StormIsNoticed
    <2>. SUFFICES ASSUME Inv, NEW p \in Pids
                  PROVE  Recent(burst[p]) <= 2 * GUARD_OOPS_THRESH - 2
      BY DEF StormIsNoticed
    <2>1. now \in Nat /\ GUARD_OOPS_THRESH \in Nat \ {0}
      BY GuardAssumption DEF Inv, TypeOK
    <2>2. burst[p] \in Seq(Nat) /\ Layers(burst[p], Counting(p))
      BY CountingLayers
    <2>3. Counting(p) \in Record /\ Counting(p).window_start <= now
      BY CountingRecord DEF Inv
    <2>4. /\ Recent(burst[p]) \in Nat
          /\ Recent(burst[p]) <= Counting(p).count + GUARD_OOPS_THRESH - 1
      BY <2>1, <2>2, <2>3, RecentBounds
    <2>5. Counting(p).count \in 0 .. GUARD_OOPS_THRESH - 1
      BY <2>3 DEF Record
    <2>. QED  BY <2>1, <2>4, <2>5
  <1>. QED  BY <1>1, Invariance, PTL

\* With mode 2 and the check switched on, guard_timer_fn panics within an interval
\* of the sentinel changing, whatever else happens in between.
THEOREM PanicIsInTime == Spec => []PanicsInTime
  <1>1. Inv => PanicsInTime
    BY GuardAssumption DEF Inv, TypeOK, Exposure, PanicsInTime, Never
  <1>. QED  BY <1>1, Invariance, PTL

\* guard_note_oops kills only for GUARD_OOPS_THRESH oopses under the very pid
\* within the length of a window, whichever records were dropped and slots reused.
THEOREM EveryKillIsEarned == Spec => KillsAreEarned
  <1>. DEFINE A == \A p \in Pids : p \in killed' \ killed =>
                     Recent(burst[p]) + 1 >= GUARD_OOPS_THRESH
  <1>1. Inv /\ [Next]_vars => [A]_vars
    <2>. SUFFICES ASSUME Inv, Next, NEW p \in Pids, p \in killed' \ killed
                  PROVE  Recent(burst[p]) + 1 >= GUARD_OOPS_THRESH
      OBVIOUS
    <2>1. Oops(p) /\ IsStorm(p)
      BY DEF Next, Oops, NoteOops, Exit, TimerFn, Overwrite, WriteSysctl, Tick, watch
    <2>2. now \in Nat /\ GUARD_OOPS_THRESH \in Nat \ {0}
      BY GuardAssumption DEF Inv, TypeOK
    <2>3. burst[p] \in Seq(Nat) /\ Layers(burst[p], Counting(p))
      BY CountingLayers
    <2>4. /\ Counting(p) \in Record /\ Counting(p).window_start <= now
          /\ now - Counting(p).window_start <= GUARD_OOPS_WINDOW
      BY CountingRecord DEF Inv
    <2>5. Recent(burst[p]) \in Nat /\ Recent(burst[p]) >= Counting(p).count
      BY <2>2, <2>3, <2>4, RecentBounds
    <2>6. Counting(p).count \in Nat /\ Counting(p).count + 1 >= GUARD_OOPS_THRESH
      BY <2>1, <2>2, <2>4 DEF IsStorm, Record
    <2>. QED  BY <2>2, <2>5, <2>6
  <1>. QED  BY <1>1, Invariance, PTL DEF Spec, KillsAreEarned

\* guard_note_oops drops a record within its window only when every slot holds one.
THEOREM EvictionIsLastResort == Spec => EvictsSpentFirst
  <1>. DEFINE A == \A s \in Slots :
                     guard_oops'[s].pid # guard_oops[s].pid /\ Current(guard_oops[s])
                       => \A t \in Slots : Current(guard_oops[t])
  <1>1. Inv /\ [Next]_vars => [A]_vars
    <2>. SUFFICES ASSUME Inv, Next, NEW s \in Slots, NEW t \in Slots,
                         guard_oops'[s].pid # guard_oops[s].pid, Current(guard_oops[s])
                  PROVE  Current(guard_oops[t])
      OBVIOUS
    <2>1. PICK p \in Pids : Oops(p)
      BY DEF Next, Exit, TimerFn, Overwrite, WriteSysctl, Tick, watch
    <2>. DEFINE c == [Counting(p) EXCEPT !.count = IF IsStorm(p) THEN 0 ELSE @ + 1]
    <2>2. guard_oops' = [guard_oops EXCEPT ![SlotOf(p)] = c]
      BY <2>1 DEF Oops, NoteOops
    <2>3. c.pid = p
      BY CountingRecord DEF Inv, Record
    <2>. HIDE DEF c
    <2>4. /\ guard_oops \in [Slots -> Record] /\ now \in Nat
          /\ GUARD_OOPS_WINDOW \in Nat
      BY GuardAssumption DEF Inv, TypeOK
    <2>5. s = SlotOf(p) /\ guard_oops[s].pid # p
      BY <2>2, <2>3, <2>4
    <2>6. guard_oops[s].window_start <= guard_oops[t].window_start
      BY <2>5, SlotIsOwnOrOldest DEF Inv
    <2>7. /\ guard_oops[s].window_start \in Nat /\ guard_oops[t].window_start \in Nat
          /\ guard_oops[s].window_start >= 1
      BY <2>4 DEF Inv, Windows, Current, Record
    <2>8. guard_oops[t].pid # 0
      BY <2>6, <2>7 DEF Inv, Windows
    <2>9. now - guard_oops[t].window_start <= GUARD_OOPS_WINDOW
      BY <2>4, <2>6, <2>7 DEF Current, IsOver
    <2>. QED  BY <2>4, <2>7, <2>8, <2>9 DEF Current, IsOver
  <1>. QED  BY <1>1, Invariance, PTL DEF Spec, EvictsSpentFirst
=============================================================================
