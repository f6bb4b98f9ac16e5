--------------------------- MODULE SystemUIProofs ---------------------------
(***************************************************************************)
(* Proofs about SystemUI, for any sizes of the buffer, the history and the *)
(* notifications and any time to live: its types, in particular the bounds *)
(* of the line buffer; that read_line, on its buffer of bytes, is the line *)
(* editor of LineEditor; and that the level shown is recent.               *)
(***************************************************************************)
EXTENDS SystemUI, SequenceTheorems, TLAPS

\* The bytes before len are characters of the line: no end mark among them.
Filled == \A k \in Bytes : k < len => buf[k] \in Chars

\* read_line's locals count only while it runs.
AtRest == phase # "editing" => len = 0 /\ pos = 0

\* A value that has been wrong for some time is at least that old.
StaleIsOld == stale <= cache_age

Inv == TypeOK /\ Filled /\ AtRest /\ StaleIsOld

----------------------------------------------------------------------------
(* Strings and lines *)

\* The line that read_line edits: the first n bytes.
Typed(b, n) == [k \in 1 .. n |-> b[k - 1]]

\* A buffer with an end mark at n and none before it holds the n bytes before it.
LEMMA StringUpTo ==
  ASSUME NEW b, NEW n \in Bytes, b[n] = NUL, \A k \in Bytes : k < n => b[k] # NUL
  PROVE  StringEnd(b) = n /\ StringIn(b) = Typed(b, n)
  <1>1. \A j \in 0 .. n - 1 : b[j] # NUL
    BY LineAssumption DEF Bytes
  <1>2. \A m \in Bytes : b[m] = NUL /\ (\A j \in 0 .. m - 1 : b[j] # NUL) => m = n
    <2>. SUFFICES ASSUME NEW m \in Bytes, b[m] = NUL, \A j \in 0 .. m - 1 : b[j] # NUL
                  PROVE  m = n
      OBVIOUS
    <2>1. ~(m < n) /\ ~(n < m)
      BY LineAssumption DEF Bytes
    <2>. QED  BY <2>1 DEF Bytes
  <1>3. StringEnd(b) = CHOOSE k \in Bytes : b[k] = NUL /\ \A j \in 0 .. k - 1 : b[j] # NUL
    BY DEF StringEnd
  <1>4. StringEnd(b) = n
    BY <1>1, <1>2, <1>3
  <1>. QED  BY <1>4 DEF StringIn, Typed

\* The bytes before len make a line.
LEMMA TypedLine ==
  ASSUME NEW b, NEW n \in Bytes, \A k \in Bytes : k < n => b[k] \in Chars
  PROVE  /\ Typed(b, n) \in Lines /\ Typed(b, n) \in Seq(Chars)
         /\ Len(Typed(b, n)) = n /\ (Typed(b, n) = << >> <=> n = 0)
  <1>1. n \in Nat /\ \A k \in 1 .. n : b[k - 1] \in Chars
    BY LineAssumption DEF Bytes
  <1>2. Typed(b, n) \in [1 .. n -> Chars]
    BY <1>1 DEF Typed
  <1>3. Typed(b, n) \in Lines
    BY <1>2 DEF Lines
  <1>4. Typed(b, n) \in Seq(Chars) /\ Len(Typed(b, n)) = n
    BY <1>1 DEF Typed
  <1>5. Typed(b, n) = << >> <=> n = 0
    BY <1>1, <1>4, EmptySeq DEF Typed
  <1>. QED  BY <1>3, <1>4, <1>5

\* A line of the history is one of characters that fits into the buffer.
LEMMA LineSeq ==
  ASSUME NEW h \in Lines
  PROVE  h \in Seq(Chars) /\ Len(h) \in Bytes
  <1>1. PICK n \in Bytes : h \in [1 .. n -> Chars]
    BY DEF Lines
  <1>2. n \in Nat
    BY LineAssumption DEF Bytes
  <1>3. h \in Seq(Chars) /\ Len(h) = n
    BY <1>1, <1>2
  <1>. QED  BY <1>3

\* The history after a line: typed and bounded.
LEMMA PushedHistory ==
  ASSUME NEW h \in Seq(Lines \ {<< >>}), Len(h) <= MAX_HISTORY, NEW s \in Lines
  PROVE  /\ Pushed(h, s) \in Seq(Lines \ {<< >>})
         /\ Len(Pushed(h, s)) <= MAX_HISTORY
  <1>1. Len(h) \in Nat /\ MAX_HISTORY \in Nat \ {0}
    BY LineAssumption, LenProperties
  <1>2. CASE s = << >> \/ (h # << >> /\ h[Len(h)] = s)
    BY <1>2 DEF Pushed
  <1>3. CASE s # << >> /\ (h # << >> => h[Len(h)] # s)
    <2>. DEFINE t == IF Len(h) >= MAX_HISTORY THEN Tail(h) ELSE h
    <2>1. /\ t \in Seq(Lines \ {<< >>}) /\ Len(t) \in Nat /\ Len(t) < MAX_HISTORY
      <3>1. CASE Len(h) >= MAX_HISTORY
        <4>1. h # << >>
          BY <1>1, <3>1, EmptySeq
        <4>2. Tail(h) \in Seq(Lines \ {<< >>}) /\ Len(Tail(h)) = Len(h) - 1
          BY <4>1, HeadTailProperties
        <4>. QED  BY <1>1, <3>1, <4>1, <4>2
      <3>2. CASE ~(Len(h) >= MAX_HISTORY)
        BY <1>1, <3>2, EmptySeq
      <3>. QED  BY <3>1, <3>2
    <2>2. Pushed(h, s) = Append(t, s)
      BY <1>3 DEF Pushed
    <2>. HIDE DEF t
    <2>3. Append(t, s) \in Seq(Lines \ {<< >>}) /\ Len(Append(t, s)) = Len(t) + 1
      BY <1>3, <2>1, AppendProperties
    <2>. QED  BY <1>1, <2>1, <2>2, <2>3
  <1>. QED  BY <1>2, <1>3

\* A line that is entered does not shorten the history: history_pos stays in it.
LEMMA PushedGrows ==
  ASSUME NEW h \in Seq(Lines \ {<< >>}), Len(h) <= MAX_HISTORY, NEW s \in Lines
  PROVE  Len(h) <= Len(Pushed(h, s))
  <1>1. Len(h) \in Nat /\ MAX_HISTORY \in Nat \ {0}
    BY LineAssumption, LenProperties
  <1>2. CASE s = << >> \/ (h # << >> /\ h[Len(h)] = s)
    BY <1>1, <1>2 DEF Pushed
  <1>3. CASE ~(s = << >> \/ (h # << >> /\ h[Len(h)] = s)) /\ Len(h) >= MAX_HISTORY
    <2>1. h # << >>
      BY <1>1, <1>3, EmptySeq
    <2>2. Tail(h) \in Seq(Lines \ {<< >>}) /\ Len(Tail(h)) = Len(h) - 1
      BY <2>1, HeadTailProperties
    <2>3. Pushed(h, s) = Append(Tail(h), s)
      BY <1>3 DEF Pushed
    <2>. QED  BY <1>1, <1>3, <2>2, <2>3, AppendProperties
  <1>4. CASE ~(s = << >> \/ (h # << >> /\ h[Len(h)] = s)) /\ ~(Len(h) >= MAX_HISTORY)
    <2>1. Pushed(h, s) = Append(h, s)
      BY <1>4 DEF Pushed
    <2>. QED  BY <1>1, <1>4, <2>1, AppendProperties
  <1>. QED  BY <1>2, <1>3, <1>4

\* add_notification keeps the number of notifications within its bound.
LEMMA AddedNotifications ==
  ASSUME NEW ns \in Seq(1 .. 2), Len(ns) <= MAX_NOTIFICATIONS, NEW id \in 1 .. 2
  PROVE  Added(ns, id) \in Seq(1 .. 2) /\ Len(Added(ns, id)) <= MAX_NOTIFICATIONS
  <1>1. Len(ns) \in Nat /\ MAX_NOTIFICATIONS \in Nat \ {0}
    BY LineAssumption, LenProperties
  <1>2. CASE Len(ns) >= MAX_NOTIFICATIONS
    <2>1. ns # << >>
      BY <1>1, <1>2, EmptySeq
    <2>2. Tail(ns) \in Seq(1 .. 2) /\ Len(Tail(ns)) = Len(ns) - 1
      BY <2>1, HeadTailProperties
    <2>3. Added(ns, id) = Append(Tail(ns), id)
      BY <1>2 DEF Added
    <2>. QED  BY <1>1, <2>2, <2>3, AppendProperties
  <1>3. CASE ~(Len(ns) >= MAX_NOTIFICATIONS)
    <2>1. Added(ns, id) = Append(ns, id)
      BY <1>3 DEF Added
    <2>. QED  BY <1>1, <1>3, <2>1, AppendProperties
  <1>. QED  BY <1>2, <1>3

\* dismiss_notification leaves no more of them.
LEMMA DismissedNotifications ==
  ASSUME NEW ns \in Seq(1 .. 2), NEW i \in DOMAIN ns
  PROVE  LET ms == SubSeq(ns, 1, i - 1) \o SubSeq(ns, i + 1, Len(ns))
         IN  ms \in Seq(1 .. 2) /\ Len(ms) <= Len(ns)
  <1>. DEFINE a == SubSeq(ns, 1, i - 1)
              b == SubSeq(ns, i + 1, Len(ns))
  <1>1. Len(ns) \in Nat /\ i \in 1 .. Len(ns)
    BY LenProperties
  <1>2. a \in Seq(1 .. 2) /\ Len(a) = i - 1
    BY <1>1, SubSeqProperties
  <1>3. b \in Seq(1 .. 2) /\ Len(b) = Len(ns) - i
    BY <1>1, SubSeqProperties
  <1>4. a \o b \in Seq(1 .. 2) /\ Len(a \o b) = Len(a) + Len(b)
    BY <1>2, <1>3, ConcatProperties
  <1>. QED  BY <1>1, <1>2, <1>3, <1>4

----------------------------------------------------------------------------
(* The parts of the invariant, by the variables they are about *)

PhaseOK == phase \in {"start", "prompt", "editing", "command", "done"} /\ AtRest

LineOK ==
  /\ buf \in [Bytes -> Chars \cup {NUL}]
  /\ len \in Bytes
  /\ pos \in 0 .. len
  /\ Filled

RecallOK ==
  /\ history \in Seq(Lines \ {<< >>})
  /\ Len(history) <= MAX_HISTORY
  /\ history_pos \in 0 .. Len(history)

NotesOK == notifications \in Seq(1 .. 2) /\ Len(notifications) <= MAX_NOTIFICATIONS

CacheOK ==
  /\ level \in Levels \cup {Unknown}
  /\ cached_perm_level \in Levels \cup {Unknown, Unasked}
  /\ cache_age \in 0 .. PERM_LEVEL_CACHE_TTL
  /\ stale \in 0 .. PERM_LEVEL_CACHE_TTL
  /\ StaleIsOld

LEMMA InvParts ==
  /\ Inv <=> PhaseOK /\ LineOK /\ RecallOK /\ NotesOK /\ CacheOK
  /\ Inv' <=> PhaseOK' /\ LineOK' /\ RecallOK' /\ NotesOK' /\ CacheOK'
  BY DEF Inv, TypeOK, PhaseOK, LineOK, RecallOK, NotesOK, CacheOK

\* What an action leaves alone stays in order.
LEMMA Frame ==
  /\ LineOK /\ UNCHANGED line => LineOK'
  /\ RecallOK /\ UNCHANGED recall => RecallOK'
  /\ NotesOK /\ UNCHANGED notifications => NotesOK'
  /\ CacheOK /\ UNCHANGED <<level, cache>> => CacheOK'
  <1>1. LineOK /\ UNCHANGED line => LineOK'
    BY DEF LineOK, Filled, line
  <1>2. RecallOK /\ UNCHANGED recall => RecallOK'
    BY DEF RecallOK, recall
  <1>3. NotesOK /\ UNCHANGED notifications => NotesOK'
    BY DEF NotesOK
  <1>4. CacheOK /\ UNCHANGED <<level, cache>> => CacheOK'
    BY DEF CacheOK, StaleIsOld, cache
  <1>. QED  BY <1>1, <1>2, <1>3, <1>4

\* query_level answers from a young enough value or takes a new one.
LEMMA QueryCache ==
  ASSUME CacheOK, QueryLevel, UNCHANGED level
  PROVE  CacheOK' /\ stale' < PERM_LEVEL_CACHE_TTL
  <1>1. CASE CacheHit
    <2>1. UNCHANGED cache /\ cache_age < PERM_LEVEL_CACHE_TTL
      BY <1>1 DEF QueryLevel, CacheHit
    <2>2. CacheOK'
      BY <2>1, Frame
    <2>3. stale' < PERM_LEVEL_CACHE_TTL
      BY <2>1, CacheAssumption DEF CacheOK, StaleIsOld, cache
    <2>. QED  BY <2>2, <2>3
  <1>2. CASE ~CacheHit
    <2>1. cached_perm_level' = level /\ cache_age' = 0 /\ stale' = 0
      BY <1>2 DEF QueryLevel
    <2>. QED  BY <2>1, CacheAssumption DEF CacheOK, StaleIsOld
  <1>. QED  BY <1>1, <1>2

\* strtok_r puts end marks into the line that has been entered.
LEMMA RanLine ==
  ASSUME PhaseOK, LineOK, NEW n, Ran(n)
  PROVE  LineOK' /\ UNCHANGED <<len, pos, recall, level>> /\ len' = 0 /\ pos' = 0
  <1>1. /\ phase = "command" /\ buf' = Tokenised(n)
        /\ UNCHANGED <<len, pos, recall, level>>
    BY DEF Ran
  <1>2. len' = 0 /\ pos' = 0
    BY <1>1 DEF PhaseOK, AtRest
  <1>3. buf' \in [Bytes -> Chars \cup {NUL}]
    BY <1>1 DEF Tokenised, LineOK
  <1>4. 0 \in Bytes /\ \A k \in Bytes : ~(k < 0)
    BY LineAssumption DEF Bytes
  <1>5. LineOK'
    BY <1>2, <1>3, <1>4 DEF LineOK, Filled
  <1>. QED  BY <1>1, <1>2, <1>5

\* The line of an editing action: its bytes, its length and its cursor.
LEMMA EmptyLine ==
  ASSUME buf' \in [Bytes -> Chars \cup {NUL}], len' = 0, pos' = 0
  PROVE  LineOK'
  <1>1. 0 \in Bytes /\ \A k \in Bytes : ~(k < 0)
    BY LineAssumption DEF Bytes
  <1>. QED  BY <1>1 DEF LineOK, Filled

LEMMA InvInit == Init => Inv
  <1>. SUFFICES ASSUME Init PROVE Inv
    OBVIOUS
  <1>1. PhaseOK
    BY DEF Init, PhaseOK, AtRest
  <1>2. LineOK
    <2>1. 0 \in Bytes /\ \A k \in Bytes : ~(k < 0)
      BY LineAssumption DEF Bytes
    <2>. QED  BY <2>1 DEF Init, LineOK, Filled
  <1>3. RecallOK
    BY LineAssumption DEF Init, RecallOK
  <1>4. NotesOK
    BY LineAssumption DEF Init, NotesOK
  <1>5. CacheOK
    BY CacheAssumption DEF Init, CacheOK, StaleIsOld
  <1>. QED  BY <1>1, <1>2, <1>3, <1>4, <1>5, InvParts

----------------------------------------------------------------------------
(* What the keys do to the bytes of the line *)

\* A character opens a gap at the cursor; the bytes behind it move up by one.
LEMMA InsertedBytes ==
  ASSUME LineOK, NEW c \in Chars, len < MAX_LINE - 1,
         buf' = [Memmove(buf, pos + 1, pos, len - pos + 1) EXCEPT ![pos] = c],
         pos' = pos + 1, len' = len + 1
  PROVE  /\ LineOK'
         /\ \A k \in Bytes : k <= len =>
              buf'[k] = IF k < pos THEN buf[k] ELSE IF k = pos THEN c ELSE buf[k - 1]
  <1>1. /\ MAX_LINE \in Nat /\ len \in Nat /\ pos \in Nat /\ pos <= len
        /\ pos \in Bytes /\ len + 1 \in Bytes
    BY LineAssumption DEF LineOK, Bytes
  <1>. DEFINE m == Memmove(buf, pos + 1, pos, len - pos + 1)
  <1>2. ASSUME NEW k \in Bytes
        PROVE  m[k] = IF pos + 1 <= k /\ k <= len + 1 THEN buf[k - 1] ELSE buf[k]
    <2>1. k \in Nat
      BY <1>1 DEF Bytes
    <2>2. (pos + 1 <= k /\ k < (pos + 1) + (len - pos + 1)) <=> (pos + 1 <= k /\ k <= len + 1)
      BY <1>1, <2>1
    <2>3. pos + (k - (pos + 1)) = k - 1
      BY <1>1, <2>1
    <2>. QED  BY <2>2, <2>3 DEF Memmove
  <1>3. ASSUME NEW k \in Bytes
        PROVE  m[k] \in Chars \cup {NUL}
    <2>1. CASE pos + 1 <= k
      <3>1. k - 1 \in Bytes
        BY <1>1, <2>1 DEF Bytes
      <3>. QED  BY <1>2, <3>1 DEF LineOK
    <2>2. CASE ~(pos + 1 <= k)
      BY <1>2, <2>2 DEF LineOK
    <2>. QED  BY <2>1, <2>2
  <1>4. m \in [Bytes -> Chars \cup {NUL}]
    BY <1>3 DEF Memmove
  <1>5. buf' \in [Bytes -> Chars \cup {NUL}] /\ buf'[pos] = c
        /\ \A k \in Bytes : k # pos => buf'[k] = m[k]
    BY <1>1, <1>4
  <1>. HIDE DEF m
  <1>6. ASSUME NEW k \in Bytes, k <= len
        PROVE  buf'[k] = IF k < pos THEN buf[k] ELSE IF k = pos THEN c ELSE buf[k - 1]
    <2>1. k \in Nat
      BY <1>1 DEF Bytes
    <2>. QED  BY <1>1, <1>2, <1>5, <1>6, <2>1
  <1>7. ASSUME NEW k \in Bytes, k < len + 1
        PROVE  buf'[k] \in Chars
    <2>1. k \in Nat /\ k <= len
      BY <1>1, <1>7 DEF Bytes
    <2>2. CASE k < pos
      BY <1>1, <1>6, <2>1, <2>2 DEF LineOK, Filled
    <2>3. CASE k = pos
      BY <1>5, <2>3
    <2>4. CASE k > pos
      <3>1. k - 1 \in Bytes /\ k - 1 < len
        BY <1>1, <2>1, <2>4 DEF Bytes
      <3>. QED  BY <1>1, <1>6, <2>1, <2>4, <3>1 DEF LineOK, Filled
    <2>. QED  BY <1>1, <2>1, <2>2, <2>3, <2>4
  <1>8. LineOK'
    BY <1>1, <1>5, <1>7 DEF LineOK, Filled
  <1>. QED  BY <1>6, <1>8

\* Backspace closes the gap in front of the cursor.
LEMMA ErasedBytes ==
  ASSUME LineOK, pos > 0, buf' = Memmove(buf, pos - 1, pos, len - pos + 1),
         pos' = pos - 1, len' = len - 1
  PROVE  /\ LineOK'
         /\ \A k \in Bytes : k < len - 1 =>
              buf'[k] = IF k < pos - 1 THEN buf[k] ELSE buf[k + 1]
  <1>1. /\ MAX_LINE \in Nat /\ len \in Nat /\ pos \in Nat /\ pos <= len
        /\ len \in Bytes /\ len - 1 \in Bytes
    BY LineAssumption DEF LineOK, Bytes
  <1>2. ASSUME NEW k \in Bytes
        PROVE  buf'[k] = IF pos - 1 <= k /\ k < len THEN buf[k + 1] ELSE buf[k]
    <2>1. k \in Nat
      BY <1>1 DEF Bytes
    <2>2. (pos - 1 <= k /\ k < (pos - 1) + (len - pos + 1)) <=> (pos - 1 <= k /\ k < len)
      BY <1>1, <2>1
    <2>3. pos + (k - (pos - 1)) = k + 1
      BY <1>1, <2>1
    <2>. QED  BY <2>2, <2>3 DEF Memmove
  <1>3. ASSUME NEW k \in Bytes
        PROVE  buf'[k] \in Chars \cup {NUL}
    <2>1. CASE k < len
      <3>1. k + 1 \in Bytes
        BY <1>1, <2>1 DEF Bytes
      <3>. QED  BY <1>2, <3>1 DEF LineOK
    <2>2. CASE ~(k < len)
      BY <1>2, <2>2 DEF LineOK
    <2>. QED  BY <2>1, <2>2
  <1>4. buf' \in [Bytes -> Chars \cup {NUL}]
    BY <1>3 DEF Memmove
  <1>5. ASSUME NEW k \in Bytes, k < len - 1
        PROVE  buf'[k] = IF k < pos - 1 THEN buf[k] ELSE buf[k + 1]
    <2>1. k \in Nat
      BY <1>1 DEF Bytes
    <2>. QED  BY <1>1, <1>2, <1>5, <2>1
  <1>6. ASSUME NEW k \in Bytes, k < len - 1
        PROVE  buf'[k] \in Chars
    <2>1. k \in Nat /\ k < len /\ k + 1 < len /\ k + 1 \in Bytes
      BY <1>1, <1>6 DEF Bytes
    <2>. QED  BY <1>5, <1>6, <2>1 DEF LineOK, Filled
  <1>7. LineOK'
    BY <1>1, <1>4, <1>6 DEF LineOK, Filled
  <1>. QED  BY <1>5, <1>7

\* A line of the history fills the buffer and is the line that is edited.
LEMMA ShownBytes ==
  ASSUME NEW h \in Lines, ShowHistory(h)
  PROVE  LineOK' /\ Typed(buf', len') = h /\ pos' = Len(h)
  <1>1. h \in Seq(Chars) /\ Len(h) \in Bytes /\ Len(h) \in Nat
    BY LineSeq, LineAssumption DEF Bytes
  <1>2. /\ buf' = [k \in Bytes |-> IF k < Len(h) THEN h[k + 1] ELSE NUL]
        /\ len' = Len(h) /\ pos' = Len(h)
    BY DEF ShowHistory
  <1>3. ASSUME NEW k \in Bytes, k < Len(h)
        PROVE  buf'[k] = h[k + 1] /\ h[k + 1] \in Chars
    <2>1. k + 1 \in 1 .. Len(h)
      BY <1>1, <1>3 DEF Bytes
    <2>. QED  BY <1>1, <1>2, <1>3, <2>1, ElementOfSeq
  <1>4. buf' \in [Bytes -> Chars \cup {NUL}]
    BY <1>2, <1>3
  <1>5. LineOK'
    BY <1>1, <1>2, <1>3, <1>4 DEF LineOK, Filled
  <1>6. \A k \in 1 .. Len(h) : buf'[k - 1] = h[k]
    <2>. SUFFICES ASSUME NEW k \in 1 .. Len(h) PROVE buf'[k - 1] = h[k]
      OBVIOUS
    <2>1. k - 1 \in Bytes /\ k - 1 < Len(h) /\ (k - 1) + 1 = k
      BY <1>1, LineAssumption DEF Bytes
    <2>. QED  BY <1>3, <2>1
  <1>7. h = [k \in 1 .. Len(h) |-> h[k]]
    BY <1>1
  <1>8. Typed(buf', len') = h
    BY <1>2, <1>6, <1>7 DEF Typed
  <1>. QED  BY <1>2, <1>5, <1>8

\* The line that run_command gets is the one that was edited.
LEMMA EnteredBytes ==
  ASSUME LineOK, buf' = [buf EXCEPT ![len] = NUL]
  PROVE  /\ buf' \in [Bytes -> Chars \cup {NUL}]
         /\ StringIn(buf') = Typed(buf, len)
         /\ Typed(buf, len) \in Lines
         /\ Len(Typed(buf, len)) = len
         /\ Typed(buf, len) = << >> <=> len = 0
  <1>1. len \in Bytes /\ len \in Nat
    BY LineAssumption DEF LineOK, Bytes
  <1>2. buf' \in [Bytes -> Chars \cup {NUL}] /\ buf'[len] = NUL
        /\ \A k \in Bytes : k # len => buf'[k] = buf[k]
    BY <1>1 DEF LineOK
  <1>3. \A k \in Bytes : k < len => k # len /\ buf[k] \in Chars /\ buf[k] # NUL
    BY <1>1, LineAssumption DEF LineOK, Filled, Bytes
  <1>4. StringIn(buf') = Typed(buf', len)
    BY <1>1, <1>2, <1>3, StringUpTo
  <1>5. ASSUME NEW k \in 1 .. len
        PROVE  buf'[k - 1] = buf[k - 1]
    <2>1. k - 1 \in Bytes /\ k - 1 # len
      BY <1>1, LineAssumption DEF Bytes
    <2>. QED  BY <1>2, <2>1
  <1>6. Typed(buf', len) = Typed(buf, len)
    BY <1>5 DEF Typed
  <1>. QED  BY <1>1, <1>2, <1>3, <1>4, <1>6, TypedLine

\* Ctrl-C leaves the empty string.
LEMMA CancelledBytes ==
  ASSUME LineOK, buf' = [buf EXCEPT ![0] = NUL]
  PROVE  buf' \in [Bytes -> Chars \cup {NUL}] /\ StringIn(buf') = << >>
  <1>1. 0 \in Bytes /\ \A k \in Bytes : ~(k < 0)
    BY LineAssumption DEF Bytes
  <1>2. buf' \in [Bytes -> Chars \cup {NUL}] /\ buf'[0] = NUL
    BY <1>1 DEF LineOK
  <1>3. StringIn(buf') = Typed(buf', 0)
    BY <1>1, <1>2, StringUpTo
  <1>4. Typed(buf', 0) = << >>
    BY <1>1, TypedLine
  <1>. QED  BY <1>2, <1>3, <1>4

----------------------------------------------------------------------------
(* The invariant is inductive. *)

\* An editing action changes the line and the place in the history.
LEMMA EditingFrame ==
  ASSUME Inv, Editing, LineOK', history_pos' \in 0 .. Len(history)
  PROVE  Inv'
  <1>1. PhaseOK' /\ NotesOK' /\ CacheOK'
    BY InvParts, Frame DEF Editing, PhaseOK, AtRest
  <1>2. RecallOK'
    BY InvParts DEF Editing, RecallOK
  <1>. QED  BY <1>1, <1>2, InvParts

LEMMA InvStep == Inv /\ [Next]_vars => Inv'
  <1>. SUFFICES ASSUME Inv, [Next]_vars PROVE Inv'
    OBVIOUS
  <1>a. PhaseOK /\ LineOK /\ RecallOK /\ NotesOK /\ CacheOK
    BY InvParts
  <1>b. /\ history \in Seq(Lines \ {<< >>}) /\ Len(history) \in Nat
        /\ history_pos \in 0 .. Len(history)
        /\ len \in Nat /\ pos \in 0 .. len
    BY <1>a, LineAssumption, LenProperties DEF RecallOK, LineOK, Bytes
  <1>1. CASE Welcome
    <2>1. PhaseOK'
      BY <1>1, <1>a DEF Welcome, PhaseOK, AtRest, line
    <2>2. LineOK' /\ RecallOK'
      BY <1>1, <1>a, Frame DEF Welcome
    <2>3. NotesOK'
      <3>. DEFINE one == Added(notifications, 1)
      <3>1. one \in Seq(1 .. 2) /\ Len(one) <= MAX_NOTIFICATIONS
        BY <1>a, AddedNotifications DEF NotesOK
      <3>. HIDE DEF one
      <3>2. Added(one, 2) \in Seq(1 .. 2) /\ Len(Added(one, 2)) <= MAX_NOTIFICATIONS
        BY <3>1, AddedNotifications
      <3>. QED  BY <1>1, <3>2 DEF Welcome, NotesOK, one
    <2>4. CacheOK'
      BY <1>1, <1>a, QueryCache DEF Welcome, DrawTopbar
    <2>. QED  BY <2>1, <2>2, <2>3, <2>4, InvParts
  <1>2. CASE Prompt
    <2>1. PhaseOK'
      BY <1>2 DEF Prompt, PhaseOK, AtRest
    <2>2. LineOK'
      BY <1>2, <1>a, EmptyLine DEF Prompt, LineOK
    <2>3. RecallOK'
      BY <1>2, <1>a, <1>b DEF Prompt, RecallOK
    <2>4. NotesOK'
      BY <1>2, <1>a, Frame DEF Prompt
    <2>5. CacheOK'
      BY <1>2, <1>a, QueryCache DEF Prompt, DrawTopbar
    <2>. QED  BY <2>1, <2>2, <2>3, <2>4, <2>5, InvParts
  <1>3. ASSUME NEW c \in Chars, InsertChar(c) PROVE Inv'
    <2>1. LineOK'
      BY <1>3, <1>a, InsertedBytes DEF InsertChar
    <2>. QED  BY <1>3, <1>b, <2>1, EditingFrame DEF InsertChar
  <1>4. CASE Backspace
    <2>1. LineOK'
      BY <1>4, <1>a, ErasedBytes DEF Backspace
    <2>. QED  BY <1>4, <1>b, <2>1, EditingFrame DEF Backspace
  <1>5. CASE Left \/ Right
    <2>1. LineOK'
      BY <1>5, <1>a, <1>b DEF Left, Right, LineOK, Filled
    <2>. QED  BY <1>5, <1>b, <2>1, EditingFrame DEF Left, Right
  <1>6. CASE Up
    <2>1. history_pos \in 1 .. Len(history)
      BY <1>6, <1>b DEF Up
    <2>2. history[history_pos] \in Lines
      BY <1>b, <2>1, ElementOfSeq
    <2>3. LineOK'
      BY <1>6, <2>2, ShownBytes DEF Up
    <2>. QED  BY <1>6, <1>b, <2>1, <2>3, EditingFrame DEF Up
  <1>7. CASE Down
    <2>1. history_pos' \in 0 .. Len(history)
      BY <1>7, <1>b DEF Down
    <2>2. LineOK'
      <3>1. CASE history_pos' < Len(history)
        <4>1. history[history_pos' + 1] \in Lines
          BY <1>b, <2>1, <3>1, ElementOfSeq
        <4>. QED  BY <1>7, <3>1, <4>1, ShownBytes DEF Down
      <3>2. CASE ~(history_pos' < Len(history))
        BY <1>7, <1>a, <3>2, EmptyLine, CancelledBytes DEF Down
      <3>. QED  BY <3>1, <3>2
    <2>. QED  BY <1>7, <2>1, <2>2, EditingFrame DEF Down
  <1>8. CASE Enter
    <2>1. PhaseOK'
      BY <1>8 DEF Enter, PhaseOK, AtRest
    <2>2. LineOK'
      BY <1>8, <1>a, EnteredBytes, EmptyLine DEF Enter
    <2>3. RecallOK'
      <3>1. CASE len > 0
        <4>1. history' = Pushed(history, Typed(buf, len)) /\ Typed(buf, len) \in Lines
          BY <1>8, <1>a, <3>1, EnteredBytes DEF Enter
        <4>2. history' \in Seq(Lines \ {<< >>}) /\ Len(history') <= MAX_HISTORY
          BY <1>a, <4>1, PushedHistory DEF RecallOK
        <4>3. Len(history) <= Len(history')
          BY <1>a, <4>1, PushedGrows DEF RecallOK
        <4>4. Len(history') \in Nat
          BY <4>2, LenProperties
        <4>5. history_pos' \in 0 .. Len(history')
          BY <1>8, <1>b, <4>3, <4>4 DEF Enter
        <4>. QED  BY <4>2, <4>5 DEF RecallOK
      <3>2. CASE ~(len > 0)
        BY <1>8, <1>a, <3>2 DEF Enter, RecallOK
      <3>. QED  BY <3>1, <3>2
    <2>4. NotesOK' /\ CacheOK'
      BY <1>8, <1>a, Frame DEF Enter
    <2>. QED  BY <2>1, <2>2, <2>3, <2>4, InvParts
  <1>9. CASE CtrlC
    <2>1. PhaseOK'
      BY <1>9 DEF CtrlC, PhaseOK, AtRest
    <2>2. LineOK'
      BY <1>9, <1>a, CancelledBytes, EmptyLine DEF CtrlC
    <2>3. RecallOK' /\ NotesOK' /\ CacheOK'
      BY <1>9, <1>a, Frame DEF CtrlC
    <2>. QED  BY <2>1, <2>2, <2>3, InvParts
  <1>10. CASE PrintCommand \/ DismissCommand \/ ClearCommand \/ QueryCommand \/ ExitCommand
    <2>1. (Ran(1) \/ Ran(2)) /\ phase' \in {"prompt", "done"}
      BY <1>10 DEF PrintCommand, DismissCommand, ClearCommand, QueryCommand, ExitCommand
    <2>2. LineOK' /\ UNCHANGED <<recall, level>> /\ len' = 0 /\ pos' = 0
      BY <1>a, <2>1, RanLine
    <2>3. PhaseOK'
      BY <2>1, <2>2 DEF PhaseOK, AtRest
    <2>4. RecallOK'
      BY <1>a, <2>2, Frame
    <2>5. NotesOK'
      <3>1. CASE DismissCommand
        <4>1. ASSUME NEW i \in DOMAIN notifications,
                     notifications' = SubSeq(notifications, 1, i - 1)
                                        \o SubSeq(notifications, i + 1, Len(notifications))
              PROVE  NotesOK'
          BY <1>a, <4>1, DismissedNotifications, LenProperties, LineAssumption DEF NotesOK
        <4>2. CASE UNCHANGED notifications
          BY <1>a, <4>2, Frame
        <4>. QED  BY <3>1, <4>1, <4>2 DEF DismissCommand
      <3>2. CASE ClearCommand
        BY <3>2, LineAssumption DEF ClearCommand, NotesOK
      <3>3. CASE PrintCommand \/ QueryCommand \/ ExitCommand
        BY <1>a, <3>3, Frame DEF PrintCommand, QueryCommand, ExitCommand
      <3>. QED  BY <1>10, <3>1, <3>2, <3>3
    <2>6. CacheOK'
      <3>1. CASE QueryCommand
        BY <1>a, <2>2, <3>1, QueryCache DEF QueryCommand
      <3>2. CASE PrintCommand \/ DismissCommand \/ ClearCommand \/ ExitCommand
        BY <1>a, <2>2, <3>2, Frame
           DEF PrintCommand, DismissCommand, ClearCommand, ExitCommand
      <3>. QED  BY <1>10, <3>1, <3>2
    <2>. QED  BY <2>2, <2>3, <2>4, <2>5, <2>6, InvParts
  <1>11. CASE LevelChanges
    <2>1. PhaseOK'
      BY <1>11, <1>a DEF LevelChanges, PhaseOK, AtRest, line
    <2>2. LineOK' /\ RecallOK' /\ NotesOK'
      BY <1>11, <1>a, Frame DEF LevelChanges
    <2>3. stale' \in 0 .. PERM_LEVEL_CACHE_TTL /\ stale' <= stale
      BY <1>11, <1>a, CacheAssumption DEF LevelChanges, CacheOK, Since
    <2>4. CacheOK'
      BY <1>11, <1>a, <2>3, CacheAssumption DEF LevelChanges, CacheOK, StaleIsOld
    <2>. QED  BY <2>1, <2>2, <2>4, InvParts
  <1>12. CASE Tick
    <2>1. PhaseOK'
      BY <1>12, <1>a DEF Tick, PhaseOK, AtRest, line
    <2>2. LineOK' /\ RecallOK' /\ NotesOK'
      BY <1>12, <1>a, Frame DEF Tick
    <2>3. CacheOK'
      BY <1>12, <1>a, CacheAssumption DEF Tick, CacheOK, StaleIsOld, Since
    <2>. QED  BY <2>1, <2>2, <2>3, InvParts
  <1>13. CASE UNCHANGED vars
    <2>1. PhaseOK'
      BY <1>13, <1>a DEF vars, PhaseOK, AtRest, line
    <2>2. LineOK' /\ RecallOK' /\ NotesOK' /\ CacheOK'
      BY <1>13, <1>a, Frame DEF vars
    <2>. QED  BY <2>1, <2>2, InvParts
  <1>. QED  BY <1>1, <1>2, <1>3, <1>4, <1>5, <1>6, <1>7, <1>8, <1>9, <1>10, <1>11,
               <1>12, <1>13 DEF Next, Key

LEMMA Invariance == Spec => []Inv
  BY InvInit, InvStep, PTL DEF Spec

----------------------------------------------------------------------------
(* The theorems *)

\* The state has its types; above all, read_line never writes behind its
\* buffer: len stays below MAX_LINE and pos between 0 and len, whatever keys
\* are pressed in whatever order, with recalled lines among them.
THEOREM TypeCorrect == Spec => []TypeOK
  BY Invariance, PTL DEF Inv

\* Whenever main shows a prompt, the level in the top bar was right less than
\* the time to live ago: a value is asked for again before it can have been wrong
\* for longer than it is old.
THEOREM LevelShownIsRecent == Spec => LevelIsRecent
  <1>1. Inv /\ [Next]_vars
          => [phase = "prompt" /\ phase' = "editing" => stale' < PERM_LEVEL_CACHE_TTL]_vars
    <2>. SUFFICES ASSUME Inv, Next, phase = "prompt", phase' = "editing"
                  PROVE  stale' < PERM_LEVEL_CACHE_TTL
      BY DEF vars
    <2>1. Prompt
      BY DEF Next, Key, Welcome, InsertChar, Backspace, Left, Right, Up, Down, Enter, CtrlC,
             Editing, PrintCommand, DismissCommand, ClearCommand, QueryCommand, ExitCommand,
             LevelChanges, Tick
    <2>. QED  BY <2>1, InvParts, QueryCache DEF Prompt, DrawTopbar
  <1>. QED  BY <1>1, Invariance, PTL DEF Spec, LevelIsRecent

----------------------------------------------------------------------------
(* read_line and run_command implement LineEditor. *)

\* The parts of a line on both sides of a place in it.
LEMMA Parts ==
  ASSUME NEW t \in Seq(Chars), NEW p \in 0 .. Len(t)
  PROVE  /\ SubSeq(t, 1, p) \in Seq(Chars) /\ Len(SubSeq(t, 1, p)) = p
         /\ \A i \in 1 .. p : SubSeq(t, 1, p)[i] = t[i]
         /\ SubSeq(t, p + 1, Len(t)) \in Seq(Chars)
         /\ Len(SubSeq(t, p + 1, Len(t))) = Len(t) - p
         /\ \A i \in 1 .. Len(t) - p : SubSeq(t, p + 1, Len(t))[i] = t[p + i]
  <1>1. Len(t) \in Nat /\ p \in Nat /\ p <= Len(t) /\ \A i \in 1 .. Len(t) : t[i] \in Chars
    BY LenProperties, ElementOfSeq
  <1>2. /\ SubSeq(t, 1, p) \in Seq(Chars) /\ Len(SubSeq(t, 1, p)) = p
        /\ \A i \in 1 .. p : SubSeq(t, 1, p)[i] = t[i]
    <2>1. \A i \in 1 .. p : t[i] \in Chars
      BY <1>1
    <2>2. /\ SubSeq(t, 1, p) \in Seq(Chars)
          /\ Len(SubSeq(t, 1, p)) = IF 1 <= p THEN p - 1 + 1 ELSE 0
          /\ \A i \in 1 .. p - 1 + 1 : SubSeq(t, 1, p)[i] = t[1 + i - 1]
      BY <1>1, <2>1, SubSeqProperties
    <2>3. \A i \in 1 .. p : i \in 1 .. p - 1 + 1 /\ 1 + i - 1 = i
      BY <1>1
    <2>4. Len(SubSeq(t, 1, p)) = p
      BY <1>1, <2>2
    <2>. QED  BY <2>2, <2>3, <2>4
  <1>3. /\ SubSeq(t, p + 1, Len(t)) \in Seq(Chars)
        /\ Len(SubSeq(t, p + 1, Len(t))) = Len(t) - p
        /\ \A i \in 1 .. Len(t) - p : SubSeq(t, p + 1, Len(t))[i] = t[p + i]
    <2>1. \A i \in p + 1 .. Len(t) : t[i] \in Chars
      BY <1>1
    <2>2. /\ SubSeq(t, p + 1, Len(t)) \in Seq(Chars)
          /\ Len(SubSeq(t, p + 1, Len(t)))
               = IF p + 1 <= Len(t) THEN Len(t) - (p + 1) + 1 ELSE 0
          /\ \A i \in 1 .. Len(t) - (p + 1) + 1 :
               SubSeq(t, p + 1, Len(t))[i] = t[p + 1 + i - 1]
      BY <1>1, <2>1, SubSeqProperties
    <2>3. \A i \in 1 .. Len(t) - p : i \in 1 .. Len(t) - (p + 1) + 1 /\ p + 1 + i - 1 = p + i
      BY <1>1
    <2>4. Len(SubSeq(t, p + 1, Len(t))) = Len(t) - p
      BY <1>1, <2>2
    <2>. QED  BY <2>2, <2>3, <2>4
  <1>. QED  BY <1>2, <1>3

\* Two parts put together.
LEMMA Joined ==
  ASSUME NEW a \in Seq(Chars), NEW b \in Seq(Chars)
  PROVE  /\ a \o b \in Seq(Chars) /\ Len(a \o b) = Len(a) + Len(b)
         /\ \A i \in 1 .. Len(a) : (a \o b)[i] = a[i]
         /\ \A i \in 1 .. Len(b) : (a \o b)[Len(a) + i] = b[i]
  <1>1. Len(a) \in Nat /\ Len(b) \in Nat
    BY LenProperties
  <1>2. /\ a \o b \in Seq(Chars) /\ Len(a \o b) = Len(a) + Len(b)
        /\ \A i \in 1 .. Len(a) + Len(b) :
             (a \o b)[i] = IF i <= Len(a) THEN a[i] ELSE b[i - Len(a)]
    BY ConcatProperties
  <1>3. ASSUME NEW i \in 1 .. Len(a)
        PROVE  (a \o b)[i] = a[i]
    BY <1>1, <1>2
  <1>4. ASSUME NEW i \in 1 .. Len(b)
        PROVE  (a \o b)[Len(a) + i] = b[i]
    <2>1. /\ Len(a) + i \in 1 .. Len(a) + Len(b) /\ ~(Len(a) + i <= Len(a))
          /\ (Len(a) + i) - Len(a) = i
      BY <1>1
    <2>. QED  BY <1>2, <2>1
  <1>. QED  BY <1>2, <1>3, <1>4

\* Insertion, as one looks at the characters or at the parts.
LEMMA Inserted ==
  ASSUME NEW t \in Seq(Chars), NEW p \in 0 .. Len(t), NEW c \in Chars, NEW u \in Seq(Chars),
         Len(u) = Len(t) + 1,
         \A k \in 1 .. Len(u) :
           u[k] = IF k <= p THEN t[k] ELSE IF k = p + 1 THEN c ELSE t[k - 1]
  PROVE  u = SubSeq(t, 1, p) \o <<c>> \o SubSeq(t, p + 1, Len(t))
  <1>. DEFINE a == SubSeq(t, 1, p)
              b == SubSeq(t, p + 1, Len(t))
              one == <<c>>
              ac == a \o one
              v == ac \o b
  <1>1. Len(t) \in Nat /\ p \in Nat /\ p <= Len(t)
    BY LenProperties
  <1>2. /\ a \in Seq(Chars) /\ Len(a) = p
        /\ \A i \in 1 .. p : a[i] = t[i]
        /\ b \in Seq(Chars) /\ Len(b) = Len(t) - p
        /\ \A i \in 1 .. Len(t) - p : b[i] = t[p + i]
    BY Parts
  <1>3. one \in Seq(Chars) /\ Len(one) = 1 /\ one[1] = c /\ 1 \in 1 .. 1
    OBVIOUS
  <1>. HIDE DEF a, b, one
  <1>4. /\ ac \in Seq(Chars) /\ Len(ac) = p + 1
        /\ \A i \in 1 .. p : ac[i] = a[i]
        /\ ac[p + 1] = c
    <2>1. /\ ac \in Seq(Chars) /\ Len(ac) = Len(a) + Len(one)
          /\ \A i \in 1 .. Len(a) : ac[i] = a[i]
          /\ \A i \in 1 .. Len(one) : ac[Len(a) + i] = one[i]
      BY <1>2, <1>3, Joined
    <2>. HIDE DEF ac
    <2>2. ac[Len(a) + 1] = one[1]
      BY <1>3, <2>1
    <2>. QED  BY <1>1, <1>2, <1>3, <2>1, <2>2
  <1>. HIDE DEF ac
  <1>5. /\ v \in Seq(Chars) /\ Len(v) = (p + 1) + (Len(t) - p)
        /\ \A i \in 1 .. p + 1 : v[i] = ac[i]
        /\ \A i \in 1 .. Len(t) - p : v[(p + 1) + i] = b[i]
    <2>1. /\ v \in Seq(Chars) /\ Len(v) = Len(ac) + Len(b)
          /\ \A i \in 1 .. Len(ac) : v[i] = ac[i]
          /\ \A i \in 1 .. Len(b) : v[Len(ac) + i] = b[i]
      BY <1>2, <1>4, Joined
    <2>. HIDE DEF v
    <2>. QED  BY <1>1, <1>2, <1>4, <2>1
  <1>. HIDE DEF v
  <1>6. ASSUME NEW k \in 1 .. Len(u)
        PROVE  u[k] = v[k]
    <2>0. k \in Nat /\ 1 <= k /\ k <= Len(t) + 1
      BY <1>1
    <2>1. CASE k <= p
      <3>1. k \in 1 .. p /\ k \in 1 .. p + 1
        BY <1>1, <2>0, <2>1
      <3>. QED  BY <1>2, <1>4, <1>5, <2>1, <3>1
    <2>2. CASE k = p + 1
      <3>1. k \in 1 .. p + 1 /\ ~(k <= p)
        BY <1>1, <2>2
      <3>. QED  BY <1>4, <1>5, <2>2, <3>1
    <2>3. CASE k > p + 1
      <3>. DEFINE i == k - (p + 1)
      <3>1. /\ ~(k <= p) /\ k # p + 1
            /\ i \in 1 .. Len(t) - p /\ p + i = k - 1 /\ (p + 1) + i = k
        BY <1>1, <2>0, <2>3
      <3>. HIDE DEF i
      <3>. QED  BY <1>2, <1>5, <3>1
    <2>. QED  BY <1>1, <2>0, <2>1, <2>2, <2>3
  <1>7. Len(u) = Len(v)
    BY <1>1, <1>5
  <1>8. u = v
    BY <1>5, <1>6, <1>7, SeqEqual
  <1>. QED  BY <1>8 DEF a, b, one, ac, v

\* Deletion likewise.
LEMMA Erased ==
  ASSUME NEW t \in Seq(Chars), NEW p \in 1 .. Len(t), NEW u \in Seq(Chars),
         Len(u) = Len(t) - 1,
         \A k \in 1 .. Len(u) : u[k] = IF k <= p - 1 THEN t[k] ELSE t[k + 1]
  PROVE  u = SubSeq(t, 1, p - 1) \o SubSeq(t, p + 1, Len(t))
  <1>. DEFINE a == SubSeq(t, 1, p - 1)
              b == SubSeq(t, p + 1, Len(t))
              v == a \o b
  <1>1. Len(t) \in Nat /\ p \in Nat /\ 1 <= p /\ p <= Len(t)
    BY LenProperties
  <1>2. p \in 0 .. Len(t) /\ p - 1 \in 0 .. Len(t)
    BY <1>1
  <1>3. /\ a \in Seq(Chars) /\ Len(a) = p - 1
        /\ \A i \in 1 .. p - 1 : a[i] = t[i]
    BY <1>2, Parts
  <1>4. /\ b \in Seq(Chars) /\ Len(b) = Len(t) - p
        /\ \A i \in 1 .. Len(t) - p : b[i] = t[p + i]
    BY <1>2, Parts
  <1>. HIDE DEF a, b
  <1>5. /\ v \in Seq(Chars) /\ Len(v) = (p - 1) + (Len(t) - p)
        /\ \A i \in 1 .. p - 1 : v[i] = a[i]
        /\ \A i \in 1 .. Len(t) - p : v[(p - 1) + i] = b[i]
    <2>1. /\ v \in Seq(Chars) /\ Len(v) = Len(a) + Len(b)
          /\ \A i \in 1 .. Len(a) : v[i] = a[i]
          /\ \A i \in 1 .. Len(b) : v[Len(a) + i] = b[i]
      BY <1>3, <1>4, Joined
    <2>. HIDE DEF v
    <2>. QED  BY <1>1, <1>3, <1>4, <2>1
  <1>. HIDE DEF v
  <1>6. ASSUME NEW k \in 1 .. Len(u)
        PROVE  u[k] = v[k]
    <2>0. k \in Nat /\ 1 <= k /\ k <= Len(t) - 1
      BY <1>1
    <2>1. CASE k <= p - 1
      <3>1. k \in 1 .. p - 1
        BY <1>1, <2>0, <2>1
      <3>. QED  BY <1>3, <1>5, <2>1, <3>1
    <2>2. CASE ~(k <= p - 1)
      <3>. DEFINE i == k - (p - 1)
      <3>1. i \in 1 .. Len(t) - p /\ p + i = k + 1 /\ (p - 1) + i = k
        BY <1>1, <2>0, <2>2
      <3>. HIDE DEF i
      <3>. QED  BY <1>4, <1>5, <2>2, <3>1
    <2>. QED  BY <2>1, <2>2
  <1>7. Len(u) = Len(v)
    BY <1>1, <1>5
  <1>8. u = v
    BY <1>5, <1>6, <1>7, SeqEqual
  <1>. QED  BY <1>8 DEF a, b, v

\* Dropping the oldest line before the new one is added keeps the latest ones.
LEMMA PushedIsLatest ==
  ASSUME NEW h \in Seq(Lines \ {<< >>}), Len(h) <= MAX_HISTORY, NEW s \in Lines
  PROVE  Pushed(h, s) = IF s = << >> \/ (h # << >> /\ h[Len(h)] = s)
                          THEN h ELSE Editor!Latest(Append(h, s))
  <1>1. Len(h) \in Nat /\ MAX_HISTORY \in Nat \ {0}
    BY LineAssumption, LenProperties
  <1>2. CASE s = << >> \/ (h # << >> /\ h[Len(h)] = s)
    BY <1>2 DEF Pushed
  <1>3. CASE ~(s = << >> \/ (h # << >> /\ h[Len(h)] = s))
    <2>. DEFINE T == Lines \ {<< >>}
                x == Append(h, s)
    <2>1. s \in T
      BY <1>3
    <2>2. /\ x \in Seq(T) /\ Len(x) = Len(h) + 1
          /\ \A i \in 1 .. Len(h) : x[i] = h[i]
          /\ x[Len(h) + 1] = s
      BY <2>1, AppendProperties
    <2>3. CASE Len(h) < MAX_HISTORY
      <3>1. Pushed(h, s) = x
        BY <1>1, <1>3, <2>3 DEF Pushed
      <3>2. Editor!Latest(x) = x
        BY <1>1, <2>2, <2>3 DEF Editor!Latest
      <3>. QED  BY <1>3, <3>1, <3>2
    <2>4. CASE Len(h) = MAX_HISTORY
      <3>. DEFINE y == Append(Tail(h), s)
                  z == SubSeq(x, 2, Len(x))
      <3>1. Pushed(h, s) = y
        BY <1>1, <1>3, <2>4 DEF Pushed
      <3>2. Editor!Latest(x) = z
        <4>1. ~(Len(x) <= MAX_HISTORY) /\ Len(x) - MAX_HISTORY + 1 = 2
          BY <1>1, <2>2, <2>4
        <4>. QED  BY <4>1 DEF Editor!Latest
      <3>3. h # << >>
        BY <1>1, <2>4, EmptySeq
      <3>4. /\ Tail(h) \in Seq(T) /\ Len(Tail(h)) = Len(h) - 1
            /\ \A i \in 1 .. Len(Tail(h)) : Tail(h)[i] = h[i + 1]
        BY <3>3, HeadTailProperties
      <3>5. /\ y \in Seq(T) /\ Len(y) = Len(Tail(h)) + 1
            /\ \A i \in 1 .. Len(Tail(h)) : y[i] = Tail(h)[i]
            /\ y[Len(Tail(h)) + 1] = s
        BY <2>1, <3>4, AppendProperties
      <3>6. /\ z \in Seq(T) /\ Len(z) = Len(h)
            /\ \A i \in 1 .. Len(h) : z[i] = x[i + 1]
        <4>1. \A i \in 2 .. Len(x) : x[i] \in T
          BY <1>1, <2>2, ElementOfSeq
        <4>2. 2 \in Int /\ Len(x) \in Int
          BY <1>1, <2>2
        <4>3. /\ z \in Seq(T) /\ Len(z) = IF 2 <= Len(x) THEN Len(x) - 2 + 1 ELSE 0
              /\ \A i \in 1 .. Len(x) - 2 + 1 : z[i] = x[2 + i - 1]
          BY <4>1, <4>2, SubSeqProperties
        <4>4. \A i \in 1 .. Len(h) : i \in 1 .. Len(x) - 2 + 1 /\ 2 + i - 1 = i + 1
          BY <1>1, <2>2
        <4>5. Len(z) = Len(h)
          BY <1>1, <2>2, <4>3
        <4>. QED  BY <4>3, <4>4, <4>5
      <3>. HIDE DEF x, y, z, T
      <3>7. ASSUME NEW i \in 1 .. Len(y)
            PROVE  y[i] = z[i]
        <4>1. CASE i = Len(h)
          BY <1>1, <2>2, <3>4, <3>5, <3>6, <4>1
        <4>2. CASE i # Len(h)
          <5>0. Len(y) = Len(h) /\ Len(Tail(h)) = Len(h) - 1
            BY <1>1, <3>4, <3>5
          <5>1. i \in 1 .. Len(h) - 1 /\ i \in 1 .. Len(h) /\ i + 1 \in 1 .. Len(h)
            BY <1>1, <4>2, <5>0
          <5>. QED  BY <2>2, <3>4, <3>5, <3>6, <5>0, <5>1
        <4>. QED  BY <4>1, <4>2
      <3>8. Len(y) = Len(z)
        BY <1>1, <3>4, <3>5, <3>6
      <3>9. y = z
        BY <3>5, <3>6, <3>7, <3>8, SeqEqual
      <3>. QED  BY <1>3, <3>1, <3>2, <3>9 DEF x
    <2>. QED  BY <1>1, <2>3, <2>4
  <1>. QED  BY <1>2, <1>3

\* What the editor sees, phase by phase.
LEMMA Mapped ==
  /\ phase = "editing" => Mode = "edit" /\ Text = Typed(buf, len)
  /\ phase = "command" => Mode = "run" /\ Text = StringIn(buf)
  /\ phase \in {"start", "prompt", "done"} => Mode = "idle" /\ Text = << >>
  <1>1. CASE phase = "editing"
    BY <1>1 DEF Mode, Text, Typed
  <1>2. CASE phase = "command"
    BY <1>2 DEF Mode, Text
  <1>3. CASE phase \in {"start", "prompt", "done"}
    BY <1>3 DEF Mode, Text
  <1>. QED  BY <1>1, <1>2, <1>3

LEMMA MappedNext ==
  /\ phase' = "editing" => Mode' = "edit" /\ Text' = Typed(buf', len')
  /\ phase' = "command" => Mode' = "run" /\ Text' = StringIn(buf')
  /\ phase' \in {"start", "prompt", "done"} => Mode' = "idle" /\ Text' = << >>
  <1>1. CASE phase' = "editing"
    BY <1>1 DEF Mode, Text, Typed
  <1>2. CASE phase' = "command"
    BY <1>2 DEF Mode, Text
  <1>3. CASE phase' \in {"start", "prompt", "done"}
    BY <1>3 DEF Mode, Text
  <1>. QED  BY <1>1, <1>2, <1>3

LEMMA EditorInit == Init => Editor!Init
  BY Mapped DEF Init, Editor!Init

LEMMA EditorStep == Inv /\ [Next]_vars => [Editor!Next]_(Editor!vars)
  <1>. SUFFICES ASSUME Inv, [Next]_vars PROVE [Editor!Next]_(Editor!vars)
    OBVIOUS
  <1>a. PhaseOK /\ LineOK /\ RecallOK
    BY InvParts
  <1>b. /\ history \in Seq(Lines \ {<< >>}) /\ Len(history) \in Nat
        /\ history_pos \in 0 .. Len(history)
        /\ MAX_LINE \in Nat /\ len \in Bytes /\ len \in Nat /\ pos \in 0 .. len
    BY <1>a, LineAssumption, LenProperties DEF RecallOK, LineOK, Bytes
  <1>c. Typed(buf, len) \in Seq(Chars) /\ Len(Typed(buf, len)) = len
    BY <1>a, <1>b, TypedLine DEF LineOK, Filled
  <1>d. LineOK'
    BY InvStep, InvParts
  <1>e. /\ len' \in Bytes /\ Typed(buf', len') \in Seq(Chars)
        /\ Len(Typed(buf', len')) = len'
    BY <1>d, TypedLine DEF LineOK, Filled
  <1>1. CASE Welcome
    BY <1>1, Mapped, MappedNext DEF Welcome, line, recall, Editor!vars
  <1>2. CASE Prompt
    <2>1. Typed(buf', len') = << >>
      BY <1>2, <1>e, EmptySeq DEF Prompt
    <2>2. pos = 0 /\ pos' = 0
      BY <1>2, <1>a DEF Prompt, PhaseOK, AtRest
    <2>3. Editor!Begin
      BY <1>2, <2>1, <2>2, Mapped, MappedNext DEF Prompt, Editor!Begin
    <2>. QED  BY <2>3 DEF Editor!Next
  <1>3. ASSUME NEW c \in Chars, InsertChar(c) PROVE [Editor!Next]_(Editor!vars)
    <2>1. /\ phase = "editing" /\ phase' = "editing" /\ history' = history
          /\ len < MAX_LINE - 1 /\ pos' = pos + 1 /\ len' = len + 1
      BY <1>3 DEF InsertChar, Editing
    <2>. DEFINE t == Typed(buf, len)
                u == Typed(buf', len')
    <2>2. \A k \in Bytes : k <= len =>
            buf'[k] = IF k < pos THEN buf[k] ELSE IF k = pos THEN c ELSE buf[k - 1]
      BY <1>3, <1>a, InsertedBytes DEF InsertChar
    <2>3. ASSUME NEW k \in 1 .. len + 1
          PROVE  u[k] = IF k <= pos THEN t[k] ELSE IF k = pos + 1 THEN c ELSE t[k - 1]
      <3>1. k - 1 \in Bytes /\ k - 1 <= len /\ k \in Nat
        BY <1>b, <1>e, <2>1 DEF Bytes
      <3>2. u[k] = buf'[k - 1]
        BY <2>1 DEF Typed
      <3>3. CASE k <= pos
        <4>1. k - 1 < pos /\ k \in 1 .. len
          BY <1>b, <3>1, <3>3
        <4>. QED  BY <2>2, <3>1, <3>2, <3>3, <4>1 DEF Typed
      <3>4. CASE k = pos + 1
        <4>1. k - 1 = pos /\ ~(k - 1 < pos) /\ ~(k <= pos)
          BY <1>b, <3>1, <3>4
        <4>. QED  BY <2>2, <3>1, <3>2, <3>4, <4>1
      <3>5. CASE k > pos + 1
        <4>1. /\ ~(k - 1 < pos) /\ k - 1 # pos /\ ~(k <= pos) /\ k # pos + 1
              /\ k - 1 \in 1 .. len
          BY <1>b, <3>1, <3>5
        <4>2. t[k - 1] = buf[(k - 1) - 1]
          BY <4>1 DEF Typed
        <4>. QED  BY <2>2, <3>1, <3>2, <4>1, <4>2
      <3>. QED  BY <1>b, <3>1, <3>3, <3>4, <3>5
    <2>. HIDE DEF t, u
    <2>4. /\ t \in Seq(Chars) /\ Len(t) = len /\ u \in Seq(Chars) /\ Len(u) = len + 1
      BY <1>c, <1>e, <2>1 DEF t, u
    <2>5. u = SubSeq(t, 1, pos) \o <<c>> \o SubSeq(t, pos + 1, Len(t))
      BY <1>b, <2>3, <2>4, Inserted
    <2>6. Text = t /\ Text' = u /\ Mode = "edit" /\ Mode' = "edit"
      BY <2>1, Mapped, MappedNext DEF t, u
    <2>7. Editor!Type(c)
      BY <2>1, <2>4, <2>5, <2>6 DEF Editor!Type, Editor!Before, Editor!After
    <2>. QED  BY <2>7 DEF Editor!Next
  <1>4. CASE Backspace
    <2>1. /\ phase = "editing" /\ phase' = "editing" /\ history' = history
          /\ pos > 0 /\ pos' = pos - 1 /\ len' = len - 1
      BY <1>4 DEF Backspace, Editing
    <2>. DEFINE t == Typed(buf, len)
                u == Typed(buf', len')
    <2>2. \A k \in Bytes : k < len - 1 =>
            buf'[k] = IF k < pos - 1 THEN buf[k] ELSE buf[k + 1]
      BY <1>4, <1>a, ErasedBytes DEF Backspace
    <2>3. ASSUME NEW k \in 1 .. len - 1
          PROVE  u[k] = IF k <= pos - 1 THEN t[k] ELSE t[k + 1]
      <3>1. /\ k - 1 \in Bytes /\ k - 1 < len - 1 /\ k \in Nat
            /\ k \in 1 .. len /\ k + 1 \in 1 .. len /\ (k + 1) - 1 = (k - 1) + 1
            /\ (k - 1 < pos - 1 <=> k <= pos - 1)
        BY <1>b, <1>e, <2>1 DEF Bytes
      <3>2. u[k] = buf'[k - 1] /\ t[k] = buf[k - 1] /\ t[k + 1] = buf[(k + 1) - 1]
        BY <2>1, <3>1 DEF Typed
      <3>. QED  BY <2>2, <3>1, <3>2
    <2>. HIDE DEF t, u
    <2>4. /\ t \in Seq(Chars) /\ Len(t) = len /\ u \in Seq(Chars) /\ Len(u) = len - 1
      BY <1>c, <1>e, <2>1 DEF t, u
    <2>5. u = SubSeq(t, 1, pos - 1) \o SubSeq(t, pos + 1, Len(t))
      <3>1. pos \in 1 .. Len(t)
        BY <1>b, <2>1, <2>4
      <3>. QED  BY <2>3, <2>4, <3>1, Erased
    <2>6. Text = t /\ Text' = u /\ Mode = "edit" /\ Mode' = "edit"
      BY <2>1, Mapped, MappedNext DEF t, u
    <2>7. Editor!Erase
      BY <2>1, <2>5, <2>6 DEF Editor!Erase, Editor!After
    <2>. QED  BY <2>7 DEF Editor!Next
  <1>5. CASE Left \/ Right
    <2>1. /\ phase = "editing" /\ phase' = "editing" /\ history' = history
          /\ buf' = buf /\ len' = len
      BY <1>5 DEF Left, Right, Editing
    <2>2. pos' \in {pos - 1, pos + 1} \cap (0 .. len)
      BY <1>5, <1>b DEF Left, Right
    <2>3. /\ Text = Typed(buf, len) /\ Text' = Typed(buf, len)
          /\ Mode = "edit" /\ Mode' = "edit"
      BY <2>1, Mapped, MappedNext
    <2>4. Editor!Move
      BY <1>c, <2>1, <2>2, <2>3 DEF Editor!Move
    <2>. QED  BY <2>4 DEF Editor!Next
  <1>6. CASE Up \/ Down
    <2>1. phase = "editing" /\ phase' = "editing" /\ history' = history
      BY <1>6 DEF Up, Down, Editing
    <2>2. /\ Typed(buf', len') \in {history[k] : k \in DOMAIN history} \cup {<< >>}
          /\ pos' = len'
      <3>1. ASSUME NEW k \in 1 .. Len(history), ShowHistory(history[k])
            PROVE  /\ Typed(buf', len') \in {history[j] : j \in DOMAIN history}
                   /\ pos' = len'
        <4>1. history[k] \in Lines /\ k \in DOMAIN history
          BY <1>b, ElementOfSeq
        <4>2. Typed(buf', len') = history[k]
          BY <3>1, <4>1, ShownBytes
        <4>. QED  BY <3>1, <4>1, <4>2 DEF ShowHistory
      <3>2. CASE Up
        <4>1. history_pos \in 1 .. Len(history) /\ ShowHistory(history[history_pos])
          BY <3>2, <1>b DEF Up
        <4>. QED  BY <3>1, <4>1
      <3>3. CASE Down /\ history_pos' < Len(history)
        <4>1. /\ history_pos' + 1 \in 1 .. Len(history)
              /\ ShowHistory(history[history_pos' + 1])
          BY <3>3, <1>b DEF Down
        <4>. QED  BY <3>1, <4>1
      <3>4. CASE Down /\ ~(history_pos' < Len(history))
        <4>1. len' = 0 /\ pos' = 0
          BY <3>4 DEF Down
        <4>. QED  BY <1>e, <4>1, EmptySeq
      <3>. QED  BY <1>6, <3>2, <3>3, <3>4
    <2>3. /\ Text = Typed(buf, len) /\ Text' = Typed(buf', len')
          /\ Mode = "edit" /\ Mode' = "edit"
      BY <2>1, Mapped, MappedNext
    <2>4. Editor!Recall
      BY <1>e, <2>1, <2>2, <2>3 DEF Editor!Recall
    <2>. QED  BY <2>4 DEF Editor!Next
  <1>7. CASE Enter
    <2>. DEFINE t == Typed(buf, len)
    <2>1. /\ phase = "editing" /\ phase' = "command" /\ pos' = 0
          /\ history' = IF len > 0 THEN Pushed(history, StringIn(buf')) ELSE history
      BY <1>7 DEF Enter
    <2>2. StringIn(buf') = t /\ t \in Lines /\ (t = << >> <=> len = 0)
      BY <1>7, <1>a, EnteredBytes DEF Enter
    <2>3. Text = t /\ Text' = t /\ Mode = "edit" /\ Mode' = "run"
      BY <2>1, <2>2, Mapped, MappedNext
    <2>. HIDE DEF t
    <2>4. history' = IF t = << >> \/ (history # << >> /\ history[Len(history)] = t)
                       THEN history ELSE Editor!Latest(Append(history, t))
      <3>1. Pushed(history, t) = IF t = << >> \/ (history # << >> /\ history[Len(history)] = t)
                                   THEN history ELSE Editor!Latest(Append(history, t))
        BY <1>a, <2>2, PushedIsLatest DEF RecallOK
      <3>2. CASE len > 0
        BY <2>1, <2>2, <3>1, <3>2
      <3>3. CASE len = 0
        BY <2>1, <2>2, <3>3
      <3>. QED  BY <1>b, <3>2, <3>3
    <2>5. Editor!Enter
      BY <2>1, <2>3, <2>4 DEF Editor!Enter
    <2>. QED  BY <2>5 DEF Editor!Next
  <1>8. CASE CtrlC
    <2>1. phase = "editing" /\ phase' = "command" /\ pos' = 0 /\ history' = history
      BY <1>8 DEF CtrlC, recall
    <2>2. StringIn(buf') = << >>
      BY <1>8, <1>a, CancelledBytes DEF CtrlC
    <2>3. Editor!Cancel
      BY <2>1, <2>2, Mapped, MappedNext DEF Editor!Cancel
    <2>. QED  BY <2>3 DEF Editor!Next
  <1>9. CASE PrintCommand \/ DismissCommand \/ ClearCommand \/ QueryCommand \/ ExitCommand
    <2>1. (Ran(1) \/ Ran(2)) /\ phase' \in {"prompt", "done"}
      BY <1>9 DEF PrintCommand, DismissCommand, ClearCommand, QueryCommand, ExitCommand
    <2>2. phase = "command" /\ pos' = pos /\ history' = history
      BY <2>1 DEF Ran, recall
    <2>3. Editor!Finish
      BY <2>1, <2>2, Mapped, MappedNext DEF Editor!Finish
    <2>. QED  BY <2>3 DEF Editor!Next
  <1>10. CASE LevelChanges \/ Tick \/ UNCHANGED vars
    <2>1. UNCHANGED <<phase, line, recall>>
      BY <1>10 DEF LevelChanges, Tick, vars
    <2>2. UNCHANGED <<Mode, Text, pos, history>>
      BY <2>1 DEF Mode, Text, StringIn, StringEnd, line, recall
    <2>. QED  BY <2>2 DEF Editor!vars
  <1>. QED  BY <1>1, <1>2, <1>3, <1>4, <1>5, <1>6, <1>7, <1>8, <1>9, <1>10 DEF Next, Key

\* system_ui's terminal is the line editor of LineEditor: the bytes that
\* read_line moves about, with end marks it sets only now and then, are at all
\* times the line its user has typed, the history is that of the last lines
\* entered, and run_command gets exactly the line that was entered.
THEOREM EditorRefinement == Spec => ImplementsEditor
  <1>1. Init => Editor!Init
    BY EditorInit
  <1>2. Inv /\ [Next]_vars => [Editor!Next]_(Editor!vars)
    BY EditorStep
  <1>. QED  BY <1>1, <1>2, Invariance, PTL DEF Spec, ImplementsEditor, Editor!Spec
=============================================================================
