------------------------------ MODULE SystemUI ------------------------------
(***************************************************************************)
(* frontend/ui/system_ui.c on a terminal: main's loop of top bar, read_line *)
(* and run_command, the line buffer that read_line edits in place, the     *)
(* notifications, and the permission level that query_level caches.        *)
(* Meanwhile time passes, the level changes, and the arbiter goes and      *)
(* comes.                                                                  *)
(*                                                                         *)
(* The terminal is read without blocking (VMIN = VTIME = 0): a key that    *)
(* sends several bytes may be seen in parts, and then counts as the bytes  *)
(* it consists of.  Any byte may therefore follow any other.               *)
(***************************************************************************)
EXTENDS Integers, Sequences, FiniteSets

CONSTANTS
  MAX_LINE,              \* bytes of the line buffer
  MAX_HISTORY,           \* lines of history
  MAX_NOTIFICATIONS,     \* notifications that are kept
  Blank,                 \* the separator of words
  Letters,               \* the other printable characters
  NUL,                   \* the end of a string
  Levels,                \* the levels this process may have
  PERM_LEVEL_CACHE_TTL   \* seconds

Chars == Letters \cup {Blank}

ASSUME LineAssumption ==
  /\ MAX_LINE \in Nat \ {0}
  /\ MAX_HISTORY \in Nat \ {0} /\ MAX_NOTIFICATIONS \in Nat \ {0}
  /\ NUL \notin Chars /\ Blank \notin Letters

ASSUME CacheAssumption ==
  /\ Levels \subseteq Nat
  /\ PERM_LEVEL_CACHE_TTL \in Nat \ {0}

VARIABLES
  phase,         \* of main: "start", then its loop: "prompt", "editing", "command",
                 \* and "done"
  buf, len, pos, \* the line and the locals of read_line
  history, history_pos,
  notifications, \* the ids of the notifications, the oldest one first
  level,         \* what the arbiter answers: a level, or -1 if it is down
  cached_perm_level,
  cache_age,     \* now - perm_level_cache_time, up to the time to live
  stale          \* history: seconds since the cached value was last right

line == <<buf, len, pos>>
cache == <<cached_perm_level, cache_age, stale>>
recall == <<history, history_pos>>
vars == <<phase, line, recall, notifications, level, cache>>

Bytes == 0 .. MAX_LINE - 1
Lines == UNION {[1 .. n -> Chars] : n \in Bytes}
Unknown == -1      \* no answer
Unasked == -2      \* no question yet

TypeOK ==
  /\ phase \in {"start", "prompt", "editing", "command", "done"}
  /\ buf \in [Bytes -> Chars \cup {NUL}]
  /\ len \in Bytes
  /\ pos \in 0 .. len
  /\ history \in Seq(Lines \ {<< >>})
  /\ Len(history) <= MAX_HISTORY
  /\ history_pos \in 0 .. Len(history)
  /\ notifications \in Seq(1 .. 2) /\ Len(notifications) <= MAX_NOTIFICATIONS
  /\ level \in Levels \cup {Unknown}
  /\ cached_perm_level \in Levels \cup {Unknown, Unasked}
  /\ cache_age \in 0 .. PERM_LEVEL_CACHE_TTL
  /\ stale \in 0 .. PERM_LEVEL_CACHE_TTL

(* The buffer is an uninitialised local of main. *)
Init ==
  /\ phase = "start"
  /\ buf \in [Bytes -> Chars \cup {NUL}]
  /\ len = 0
  /\ pos = 0
  /\ history = << >>
  /\ history_pos = 0
  /\ notifications = << >>
  /\ level \in Levels \cup {Unknown}
  /\ cached_perm_level = Unasked
  /\ cache_age = 0
  /\ stale = 0

----------------------------------------------------------------------------
(* query_level *)

\* Mutant of CacheHit: the age of the value does not matter.
CacheHitForever == cached_perm_level >= Unknown

CacheHit == cached_perm_level >= Unknown /\ cache_age < PERM_LEVEL_CACHE_TTL

\* A failure of any kind is cached like an answer.
QueryLevel ==
  IF CacheHit
    THEN UNCHANGED cache
    ELSE /\ cached_perm_level' = level
         /\ cache_age' = 0
         /\ stale' = 0

----------------------------------------------------------------------------
(* main: two notifications, the top bar with the level once, and again before  *)
(* each read_line.                                                             *)

\* draw_topbar: of what it shows only the level is state.
DrawTopbar == QueryLevel

\* add_notification: the oldest one makes room.
Added(ns, id) ==
  Append(IF Len(ns) >= MAX_NOTIFICATIONS THEN Tail(ns) ELSE ns, id)

Welcome ==
  /\ phase = "start"
  /\ phase' = "prompt"
  /\ notifications' = Added(Added(notifications, 1), 2)
  /\ DrawTopbar
  /\ UNCHANGED <<line, recall, level>>

Prompt ==
  /\ phase = "prompt"
  /\ phase' = "editing"
  /\ DrawTopbar
  /\ len' = 0
  /\ pos' = 0
  /\ history_pos' = Len(history)
  /\ UNCHANGED <<buf, history, notifications, level>>

(* read_line: one action per key. *)

Editing ==
  phase = "editing" /\ UNCHANGED <<phase, history, notifications, level, cache>>

\* memmove(b + dst, b + src, n)
Memmove(b, dst, src, n) ==
  [k \in Bytes |-> IF dst <= k /\ k < dst + n THEN b[src + (k - dst)] ELSE b[k]]

\* Mutant of InsertChar: the tail is moved without making room for its end.
InsertCharShort(c) ==
  /\ Editing
  /\ len < MAX_LINE - 1
  /\ buf' = [Memmove(buf, pos + 1, pos, len - pos - 1) EXCEPT ![pos] = c]
  /\ pos' = pos + 1
  /\ len' = len + 1
  /\ UNCHANGED history_pos

\* Mutant of InsertChar: the bound forgets the byte for the end of the string.
InsertCharAtEnd(c) ==
  /\ Editing
  /\ len < MAX_LINE
  /\ buf' = [Memmove(buf, pos + 1, pos, len - pos) EXCEPT ![pos] = c]
  /\ pos' = pos + 1
  /\ len' = len + 1
  /\ UNCHANGED history_pos

(* A printable character; it is ignored when the buffer is full. *)
InsertChar(c) ==
  /\ Editing
  /\ len < MAX_LINE - 1
  /\ buf' = [Memmove(buf, pos + 1, pos, len - pos + 1) EXCEPT ![pos] = c]
  /\ pos' = pos + 1
  /\ len' = len + 1
  /\ UNCHANGED history_pos

Backspace ==
  /\ Editing
  /\ pos > 0
  /\ buf' = Memmove(buf, pos - 1, pos, len - pos + 1)
  /\ pos' = pos - 1
  /\ len' = len - 1
  /\ UNCHANGED history_pos

Left ==
  /\ Editing
  /\ pos > 0
  /\ pos' = pos - 1
  /\ UNCHANGED <<buf, len, history_pos>>

Right ==
  /\ Editing
  /\ pos < len
  /\ pos' = pos + 1
  /\ UNCHANGED <<buf, len, history_pos>>

\* strncpy pads with NUL.
ShowHistory(h) ==
  /\ buf' = [k \in Bytes |-> IF k < Len(h) THEN h[k + 1] ELSE NUL]
  /\ len' = Len(h)
  /\ pos' = Len(h)

Up ==
  /\ Editing
  /\ history_pos > 0
  /\ history_pos' = history_pos - 1
  /\ ShowHistory(history[history_pos])

Down ==
  /\ Editing
  /\ history_pos < Len(history)
  /\ history_pos' = history_pos + 1
  /\ IF history_pos' < Len(history)
       THEN ShowHistory(history[history_pos' + 1])
       ELSE /\ buf' = [buf EXCEPT ![0] = NUL]
            /\ len' = 0
            /\ pos' = 0

\* The string in b: what strcmp, strncpy and strtok_r see.
StringEnd(b) ==
  IF \E k \in Bytes : b[k] = NUL
    THEN CHOOSE k \in Bytes : b[k] = NUL /\ \A j \in 0 .. k - 1 : b[j] # NUL
    ELSE MAX_LINE
StringIn(b) == [k \in 1 .. StringEnd(b) |-> b[k - 1]]

\* The history after line s: no blank one, none twice in a row, the oldest one
\* makes room.
Pushed(h, s) ==
  IF s = << >> \/ (h # << >> /\ h[Len(h)] = s) THEN h
  ELSE Append(IF Len(h) >= MAX_HISTORY THEN Tail(h) ELSE h, s)

Enter ==
  /\ phase = "editing"
  /\ phase' = "command"
  /\ buf' = [buf EXCEPT ![len] = NUL]
  /\ history' = IF len > 0 THEN Pushed(history, StringIn(buf')) ELSE history
  /\ len' = 0
  /\ pos' = 0
  /\ UNCHANGED <<history_pos, notifications, level, cache>>

CtrlC ==
  /\ phase = "editing"
  /\ phase' = "command"
  /\ buf' = [buf EXCEPT ![0] = NUL]
  /\ len' = 0
  /\ pos' = 0
  /\ UNCHANGED <<recall, notifications, level, cache>>

----------------------------------------------------------------------------
(* run_command *)

HasWord == \E k \in DOMAIN StringIn(buf) : StringIn(buf)[k] # Blank

\* strtok_r overwrites the blank behind each of the n words it has taken.
WordEnds == {k \in 1 .. StringEnd(buf) - 1 : buf[k] = Blank /\ buf[k - 1] # Blank}
Tokenised(n) ==
  [k \in Bytes |-> IF k \in WordEnds /\ Cardinality({j \in WordEnds : j < k}) < n
                     THEN NUL ELSE buf[k]]

\* run_command returns, having taken n words from the line.
Ran(n) ==
  /\ phase = "command"
  /\ buf' = Tokenised(n)
  /\ UNCHANGED <<len, pos, recall, level>>

\* Commands that print, an unknown one, and a line without a command.
PrintCommand ==
  /\ Ran(1)
  /\ phase' = "prompt"
  /\ UNCHANGED <<notifications, cache>>

\* dismiss; an id that is not there is ignored.
DismissCommand ==
  /\ Ran(2) /\ HasWord
  /\ phase' = "prompt"
  /\ \/ \E i \in DOMAIN notifications :
          notifications' = SubSeq(notifications, 1, i - 1)
                             \o SubSeq(notifications, i + 1, Len(notifications))
     \/ UNCHANGED notifications
  /\ UNCHANGED cache

ClearCommand ==
  /\ Ran(1) /\ HasWord
  /\ phase' = "prompt"
  /\ notifications' = << >>
  /\ UNCHANGED cache

\* status and level
QueryCommand ==
  /\ Ran(1) /\ HasWord
  /\ phase' = "prompt"
  /\ QueryLevel
  /\ UNCHANGED notifications

ExitCommand ==
  /\ Ran(1) /\ HasWord
  /\ phase' = "done"
  /\ UNCHANGED <<notifications, cache>>

----------------------------------------------------------------------------
(* The arbiter and the clock *)

Since(answer, seconds) ==
  IF cached_perm_level = answer THEN 0
  ELSE IF stale + seconds > PERM_LEVEL_CACHE_TTL THEN PERM_LEVEL_CACHE_TTL
  ELSE stale + seconds

LevelChanges ==
  /\ phase # "done"
  /\ level' \in Levels \cup {Unknown}
  /\ stale' = Since(level', 0)
  /\ UNCHANGED <<phase, line, recall, notifications, cached_perm_level, cache_age>>

Tick ==
  /\ phase # "done"
  /\ cache_age' = IF cache_age < PERM_LEVEL_CACHE_TTL THEN cache_age + 1
                                                      ELSE cache_age
  /\ stale' = Since(level, 1)
  /\ UNCHANGED <<phase, line, recall, notifications, level, cached_perm_level>>

Key ==
  \/ \E c \in Chars : InsertChar(c)
  \/ Backspace \/ Left \/ Right \/ Up \/ Down \/ Enter \/ CtrlC

Next ==
  \/ Welcome
  \/ Prompt
  \/ Key
  \/ PrintCommand \/ DismissCommand \/ ClearCommand \/ QueryCommand \/ ExitCommand
  \/ LevelChanges
  \/ Tick

Spec == Init /\ [][Next]_vars

----------------------------------------------------------------------------
(* Properties. *)

\* What read_line has in its buffer, between its locals and the end marks it
\* sets only now and then, is at all times the line an editor with insertion,
\* deletion and recall would hold, the history is that of the last lines
\* entered, and run_command gets exactly the line that was entered.
Text ==
  CASE phase = "editing" -> [k \in 1 .. len |-> buf[k - 1]]
    [] phase = "command" -> StringIn(buf)
    [] OTHER -> << >>

Mode ==
  CASE phase = "editing" -> "edit"
    [] phase = "command" -> "run"
    [] OTHER -> "idle"

Editor == INSTANCE LineEditor
            WITH MaxText <- MAX_LINE - 1, MaxRecall <- MAX_HISTORY,
                 mode <- Mode, text <- Text, cursor <- pos, recall <- history

ImplementsEditor == Editor!Spec

\* The level in the top bar was the arbiter's answer less than the time to live
\* ago, be it a level or that there was none, whenever the user sees a prompt.
LevelIsRecent ==
  [][phase = "prompt" /\ phase' = "editing" => stale' < PERM_LEVEL_CACHE_TTL]_vars
=============================================================================
