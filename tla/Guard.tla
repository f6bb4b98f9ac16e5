-------------------------------- MODULE Guard --------------------------------
(***************************************************************************)
(* kernel/modules/guard/guard.c: the table that counts the oopses of each  *)
(* process in windows of time and kills a process in a storm of them, the  *)
(* periodic check of the read-only sentinel, and the sysctl switches that  *)
(* change at any time.                                                     *)
(*                                                                         *)
(* guard_note_oops is one step: the kernel serialises oopses, and nothing  *)
(* else takes guard_lock after init.  The LSM hooks keep no state and are  *)
(* left out.                                                               *)
(***************************************************************************)
EXTENDS Integers, Sequences, FiniteSets

CONSTANTS
  Pids,                 \* of processes that may oops
  GUARD_OOPS_MAX,       \* slots of the table
  GUARD_OOPS_THRESH,    \* oopses that make a storm
  GUARD_OOPS_WINDOW,    \* seconds
  GUARD_CRC_INTERVAL,   \* seconds
  Contents,             \* what the sentinel may be read as
  Intact,               \* what it is compiled as
  MaxTime               \* bound: seconds since boot

ASSUME GuardAssumption ==
  /\ Pids \subseteq Nat \ {0}
  /\ GUARD_OOPS_MAX \in Nat \ {0}
  /\ GUARD_OOPS_THRESH \in Nat \ {0}
  /\ GUARD_OOPS_WINDOW \in Nat
  /\ GUARD_CRC_INTERVAL \in Nat \ {0}
  /\ Intact \in Contents
  /\ MaxTime \in Nat \ {0}

Slots == 1 .. GUARD_OOPS_MAX

VARIABLES
  now,                   \* ktime_get
  guard_oops,            \* the table
  killed,                \* processes with a SIGKILL of the guard on its way
  guard_mode, guard_rodata_check, guard_oops_watch,   \* sysctls
  sentinel,              \* what guard_sentinel holds
  guard_rodata_base_crc, \* what it held at init
  guard_timer,           \* when the timer fires
  panicked,
  burst,                 \* history: when the pid oopsed, since the guard last
                         \* raised the alarm about it or dropped its record
  exposed                \* history: since when mode 2 has had a reason to panic

watch == <<guard_oops, killed, burst>>
switches == <<guard_mode, guard_rodata_check, guard_oops_watch>>
integrity == <<sentinel, guard_rodata_base_crc, guard_timer, panicked>>
vars == <<now, watch, switches, integrity, exposed>>

Record == [pid : Pids \cup {0}, count : 0 .. GUARD_OOPS_THRESH - 1,
           window_start : Nat]
Never == -1

TypeOK ==
  /\ now \in 1 .. MaxTime
  /\ guard_oops \in [Slots -> Record]
  /\ killed \subseteq Pids
  /\ guard_mode \in 0 .. 2
  /\ guard_rodata_check \in BOOLEAN /\ guard_oops_watch \in BOOLEAN
  /\ sentinel \in Contents /\ guard_rodata_base_crc \in Contents
  /\ guard_timer \in now .. now + GUARD_CRC_INTERVAL
  /\ panicked \in BOOLEAN
  /\ burst \in [Pids -> Seq(1 .. now)]
  /\ exposed \in {Never} \cup 1 .. now

(* After servecosys_guard_init; the guard is built in and never unloaded. *)
Init ==
  /\ now = 1
  /\ guard_oops = [s \in Slots |-> [pid |-> 0, count |-> 0, window_start |-> 0]]
  /\ killed = {}
  /\ guard_mode = 1 /\ guard_rodata_check = TRUE /\ guard_oops_watch = TRUE
  /\ sentinel = Intact
  /\ guard_rodata_base_crc = sentinel
  /\ guard_timer = now + GUARD_CRC_INTERVAL
  /\ panicked = FALSE
  /\ burst = [p \in Pids |-> << >>]
  /\ exposed = Never

----------------------------------------------------------------------------
(* guard_note_oops *)

IsKnown(p) == \E s \in Slots : guard_oops[s].pid = p

\* Mutant of Oldest: the comparison is the wrong way round.
Youngest == CHOOSE s \in Slots :
  \A t \in Slots : \/ guard_oops[s].window_start > guard_oops[t].window_start
                   \/ guard_oops[s].window_start = guard_oops[t].window_start /\ s <= t

\* The slot with the oldest window, the first one of several.
Oldest == CHOOSE s \in Slots :
  \A t \in Slots : \/ guard_oops[s].window_start < guard_oops[t].window_start
                   \/ guard_oops[s].window_start = guard_oops[t].window_start /\ s <= t

SlotOf(p) ==
  IF IsKnown(p) THEN CHOOSE s \in Slots : guard_oops[s].pid = p ELSE Oldest

IsOver(r) == now - r.window_start > GUARD_OOPS_WINDOW

\* Mutant of Counting: a slot that changes hands keeps its count.
CountingOn(p) ==
  LET r == guard_oops[SlotOf(p)] IN
  IF IsOver(r) THEN [pid |-> p, count |-> 0, window_start |-> now]
               ELSE [r EXCEPT !.pid = p]

\* Mutant of Counting: every oops starts a window.
CountingAfresh(p) == [pid |-> p, count |-> 0, window_start |-> now]

\* The record of p before the new oops: a new one, or a new window.
Counting(p) ==
  LET r == guard_oops[SlotOf(p)] IN
  IF r.pid # p \/ IsOver(r)
    THEN [pid |-> p, count |-> 0, window_start |-> now]
    ELSE r

IsStorm(p) == Counting(p).count + 1 >= GUARD_OOPS_THRESH

\* Mutant of NoteOops: the count is not reset after an alarm.
NoteOopsOn(p) ==
  /\ guard_oops' = [guard_oops EXCEPT ![SlotOf(p)] =
       [Counting(p) EXCEPT !.count = @ + 1]]
  /\ killed' = IF IsStorm(p) /\ guard_mode >= 1 THEN killed \cup {p} ELSE killed
  /\ UNCHANGED burst

NoteOops(p) ==
  /\ guard_oops' = [guard_oops EXCEPT ![SlotOf(p)] =
       [Counting(p) EXCEPT !.count = IF IsStorm(p) THEN 0 ELSE @ + 1]]
  /\ killed' = IF IsStorm(p) /\ guard_mode >= 1 THEN killed \cup {p} ELSE killed
  /\ burst' = [q \in Pids |->
       CASE q = p -> IF IsStorm(p) THEN << >> ELSE Append(burst[p], now)
         [] q # p /\ q = guard_oops[SlotOf(p)].pid -> << >>
         [] OTHER -> burst[q]]

(* guard_die_notify.  Unwatched oopses leave no trace in the guard. *)
Oops(p) ==
  /\ ~panicked
  /\ guard_oops_watch
  /\ NoteOops(p)
  /\ UNCHANGED <<now, switches, integrity, exposed>>

\* The process ends, by the signal, by its oops or on its own; its pid may then
\* be that of another one.
Exit(p) ==
  /\ ~panicked
  /\ p \in killed
  /\ killed' = killed \ {p}
  /\ UNCHANGED <<now, guard_oops, burst, switches, integrity, exposed>>

----------------------------------------------------------------------------
(* The sentinel and the timer *)

\* Mutant of Tampered: the base is rebuilt before it is compared.
TamperedSinceNow == guard_rodata_check /\ sentinel # sentinel

Tampered == guard_rodata_check /\ sentinel # guard_rodata_base_crc

TimerFn ==
  /\ ~panicked
  /\ now = guard_timer
  /\ panicked' = (Tampered /\ guard_mode >= 2)
  /\ guard_timer' = IF panicked' THEN guard_timer ELSE now + GUARD_CRC_INTERVAL
  /\ UNCHANGED <<now, watch, switches, sentinel, guard_rodata_base_crc, exposed>>

\* What mode 2 is there for.
MustPanic == guard_rodata_check /\ guard_mode = 2
             /\ sentinel # guard_rodata_base_crc

NoteExposure ==
  exposed' = IF ~MustPanic' THEN Never ELSE IF MustPanic THEN exposed ELSE now

\* Something writes to the sentinel, in whatever way.
Overwrite ==
  /\ ~panicked
  /\ sentinel' \in Contents
  /\ UNCHANGED <<now, watch, switches, guard_rodata_base_crc, guard_timer, panicked>>
  /\ NoteExposure

(* One sysctl is written, with any int: the code tells a mode below 1, 1 and a *)
(* higher one apart, and of the switches whether they are zero.                *)
WriteSysctl ==
  /\ ~panicked
  /\ \/ guard_mode' \in 0 .. 2 /\ UNCHANGED <<guard_rodata_check, guard_oops_watch>>
     \/ guard_rodata_check' \in BOOLEAN /\ UNCHANGED <<guard_mode, guard_oops_watch>>
     \/ guard_oops_watch' \in BOOLEAN /\ UNCHANGED <<guard_mode, guard_rodata_check>>
  /\ UNCHANGED <<now, watch, integrity>>
  /\ NoteExposure

\* Time passes; a timer that is due fires first.
Tick ==
  /\ ~panicked
  /\ now < guard_timer
  /\ now < MaxTime
  /\ now' = now + 1
  /\ UNCHANGED <<watch, switches, integrity, exposed>>

Next ==
  \/ \E p \in Pids : Oops(p) \/ Exit(p)
  \/ TimerFn
  \/ Overwrite
  \/ WriteSysctl
  \/ Tick

Spec == Init /\ [][Next]_vars

----------------------------------------------------------------------------
(* Properties. *)

\* How many of the times s lie in the last window of time.
Recent(s) == Cardinality({i \in DOMAIN s : now - s[i] <= GUARD_OOPS_WINDOW})

\* A process is killed only for oopses under its own pid, all of them within the
\* length of one window: counts are never inherited with a slot, never carried
\* from one window to the next, and never used twice.
KillsAreEarned ==
  [][\A p \in Pids : p \in killed' \ killed =>
       Recent(burst[p]) + 1 >= GUARD_OOPS_THRESH]_vars

\* What guard_note_oops promises of a storm, windows being fixed and not sliding:
\* while its record lasts, a watched pid never has 2 * GUARD_OOPS_THRESH - 1
\* oopses within the length of a window without an alarm.  (GUARD_OOPS_THRESH
\* of them may go unnoticed, when they lie across the end of a window.)
StormIsNoticed ==
  \A p \in Pids : Recent(burst[p]) <= 2 * GUARD_OOPS_THRESH - 2

\* A record is dropped within its window only if all slots hold such records:
\* otherwise an empty slot or one whose window is over is used.
Current(r) == r.pid # 0 /\ ~IsOver(r)
EvictsSpentFirst ==
  [][\A s \in Slots :
       guard_oops'[s].pid # guard_oops[s].pid /\ Current(guard_oops[s])
         => \A t \in Slots : Current(guard_oops[t])]_vars

\* With mode 2 and the check switched on, a changed sentinel is not survived for
\* longer than the interval of the timer, whatever is switched in between.
PanicsInTime == exposed # Never /\ ~panicked => now - exposed <= GUARD_CRC_INTERVAL
=============================================================================
