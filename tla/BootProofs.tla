----------------------------- MODULE BootProofs -----------------------------
(***************************************************************************)
(* Proofs about Boot, for any lists of daemons, whichever of them are      *)
(* installed, and any number of deaths: its types, that a daemon runs      *)
(* once, and what the security gate lets through.                          *)
(***************************************************************************)
EXTENDS Boot, SequenceTheorems, TLAPS

\* The scripts wait only at an entry of a list that starts daemons.
WaitsAtEntry == waiting => script \in {"sed", "uid", "supervise"} /\ i \in DOMAIN List

\* A pidfile that is not left from an earlier time was written in this boot.
WrittenIsSeen == \A d \in Daemons : pidfile[d] \in {"live", "dead"} => d \in seen

\* Entry k of the list of the current script has been come to.
Reached(k) == k < i \/ (k = i /\ waiting)

\* The bootstrap of the backend removes the old pidfile of what it starts, and
\* nothing writes an old one.
SedRemovesOld ==
  script = "sed" => \A k \in DOMAIN SedDaemons :
    Reached(k) /\ SedDaemons[k] \in installed => pidfile[SedDaemons[k]] # "old"

\* What is not installed has no process, and no pidfile of this boot.
MissingNeverRuns ==
  \A d \in Daemons \ installed :
    starting[d] = 0 /\ up[d] = 0 /\ pidfile[d] \in {"none", "old"}

\* What a bootstrap script has not come to does not run.
NotYetStarted ==
  /\ script = "sed" =>
       /\ \A k \in DOMAIN SedDaemons : ~Reached(k) => Live(SedDaemons[k]) = 0
       /\ \A k \in DOMAIN UidDaemons : Live(UidDaemons[k]) = 0
  /\ script = "uid" =>
       \A k \in DOMAIN UidDaemons : ~Reached(k) => Live(UidDaemons[k]) = 0

\* A daemon that was never given up on has one process, which the scripts wait
\* for until it is ready, and which its pidfile names from then on.
InTime(d) ==
  /\ Live(d) <= 1
  /\ starting[d] = 1 => waiting /\ Current = d
  /\ up[d] = 1 => pidfile[d] = "live"
Single == \A d \in Daemons : d \notin late => InTime(d)

Inv == TypeOK /\ WaitsAtEntry /\ WrittenIsSeen /\ SedRemovesOld /\ MissingNeverRuns
       /\ NotYetStarted /\ Single

----------------------------------------------------------------------------
(* Lemmas *)

\* The entries of the lists are daemons, at positions from 1 on.
LEMMA ListEntries ==
  /\ \A k \in DOMAIN SedDaemons :
       k \in Nat \ {0} /\ k <= Len(SedDaemons) /\ SedDaemons[k] \in Daemons
  /\ \A k \in DOMAIN UidDaemons :
       k \in Nat \ {0} /\ k <= Len(UidDaemons)
       /\ UidDaemons[k] \in Daemons /\ UidDaemons[k] \in Range(UidDaemons)
  /\ \A k \in DOMAIN Supervised : k \in Nat \ {0} /\ Supervised[k] \in Daemons
  /\ Len(SedDaemons) \in Nat /\ Len(UidDaemons) \in Nat /\ Len(Supervised) \in Nat
  <1>1. /\ SedDaemons \in Seq(STRING) /\ UidDaemons \in Seq(STRING)
        /\ Supervised \in Seq(STRING)
    BY BootAssumption
  <1>2. /\ DOMAIN SedDaemons = 1 .. Len(SedDaemons) /\ Len(SedDaemons) \in Nat
        /\ DOMAIN UidDaemons = 1 .. Len(UidDaemons) /\ Len(UidDaemons) \in Nat
        /\ DOMAIN Supervised = 1 .. Len(Supervised) /\ Len(Supervised) \in Nat
    BY <1>1, LenProperties
  <1>. QED  BY <1>2 DEF Daemons, Range

\* An entry that a script has come to is a daemon.
LEMMA CurrentDaemon == ASSUME i \in DOMAIN List PROVE Current \in Daemons
  BY ListEntries DEF List, Current

\* The list and the entry of a script change only with the script and its position.
LEMMA SameEntry ==
  ASSUME UNCHANGED <<script, i>>
  PROVE  List' = List /\ Current' = Current
  BY DEF List, Current

\* No daemon that a bootstrap script starts is in its list twice, or in the other.
LEMMA EntriesDiffer ==
  /\ \A j, k \in DOMAIN SedDaemons : SedDaemons[j] = SedDaemons[k] => j = k
  /\ \A j, k \in DOMAIN UidDaemons : UidDaemons[j] = UidDaemons[k] => j = k
  /\ \A j \in DOMAIN SedDaemons, k \in DOMAIN UidDaemons : SedDaemons[j] # UidDaemons[k]
  BY BootAssumption DEF Distinct, Range

\* Inv holds when sysinit starts, whatever /var/run holds.
LEMMA InvInit == Init => Inv
  <1>. SUFFICES ASSUME Init PROVE Inv
    OBVIOUS
  <1>1. TypeOK
    <2>1. waiting \in BOOLEAN
      BY Zenon DEF Init
    <2>. QED  BY <2>1, BootAssumption DEF Init, TypeOK
  <1>2. WaitsAtEntry
    BY Zenon DEF Init, WaitsAtEntry
  <1>3. WrittenIsSeen
    BY DEF Init, WrittenIsSeen
  <1>4. SedRemovesOld
    <2>1. ~waiting /\ i = 1
      BY DEF Init
    <2>2. \A k \in DOMAIN SedDaemons : ~Reached(k)
      <3>. SUFFICES ASSUME NEW k \in DOMAIN SedDaemons PROVE ~Reached(k)
        OBVIOUS
      <3>1. k \in Nat \ {0}
        BY ListEntries
      <3>2. ~(k < i)
        BY <2>1, <3>1
      <3>. QED  BY <2>1, <3>2, Zenon DEF Reached
    <2>. QED  BY <2>2 DEF SedRemovesOld
  <1>5. \A d \in Daemons : starting[d] = 0 /\ up[d] = 0 /\ Live(d) = 0
    BY DEF Init, Live
  <1>6. NotYetStarted /\ Single
    BY <1>5, ListEntries DEF Init, NotYetStarted, Single, InTime
  <1>7. MissingNeverRuns
    BY <1>5 DEF Init, MissingNeverRuns
  <1>. QED  BY <1>1, <1>2, <1>3, <1>4, <1>6, <1>7 DEF Inv

\* start_daemon, from a bootstrap script or from the supervisor, is only called
\* for a daemon with no process, or for one that was given up on.
LEMMA StartsOnce ==
  ASSUME Inv, ~waiting, i \in DOMAIN List, script \in {"sed", "uid", "supervise"},
         script = "supervise" => ~IsAlive(Current)
  PROVE  Current \in Daemons /\ (Current \notin late => Live(Current) = 0)
  <1>1. Current \in Daemons
    BY CurrentDaemon
  <1>2. starting[Current] \in Nat /\ up[Current] \in Nat /\ i \in Nat
    BY <1>1 DEF Inv, TypeOK
  <1>3. ~Reached(i)
    BY <1>2 DEF Reached
  <1>4. CASE script = "sed"
    BY <1>1, <1>3, <1>4 DEF Inv, NotYetStarted, List, Current
  <1>5. CASE script = "uid"
    BY <1>1, <1>3, <1>5 DEF Inv, NotYetStarted, List, Current
  <1>6. CASE script = "supervise" /\ Current \notin late
    <2>1. Live(Current) <= 1 /\ starting[Current] # 1 /\ up[Current] # 1
      BY <1>1, <1>6 DEF Inv, Single, InTime, IsAlive
    <2>. QED  BY <1>1, <1>2, <2>1 DEF Live
  <1>. QED  BY <1>1, <1>4, <1>5, <1>6

\* Starting a daemon keeps Inv.
LEMMA StartKeeps ==
  ASSUME Inv, ~waiting, i \in DOMAIN List, script \in {"sed", "uid", "supervise"},
         script = "supervise" => ~IsAlive(Current),
         Current \in installed, StartDaemon(Current),
         UNCHANGED <<installed, script, i, granted, deaths, history>>
  PROVE  Inv'
  <1>. DEFINE c == Current
  <1>1. c \in Daemons /\ (c \notin late => Live(c) = 0)
    BY StartsOnce
  <1>2. List' = List /\ Current' = c
    BY SameEntry
  <1>3. /\ pidfile' = [pidfile EXCEPT ![c] = "none"]
        /\ starting' = [starting EXCEPT ![c] = @ + 1]
        /\ up' = up /\ waiting' = TRUE
        /\ script' = script /\ i' = i /\ late' = late /\ seen' = seen
    BY DEF StartDaemon, history
  <1>. HIDE DEF c
  <1>4. /\ starting \in [Daemons -> Nat] /\ up \in [Daemons -> Nat]
        /\ pidfile \in [Daemons -> {"none", "live", "dead", "old"}] /\ i \in Nat \ {0}
    BY DEF Inv, TypeOK
  <1>5. /\ starting'[c] = starting[c] + 1 /\ pidfile'[c] = "none"
        /\ \A d \in Daemons : d # c => starting'[d] = starting[d] /\ pidfile'[d] = pidfile[d]
    BY <1>1, <1>3, <1>4
  <1>6. TypeOK'
    <2>1. waiting' \in BOOLEAN
      BY <1>3, Zenon
    <2>2. starting' \in [Daemons -> Nat] /\ pidfile' \in [Daemons -> {"none", "live", "dead", "old"}]
      BY <1>1, <1>3, <1>4
    <2>. QED  BY <1>3, <2>1, <2>2 DEF Inv, TypeOK
  <1>7. WaitsAtEntry'
    BY <1>2, <1>3 DEF WaitsAtEntry
  <1>8. WrittenIsSeen'
    BY <1>3, <1>5 DEF Inv, WrittenIsSeen
  <1>9. \A k \in Nat : Reached(k)' <=> Reached(k) \/ k = i
    BY <1>3, <1>4 DEF Reached
  <1>10. SedRemovesOld'
    BY <1>3, <1>5, <1>9, ListEntries DEF Inv, SedRemovesOld, List, Current, c
  <1>11. \A d \in Daemons : d # c => Live(d)' = Live(d)
    BY <1>3, <1>5 DEF Live
  <1>12. NotYetStarted'
    <2>1. ASSUME script = "sed"
          PROVE  /\ \A k \in DOMAIN SedDaemons : ~Reached(k)' => Live(SedDaemons[k])' = 0
                 /\ \A k \in DOMAIN UidDaemons : Live(UidDaemons[k])' = 0
      <3>1. c = SedDaemons[i] /\ i \in DOMAIN SedDaemons
        BY <2>1 DEF c, Current, List
      <3>. QED
        BY <2>1, <3>1, <1>9, <1>11, ListEntries, EntriesDiffer DEF Inv, NotYetStarted
    <2>2. ASSUME script = "uid"
          PROVE  \A k \in DOMAIN UidDaemons : ~Reached(k)' => Live(UidDaemons[k])' = 0
      <3>1. c = UidDaemons[i] /\ i \in DOMAIN UidDaemons
        BY <2>2 DEF c, Current, List
      <3>. QED
        BY <2>2, <3>1, <1>9, <1>11, ListEntries, EntriesDiffer DEF Inv, NotYetStarted
    <2>. QED  BY <1>3, <2>1, <2>2 DEF NotYetStarted
  <1>13. Single'
    <2>. SUFFICES ASSUME NEW d \in Daemons, d \notin late PROVE InTime(d)'
      BY <1>3 DEF Single
    <2>1. InTime(d)
      BY DEF Inv, Single
    <2>2. CASE d = c
      <3>1. starting[d] = 0 /\ up[d] = 0
        BY <1>1, <1>4, <2>2 DEF Live
      <3>. QED  BY <1>2, <1>3, <1>5, <2>2, <3>1 DEF InTime, Live
    <2>3. CASE d # c
      <3>1. starting[d] # 1
        BY <2>1 DEF InTime
      <3>. QED  BY <1>3, <1>5, <1>11, <2>1, <2>3, <3>1 DEF InTime
    <2>. QED  BY <2>2, <2>3
  <1>14. MissingNeverRuns'
    BY <1>3, <1>5 DEF Inv, MissingNeverRuns, c
  <1>. QED  BY <1>6, <1>7, <1>8, <1>10, <1>12, <1>13, <1>14 DEF Inv

\* So does going on to the next entry without waiting, or to the next script.
LEMMA AdvanceKeeps ==
  ASSUME Inv, ~waiting, UNCHANGED <<installed, waiting, daemons, deaths, history>>,
         \/ script' = script /\ i' = i
         \/ script' = script /\ i' = i + 1 /\ (Current \in installed => script \notin {"sed", "uid"})
            /\ i \in DOMAIN List
         \/ script' = "uid" /\ i' = 1 /\ script = "sed"
         \/ script' \in {"grant", "supervise", "console"} /\ i' = 1,
         granted' \subseteq Range(UidDaemons)
  PROVE  Inv'
  <1>1. /\ i \in Nat \ {0} /\ i' \in Nat \ {0}
        /\ script' \in {"sed", "uid", "grant", "supervise", "console"}
    BY DEF Inv, TypeOK
  <1>2. /\ starting' = starting /\ up' = up /\ pidfile' = pidfile /\ waiting' = waiting
        /\ late' = late /\ seen' = seen /\ deaths' = deaths
    BY DEF daemons, history
  <1>3. TypeOK'
    BY <1>1, <1>2 DEF Inv, TypeOK
  <1>4. WaitsAtEntry' /\ WrittenIsSeen' /\ MissingNeverRuns'
    BY <1>2 DEF Inv, WaitsAtEntry, WrittenIsSeen, MissingNeverRuns
  <1>5. SedRemovesOld'
    <2>. SUFFICES ASSUME script' = "sed", NEW k \in DOMAIN SedDaemons, Reached(k)',
                         SedDaemons[k] \in installed
                  PROVE  pidfile[SedDaemons[k]] # "old"
      BY <1>2 DEF SedRemovesOld
    <2>1. script = "sed" /\ k \in Nat
      BY ListEntries
    <2>2. CASE i' = i
      BY <1>2, <2>1, <2>2 DEF Inv, SedRemovesOld, Reached
    <2>3. CASE i' = i + 1 /\ SedDaemons[i] \notin installed
      <3>1. k # i
        BY <2>3
      <3>2. k < i
        BY <1>1, <1>2, <2>1, <2>3, <3>1 DEF Reached
      <3>. QED  BY <2>1, <3>2 DEF Inv, SedRemovesOld, Reached
    <2>. QED  BY <2>1, <2>2, <2>3 DEF List, Current
  <1>6. NotYetStarted'
    <2>1. \A d : Live(d)' = Live(d)
      BY <1>2 DEF Live
    <2>2. CASE script' = script /\ (i' = i \/ i' = i + 1)
      <3>1. \A k \in Nat : Reached(k) => Reached(k)'
        BY <1>1, <1>2, <2>2 DEF Reached
      <3>. QED  BY <2>1, <2>2, <3>1, ListEntries DEF Inv, NotYetStarted
    <2>3. CASE script' = "uid" /\ script = "sed"
      BY <2>1, <2>3 DEF Inv, NotYetStarted
    <2>4. CASE script' \in {"grant", "supervise", "console"}
      BY <2>4 DEF NotYetStarted
    <2>. QED  BY <2>2, <2>3, <2>4
  <1>7. Single'
    BY <1>2 DEF Inv, Single, InTime, Live
  <1>. QED  BY <1>3, <1>4, <1>5, <1>6, <1>7 DEF Inv

\* wait_ready keeps Inv: what has not become ready by then is late.
LEMMA WaitKeeps == ASSUME Inv, WaitReady PROVE Inv'
  <1>1. /\ waiting /\ i \in DOMAIN List /\ script \in {"sed", "uid", "supervise"}
        /\ Current \in Daemons
    BY CurrentDaemon DEF WaitReady, Inv, WaitsAtEntry
  <1>2. /\ ~waiting' /\ i' = i + 1 /\ script' = script /\ installed' = installed
        /\ starting' = starting /\ up' = up /\ pidfile' = pidfile /\ seen' = seen
        /\ late' = IF starting[Current] > 0 THEN late \cup {Current} ELSE late
    BY DEF WaitReady, daemons
  <1>3. i \in Nat \ {0} /\ starting \in [Daemons -> Nat]
    BY DEF Inv, TypeOK
  <1>4. TypeOK'
    <2>1. waiting' \in BOOLEAN
      BY Zenon DEF WaitReady
    <2>2. late' \subseteq Daemons
      BY <1>1, <1>2 DEF Inv, TypeOK
    <2>. QED  BY <1>2, <1>3, <2>1, <2>2 DEF WaitReady, Inv, TypeOK
  <1>5. WaitsAtEntry' /\ MissingNeverRuns'
    BY <1>2 DEF Inv, WaitsAtEntry, MissingNeverRuns
  <1>6. WrittenIsSeen'
    BY <1>2 DEF Inv, WrittenIsSeen
  <1>7. \A k \in Nat : Reached(k)' <=> Reached(k)
    BY <1>1, <1>2, <1>3 DEF Reached
  <1>8. SedRemovesOld'
    BY <1>2, <1>7, ListEntries DEF Inv, SedRemovesOld
  <1>9. NotYetStarted'
    <2>1. \A d : Live(d)' = Live(d)
      BY <1>2 DEF Live
    <2>. QED  BY <1>2, <1>7, <2>1, ListEntries DEF Inv, NotYetStarted
  <1>10. Single'
    <2>. SUFFICES ASSUME NEW d \in Daemons, d \notin late' PROVE InTime(d)'
      BY DEF Single
    <2>1. d \notin late /\ (d = Current => ~(starting[d] > 0))
      BY <1>2
    <2>2. InTime(d)
      BY <2>1 DEF Inv, Single
    <2>3. starting[d] # 1
      BY <1>1, <1>3, <2>1, <2>2 DEF InTime
    <2>. QED  BY <1>2, <2>2, <2>3 DEF InTime, Live
  <1>. QED  BY <1>4, <1>5, <1>6, <1>8, <1>9, <1>10 DEF Inv

\* And so does every step of a daemon: it takes a process from starting to up, or
\* away, and leaves the pidfile that goes with it.
LEMMA DaemonKeeps ==
  ASSUME Inv, NEW d \in Daemons, BecomeReady(d) \/ FailToStart(d) \/ Die(d)
  PROVE  Inv'
  <1>1. /\ starting \in [Daemons -> Nat] /\ up \in [Daemons -> Nat]
        /\ pidfile \in [Daemons -> {"none", "live", "dead", "old"}]
    BY DEF Inv, TypeOK
  <1>2. /\ script' = script /\ i' = i /\ waiting' = waiting /\ granted' = granted
        /\ late' = late /\ installed' = installed
    BY DEF BecomeReady, FailToStart, Die, history
  <1>3. /\ starting' \in [Daemons -> Nat] /\ up' \in [Daemons -> Nat]
        /\ pidfile' \in [Daemons -> {"none", "live", "dead", "old"}]
    BY <1>1 DEF BecomeReady, FailToStart, Die
  <1>4. \A e \in Daemons : e # d =>
          starting'[e] = starting[e] /\ up'[e] = up[e] /\ pidfile'[e] = pidfile[e]
    BY <1>1 DEF BecomeReady, FailToStart, Die
  <1>5. /\ starting'[d] + up'[d] <= starting[d] + up[d]
        /\ starting'[d] <= starting[d]
    BY <1>1 DEF BecomeReady, FailToStart, Die
  <1>6. pidfile'[d] = "old" => pidfile[d] = "old"
    BY <1>1 DEF BecomeReady, FailToStart, Die
  <1>7. /\ seen \subseteq seen' /\ seen' \subseteq Daemons
        /\ pidfile'[d] \in {"live", "dead"} => d \in seen' \/ pidfile[d] \in {"live", "dead"}
    BY <1>1 DEF BecomeReady, FailToStart, Die, history, Inv, TypeOK
  <1>8. TypeOK'
    <2>1. deaths' \in 0 .. MaxDeaths
      BY BootAssumption DEF BecomeReady, FailToStart, Die, Inv, TypeOK
    <2>. QED  BY <1>2, <1>3, <1>7, <2>1 DEF Inv, TypeOK
  <1>9. List' = List /\ Current' = Current
    BY <1>2, SameEntry
  <1>10. WaitsAtEntry' /\ MissingNeverRuns'
    <2>1. WaitsAtEntry'
      BY <1>2, <1>9 DEF Inv, WaitsAtEntry
    <2>2. starting[d] # 0 \/ up[d] # 0
      BY <1>1 DEF BecomeReady, FailToStart, Die
    <2>3. MissingNeverRuns'
      BY <1>2, <1>4, <2>2 DEF Inv, MissingNeverRuns
    <2>. QED  BY <2>1, <2>3
  <1>11. WrittenIsSeen'
    BY <1>4, <1>7 DEF Inv, WrittenIsSeen
  <1>12. \A k : Reached(k)' <=> Reached(k)
    BY <1>2 DEF Reached
  <1>13. SedRemovesOld'
    BY <1>2, <1>4, <1>6, <1>12, ListEntries DEF Inv, SedRemovesOld
  <1>14. \A e \in Daemons : Live(e) \in Nat /\ Live(e)' \in Nat /\ Live(e)' <= Live(e)
    BY <1>1, <1>3, <1>4, <1>5 DEF Live
  <1>15. \A e \in Daemons : Live(e) = 0 => Live(e)' = 0
    BY <1>14
  <1>16. NotYetStarted'
    BY <1>2, <1>12, <1>15, ListEntries DEF Inv, NotYetStarted
  <1>17. Single'
    <2>. SUFFICES ASSUME NEW e \in Daemons, e \notin late PROVE InTime(e)'
      BY <1>2 DEF Single
    <2>1. InTime(e)
      BY DEF Inv, Single
    <2>2. Live(e)' <= 1
      BY <1>14, <2>1 DEF InTime
    <2>3. starting'[e] = 1 => starting[e] = 1
      <3>1. starting[e] \in Nat /\ starting'[e] \in Nat /\ up[e] \in Nat
        BY <1>1, <1>3
      <3>2. starting[e] <= 1
        BY <2>1, <3>1 DEF InTime, Live
      <3>. QED  BY <1>4, <1>5, <3>1, <3>2
    <2>4. up'[e] = 1 => pidfile'[e] = "live"
      <3>1. CASE e # d
        BY <1>4, <2>1, <3>1 DEF InTime
      <3>2. CASE e = d /\ BecomeReady(d)
        BY <1>1, <3>2 DEF BecomeReady
      <3>3. CASE e = d /\ FailToStart(d)
        BY <2>1, <3>3 DEF FailToStart, InTime
      <3>4. CASE e = d /\ Die(d)
        BY <1>1, <2>1, <3>4 DEF Die, InTime, Live
      <3>. QED  BY <3>1, <3>2, <3>3, <3>4
    <2>. QED  BY <1>2, <1>9, <2>1, <2>2, <2>3, <2>4 DEF InTime
  <1>. QED  BY <1>8, <1>10, <1>11, <1>13, <1>16, <1>17 DEF Inv

\* Every step of the scripts and of the daemons keeps Inv.
LEMMA InvStep == Inv /\ [Next]_vars => Inv'
  <1>. SUFFICES ASSUME Inv, [Next]_vars PROVE Inv'
    OBVIOUS
  <1>0. /\ granted \subseteq Range(UidDaemons)
        /\ LastScripts \subseteq {"supervise", "console"}
    BY BootAssumption DEF Inv, TypeOK
  <1>1. CASE BootEntry
    <2>1. CASE Current \in installed
      BY <1>1, <2>1, StartKeeps DEF BootEntry, AtEntry
    <2>2. CASE Current \notin installed
      BY <1>0, <1>1, <2>2, AdvanceKeeps DEF BootEntry, AtEntry
    <2>. QED  BY <2>1, <2>2
  <1>2. ASSUME i > Len(List), i \in Nat, script \in {"sed", "uid", "grant"} PROVE ~waiting
    BY <1>2, ListEntries DEF Inv, WaitsAtEntry, List
  <1>3. i \in Nat
    BY DEF Inv, TypeOK
  <1>4. CASE SedDone
    <2>1. ~waiting
      BY <1>2, <1>3, <1>4 DEF SedDone, List
    <2>. QED  BY <1>0, <1>4, <2>1, AdvanceKeeps DEF SedDone, LastScript
  <1>5. CASE UidDone
    <2>1. ~waiting
      BY <1>2, <1>3, <1>5 DEF UidDone, List
    <2>. QED  BY <1>0, <1>5, <2>1, AdvanceKeeps DEF UidDone
  <1>6. CASE GrantEntry
    <2>1. Current \in Range(UidDaemons)
      BY <1>6, ListEntries DEF GrantEntry, AtEntry, List, Current
    <2>2. granted' \subseteq Range(UidDaemons)
      BY <1>0, <1>6, <2>1 DEF GrantEntry
    <2>. QED  BY <1>6, <2>2, AdvanceKeeps DEF GrantEntry, AtEntry
  <1>7. CASE GrantDone
    <2>1. ~waiting
      BY <1>2, <1>3, <1>7 DEF GrantDone, List
    <2>. QED  BY <1>0, <1>7, <2>1, AdvanceKeeps DEF GrantDone, LastScript
  <1>8. CASE SuperviseSkip
    BY <1>0, <1>8, AdvanceKeeps DEF SuperviseSkip, AtEntry
  <1>9. CASE SuperviseStart
    BY <1>9, StartKeeps DEF SuperviseStart, AtEntry, Startable
  <1>10. CASE SuperviseAgain
    BY <1>0, <1>10, AdvanceKeeps DEF SuperviseAgain
  <1>11. CASE WaitReady
    BY <1>11, WaitKeeps
  <1>12. ASSUME NEW d \in Daemons, BecomeReady(d) \/ FailToStart(d) \/ Die(d) PROVE Inv'
    BY <1>12, DaemonKeeps
  <1>13. CASE UNCHANGED vars
    <2>1. List' = List /\ Current' = Current
      BY <1>13, SameEntry DEF vars
    <2>2. TypeOK' /\ WaitsAtEntry' /\ WrittenIsSeen' /\ MissingNeverRuns'
      BY <1>13, <2>1 DEF vars, daemons, history, Inv, TypeOK, WaitsAtEntry,
                         WrittenIsSeen, MissingNeverRuns
    <2>3. SedRemovesOld' /\ NotYetStarted' /\ Single'
      BY <1>13, <2>1 DEF vars, daemons, history, Inv, SedRemovesOld, NotYetStarted,
                         Single, InTime, Live, Reached
    <2>. QED  BY <2>2, <2>3 DEF Inv
  <1>. QED
    BY <1>1, <1>4, <1>5, <1>6, <1>7, <1>8, <1>9, <1>10, <1>11, <1>12, <1>13
    DEF Next, Script

\* Inv holds in every reachable state.
LEMMA Invariance == Spec => []Inv
  BY InvInit, InvStep, PTL DEF Spec

----------------------------------------------------------------------------
(* Theorems *)

\* The scripts stay within their lists, and grant nothing but UI daemons.
THEOREM TypeCorrect == Spec => []TypeOK
  <1>1. Inv => TypeOK
    BY DEF Inv
  <1>. QED  BY <1>1, Invariance, PTL

\* start_daemon makes no second process of a daemon, through boot, deaths and
\* respawns, unless it gave up on one that was still starting.
THEOREM RunsOnce == Spec => []SingleInstance
  <1>1. Inv => SingleInstance
    BY DEF Inv, TypeOK, Single, InTime, Live, SingleInstance
  <1>. QED  BY <1>1, Invariance, PTL

\* sysinit and uid-bootstrap.sh start the UI only after each authority has come
\* up in this boot: an old pidfile passes the gate only for one that is missing.
THEOREM GateNeedsAuthorities == Spec => []GateIsReal
  <1>. DEFINE Passes(a) == a \in seen \/ (a \notin installed /\ pidfile[a] = "old")
  <1>0. Authorities \subseteq Daemons
    BY BootAssumption DEF Daemons
  <1>1. Init => GateIsReal
    BY DEF Init, GateIsReal
  <1>2. Inv /\ GateIsReal /\ [Next]_vars => GateIsReal'
    <2>. SUFFICES ASSUME Inv, GateIsReal, [Next]_vars PROVE GateIsReal'
      OBVIOUS
    <2>1. seen \subseteq seen' /\ installed' = installed
      BY DEF Next, Script, BootEntry, SedDone, UidDone, GrantEntry, GrantDone,
             SuperviseSkip, SuperviseStart, SuperviseAgain, WaitReady,
             BecomeReady, FailToStart, Die, vars, history
    <2>2. ASSUME NEW a \in Authorities, Passes(a)
          PROVE  Passes(a)'
      <3>1. CASE a \in seen
        BY <2>1, <3>1
      <3>2. CASE a \notin installed /\ pidfile[a] = "old"
        <4>1. a \in Daemons /\ starting[a] = 0 /\ up[a] = 0
          BY <1>0, <3>2 DEF Inv, MissingNeverRuns
        <4>2. pidfile'[a] = pidfile[a]
          <5>1. pidfile \in [Daemons -> {"none", "live", "dead", "old"}]
            BY DEF Inv, TypeOK
          <5>2. ASSUME NEW d \in Daemons, BecomeReady(d) \/ FailToStart(d) \/ Die(d)
                PROVE  pidfile'[a] = pidfile[a]
            <6>1. d # a
              BY <4>1, <5>2 DEF BecomeReady, FailToStart, Die
            <6>. QED  BY <4>1, <5>1, <5>2, <6>1 DEF BecomeReady, FailToStart, Die
          <5>3. CASE BootEntry \/ SuperviseStart
            BY <3>2, <4>1, <5>1, <5>3
            DEF BootEntry, SuperviseStart, Startable, StartDaemon, daemons
          <5>. QED  BY <5>2, <5>3
            DEF Next, Script, SedDone, UidDone, GrantEntry, GrantDone, SuperviseSkip,
                SuperviseAgain, WaitReady, vars, daemons
        <4>. QED  BY <2>1, <3>2, <4>2
      <3>. QED  BY <2>2, <3>1, <3>2
    <2>3. CASE SedDone /\ Gate
      <3>1. ASSUME NEW a \in Authorities PROVE Passes(a)
        <4>1. PICK k \in DOMAIN SedDaemons : a = SedDaemons[k]
          BY BootAssumption DEF Range
        <4>2. Reached(k)
          BY <2>3, ListEntries DEF SedDone, Reached, Inv, TypeOK
        <4>3. a \in installed => pidfile[a] # "old"
          BY <2>3, <4>1, <4>2 DEF SedDone, Inv, SedRemovesOld
        <4>4. pidfile[a] # "none" /\ a \in Daemons
          BY <1>0, <2>3 DEF Gate, Exists
        <4>5. pidfile[a] \in {"live", "dead", "old"}
          BY <4>4 DEF Inv, TypeOK
        <4>. QED  BY <4>3, <4>4, <4>5 DEF Inv, WrittenIsSeen, MissingNeverRuns
      <3>. QED  BY <2>2, <3>1 DEF GateIsReal
    <2>4. CASE ~(SedDone /\ Gate)
      <3>1. script' \in {"uid", "grant"} => script \in {"uid", "grant"}
        BY <2>4, BootAssumption
        DEF Next, Script, BootEntry, SedDone, UidDone, GrantEntry, GrantDone,
            SuperviseSkip, SuperviseStart, SuperviseAgain, WaitReady,
            BecomeReady, FailToStart, Die, vars, LastScript
      <3>. QED  BY <2>2, <3>1 DEF GateIsReal
    <2>. QED  BY <2>3, <2>4
  <1>. QED  BY <1>1, <1>2, Invariance, PTL DEF Spec
=============================================================================
