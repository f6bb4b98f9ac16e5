-------------------------------- MODULE Boot --------------------------------
(***************************************************************************)
(* system/sysinit, sed-bootstrap.sh, uid-bootstrap.sh, supervise.sh and    *)
(* lib.sh: one shell after the other starts the daemons, waits for their   *)
(* pidfiles, opens the UI behind the security gate, and stays as the       *)
(* supervisor.  Meanwhile daemons get ready, quit and die.                 *)
(*                                                                         *)
(* A daemon is known by its pidfile only.  Several processes of the same   *)
(* daemon are counted, not told apart (AuthChain does that for             *)
(* system_manager).                                                        *)
(***************************************************************************)
EXTENDS Naturals, Sequences, Functions

CONSTANTS
  SedDaemons,   \* what sed-bootstrap.sh starts, in order
  UidDaemons,   \* what uid-bootstrap.sh starts, in order
  Supervised,   \* the table of supervise.sh, in order
  Missable,     \* daemons whose executable may be missing
  LastScripts,  \* what sysinit may end in, see LastScript
  MaxDeaths     \* bound: daemons that quit or die

Daemons == Range(SedDaemons) \cup Range(UidDaemons) \cup Range(Supervised)

Authorities == {"permission_arbiter", "system_manager"}

\* No daemon is in the list twice.
Distinct(s) == \A j, k \in DOMAIN s : s[j] = s[k] => j = k

ASSUME BootAssumption ==
  /\ \A s \in {SedDaemons, UidDaemons, Supervised} : s \in Seq(STRING)
  /\ Distinct(SedDaemons) /\ Distinct(UidDaemons)
  /\ Range(SedDaemons) \cap Range(UidDaemons) = {}
  /\ Authorities \subseteq Range(SedDaemons)
  /\ LastScripts \subseteq {"supervise", "console"}
  /\ MaxDeaths \in Nat

VARIABLES
  installed, \* the daemons whose executable is there
  script,  \* "sed", "uid", "grant", "supervise", or "console": no script left
  i,       \* its position in its list
  waiting, \* in wait_ready?
  starting,\* how many processes of each daemon have not written it yet
  up,      \* how many have
  pidfile, \* none; or it names a process that is live, or dead, or was
           \* written before the last start (old)
  granted, \* the UI daemons the boot authorised
  deaths,  \* bound
  late,    \* history: daemons that were given up on while they were starting
  seen     \* history: daemons that wrote a pidfile in this boot

history == <<late, seen>>
daemons == <<starting, up, pidfile>>
vars == <<installed, script, i, waiting, daemons, granted, deaths, history>>

TypeOK ==
  /\ installed \subseteq Daemons
  /\ script \in {"sed", "uid", "grant", "supervise", "console"}
  /\ i \in Nat \ {0}
  /\ waiting \in BOOLEAN
  /\ starting \in [Daemons -> Nat]
  /\ up \in [Daemons -> Nat]
  /\ pidfile \in [Daemons -> {"none", "live", "dead", "old"}]
  /\ granted \subseteq Range(UidDaemons)
  /\ deaths \in 0 .. MaxDeaths
  /\ late \subseteq Daemons /\ seen \subseteq Daemons

\* The list the current script walks through.
List ==
  CASE script = "sed" -> SedDaemons
    [] script = "supervise" -> Supervised
    [] OTHER -> UidDaemons

Current == List[i]

AtEntry(scripts) ==
  script \in scripts /\ ~waiting /\ i \in DOMAIN List

\* Runstate of an earlier boot may be left in /var/run, and executables may not
\* have been deployed.
Init ==
  /\ installed \in {Daemons \ missing : missing \in SUBSET Missable}
  /\ script = "sed"
  /\ i = 1
  /\ waiting = FALSE
  /\ starting = [d \in Daemons |-> 0]
  /\ up = [d \in Daemons |-> 0]
  /\ pidfile \in [Daemons -> {"none", "old"}]
  /\ granted = {}
  /\ deaths = 0
  /\ late = {} /\ seen = {}

----------------------------------------------------------------------------
(* lib.sh *)

\* Mutant of StartDaemon: the old pidfile is left in place.
StartOverOldPidfile(d) ==
  /\ pidfile' = [pidfile EXCEPT ![d] = IF @ = "none" THEN "none" ELSE "old"]
  /\ starting' = [starting EXCEPT ![d] = @ + 1]
  /\ waiting' = TRUE
  /\ UNCHANGED up

(* start_daemon up to wait_ready, for a daemon that is installed.  For one   *)
(* that is not it returns before rm -f: an old pidfile stays.                *)
StartDaemon(d) ==
  /\ pidfile' = [pidfile EXCEPT ![d] = "none"]
  /\ starting' = [starting EXCEPT ![d] = @ + 1]
  /\ waiting' = TRUE
  /\ UNCHANGED up

\* Mutant of WaitReady: start_daemon waits for ever.
WaitForever ==
  /\ waiting
  /\ pidfile[Current] # "none"
  /\ waiting' = FALSE
  /\ i' = i + 1
  /\ UNCHANGED <<installed, script, daemons, granted, deaths, history>>

(* wait_ready: the pidfile is there, or the time is over.  Every caller goes *)
(* on to its next entry either way.                                          *)
WaitReady ==
  /\ waiting
  /\ waiting' = FALSE
  /\ i' = i + 1
  /\ late' = IF starting[Current] > 0 THEN late \cup {Current} ELSE late
  /\ UNCHANGED <<installed, script, daemons, granted, deaths, seen>>

----------------------------------------------------------------------------
(* sysinit, sed-bootstrap.sh, uid-bootstrap.sh *)

BootEntry ==
  /\ AtEntry({"sed", "uid"})
  /\ IF Current \in installed
       THEN StartDaemon(Current) /\ UNCHANGED i
       ELSE i' = i + 1 /\ UNCHANGED <<daemons, waiting>>
  /\ UNCHANGED <<installed, script, granted, deaths, history>>

Exists(d) == pidfile[d] # "none"

Gate == \A a \in Authorities : Exists(a)

\* What is left once the UI is up or refused: the supervisor, if /bin/sh (the
\* busybox shell on the image) can parse the arrays of its script, or else the
\* maintenance console alone.
LastScript == script' \in LastScripts

(* The end of sed-bootstrap.sh and the gate: uid-bootstrap.sh tests it again *)
(* right away.                                                               *)
SedDone ==
  /\ script = "sed" /\ i > Len(SedDaemons)
  /\ IF Gate THEN script' = "uid" ELSE LastScript
  /\ i' = 1
  /\ UNCHANGED <<installed, waiting, daemons, granted, deaths, history>>

UidDone ==
  /\ script = "uid" /\ i > Len(UidDaemons)
  /\ script' = "grant"
  /\ i' = 1
  /\ UNCHANGED <<installed, waiting, daemons, granted, deaths, history>>

(* The manager's CLI authorises the pid in the pidfile of the next UI daemon. *)
(* It fails, and the loop goes on, when the manager is gone.                  *)
GrantEntry ==
  /\ AtEntry({"grant"})
  /\ granted' = IF Exists(Current) /\ up["system_manager"] > 0
                  THEN granted \cup {Current} ELSE granted
  /\ i' = i + 1
  /\ UNCHANGED <<installed, script, waiting, daemons, deaths, history>>

GrantDone ==
  /\ script = "grant" /\ i > Len(UidDaemons)
  /\ LastScript
  /\ i' = 1
  /\ UNCHANGED <<installed, waiting, daemons, granted, deaths, history>>

----------------------------------------------------------------------------
(* supervise.sh *)

\* Mutant of IsAlive: the result of kill -0 is inverted.
IsAliveInverted(d) == pidfile[d] = "dead"

(* is_alive returns 0: kill -0 finds a process under the pid in the pidfile. *)
IsAlive(d) == pidfile[d] = "live"

\* Nothing but the two authorities is started while the arbiter has no pidfile.
Startable(d) ==
  /\ d \in installed
  /\ d \in Authorities \/ Exists("permission_arbiter")

(* The three ways to continue the loop without i=$((i + 1)). *)
SuperviseSkip ==
  /\ AtEntry({"supervise"})
  /\ IsAlive(Current) \/ ~Startable(Current)
  /\ i' = i
  /\ UNCHANGED <<installed, script, waiting, daemons, granted, deaths, history>>

SuperviseStart ==
  /\ AtEntry({"supervise"})
  /\ ~IsAlive(Current) /\ Startable(Current)
  /\ StartDaemon(Current)
  /\ UNCHANGED <<installed, script, i, granted, deaths, history>>

\* Mutant of SuperviseAgain: positions counted from 0.
SuperviseFromZero ==
  /\ script = "supervise" /\ ~waiting /\ i > Len(Supervised)
  /\ i' = 0
  /\ UNCHANGED <<installed, script, waiting, daemons, granted, deaths, history>>

(* supervise_loop has come to the end of the table. *)
SuperviseAgain ==
  /\ script = "supervise" /\ ~waiting /\ i > Len(Supervised)
  /\ i' = 1
  /\ UNCHANGED <<installed, script, waiting, daemons, granted, deaths, history>>

----------------------------------------------------------------------------
(* The daemons. *)

BecomeReady(d) ==
  /\ starting[d] > 0
  /\ starting' = [starting EXCEPT ![d] = @ - 1]
  /\ up' = [up EXCEPT ![d] = @ + 1]
  /\ pidfile' = [pidfile EXCEPT ![d] = "live"]
  /\ seen' = seen \cup {d}
  /\ UNCHANGED <<installed, script, i, waiting, granted, deaths, late>>

FailToStart(d) ==
  /\ starting[d] > 0 /\ deaths < MaxDeaths
  /\ starting' = [starting EXCEPT ![d] = @ - 1]
  /\ deaths' = deaths + 1
  /\ UNCHANGED <<installed, script, i, waiting, up, pidfile, granted, history>>

\* A daemon that is killed leaves its pidfile behind (naming it or, if there
\* are two of them, perhaps the other one); one that leaves its main loop
\* removes the file.
Die(d) ==
  /\ up[d] > 0 /\ deaths < MaxDeaths
  /\ up' = [up EXCEPT ![d] = @ - 1]
  /\ \/ pidfile' = [pidfile EXCEPT ![d] = "none"]
     \/ pidfile' = [pidfile EXCEPT ![d] = IF @ = "live" THEN "dead" ELSE @]
     \/ up[d] > 1 /\ UNCHANGED pidfile
  /\ deaths' = deaths + 1
  /\ UNCHANGED <<installed, script, i, waiting, starting, granted, history>>

Script ==
  \/ BootEntry \/ SedDone \/ UidDone \/ GrantEntry \/ GrantDone
  \/ SuperviseSkip \/ SuperviseStart \/ SuperviseAgain
  \/ WaitReady

Next ==
  \/ Script
  \/ \E d \in Daemons : BecomeReady(d) \/ FailToStart(d) \/ Die(d)

\* The shell keeps running, and no wait of its own is unbounded.
Spec == Init /\ [][Next]_vars /\ WF_vars(Script)

\* And the daemons that are started become ready.
ReadySpec == Spec /\ \A d \in Daemons : WF_vars(BecomeReady(d))

----------------------------------------------------------------------------
(* Properties. *)

\* The boot never hangs: whatever dies, is missing, or never gets ready, the
\* scripts reach the maintenance console.
BootCompletes == <>(script \in {"supervise", "console"})

Live(d) == starting[d] + up[d]

\* A daemon never runs twice, unless one was slower than wait_ready is patient:
\* scripts and supervisor take turns, and each waits for what it has started.
SingleInstance == \A d \in Daemons : Live(d) > 1 => d \in late

\* The boot opens the UI only if each authority has come up in this boot (the
\* gate of sysinit and uid-bootstrap.sh: no UI before the authority services
\* are up), with one exception: an authority whose executable is missing does
\* not come up at all, and passes the gate if an earlier boot has left its
\* pidfile, which start_daemon only removes for what it starts.
GateIsReal ==
  script \in {"uid", "grant"} =>
    \A a \in Authorities : a \in seen \/ (a \notin installed /\ pidfile[a] = "old")

\* The head of supervise.sh: every daemon is checked periodically, and started
\* again when it has gone.
DeadIsRespawned ==
  \A d \in Range(Supervised) :
    (script = "supervise" /\ d \in installed /\ Live(d) = 0) ~> Live(d) > 0
=============================================================================
