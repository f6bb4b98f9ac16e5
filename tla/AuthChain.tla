----------------------------- MODULE AuthChain -----------------------------
(***************************************************************************)
(* The authorisation chain: console user -> system_manager -> arbiter.     *)
(*                                                                         *)
(* backend/sub_kernel/system_manager.c, with as many instances of it as    *)
(* the supervisor and CMD_SERVICE start, the arbiter's table (PermTable),  *)
(* and start_daemon of system/lib.sh as system/supervise.sh calls it.      *)
(*                                                                         *)
(* request_arbiter is three steps: the request is written, the arbiter     *)
(* decides it, the answer is read.  In between the caller may be killed,   *)
(* or its read interrupted by a signal, and a request it no longer waits   *)
(* for is carried out all the same.  A process's own SET_LEVEL is only the *)
(* arbiter's decision here: the rest of that exchange is in Arbiter.       *)
(***************************************************************************)
EXTENDS PermTable, Sequences

CONSTANTS
  Mgrs,          \* the pids instances of system_manager run under
  Clients,       \* users of the console socket
  Trusted,       \* those with the uid of the daemon
  Commands,      \* the console commands each of them sends
  GrantLevels,   \* the levels AUTHORIZE commands carry
  SetLevels,     \* the levels processes ask for
  MaxAttempts,   \* registration attempts (30 in the source)
  MaxRestarts,   \* bound: deaths of the arbiter
  MaxFaults,     \* bound: those, and what disturbs instances of system_manager
  SlowStart      \* may start_daemon time out although registering works?

ASSUME ChainAssumption ==
  /\ Mgrs \subseteq Pids
  /\ Trusted \subseteq Clients
  /\ GrantLevels \subseteq Level /\ SetLevels \subseteq Level
  /\ {MaxAttempts, MaxRestarts, MaxFaults} \subseteq Nat
  /\ SlowStart \in BOOLEAN

Apps == Pids \ Mgrs

VARIABLES
  \* the arbiter
  arbiter_up, proc_table, manager_pid,
  inbox,       \* requests of instances it has not read yet, in their order
  \* the instances of system_manager
  mgr,         \* where each one is in main
  reply,       \* what its connection to the arbiter holds for it to read
  attempt,     \* its failed registration attempts
  running,     \* its flag of this name
  queue,       \* commands sent on its console connections
  client,      \* the instance each console user waits for, or NoPid
  inherited,   \* instances whose sockets a started service has inherited
  \* files and the supervisor
  console,     \* the instance whose live socket MGR_SOCK_PATH names
  pidfile,     \* the pid in PID_FILE, NoPid if there is no such file
  supervisor,  \* "checking", or "waiting" in start_daemon
  \* bounds and history
  disturbed,   \* how often an instance has crashed, not started or had a signal
  restarts,    \* how often the arbiter has died
  acked        \* the cap a user was told to be in effect, per process

arbiterVars == <<arbiter_up, proc_table, manager_pid>>
wire == <<inbox, reply>>
consoleVars == <<queue, client, inherited, console>>
bounds == <<disturbed, restarts>>
vars == <<arbiterVars, wire, mgr, attempt, running, consoleVars, pidfile,
          supervisor, bounds, acked>>

----------------------------------------------------------------------------
Command ==
  {msg \in
          [from: Clients, cmd: {"AUTHORIZE"}, pid: Apps, level: GrantLevels]
     \cup [from: Clients, cmd: {"DEAUTHORIZE"}, pid: Apps, level: {READONLY}]
     \cup [from: Clients, cmd: {"SERVICE", "QUIT", "STATUS"},
           pid: {NoPid}, level: {READONLY}] :
   msg.cmd \in Commands[msg.from]}

\* HELP, LIST, NOTIFY and an unknown command only print, like STATUS.
Sensitive(m) == m.cmd # "STATUS"

\* The two requests to the arbiter.  msg is the command an AUTHORIZE is made
\* from; open says whether the sender still waits for the answer.
Request ==
       [peer: Mgrs, type: {"REGISTER_MANAGER"}, open: BOOLEAN]
  \cup [peer: Mgrs, type: {"AUTHORIZE"}, open: BOOLEAN, msg: Command]

\* An answer: status = 0 or not, and which incarnation of the arbiter gave it.
Answer == [ok: BOOLEAN, by: 0 .. MaxRestarts]

\* claiming and asking: in request_arbiter, for either request.
Phases == {"off", "starting", "registering", "claiming", "registered",
           "serving", "asking", "stopping"}

Running(m) == mgr[m] # "off"

\* main has a listening socket from setup_console_socket on.
Listening(m) == mgr[m] \notin {"off", "starting"}

Alive == Apps \cup {m \in Mgrs : Running(m)} \cup {ArbiterPid}

ContextOf(p) == IF p \in Mgrs THEN "sys_dom_t" ELSE "uid_dom_t"

Reaped == Reap(proc_table, Alive)

\* The requests of m that the arbiter has not read yet.
RequestsOf(m) == {i \in DOMAIN inbox : inbox[i].peer = m}

\* The pid of a new instance: one that nothing refers to any more.
FreshPid(m) ==
  /\ ~Running(m)
  /\ m # manager_pid
  /\ m # pidfile
  /\ m \notin inherited
  /\ RequestsOf(m) = {}

\* No user has been told anything that still has to hold.
NoWord == -1

TypeOK ==
  /\ arbiter_up \in BOOLEAN
  /\ IsTable(proc_table)
  /\ manager_pid \in Mgrs \cup {NoPid}
  /\ inbox \in Seq(Request)
  /\ mgr \in [Mgrs -> Phases]
  /\ reply \in [Mgrs -> Seq(Answer)]
  /\ attempt \in [Mgrs -> 0 .. MaxAttempts]
  /\ running \in [Mgrs -> BOOLEAN]
  /\ queue \in [Mgrs -> Seq(Command)]
  /\ client \in [Clients -> Mgrs \cup {NoPid}]
  /\ inherited \subseteq Mgrs
  /\ console \in Mgrs \cup {NoPid}
  /\ pidfile \in Mgrs \cup {NoPid}
  /\ supervisor \in {"checking", "waiting"}
  /\ disturbed \in 0 .. MaxFaults
  /\ restarts \in 0 .. MaxRestarts
  /\ acked \in [Apps -> Level \cup {NoWord}]

(* sed-bootstrap.sh has started the arbiter and comes to the manager. *)
Init ==
  /\ arbiter_up = TRUE
  /\ proc_table = InitialTable
  /\ manager_pid = NoPid
  /\ inbox = << >>
  /\ reply = [m \in Mgrs |-> << >>]
  /\ mgr = [m \in Mgrs |-> "off"]
  /\ attempt = [m \in Mgrs |-> 0]
  /\ running = [m \in Mgrs |-> TRUE]
  /\ queue = [m \in Mgrs |-> << >>]
  /\ client = [c \in Clients |-> NoPid]
  /\ inherited = {}
  /\ console = NoPid
  /\ pidfile = NoPid
  /\ supervisor = "checking"
  /\ disturbed = 0
  /\ restarts = 0
  /\ acked = [p \in Apps |-> NoWord]

----------------------------------------------------------------------------
(* system_manager: main *)

\* exec: a fresh process image; phases are the phases the others are in then.
Launch(m, phases) ==
  /\ FreshPid(m)
  /\ mgr' = [phases EXCEPT ![m] = "starting"]

\* Something happens to an instance that it does not do itself.
Disturbed ==
  /\ disturbed + restarts < MaxFaults
  /\ disturbed' = disturbed + 1

(* setup_console_socket: the path is unlinked, whoever bound it, and names  *)
(* this instance's socket from now on.                                      *)
SetupConsole(m) ==
  /\ mgr[m] = "starting"
  /\ mgr' = [mgr EXCEPT ![m] = "registering"]
  /\ console' = m
  /\ UNCHANGED <<arbiterVars, wire, attempt, running, queue, client, inherited,
                 pidfile, supervisor, bounds, acked>>

\* The process is gone, with its memory and its connections: the arbiter may
\* still read what it has written.  Copies of the listening socket, and of the
\* connection a service was started on, live on in that service.
HangUp(m) ==
  /\ inbox' = [i \in DOMAIN inbox |->
                 IF inbox[i].peer = m THEN [inbox[i] EXCEPT !.open = FALSE]
                                      ELSE inbox[i]]
  /\ reply' = [reply EXCEPT ![m] = << >>]

BeingServed(m) == IF mgr[m] = "asking" THEN {Head(queue[m]).from} ELSE {}

Gone(m) ==
  /\ mgr' = [mgr EXCEPT ![m] = "off"]
  /\ attempt' = [attempt EXCEPT ![m] = 0]
  /\ running' = [running EXCEPT ![m] = TRUE]
  /\ queue' = [queue EXCEPT ![m] = << >>]
  /\ client' = [c \in Clients |->
                  IF client[c] = m /\ (m \notin inherited \/ c \in BeingServed(m))
                    THEN NoPid ELSE client[c]]
  /\ HangUp(m)

(* socket, bind or listen fails after the path was unlinked: main returns.  *)
SetupFails(m) ==
  /\ mgr[m] = "starting"
  /\ Disturbed
  /\ Gone(m)
  /\ console' = NoPid
  /\ UNCHANGED <<arbiterVars, inherited, pidfile, supervisor, restarts, acked>>

----------------------------------------------------------------------------
(* system_manager: register_as_manager, and the arbiter's side of it        *)

\* connect and write succeed while the arbiter is there to listen.
Send(r) == inbox' = Append(inbox, r)

Claim(m) == [peer |-> m, type |-> "REGISTER_MANAGER", open |-> TRUE]

\* Mutant of RegisterAsManager: an attempt too many.
RegisterOnceMore(m) ==
  /\ mgr[m] = "registering"
  /\ attempt[m] <= MaxAttempts
  /\ IF arbiter_up
       THEN Send(Claim(m)) /\ mgr' = [mgr EXCEPT ![m] = "claiming"] /\ UNCHANGED attempt
       ELSE attempt' = [attempt EXCEPT ![m] = @ + 1] /\ UNCHANGED <<inbox, mgr>>
  /\ UNCHANGED <<arbiterVars, reply, running, consoleVars, pidfile, supervisor,
                 bounds, acked>>

\* Mutant of RegisterAsManager: it never gives up.
RegisterForever(m) ==
  /\ mgr[m] = "registering"
  /\ arbiter_up
  /\ MayRegisterManager(manager_pid, Alive)
  /\ Send(Claim(m)) /\ mgr' = [mgr EXCEPT ![m] = "claiming"]
  /\ UNCHANGED <<arbiterVars, reply, attempt, running, consoleVars, pidfile,
                 supervisor, bounds, acked>>

(* One turn of the loop of register_as_manager, up to the read of the answer. *)
RegisterAsManager(m) ==
  /\ mgr[m] = "registering"
  /\ attempt[m] < MaxAttempts
  /\ \/ /\ arbiter_up
        /\ Send(Claim(m))
        /\ mgr' = [mgr EXCEPT ![m] = "claiming"]
        /\ UNCHANGED attempt
     \/ /\ ~arbiter_up
        /\ attempt' = [attempt EXCEPT ![m] = @ + 1]
        /\ UNCHANGED <<inbox, mgr>>
  /\ UNCHANGED <<arbiterVars, reply, running, consoleVars, pidfile, supervisor,
                 bounds, acked>>

\* Would the arbiter give the manager role away now?
RoleFree == arbiter_up /\ MayRegisterManager(manager_pid, Alive)

\* The arbiter takes the next request and answers it with ok, if anyone waits.
Decide(ok) ==
  /\ inbox' = Tail(inbox)
  /\ reply' = IF Head(inbox).open
                THEN [reply EXCEPT ![Head(inbox).peer] =
                        <<[ok |-> ok, by |-> restarts]>>]
                ELSE reply

(* register_manager: the claimant need not be there any more. *)
DecideRegister ==
  /\ arbiter_up
  /\ inbox # << >> /\ Head(inbox).type = "REGISTER_MANAGER"
  /\ Decide(RoleFree)
  /\ manager_pid' = IF RoleFree THEN Head(inbox).peer ELSE manager_pid
  /\ proc_table' = Reaped
  /\ UNCHANGED <<arbiter_up, mgr, attempt, running, consoleVars, pidfile,
                 supervisor, bounds, acked>>

\* Mutant of ReadClaim: a refusal is not noticed, main goes on as if registered.
ReadClaimUnchecked(m) ==
  /\ mgr[m] = "claiming"
  /\ reply[m] # << >>
  /\ reply' = [reply EXCEPT ![m] = << >>]
  /\ mgr' = [mgr EXCEPT ![m] = "registered"]
  /\ UNCHANGED <<arbiterVars, inbox, attempt, running, consoleVars, pidfile,
                 supervisor, bounds, acked>>

(* The answer is read: registered, or one attempt less. *)
ReadClaim(m) ==
  /\ mgr[m] = "claiming"
  /\ reply[m] # << >>
  /\ reply' = [reply EXCEPT ![m] = << >>]
  /\ IF Head(reply[m]).ok
       THEN /\ mgr' = [mgr EXCEPT ![m] = "registered"]
            /\ UNCHANGED attempt
       ELSE /\ mgr' = [mgr EXCEPT ![m] = "registering"]
            /\ attempt' = [attempt EXCEPT ![m] = @ + 1]
  /\ UNCHANGED <<arbiterVars, inbox, running, consoleVars, pidfile, supervisor,
                 bounds, acked>>

(* After the last attempt main removes the console path, whoever owns it,   *)
(* and returns.                                                             *)
GiveUp(m) ==
  /\ mgr[m] = "registering"
  /\ attempt[m] = MaxAttempts
  /\ Gone(m)
  /\ console' = NoPid
  /\ UNCHANGED <<arbiterVars, inherited, pidfile, supervisor, bounds, acked>>

\* The loop condition of main, tested when the flag is r.
AfterLoop(m, r) == [mgr EXCEPT ![m] = IF r THEN "serving" ELSE "stopping"]

WritePidfile(m) ==
  /\ mgr[m] = "registered"
  /\ pidfile' = m
  /\ mgr' = AfterLoop(m, running[m])
  /\ UNCHANGED <<arbiterVars, wire, attempt, running, consoleVars, supervisor,
                 bounds, acked>>

----------------------------------------------------------------------------
(* The console loop: one action per kind of command, each from accept to    *)
(* close, but for AUTHORIZE and DEAUTHORIZE, where the arbiter is asked in  *)
(* between.  While running is set the loop goes on to the next accept.      *)

Accept(m) ==
  /\ mgr[m] = "serving"
  /\ queue[m] # << >>

\* The command is done with and the loop condition is tested with the flag r.
Finish(m, r) ==
  /\ queue' = [queue EXCEPT ![m] = Tail(@)]
  /\ mgr' = AfterLoop(m, r)

CloseClient(m) == client' = [client EXCEPT ![Head(queue[m]).from] = NoPid]

\* Mutant of Permitted: no test of the caller's uid.
PermitAll(msg) == TRUE

\* Commands that change something are only taken from the daemon's own uid.
Permitted(msg) == Sensitive(msg) => msg.from \in Trusted

(* STATUS and its like, and a refused command: only an answer. *)
ServeHarmless(m) ==
  /\ Accept(m)
  /\ LET msg == Head(queue[m]) IN ~Sensitive(msg) \/ ~Permitted(msg)
  /\ Finish(m, running[m])
  /\ CloseClient(m)
  /\ UNCHANGED <<arbiterVars, wire, attempt, running, inherited, console,
                 pidfile, supervisor, bounds, acked>>

(* cmd_authorize, and cmd_deauthorize, which is cmd_authorize at level 0, up *)
(* to the read of the answer: the next word about this process is under way. *)
ServeAuthorize(m) ==
  LET msg == Head(queue[m]) IN
  /\ Accept(m)
  /\ msg.cmd \in {"AUTHORIZE", "DEAUTHORIZE"}
  /\ Permitted(msg)
  /\ \/ /\ arbiter_up
        /\ Send([peer |-> m, type |-> "AUTHORIZE", open |-> TRUE, msg |-> msg])
        /\ acked' = [acked EXCEPT ![msg.pid] = NoWord]
        /\ mgr' = [mgr EXCEPT ![m] = "asking"]
        /\ UNCHANGED <<queue, client>>
     \/ /\ ~arbiter_up
        /\ Finish(m, running[m])
        /\ CloseClient(m)
        /\ UNCHANGED <<inbox, acked>>
  /\ UNCHANGED <<arbiterVars, reply, attempt, running, inherited, console,
                 pidfile, supervisor, bounds>>

\* Does the arbiter carry out the AUTHORIZE r?
Accepted(r) == MayAuthorize(Reaped, r.msg.pid, r.msg.level, r.peer, manager_pid)

(* authorize_process: the instance need not be there any more. *)
DecideAuthorize ==
  /\ arbiter_up
  /\ inbox # << >> /\ Head(inbox).type = "AUTHORIZE"
  /\ LET r == Head(inbox) IN
       /\ Decide(Accepted(r))
       /\ proc_table' = IF Accepted(r)
                          THEN Authorize(Reaped, r.msg.pid, r.msg.level,
                                         ContextOf(r.msg.pid))
                          ELSE Reaped
  /\ UNCHANGED <<arbiter_up, manager_pid, mgr, attempt, running, consoleVars,
                 pidfile, supervisor, bounds, acked>>

\* Mutant of Acknowledged: resp.status is not looked at.
AcknowledgedUnchecked(a) == TRUE

\* What cmd_authorize tells the user once it has read answer a.
Acknowledged(a) == a.ok

(* The answer is read and the user told.  The word counts as long as the     *)
(* arbiter that gave it lives.                                               *)
ReadAuthorize(m) ==
  LET msg == Head(queue[m])
      a   == Head(reply[m]) IN
  /\ mgr[m] = "asking"
  /\ reply[m] # << >>
  /\ reply' = [reply EXCEPT ![m] = << >>]
  /\ acked' = IF Acknowledged(a) /\ a.by = restarts
                THEN [acked EXCEPT ![msg.pid] = msg.level] ELSE acked
  /\ Finish(m, running[m])
  /\ CloseClient(m)
  /\ UNCHANGED <<arbiterVars, inbox, attempt, running, inherited, console,
                 pidfile, supervisor, bounds>>

\* request_arbiter returns -1 from its read: an attempt less, or "failed".
\* r is the flag afterwards.
RequestFails(m, r) ==
  /\ HangUp(m)
  /\ \/ /\ mgr[m] = "claiming"
        /\ mgr' = [mgr EXCEPT ![m] = "registering"]
        /\ attempt' = [attempt EXCEPT ![m] = @ + 1]
        /\ UNCHANGED <<queue, client>>
     \/ /\ mgr[m] = "asking"
        /\ Finish(m, r)
        /\ CloseClient(m)
        /\ UNCHANGED attempt
  /\ UNCHANGED <<arbiterVars, inherited, console, pidfile, supervisor, restarts,
                 acked>>

(* The arbiter has died before it answered. *)
ConnectionLost(m) ==
  /\ reply[m] = << >>
  /\ RequestsOf(m) = {}
  /\ RequestFails(m, running[m])
  /\ UNCHANGED <<running, disturbed>>

(* SIGTERM or SIGINT interrupts the read (no SA_RESTART): the connection is  *)
(* closed, the request stays with the arbiter.                               *)
ReadInterrupted(m) ==
  /\ reply[m] = << >>
  /\ Disturbed
  /\ RequestFails(m, FALSE)
  /\ running' = [running EXCEPT ![m] = FALSE]

(* cmd_service.  start forks; the child keeps the listening socket and this  *)
(* connection, so that its end is not seen by the user while the child runs. *)
(* The service may be system_manager itself.  stop, an unknown action and a  *)
(* failing fork or exec only print.                                          *)
ServeService(m) ==
  LET msg == Head(queue[m]) IN
  /\ Accept(m)
  /\ msg.cmd = "SERVICE"
  /\ Permitted(msg)
  /\ queue' = [queue EXCEPT ![m] = Tail(@)]
  /\ \/ /\ mgr' = AfterLoop(m, running[m])
        /\ CloseClient(m)
        /\ UNCHANGED inherited
     \/ /\ \/ mgr' = AfterLoop(m, running[m])
           \/ \E n \in Mgrs : Launch(n, AfterLoop(m, running[m]))
        /\ inherited' = inherited \cup {m}
        /\ UNCHANGED client
  /\ UNCHANGED <<arbiterVars, wire, attempt, running, console, pidfile,
                 supervisor, bounds, acked>>

ServeQuit(m) ==
  LET msg == Head(queue[m]) IN
  /\ Accept(m)
  /\ msg.cmd = "QUIT"
  /\ Permitted(msg)
  /\ running' = [running EXCEPT ![m] = FALSE]
  /\ Finish(m, FALSE)
  /\ CloseClient(m)
  /\ UNCHANGED <<arbiterVars, wire, attempt, inherited, console, pidfile,
                 supervisor, bounds, acked>>

ServeConsole(m) ==
  \/ ServeHarmless(m)
  \/ ServeAuthorize(m)
  \/ ServeService(m)
  \/ ServeQuit(m)

(* SIGTERM or SIGINT sets the flag.  register_as_manager does not look at it. *)
HandleSignal(m) ==
  /\ Running(m) /\ running[m]
  /\ Disturbed
  /\ running' = [running EXCEPT ![m] = FALSE]
  /\ UNCHANGED <<arbiterVars, wire, mgr, attempt, consoleVars, pidfile,
                 supervisor, restarts, acked>>

(* The signal interrupted accept.  One that comes between the test of the   *)
(* flag and accept does not: the loop then serves one more command.         *)
Interrupted(m) ==
  /\ mgr[m] = "serving" /\ ~running[m]
  /\ mgr' = [mgr EXCEPT ![m] = "stopping"]
  /\ UNCHANGED <<arbiterVars, wire, attempt, running, consoleVars, pidfile,
                 supervisor, bounds, acked>>

(* The end of main: both paths are removed, whoever owns them by now. *)
Shutdown(m) ==
  /\ mgr[m] = "stopping"
  /\ Gone(m)
  /\ console' = NoPid
  /\ pidfile' = NoPid
  /\ UNCHANGED <<arbiterVars, inherited, supervisor, bounds, acked>>

(* Killed at any point, inside request_arbiter too: the files stay behind,  *)
(* the console path now names a socket nobody listens on.                   *)
CrashManager(m) ==
  /\ Running(m)
  /\ Disturbed
  /\ Gone(m)
  /\ console' = IF console = m /\ m \notin inherited THEN NoPid ELSE console
  /\ UNCHANGED <<arbiterVars, inherited, pidfile, supervisor, restarts, acked>>

(* The last service with copies of the sockets of m ends: whoever m itself  *)
(* does not serve any more sees the end of the connection.                  *)
ServiceEnds(m) ==
  /\ m \in inherited
  /\ inherited' = inherited \ {m}
  /\ client' = [c \in Clients |->
                  IF /\ client[c] = m
                     /\ \A i \in DOMAIN queue[m] : queue[m][i].from # c
                    THEN NoPid ELSE client[c]]
  /\ console' = IF console = m /\ ~Running(m) THEN NoPid ELSE console
  /\ UNCHANGED <<arbiterVars, wire, mgr, attempt, running, queue, pidfile,
                 supervisor, bounds, acked>>

----------------------------------------------------------------------------
(* Console users, processes, the arbiter's death and the supervisor          *)

(* cli_send_console connects and sends in one go; without a listening socket *)
(* behind the path it fails and nothing happens.                             *)
SendConsole(c) ==
  \E msg \in Command :
    /\ msg.from = c
    /\ client[c] = NoPid
    /\ console # NoPid
    /\ client' = [client EXCEPT ![c] = console]
    /\ queue' = [queue EXCEPT ![console] =
                   IF Listening(console) THEN Append(@, msg) ELSE @]
    /\ UNCHANGED <<arbiterVars, wire, mgr, attempt, running, inherited,
                   console, pidfile, supervisor, bounds, acked>>

(* A process sends SET_LEVEL for itself and the arbiter decides. *)
SetLevel(p) ==
  /\ arbiter_up
  /\ \E l \in SetLevels :
       proc_table' = IF MaySetLevel(Reaped, p, l, p)
                       THEN RegisterProcess(Reaped, p, l, ContextOf(p))
                       ELSE Reaped
  /\ UNCHANGED <<arbiter_up, manager_pid, wire, mgr, attempt, running,
                 consoleVars, pidfile, supervisor, bounds, acked>>

(* Table, manager_pid and unread requests go with the arbiter, what was      *)
(* acknowledged is not persisted.  An answer already written can be read.    *)
CrashArbiter ==
  /\ arbiter_up
  /\ restarts < MaxRestarts /\ disturbed + restarts < MaxFaults
  /\ arbiter_up' = FALSE
  /\ proc_table' = EmptyTable
  /\ manager_pid' = NoPid
  /\ inbox' = << >>
  /\ restarts' = restarts + 1
  /\ acked' = [p \in Apps |-> NoWord]
  /\ UNCHANGED <<reply, mgr, attempt, running, consoleVars, pidfile,
                 supervisor, disturbed>>

(* supervise_loop at the arbiter's entry: its pid is dead. *)
StartArbiter ==
  /\ supervisor = "checking"
  /\ ~arbiter_up
  /\ arbiter_up' = TRUE
  /\ proc_table' = InitialTable
  /\ UNCHANGED <<manager_pid, wire, mgr, attempt, running, consoleVars,
                 pidfile, supervisor, bounds, acked>>

\* is_alive on the manager's pidfile.
IsAlive == pidfile # NoPid /\ Running(pidfile)

(* supervise_loop at the manager's entry: start_daemon removes the pidfile,  *)
(* starts an instance and waits for the pidfile.                             *)
StartManager ==
  /\ supervisor = "checking"
  /\ ~IsAlive
  /\ \E m \in Mgrs : Launch(m, mgr)
  /\ pidfile' = NoPid
  /\ supervisor' = "waiting"
  /\ UNCHANGED <<arbiterVars, wire, attempt, running, consoleVars, bounds,
                 acked>>

(* wait_ready returns when the file is there, or after 8 seconds.  In that   *)
(* time an instance tries to register eight times: unless SlowStart, it only *)
(* passes without a pidfile if no instance could register.                   *)
WaitReady ==
  /\ supervisor = "waiting"
  /\ \/ pidfile # NoPid
     \/ SlowStart
     \/ /\ ~RoleFree
        /\ \A m \in Mgrs : mgr[m] \notin {"starting", "claiming", "registered"}
     \/ \A m \in Mgrs : ~Running(m)
  /\ supervisor' = "checking"
  /\ UNCHANGED <<arbiterVars, wire, mgr, attempt, running, consoleVars,
                 pidfile, bounds, acked>>

----------------------------------------------------------------------------
ManagerStep(m) ==
  \/ SetupConsole(m)
  \/ RegisterAsManager(m) \/ ReadClaim(m) \/ GiveUp(m)
  \/ WritePidfile(m)
  \/ ServeConsole(m) \/ ReadAuthorize(m)
  \/ ConnectionLost(m)
  \/ Shutdown(m)

Disturbance(m) ==
  \/ HandleSignal(m) \/ Interrupted(m) \/ ReadInterrupted(m)
  \/ SetupFails(m) \/ CrashManager(m)
  \/ ServiceEnds(m)

ArbiterDecides == DecideRegister \/ DecideAuthorize

Supervise == StartArbiter \/ StartManager \/ WaitReady

Next ==
  \/ \E m \in Mgrs : ManagerStep(m) \/ Disturbance(m)
  \/ ArbiterDecides
  \/ \E c \in Clients : SendConsole(c)
  \/ \E p \in Apps : SetLevel(p)
  \/ CrashArbiter
  \/ Supervise

(* A daemon that runs goes on running: no step of main waits for anything   *)
(* but a command or the arbiter's answer, and the arbiter serves one        *)
(* connection after the other.                                              *)
Fairness ==
  /\ \A m \in Mgrs : WF_vars(ManagerStep(m))
  /\ WF_vars(ArbiterDecides)

Spec == Init /\ [][Next]_vars /\ Fairness

(* The same with a supervisor that does what its header says: it keeps      *)
(* coming back to either entry, and whatever it finds dead is started again. *)
(* Nor is a signal lost between the test of running and accept.             *)
SupervisedSpec ==
  /\ Spec
  /\ SF_vars(StartArbiter) /\ SF_vars(StartManager) /\ WF_vars(WaitReady)
  /\ \A m \in Mgrs : WF_vars(Interrupted(m))

----------------------------------------------------------------------------
(* Properties.                                                              *)

CapOf(p) ==
  IF p \in DOMAIN proc_table THEN proc_table[p].user_authorized_cap
                             ELSE READONLY

LevelOf(p) == GetProcessLevel(proc_table, p)

\* What a user was told is what the arbiter enforces: once a user has read that
\* an AUTHORIZE or DEAUTHORIZE succeeded, the process has that cap until the
\* next command about it is sent or the arbiter dies.  Neither a request left
\* behind by a killed or interrupted instance nor one of an instance that has
\* lost the role changes it (cmd_authorize, FIFO of the arbiter's socket).  The
\* converse does not hold: a request that nobody waits for any more takes
\* effect although its user was told nothing, or that it failed.
AcknowledgedInEffect ==
  \A p \in Apps : acked[p] # NoWord => CapOf(p) = acked[p]

\* A cap only ever goes up because the arbiter reads an AUTHORIZE for just that
\* process and cap that an instance, alive or not, was given by a user with the
\* daemon's own uid (the uid gate of main, authorize_process).
OnlyTrustedGrants ==
  [][\A p \in Apps : CapOf(p)' > CapOf(p) =>
       /\ inbox # << >> /\ inbox' = Tail(inbox)
       /\ Head(inbox).type = "AUTHORIZE"
       /\ Head(inbox).msg \in [from: Trusted, cmd: {"AUTHORIZE"}, pid: {p},
                               level: {CapOf(p)'}]]_vars

\* Revocation holds: once a user has read that the rights of a process are
\* revoked, its level does not rise, until the next command about it is sent or
\* the arbiter dies (the second half of the comment on cmd_deauthorize; the
\* first, that the process drops to read-only, the code does not do).
RevocationHolds ==
  [][\A p \in Apps : acked[p] = READONLY /\ arbiter_up' =>
                       LevelOf(p)' <= LevelOf(p)]_vars

\* The manager's pidfile, on which sysinit and uid-bootstrap.sh open the UI,
\* names a registered manager: as long as the arbiter has not been restarted,
\* a live process named there holds the manager role.
GateMeansAuthority ==
  IsAlive /\ arbiter_up /\ restarts = 0 => manager_pid = pidfile

\* A console user is never left waiting for ever: the instance connected to
\* answers, or gives up after its last attempt, or dies.  (Unless a service it
\* started keeps the connection open.)
ConsoleReleases ==
  \A c \in Clients :
    client[c] # NoPid ~> (client[c] = NoPid \/ client[c] \in inherited)

Registered == arbiter_up /\ manager_pid # NoPid /\ Running(manager_pid)

\* An instance that has attempts left while the arbiter runs and no manager
\* does (never registered, or dead since) brings a manager about, unless after
\* that the arbiter dies, an instance crashes or one gets a signal: takeover by
\* a new instance works (register_manager, register_as_manager).
TakeoverWorks ==
  \A k \in 0 .. MaxFaults :
    /\ \E m \in Mgrs : mgr[m] = "registering" /\ attempt[m] < MaxAttempts
    /\ arbiter_up /\ ~Registered /\ disturbed = k
    ~> Registered \/ ~arbiter_up \/ disturbed > k

\* The authorisation chain recovers: supervise.sh calls the arbiter and the
\* manager the core of the chain, which must be restored as fast as possible.
ChainRecovers == []<>Registered
=============================================================================
