------------------------------ MODULE Arbiter ------------------------------
(***************************************************************************)
(* backend/sub_kernel/permission_arbiter.c: the accept loop, its request   *)
(* handlers, and the processes around it.                                  *)
(*                                                                         *)
(* The arbiter is one thread: it accepts a connection, reads one whole     *)
(* request from it, drops the records of dead processes, decides, answers  *)
(* and closes.  Clients connect and send concurrently, and can die at any  *)
(* point: a request that was sent is still decided on, with the pid the    *)
(* kernel recorded at connect (SO_PEERCRED).  Pids are reused.             *)
(***************************************************************************)
EXTENDS PermTable, Sequences

CONSTANTS
  ReqPids,      \* the pids a request may name
  ReqLevels,    \* the target_level values a request may carry
  SpawnDomains, \* the SELinux domains new processes start in
  MaxBacklog,   \* connections not yet closed by the arbiter (listen backlog)
  QuickReuse    \* may a pid be reused while the arbiter still knows it?

ASSUME InputAssumption ==
  /\ ReqPids \subseteq AnyPid
  /\ ReqLevels \subseteq Int
  /\ SpawnDomains \subseteq Domains
  /\ MaxBacklog \in Nat \ {0}
  /\ QuickReuse \in BOOLEAN

VARIABLES
  up,           \* is an arbiter process running?
  proc_table,   \* its table
  manager_pid,  \* the pid registered as system manager, NoPid if none
  backlog,      \* its connections, in the order they were made
  reply,        \* the answer it sent in the last step, NoReply if none
  proc,         \* the domain of the process under each pid, "none" if free
  granted,      \* history: the highest cap authorised for the current process
  manager_live  \* history: is the process that registered still running?

vars == <<up, proc_table, manager_pid, backlog, reply, proc, granted,
          manager_live>>

----------------------------------------------------------------------------
(* Requests, fields a handler does not look at left at one value.          *)
Request ==
       [type: {"CHECK_PERM", "SET_LEVEL", "AUTHORIZE"}, pid: ReqPids,
        level: ReqLevels]
  \cup [type: {"GET_LEVEL", "REGISTER_MANAGER"}, pid: ReqPids, level: {0}]
  \cup [type: {"QUERY_CAP"}, pid: {NoPid}, level: {0}]

NoRequest == [type |-> "none", pid |-> NoPid, level |-> 0]

\* open: the process that made the connection still holds it.  The peer is a process
\* of this system: SO_PEERCRED does not fail on a connected local socket, so the -1
\* that get_peer_pid has for that case does not occur.
Connection == [peer: Pids, open: BOOLEAN, msg: Request \cup {NoRequest}]

Reply == [peer: Pids \cup {NoPid}, pid: AnyPid, status: {0, -1}, level: Level]

NoReply == [peer |-> NoPid, pid |-> NoPid, status |-> 0, level |-> 0]

\* A step in which the arbiter answers nobody.
NoAnswer == reply' = NoReply

Running(p) == proc[p] # "none"

\* The pids for which kill(pid, 0) finds a process.
Alive == {p \in Pids : Running(p)} \cup {ArbiterPid}

\* selinux_get_context, with the fallback of register_process.
ContextOf(p) ==
  IF p \in Pids /\ Running(p) THEN proc[p]
  ELSE IF p = ArbiterPid THEN "sys_dom_t" ELSE "app_sandbox_t"

\* The connection the current process of p holds, if any.
Holds(i, p) == backlog[i].peer = p /\ backlog[i].open

Waiting(p) == \E i \in DOMAIN backlog : Holds(i, p)

\* Nothing in the arbiter refers to pid p any more.
Forgotten(p) ==
  /\ p \notin DOMAIN proc_table
  /\ p # manager_pid
  /\ \A i \in DOMAIN backlog : backlog[i].peer # p

TypeOK ==
  /\ up \in BOOLEAN
  /\ IsTable(proc_table)
  /\ manager_pid \in Pids \cup {NoPid}
  /\ backlog \in Seq(Connection)
  /\ reply \in Reply
  /\ proc \in [Pids -> Domains \cup {"none"}]
  /\ granted \in [AnyPid -> Level]
  /\ manager_live \in BOOLEAN

----------------------------------------------------------------------------
(* The arbiter has just started; no client runs yet. *)
Init ==
  /\ up = TRUE
  /\ proc_table = InitialTable
  /\ manager_pid = NoPid
  /\ backlog = << >>
  /\ reply = NoReply
  /\ proc = [p \in Pids |-> "none"]
  /\ granted = [p \in AnyPid |-> READONLY]
  /\ manager_live = FALSE

----------------------------------------------------------------------------
(* The processes.                                                          *)

(* The kernel gives pid p to a new process. *)
Spawn(p) ==
  /\ ~Running(p)
  /\ QuickReuse \/ Forgotten(p)
  /\ \E dom \in SpawnDomains : proc' = [proc EXCEPT ![p] = dom]
  /\ granted' = [granted EXCEPT ![p] = READONLY]
  /\ NoAnswer
  /\ UNCHANGED <<up, proc_table, manager_pid, backlog, manager_live>>

(* The process under pid p is gone, its parent has waited for it: pid p is   *)
(* free, the connection it held is closed from its side.                     *)
Exit(p) ==
  /\ Running(p)
  /\ proc' = [proc EXCEPT ![p] = "none"]
  /\ backlog' = [i \in DOMAIN backlog |->
                   IF backlog[i].peer = p
                     THEN [backlog[i] EXCEPT !.open = FALSE] ELSE backlog[i]]
  /\ manager_live' = (manager_live /\ p # manager_pid)
  /\ NoAnswer
  /\ UNCHANGED <<up, proc_table, manager_pid, granted>>

(* Clients use one connection at a time and wait for its answer. *)
Connect(p) ==
  /\ up
  /\ Running(p)
  /\ ~Waiting(p)
  /\ Len(backlog) < MaxBacklog
  /\ backlog' = Append(backlog, [peer |-> p, open |-> TRUE, msg |-> NoRequest])
  /\ NoAnswer
  /\ UNCHANGED <<up, proc_table, manager_pid, proc, granted, manager_live>>

Send(p) ==
  /\ \E i \in DOMAIN backlog, m \in Request :
       /\ Holds(i, p)
       /\ backlog[i].msg = NoRequest
       /\ backlog' = [backlog EXCEPT ![i].msg = m]
  /\ NoAnswer
  /\ UNCHANGED <<up, proc_table, manager_pid, proc, granted, manager_live>>

----------------------------------------------------------------------------
(* The arbiter's loop: one action per request type, each the whole body of   *)
(* the loop for that request, from accept to close.                          *)

\* Every request first drops the records of dead processes.
Reaped == Reap(proc_table, Alive)

\* The request at the head of the queue has been read completely.
Reading(type) ==
  /\ up
  /\ backlog # << >>
  /\ Head(backlog).msg.type = type

\* The answer is written (and lost if the client is gone: on a SEQPACKET
\* socket that is an error, not a signal) and the connection closed.
Answer(status, level) ==
  /\ reply' = [peer |-> Head(backlog).peer, pid |-> Head(backlog).msg.pid,
               status |-> status, level |-> level]
  /\ backlog' = Tail(backlog)

HandleCheckPerm ==
  LET c == Head(backlog) IN
  /\ Reading("CHECK_PERM")
  /\ proc_table' = Reaped
  /\ Answer(IF /\ MayQuery(c.msg.pid, c.peer, manager_pid)
               /\ CheckPermission(Reaped, c.msg.pid, c.msg.level)
              THEN 0 ELSE -1, 0)
  /\ UNCHANGED <<up, manager_pid, proc, granted, manager_live>>

HandleGetLevel ==
  LET c == Head(backlog) IN
  /\ Reading("GET_LEVEL")
  /\ proc_table' = Reaped
  /\ IF MayQuery(c.msg.pid, c.peer, manager_pid)
       THEN Answer(0, GetProcessLevel(Reaped, c.msg.pid))
       ELSE Answer(-1, 0)
  /\ UNCHANGED <<up, manager_pid, proc, granted, manager_live>>

HandleSetLevel ==
  LET c == Head(backlog) IN
  /\ Reading("SET_LEVEL")
  /\ IF MaySetLevel(Reaped, c.msg.pid, c.msg.level, c.peer)
       THEN /\ proc_table' = RegisterProcess(Reaped, c.msg.pid, c.msg.level,
                                             ContextOf(c.msg.pid))
            /\ Answer(0, c.msg.level)
       ELSE /\ proc_table' = Reaped
            /\ Answer(-1, 0)
  /\ UNCHANGED <<up, manager_pid, proc, granted, manager_live>>

HandleRegisterManager ==
  LET c == Head(backlog) IN
  /\ Reading("REGISTER_MANAGER")
  /\ proc_table' = Reaped
  /\ IF MayRegisterManager(manager_pid, Alive)
       THEN /\ manager_pid' = c.peer
            /\ manager_live' = c.open
            /\ Answer(0, GetProcessLevel(Reaped, c.msg.pid))
       ELSE /\ Answer(-1, GetProcessLevel(Reaped, c.msg.pid))
            /\ UNCHANGED <<manager_pid, manager_live>>
  /\ UNCHANGED <<up, proc, granted>>

HandleAuthorize ==
  LET c == Head(backlog) IN
  /\ Reading("AUTHORIZE")
  /\ IF MayAuthorize(Reaped, c.msg.pid, c.msg.level, c.peer, manager_pid)
       THEN /\ proc_table' = Authorize(Reaped, c.msg.pid, c.msg.level,
                                       ContextOf(c.msg.pid))
            /\ granted' = [granted EXCEPT ![c.msg.pid] =
                             IF @ < c.msg.level THEN c.msg.level ELSE @]
            /\ Answer(0, 0)
       ELSE /\ proc_table' = Reaped
            /\ Answer(-1, 0)
            /\ UNCHANGED granted
  /\ UNCHANGED <<up, manager_pid, proc, manager_live>>

\* REQ_QUERY_CAP has no handler.
HandleUnknown ==
  /\ Reading("QUERY_CAP")
  /\ proc_table' = Reaped
  /\ Answer(-1, 0)
  /\ UNCHANGED <<up, manager_pid, proc, granted, manager_live>>

\* Mutant of DropConnection: the end of the stream is not an error, the loop
\* that fills the request goes on reading.
ReadOnAtEof ==
  /\ Reading("none")
  /\ ~Head(backlog).open
  /\ UNCHANGED vars

(* The client at the head died before it had sent its request: read returns  *)
(* 0 and the connection is closed; nothing is reaped.  While such a client   *)
(* lives and stays silent, the loop is blocked in read.                      *)
DropConnection ==
  /\ Reading("none")
  /\ ~Head(backlog).open
  /\ backlog' = Tail(backlog)
  /\ NoAnswer
  /\ UNCHANGED <<up, proc_table, manager_pid, proc, granted, manager_live>>

ArbiterLoop ==
  \/ HandleCheckPerm
  \/ HandleGetLevel
  \/ HandleSetLevel
  \/ HandleRegisterManager
  \/ HandleAuthorize
  \/ HandleUnknown
  \/ DropConnection

(* The arbiter dies (it has no signal handler, and leaves the loop on an     *)
(* accept error): its memory is lost, its connections are reset.             *)
Crash ==
  /\ up
  /\ up' = FALSE
  /\ backlog' = << >>
  /\ manager_live' = FALSE
  /\ proc_table' = EmptyTable
  /\ manager_pid' = NoPid
  /\ NoAnswer
  /\ UNCHANGED <<proc, granted>>

(* A new arbiter runs main: empty table but for itself, no manager, a fresh  *)
(* socket.                                                                   *)
Start ==
  /\ ~up
  /\ up' = TRUE
  /\ proc_table' = InitialTable
  /\ NoAnswer
  /\ UNCHANGED <<manager_pid, backlog, proc, granted, manager_live>>

Next ==
  \/ \E p \in Pids : Spawn(p) \/ Exit(p) \/ Connect(p) \/ Send(p)
  \/ ArbiterLoop
  \/ Crash
  \/ Start

(* The loop never stops by itself, and the clients of this repository send   *)
(* their request right after they have connected.  Nothing obliges a process *)
(* to connect or to exit, or the arbiter to crash.                           *)
Fairness ==
  /\ WF_vars(ArbiterLoop)
  /\ \A p \in Pids : WF_vars(Send(p))

Spec == Init /\ [][Next]_vars /\ Fairness

----------------------------------------------------------------------------
(* Properties.                                                             *)

\* The table never holds more records than it has slots, whatever mixture of
\* registrations, authorisations, deaths and restarts came before
\* (register_process, reap_dead_processes).
TableWithinBound == ProcCount(proc_table) <= MAX_REQUESTS

\* A client whose record has a level above USER was authorised for that level
\* by a manager, and it was this very process that was authorised, not an
\* earlier one with its pid.  (reap_dead_processes says that it keeps a reused
\* pid from inheriting the level or the authorisation of its predecessor.)
LevelAuthorised ==
  \A p \in DOMAIN proc_table \ {ArbiterPid} :
    proc_table[p].level > USER => proc_table[p].level <= granted[p]

\* The same for what a client may still rise to: no record promises more than
\* a manager once granted to the process that has this pid now.
CapAuthorised ==
  \A p \in DOMAIN proc_table \ {ArbiterPid} :
    proc_table[p].user_authorized_cap <= granted[p]

\* Both: the head of the file says that an unauthorised process is never
\* escalated.
LevelBacked == LevelAuthorised /\ CapAuthorised

\* Nobody takes the manager role from a manager that is still running, as long
\* as the arbiter itself lives (register_manager).
TakeoverOnlyWhenGone ==
  [][up' /\ manager_live => manager_pid' = manager_pid]_vars

\* What keeps it so: the manager whose process still runs is the one a pid
\* lookup finds, and a connection its client still holds names a running one.
ManagerInv ==
  /\ manager_live => manager_pid \in Pids /\ Running(manager_pid)
  /\ \A i \in DOMAIN backlog : backlog[i].open => Running(backlog[i].peer)

\* The level of a running process changes only through its own SET_LEVEL, or
\* when it is first authorised, which puts it at USER; its cap changes only
\* through an AUTHORIZE of the process registered as manager.  No request of
\* another client and no reaping touches it.
LevelOf(p) == GetProcessLevel(proc_table, p)

CapOf(p) ==
  IF p \in DOMAIN proc_table THEN proc_table[p].user_authorized_cap
                             ELSE READONLY

HeadIs(type, p) ==
  backlog # << >> /\ Head(backlog).msg.type = type /\ Head(backlog).msg.pid = p

OnlyOwnerOrManager ==
  [][\A p \in Pids : Running(p) /\ Running(p)' /\ up /\ up' =>
       /\ LevelOf(p)' # LevelOf(p) =>
            \/ HeadIs("SET_LEVEL", p) /\ Head(backlog).peer = p
            \/ /\ HeadIs("AUTHORIZE", p) /\ Head(backlog).peer = manager_pid
               /\ p \notin DOMAIN proc_table /\ LevelOf(p)' = USER
       /\ CapOf(p)' # CapOf(p) =>
            HeadIs("AUTHORIZE", p) /\ Head(backlog).peer = manager_pid]_vars

\* Lowering one's own level, or keeping it, is never refused for any other
\* reason than a table full of running processes that does not hold the caller
\* (set_process_level, and the reason reap_dead_processes gives for itself).
LoweringAllowed ==
  [][\A p \in Pids :
       /\ up /\ up' /\ HeadIs("SET_LEVEL", p) /\ Head(backlog).peer = p
       /\ Running(p) /\ backlog' = Tail(backlog)
       /\ Head(backlog).msg.level \in READONLY .. LevelOf(p)
       /\ reply'.status = -1
       => /\ p \notin DOMAIN proc_table
          /\ Cardinality({q \in DOMAIN proc_table : q \in Alive})
               >= MAX_REQUESTS]_vars

\* A client that waits for the arbiter is answered, or its connection ends:
\* nothing in front of it in the queue, not even the request of a client that
\* has died, holds the loop up for ever.
EveryClientReleased == \A p \in Pids : Waiting(p) ~> ~Waiting(p)
=============================================================================
