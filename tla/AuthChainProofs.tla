-------------------------- MODULE AuthChainProofs --------------------------
(***************************************************************************)
(* Proofs about AuthChain, for any number of pids, instances of            *)
(* system_manager, console users, commands, faults and restarts: its       *)
(* types; that what users were told is in effect; that the pidfile names   *)
(* the manager; that only the daemon's own uid brings a cap about, and     *)
(* that a revocation holds.                                                *)
(***************************************************************************)
EXTENDS AuthChain, SequenceTheorems, TLAPS

\* Beyond register_as_manager an instance holds the role, until the arbiter
\* forgets it.
RoleHeld ==
  restarts = 0 =>
    \A m \in Mgrs :
      mgr[m] \in {"registered", "serving", "asking", "stopping"} => manager_pid = m

\* The process in the pidfile, if it lives, is the one that wrote it.
WrittenAfterwards ==
  IsAlive => mgr[pidfile] \in {"serving", "asking", "stopping"}

\* A command is in hand while the arbiter is asked about it.
CommandInHand ==
  \A m \in Mgrs : mgr[m] = "asking" =>
    /\ queue[m] # << >>
    /\ Head(queue[m]).cmd \in {"AUTHORIZE", "DEAUTHORIZE"}

AttemptsLeft == \A m \in Mgrs : mgr[m] = "claiming" => attempt[m] < MaxAttempts

\* No request of m is with the arbiter.
Silent(m) == \A i \in DOMAIN inbox : inbox[i].peer # m

\* An answer is there for someone who waits, and it is to the last request.
AnswerInTurn ==
  \A m \in Mgrs : reply[m] # << >> =>
    /\ mgr[m] \in {"claiming", "asking"}
    /\ Silent(m)
    /\ Head(reply[m]).by <= restarts

\* Only the last request of an instance is waited for.
OpenIsLast ==
  \A i \in DOMAIN inbox : inbox[i].open =>
    /\ mgr[inbox[i].peer] \in {"claiming", "asking"}
    /\ \A j \in DOMAIN inbox : inbox[j].peer = inbox[i].peer => j <= i

\* Which requests an instance can have left with the arbiter, by where it is.
InPhase(r) ==
  /\ r.type = "REGISTER_MANAGER" => mgr[r.peer] \in {"registering", "claiming", "off"}
  /\ r.type = "AUTHORIZE" => mgr[r.peer] \in {"asking", "stopping", "off"}
  /\ mgr[r.peer] = "asking" => r.open /\ r.msg = Head(queue[r.peer])

\* The uid gate was passed before.
Gated(r) ==
  r.type = "AUTHORIZE" => r.msg.cmd \in {"AUTHORIZE", "DEAUTHORIZE"} /\ Permitted(r.msg)

RequestsFit ==
  /\ \A i \in DOMAIN inbox : InPhase(inbox[i]) /\ Gated(inbox[i])
  /\ \A i, j \in DOMAIN inbox : inbox[i].peer = inbox[j].peer => inbox[i].type = inbox[j].type

\* A success that has not been read yet was given to the manager, and is in
\* effect, as long as the arbiter that gave it lives.
AnswerHolds ==
  \A m \in Mgrs :
    reply[m] # << >> /\ Head(reply[m]).ok /\ Head(reply[m]).by = restarts =>
      /\ arbiter_up /\ manager_pid = m
      /\ mgr[m] = "asking" => CapOf(Head(queue[m]).pid) = Head(queue[m]).level

\* What a user was told is in effect, and no request of the manager is on its
\* way that would change it.
WordHolds ==
  \A p \in Apps : acked[p] # NoWord =>
    /\ arbiter_up
    /\ CapOf(p) = acked[p]
    /\ \A i \in DOMAIN inbox :
         inbox[i].type = "AUTHORIZE" /\ inbox[i].msg.pid = p => inbox[i].peer # manager_pid

(* The invariant, by the variables its parts are about. *)

ManagersOK ==
  /\ manager_pid \in Mgrs \cup {NoPid}
  /\ mgr \in [Mgrs -> Phases]
  /\ pidfile \in Mgrs \cup {NoPid}
  /\ restarts \in 0 .. MaxRestarts
  /\ RoleHeld
  /\ WrittenAfterwards

ConsoleOK ==
  /\ queue \in [Mgrs -> Seq(Command)]
  /\ client \in [Clients -> Mgrs \cup {NoPid}]
  /\ inherited \subseteq Mgrs
  /\ console \in Mgrs \cup {NoPid}
  /\ CommandInHand

LocalsOK ==
  /\ attempt \in [Mgrs -> 0 .. MaxAttempts]
  /\ running \in [Mgrs -> BOOLEAN]
  /\ supervisor \in {"checking", "waiting"}
  /\ disturbed \in 0 .. MaxFaults
  /\ AttemptsLeft

WireOK ==
  /\ inbox \in Seq(Request)
  /\ reply \in [Mgrs -> Seq(Answer)]
  /\ AnswerInTurn /\ OpenIsLast /\ RequestsFit

ArbiterOK ==
  /\ arbiter_up \in BOOLEAN
  /\ IsTable(proc_table)
  /\ acked \in [Apps -> Level \cup {NoWord}]
  /\ AnswerHolds /\ WordHolds

Inv == ManagersOK /\ ConsoleOK /\ LocalsOK /\ WireOK /\ ArbiterOK

LEMMA Disjoint ==
  /\ NoPid \notin Mgrs /\ NoPid \notin Apps /\ ArbiterPid \notin Apps
  /\ Apps \subseteq AnyPid /\ Apps \subseteq Alive
  BY PidAssumption, ChainAssumption DEF Apps, AnyPid, Alive

LEMMA LevelBounds ==
  /\ READONLY \in Level /\ USER \in Level /\ SELINUX \in Level /\ SANDBOX \in Level
  /\ Level \subseteq Nat
  BY DEF Level, READONLY, USER, SELINUX, SANDBOX, BOOTLOADER

----------------------------------------------------------------------------
(* The table *)

\* Reaping leaves the records of living processes alone.
LEMMA ReapedTable ==
  ASSUME IsTable(proc_table)
  PROVE  /\ IsTable(Reaped)
         /\ \A p \in Apps : /\ p \in DOMAIN Reaped <=> p \in DOMAIN proc_table
                            /\ p \in DOMAIN proc_table => Reaped[p] = proc_table[p]
  BY Disjoint DEF IsTable, Reaped, Reap

\* A record made by register_process is a proc_cred_t.
LEMMA NewCredType ==
  ASSUME NEW level \in Level, NEW dom \in Domains
  PROVE  NewCred(level, dom) \in ProcCred
  BY LevelBounds DEF NewCred, ProcCred

\* Storing a record changes no other.
LEMMA StoreTable ==
  ASSUME NEW t, IsTable(t), NEW p \in AnyPid, NEW c \in ProcCred
  PROVE  LET r == Store(t, p, c)
         IN  /\ IsTable(r)
             /\ p \in DOMAIN r /\ r[p] = c
             /\ \A q : q # p => (q \in DOMAIN r <=> q \in DOMAIN t)
             /\ \A q \in DOMAIN t : q # p => r[q] = t[q]
  BY DEF IsTable, Store

\* register_process sets the level and leaves the cap alone.
LEMMA RegisterTable ==
  ASSUME NEW t, IsTable(t), NEW p \in AnyPid, NEW level \in Level, NEW dom \in Domains
  PROVE  LET r == RegisterProcess(t, p, level, dom)
         IN  /\ IsTable(r)
             /\ p \in DOMAIN r /\ r[p].level = level
             /\ r[p].user_authorized_cap =
                  IF p \in DOMAIN t THEN t[p].user_authorized_cap ELSE READONLY
             /\ \A q : q # p => (q \in DOMAIN r <=> q \in DOMAIN t)
             /\ \A q \in DOMAIN t : q # p => r[q] = t[q]
  <1>. DEFINE c == IF p \in DOMAIN t THEN [t[p] EXCEPT !.level = level]
                                     ELSE NewCred(level, dom)
  <1>1. /\ c \in ProcCred /\ c.level = level
        /\ c.user_authorized_cap =
             IF p \in DOMAIN t THEN t[p].user_authorized_cap ELSE READONLY
    <2>1. CASE p \in DOMAIN t
      BY <2>1 DEF IsTable, ProcCred
    <2>2. CASE p \notin DOMAIN t
      BY <2>2, NewCredType DEF NewCred
    <2>. QED  BY <2>1, <2>2
  <1>2. RegisterProcess(t, p, level, dom) = Store(t, p, c)
    BY DEF RegisterProcess
  <1>. HIDE DEF c
  <1>3. LET r == Store(t, p, c)
        IN  /\ IsTable(r)
            /\ p \in DOMAIN r /\ r[p] = c
            /\ \A q : q # p => (q \in DOMAIN r <=> q \in DOMAIN t)
            /\ \A q \in DOMAIN t : q # p => r[q] = t[q]
    BY <1>1, StoreTable
  <1>. QED  BY <1>1, <1>2, <1>3

\* authorize_process sets the cap; a process that was not known becomes USER.
LEMMA AuthorizeTable ==
  ASSUME NEW t, IsTable(t), NEW p \in AnyPid, NEW cap \in Level, NEW dom \in Domains
  PROVE  LET r == Authorize(t, p, cap, dom)
         IN  /\ IsTable(r)
             /\ p \in DOMAIN r /\ r[p].user_authorized_cap = cap
             /\ r[p].level = IF p \in DOMAIN t THEN t[p].level ELSE USER
             /\ \A q : q # p => (q \in DOMAIN r <=> q \in DOMAIN t)
             /\ \A q \in DOMAIN t : q # p => r[q] = t[q]
  <1>. DEFINE known == IF p \in DOMAIN t THEN t ELSE RegisterProcess(t, p, USER, dom)
  <1>0. USER \in Level
    BY LevelBounds
  <1>1. /\ IsTable(known)
        /\ p \in DOMAIN known
        /\ known[p].level = IF p \in DOMAIN t THEN t[p].level ELSE USER
        /\ \A q : q # p => (q \in DOMAIN known <=> q \in DOMAIN t)
        /\ \A q \in DOMAIN t : q # p => known[q] = t[q]
    <2>1. CASE p \in DOMAIN t
      BY <2>1
    <2>2. CASE p \notin DOMAIN t
      BY <1>0, <2>2, RegisterTable
    <2>. QED  BY <2>1, <2>2
  <1>2. Authorize(t, p, cap, dom) = [known EXCEPT ![p].user_authorized_cap = cap]
    BY DEF Authorize
  <1>. HIDE DEF known
  <1>. QED  BY <1>1, <1>2 DEF IsTable, ProcCred

\* Caps and levels are levels.
LEMMA CapType ==
  ASSUME IsTable(proc_table), NEW p
  PROVE  CapOf(p) \in Level /\ LevelOf(p) \in Level
  BY LevelBounds DEF IsTable, ProcCred, CapOf, LevelOf, GetProcessLevel

\* What a console command carries.
LEMMA HeadCommand ==
  ASSUME ConsoleOK, NEW m \in Mgrs, queue[m] # << >>
  PROVE  /\ Tail(queue[m]) \in Seq(Command)
         /\ Head(queue[m]) \in Command
         /\ Head(queue[m]).from \in Clients
         /\ Head(queue[m]).cmd = "AUTHORIZE" =>
              Head(queue[m]) \in [from: Clients, cmd: {"AUTHORIZE"}, pid: Apps,
                                  level: GrantLevels]
         /\ Head(queue[m]).cmd \in {"AUTHORIZE", "DEAUTHORIZE"} =>
              Head(queue[m]).pid \in Apps /\ Head(queue[m]).level \in Level
         /\ Head(queue[m]).cmd = "DEAUTHORIZE" => Head(queue[m]).level = READONLY
  <1>. DEFINE msg == Head(queue[m])
  <1>1. msg \in Command /\ Tail(queue[m]) \in Seq(Command)
    BY HeadTailProperties DEF ConsoleOK
  <1>. HIDE DEF msg
  <1>2. \/ msg \in [from: Clients, cmd: {"AUTHORIZE"}, pid: Apps, level: GrantLevels]
        \/ msg \in [from: Clients, cmd: {"DEAUTHORIZE"}, pid: Apps, level: {READONLY}]
        \/ msg \in [from: Clients, cmd: {"SERVICE", "QUIT", "STATUS"}, pid: {NoPid},
                    level: {READONLY}]
    BY <1>1 DEF Command
  <1>3. /\ msg.from \in Clients
        /\ msg.cmd = "AUTHORIZE" =>
             msg \in [from: Clients, cmd: {"AUTHORIZE"}, pid: Apps, level: GrantLevels]
        /\ msg.cmd \in {"AUTHORIZE", "DEAUTHORIZE"} => msg.pid \in Apps /\ msg.level \in Level
        /\ msg.cmd = "DEAUTHORIZE" => msg.level = READONLY
    BY <1>2, LevelBounds, ChainAssumption
  <1>. QED  BY <1>1, <1>3 DEF msg

LEMMA FreshTables ==
  /\ IsTable(EmptyTable) /\ DOMAIN EmptyTable = {}
  /\ IsTable(InitialTable) /\ DOMAIN InitialTable = {ArbiterPid}
  <1>1. NewCred(SELINUX, "sys_dom_t") \in ProcCred
    BY LevelBounds, NewCredType DEF Domains
  <1>. QED  BY <1>1 DEF EmptyTable, InitialTable, IsTable, AnyPid

----------------------------------------------------------------------------
(* The requests *)

\* What a request carries.
LEMMA RequestShape ==
  ASSUME NEW r \in Request
  PROVE  /\ r.peer \in Mgrs /\ r.open \in BOOLEAN
         /\ r.type \in {"REGISTER_MANAGER", "AUTHORIZE"}
         /\ r.type = "AUTHORIZE" => r.msg \in Command
  BY DEF Request

\* A command about a process names one and a level.
LEMMA CommandShape ==
  ASSUME NEW msg \in Command, msg.cmd \in {"AUTHORIZE", "DEAUTHORIZE"}
  PROVE  /\ msg.pid \in Apps /\ msg.level \in Level
         /\ msg.cmd = "AUTHORIZE" =>
              msg \in [from: Clients, cmd: {"AUTHORIZE"}, pid: Apps, level: GrantLevels]
         /\ msg.cmd = "DEAUTHORIZE" => msg.level = READONLY
  <1>1. \/ msg \in [from: Clients, cmd: {"AUTHORIZE"}, pid: Apps, level: GrantLevels]
        \/ msg \in [from: Clients, cmd: {"DEAUTHORIZE"}, pid: Apps, level: {READONLY}]
        \/ msg \in [from: Clients, cmd: {"SERVICE", "QUIT", "STATUS"}, pid: {NoPid},
                    level: {READONLY}]
    BY DEF Command
  <1>. QED  BY <1>1, LevelBounds, ChainAssumption

\* The next request, and those behind it.
LEMMA NextRequest ==
  ASSUME inbox \in Seq(Request), inbox # << >>, inbox' = Tail(inbox)
  PROVE  /\ inbox' \in Seq(Request)
         /\ 1 \in DOMAIN inbox /\ Head(inbox) = inbox[1] /\ inbox[1] \in Request
         /\ \A i \in DOMAIN inbox' : /\ i \in Nat /\ i >= 1
                                     /\ i + 1 \in DOMAIN inbox
                                     /\ inbox'[i] = inbox[i + 1]
  <1>1. Len(inbox) \in Nat /\ DOMAIN inbox = 1 .. Len(inbox) /\ Len(inbox) > 0
    BY EmptySeq, LenProperties
  <1>2. inbox' \in Seq(Request) /\ Len(inbox') = Len(inbox) - 1
        /\ \A i \in 1 .. Len(inbox') : inbox'[i] = inbox[i + 1]
    BY HeadTailProperties
  <1>3. DOMAIN inbox' = 1 .. Len(inbox')
    BY <1>2, LenProperties
  <1>4. Head(inbox) = inbox[1] /\ Head(inbox) \in Request
    BY HeadTailProperties, <1>1
  <1>. QED  BY <1>1, <1>2, <1>3, <1>4

\* A request is added behind the others.
LEMMA AddedRequest ==
  ASSUME inbox \in Seq(Request), NEW r \in Request, inbox' = Append(inbox, r)
  PROVE  /\ inbox' \in Seq(Request)
         /\ \A i \in DOMAIN inbox' :
              \/ i \in DOMAIN inbox /\ inbox'[i] = inbox[i]
              \/ inbox'[i] = r /\ i \in Nat /\ \A j \in DOMAIN inbox' : j <= i
  <1>1. Len(inbox) \in Nat /\ DOMAIN inbox = 1 .. Len(inbox)
    BY LenProperties
  <1>2. /\ inbox' \in Seq(Request) /\ Len(inbox') = Len(inbox) + 1
        /\ \A i \in 1 .. Len(inbox) : inbox'[i] = inbox[i]
        /\ inbox'[Len(inbox) + 1] = r
    BY AppendProperties
  <1>3. DOMAIN inbox' = 1 .. Len(inbox) + 1
    BY <1>2, LenProperties
  <1>. QED  BY <1>1, <1>2, <1>3

\* The requests of an instance stay when it hangs up, but nobody waits.
LEMMA HungUp ==
  ASSUME WireOK, NEW m \in Mgrs, HangUp(m)
  PROVE  /\ inbox' \in Seq(Request) /\ DOMAIN inbox' = DOMAIN inbox
         /\ reply' \in [Mgrs -> Seq(Answer)] /\ reply'[m] = << >>
         /\ \A n \in Mgrs : n # m => reply'[n] = reply[n]
         /\ \A i \in DOMAIN inbox :
              /\ inbox[i].peer # m => inbox'[i] = inbox[i]
              /\ inbox[i].peer = m => inbox'[i].open = FALSE
              /\ inbox'[i].peer = inbox[i].peer /\ inbox'[i].type = inbox[i].type
              /\ inbox[i].type = "AUTHORIZE" => inbox'[i].msg = inbox[i].msg
  <1>1. inbox \in Seq(Request) /\ reply \in [Mgrs -> Seq(Answer)]
    BY DEF WireOK
  <1>2. /\ DOMAIN inbox' = DOMAIN inbox
        /\ \A i \in DOMAIN inbox :
             inbox'[i] = IF inbox[i].peer = m THEN [inbox[i] EXCEPT !.open = FALSE]
                                              ELSE inbox[i]
    BY DEF HangUp
  <1>3. ASSUME NEW i \in DOMAIN inbox
        PROVE  /\ inbox'[i] \in Request
               /\ inbox[i].peer # m => inbox'[i] = inbox[i]
               /\ inbox[i].peer = m => inbox'[i].open = FALSE
               /\ inbox'[i].peer = inbox[i].peer /\ inbox'[i].type = inbox[i].type
               /\ inbox[i].type = "AUTHORIZE" => inbox'[i].msg = inbox[i].msg
    <2>. DEFINE r == inbox[i]
                s == [r EXCEPT !.open = FALSE]
    <2>1. r \in Request
      BY <1>1, ElementOfSeq, LenProperties
    <2>. HIDE DEF r
    <2>2. /\ s \in Request /\ s.open = FALSE /\ s.peer = r.peer /\ s.type = r.type
          /\ r.type = "AUTHORIZE" => s.msg = r.msg
      <3>1. CASE r \in [peer: Mgrs, type: {"REGISTER_MANAGER"}, open: BOOLEAN]
        <4>1. s \in [peer: Mgrs, type: {"REGISTER_MANAGER"}, open: BOOLEAN]
          BY <3>1
        <4>2. s.open = FALSE /\ s.peer = r.peer /\ s.type = r.type /\ r.type # "AUTHORIZE"
          BY <3>1
        <4>. QED  BY <4>1, <4>2 DEF Request
      <3>2. CASE r \in [peer: Mgrs, type: {"AUTHORIZE"}, open: BOOLEAN, msg: Command]
        <4>1. s \in [peer: Mgrs, type: {"AUTHORIZE"}, open: BOOLEAN, msg: Command]
          BY <3>2
        <4>2. s.open = FALSE /\ s.peer = r.peer /\ s.type = r.type /\ s.msg = r.msg
          BY <3>2
        <4>. QED  BY <4>1, <4>2 DEF Request
      <3>. QED  BY <2>1, <3>1, <3>2 DEF Request
    <2>. QED  BY <1>2, <2>1, <2>2 DEF r
  <1>4. inbox' \in Seq(Request)
    <2>1. Len(inbox) \in Nat /\ DOMAIN inbox = 1 .. Len(inbox)
      BY <1>1, LenProperties
    <2>2. inbox' = [i \in 1 .. Len(inbox) |->
                      IF inbox[i].peer = m THEN [inbox[i] EXCEPT !.open = FALSE]
                                           ELSE inbox[i]]
      BY <2>1 DEF HangUp
    <2>3. inbox' \in [1 .. Len(inbox) -> Request]
      BY <1>2, <1>3, <2>1, <2>2
    <2>. QED  BY <2>1, <2>3, SeqDef
  <1>5. /\ reply' \in [Mgrs -> Seq(Answer)] /\ reply'[m] = << >>
        /\ \A n \in Mgrs : n # m => reply'[n] = reply[n]
    BY <1>1 DEF HangUp
  <1>. QED  BY <1>2, <1>3, <1>4, <1>5

\* Every request in the inbox is one.
LEMMA InboxElement ==
  ASSUME inbox \in Seq(Request), NEW i \in DOMAIN inbox
  PROVE  inbox[i] \in Request
  BY ElementOfSeq, LenProperties

\* An instance that is not in request_arbiter, nor was when it was last
\* interrupted, has nothing with the arbiter.
LEMMA Idle ==
  ASSUME WireOK, NEW m \in Mgrs,
         mgr[m] \in {"starting", "registered", "serving"} \/ FreshPid(m)
  PROVE  Silent(m) /\ reply[m] = << >>
  <1>1. Silent(m)
    <2>1. CASE FreshPid(m)
      BY <2>1 DEF FreshPid, RequestsOf, Silent
    <2>2. CASE mgr[m] \in {"starting", "registered", "serving"}
      <3>. SUFFICES ASSUME NEW i \in DOMAIN inbox, inbox[i].peer = m PROVE FALSE
        BY DEF Silent
      <3>1. inbox[i].type \in {"REGISTER_MANAGER", "AUTHORIZE"}
        BY InboxElement, RequestShape DEF WireOK
      <3>2. InPhase(inbox[i])
        BY DEF WireOK, RequestsFit
      <3>. QED  BY <2>2, <3>1, <3>2 DEF InPhase
    <2>. QED  BY <2>1, <2>2
  <1>2. mgr[m] \notin {"claiming", "asking"}
    BY DEF FreshPid, Running
  <1>. QED  BY <1>1, <1>2 DEF WireOK, AnswerInTurn

----------------------------------------------------------------------------
(* What happens on the way to the arbiter and back, kind by kind *)

\* Nothing: an instance only moves on if it has nothing with the arbiter.
Quiet ==
  /\ inbox' = inbox /\ reply' = reply
  /\ \A n \in Mgrs :
       \/ mgr'[n] = mgr[n] /\ (mgr[n] = "asking" => Head(queue'[n]) = Head(queue[n]))
       \/ Silent(n) /\ reply[n] = << >>

SameArbiter == UNCHANGED <<arbiter_up, proc_table, manager_pid, acked, restarts>>

\* Instance m sends r and waits.
Sent(m, r) ==
  /\ inbox' = Append(inbox, r) /\ reply' = reply
  /\ r \in Request /\ r.peer = m /\ r.open /\ Gated(r)
  /\ \/ /\ mgr[m] = "registering" /\ mgr'[m] = "claiming"
        /\ r.type = "REGISTER_MANAGER" /\ acked' = acked
     \/ /\ mgr[m] = "serving" /\ mgr'[m] = "asking"
        /\ r.type = "AUTHORIZE" /\ r.msg = Head(queue[m])
        /\ acked' = [acked EXCEPT ![r.msg.pid] = NoWord]
  /\ \A n \in Mgrs : n # m => mgr'[n] = mgr[n]
  /\ UNCHANGED <<queue, arbiter_up, proc_table, manager_pid, restarts>>

\* Instance m reads its answer.
Read(m) ==
  /\ inbox' = inbox
  /\ mgr[m] \in {"claiming", "asking"} /\ reply[m] # << >>
  /\ reply' = [reply EXCEPT ![m] = << >>]
  /\ \A n \in Mgrs : n # m => mgr'[n] = mgr[n] /\ queue'[n] = queue[n]
  /\ UNCHANGED <<arbiter_up, proc_table, manager_pid, restarts>>

\* Instance m closes its connection, if it has one.
Closed(m) ==
  /\ HangUp(m)
  /\ \/ mgr'[m] = "off"
     \/ mgr[m] = "claiming" /\ mgr'[m] = "registering"
     \/ mgr[m] = "asking" /\ mgr'[m] = "stopping"
     \/ mgr[m] = "asking" /\ mgr'[m] = "serving" /\ Silent(m)
  /\ \A n \in Mgrs : n # m => mgr'[n] = mgr[n] /\ queue'[n] = queue[n]
  /\ SameArbiter

LEMMA QuietWire ==
  ASSUME WireOK, ManagersOK, Quiet, restarts' = restarts
  PROVE  WireOK'
  <1>a. inbox \in Seq(Request) /\ reply \in [Mgrs -> Seq(Answer)]
    BY DEF WireOK
  <1>b. \A i \in DOMAIN inbox : inbox[i].peer \in Mgrs
    BY <1>a, InboxElement, RequestShape
  <1>c. \A n \in Mgrs : \/ mgr'[n] = mgr[n] /\ (mgr[n] = "asking" => Head(queue'[n]) = Head(queue[n]))
                        \/ Silent(n) /\ reply[n] = << >>
    BY DEF Quiet
  <1>d. \A i \in DOMAIN inbox :
          /\ mgr'[inbox[i].peer] = mgr[inbox[i].peer]
          /\ mgr[inbox[i].peer] = "asking" => Head(queue'[inbox[i].peer]) = Head(queue[inbox[i].peer])
    BY <1>b, <1>c DEF Silent
  <1>1. AnswerInTurn'
    BY <1>c DEF Quiet, WireOK, AnswerInTurn, Silent
  <1>2. OpenIsLast'
    BY <1>d DEF Quiet, WireOK, OpenIsLast
  <1>3. RequestsFit'
    <2>1. ASSUME NEW i \in DOMAIN inbox
          PROVE  InPhase(inbox[i])' /\ Gated(inbox[i])'
      BY <1>d DEF Quiet, WireOK, RequestsFit, InPhase, Gated, Permitted, Sensitive
    <2>. QED  BY <2>1 DEF Quiet, WireOK, RequestsFit
  <1>. QED  BY <1>a, <1>1, <1>2, <1>3 DEF Quiet, WireOK

LEMMA SentWire ==
  ASSUME WireOK, ManagersOK, NEW m \in Mgrs, NEW r, Sent(m, r)
  PROVE  WireOK'
  <1>a. inbox \in Seq(Request) /\ reply \in [Mgrs -> Seq(Answer)] /\ r \in Request
    BY DEF WireOK, Sent
  <1>b. \A i \in DOMAIN inbox : inbox[i].peer \in Mgrs
    BY <1>a, InboxElement, RequestShape
  <1>c. /\ inbox' \in Seq(Request)
        /\ \A i \in DOMAIN inbox' :
             \/ i \in DOMAIN inbox /\ inbox'[i] = inbox[i]
             \/ inbox'[i] = r /\ i \in Nat /\ \A j \in DOMAIN inbox' : j <= i
    BY <1>a, AddedRequest DEF Sent
  <1>d. /\ r.peer = m /\ r.open /\ Gated(r)
        /\ reply' = reply /\ queue' = queue /\ restarts' = restarts
        /\ \A n \in Mgrs : n # m => mgr'[n] = mgr[n]
    BY DEF Sent
  <1>e. /\ mgr[m] \notin {"claiming", "asking"} /\ reply[m] = << >>
        /\ mgr[m] = "registering" \/ Silent(m)
    BY Idle DEF Sent, WireOK, AnswerInTurn
  <1>f. mgr'[m] \in {"claiming", "asking"}
    BY DEF Sent
  <1>1. AnswerInTurn'
    <2>. SUFFICES ASSUME NEW n \in Mgrs, reply'[n] # << >>
                  PROVE  /\ mgr'[n] \in {"claiming", "asking"} /\ Silent(n)'
                         /\ Head(reply'[n]).by <= restarts'
      BY DEF AnswerInTurn
    <2>1. n # m /\ mgr[n] \in {"claiming", "asking"} /\ Silent(n) /\ Head(reply[n]).by <= restarts
      BY <1>d, <1>e DEF WireOK, AnswerInTurn
    <2>2. Silent(n)'
      BY <1>c, <1>d, <2>1 DEF Silent
    <2>. QED  BY <1>d, <2>1, <2>2
  <1>2. OpenIsLast'
    <2>. SUFFICES ASSUME NEW i \in DOMAIN inbox', inbox'[i].open
                  PROVE  /\ mgr'[inbox'[i].peer] \in {"claiming", "asking"}
                         /\ \A j \in DOMAIN inbox' : inbox'[j].peer = inbox'[i].peer => j <= i
      BY DEF OpenIsLast
    <2>1. CASE i \in DOMAIN inbox /\ inbox'[i] = inbox[i]
      <3>1. /\ mgr[inbox[i].peer] \in {"claiming", "asking"}
            /\ \A j \in DOMAIN inbox : inbox[j].peer = inbox[i].peer => j <= i
        BY <2>1 DEF WireOK, OpenIsLast
      <3>2. inbox[i].peer # m /\ inbox[i].peer \in Mgrs
        BY <1>b, <1>e, <2>1, <3>1
      <3>. QED  BY <1>c, <1>d, <2>1, <3>1, <3>2
    <2>2. CASE inbox'[i] = r /\ i \in Nat /\ \A j \in DOMAIN inbox' : j <= i
      BY <1>d, <1>f, <2>2
    <2>. QED  BY <1>c, <2>1, <2>2
  <1>3. ASSUME NEW i \in DOMAIN inbox'
        PROVE  InPhase(inbox[i])' /\ Gated(inbox[i])'
    <2>1. CASE i \in DOMAIN inbox /\ inbox'[i] = inbox[i]
      <3>1. InPhase(inbox[i]) /\ Gated(inbox[i]) /\ inbox[i].peer \in Mgrs
        BY <1>b, <2>1 DEF WireOK, RequestsFit
      <3>2. Gated(inbox[i])'
        BY <2>1, <3>1 DEF Gated, Permitted, Sensitive
      <3>3. InPhase(inbox[i])'
        <4>1. CASE inbox[i].peer # m
          BY <1>d, <2>1, <3>1, <4>1 DEF InPhase
        <4>2. CASE inbox[i].peer = m
          <5>1. mgr[m] = "registering" /\ mgr'[m] = "claiming"
            BY <1>e, <2>1, <4>2 DEF Silent, Sent
          <5>2. inbox[i].type # "AUTHORIZE"
            BY <3>1, <4>2, <5>1 DEF InPhase
          <5>. QED  BY <2>1, <4>2, <5>1, <5>2 DEF InPhase
        <4>. QED  BY <4>1, <4>2
      <3>. QED  BY <3>2, <3>3
    <2>2. CASE inbox'[i] = r
      <3>1. Gated(inbox[i])'
        BY <1>d, <2>2 DEF Gated, Permitted, Sensitive
      <3>2. InPhase(inbox[i])'
        BY <1>d, <2>2 DEF InPhase, Sent
      <3>. QED  BY <3>1, <3>2
    <2>. QED  BY <1>c, <2>1, <2>2
  <1>4. ASSUME NEW i \in DOMAIN inbox', NEW j \in DOMAIN inbox', inbox'[i].peer = inbox'[j].peer
        PROVE  inbox'[i].type = inbox'[j].type
    <2>1. ASSUME NEW k \in DOMAIN inbox, inbox[k].peer = m
          PROVE  inbox[k].type = r.type
      <3>1. mgr[m] = "registering" /\ r.type = "REGISTER_MANAGER"
        BY <1>e, <2>1 DEF Silent, Sent
      <3>2. InPhase(inbox[k]) /\ inbox[k].type \in {"REGISTER_MANAGER", "AUTHORIZE"}
        BY <1>a, InboxElement, RequestShape DEF WireOK, RequestsFit
      <3>. QED  BY <2>1, <3>1, <3>2 DEF InPhase
    <2>2. CASE i \in DOMAIN inbox /\ inbox'[i] = inbox[i]
      <3>1. CASE j \in DOMAIN inbox /\ inbox'[j] = inbox[j]
        BY <1>4, <2>2, <3>1 DEF WireOK, RequestsFit
      <3>2. CASE inbox'[j] = r
        BY <1>d, <1>4, <2>1, <2>2, <3>2
      <3>. QED  BY <1>c, <3>1, <3>2
    <2>3. CASE inbox'[i] = r
      <3>1. CASE j \in DOMAIN inbox /\ inbox'[j] = inbox[j]
        BY <1>d, <1>4, <2>1, <2>3, <3>1
      <3>2. CASE inbox'[j] = r
        BY <2>3, <3>2
      <3>. QED  BY <1>c, <3>1, <3>2
    <2>. QED  BY <1>c, <2>2, <2>3
  <1>5. RequestsFit'
    BY <1>3, <1>4 DEF RequestsFit
  <1>. QED  BY <1>a, <1>c, <1>d, <1>1, <1>2, <1>5 DEF WireOK

LEMMA ReadWire ==
  ASSUME WireOK, ManagersOK, NEW m \in Mgrs, Read(m)
  PROVE  WireOK'
  <1>a. /\ inbox \in Seq(Request) /\ reply \in [Mgrs -> Seq(Answer)]
        /\ inbox' = inbox /\ restarts' = restarts /\ Silent(m)
    BY DEF WireOK, Read, AnswerInTurn
  <1>b. \A i \in DOMAIN inbox : inbox[i].peer \in Mgrs /\ inbox[i].peer # m
    BY <1>a, InboxElement, RequestShape DEF Silent
  <1>c. /\ reply' \in [Mgrs -> Seq(Answer)] /\ reply'[m] = << >>
        /\ \A n \in Mgrs : n # m => reply'[n] = reply[n]
        /\ \A n \in Mgrs : n # m => mgr'[n] = mgr[n] /\ queue'[n] = queue[n]
    BY <1>a DEF Read
  <1>1. AnswerInTurn'
    BY <1>a, <1>c DEF WireOK, AnswerInTurn, Silent
  <1>2. OpenIsLast'
    BY <1>a, <1>b, <1>c DEF WireOK, OpenIsLast
  <1>3. ASSUME NEW i \in DOMAIN inbox
        PROVE  InPhase(inbox[i])' /\ Gated(inbox[i])'
    BY <1>a, <1>b, <1>c DEF WireOK, RequestsFit, InPhase, Gated, Permitted, Sensitive
  <1>4. RequestsFit'
    BY <1>a, <1>3 DEF WireOK, RequestsFit
  <1>. QED  BY <1>a, <1>c, <1>1, <1>2, <1>4 DEF WireOK

LEMMA ClosedWire ==
  ASSUME WireOK, ManagersOK, NEW m \in Mgrs, Closed(m)
  PROVE  WireOK'
  <1>a. inbox \in Seq(Request) /\ restarts' = restarts
    BY DEF WireOK, Closed, SameArbiter
  <1>b. \A i \in DOMAIN inbox : inbox[i].peer \in Mgrs
    BY <1>a, InboxElement, RequestShape
  <1>c. /\ inbox' \in Seq(Request) /\ DOMAIN inbox' = DOMAIN inbox
        /\ reply' \in [Mgrs -> Seq(Answer)] /\ reply'[m] = << >>
        /\ \A n \in Mgrs : n # m => reply'[n] = reply[n]
        /\ \A i \in DOMAIN inbox :
             /\ inbox[i].peer # m => inbox'[i] = inbox[i]
             /\ inbox[i].peer = m => inbox'[i].open = FALSE
             /\ inbox'[i].peer = inbox[i].peer /\ inbox'[i].type = inbox[i].type
             /\ inbox[i].type = "AUTHORIZE" => inbox'[i].msg = inbox[i].msg
    BY HungUp DEF Closed
  <1>d. \A n \in Mgrs : n # m => mgr'[n] = mgr[n] /\ queue'[n] = queue[n]
    BY DEF Closed
  <1>1. AnswerInTurn'
    <2>. SUFFICES ASSUME NEW n \in Mgrs, reply'[n] # << >>
                  PROVE  /\ mgr'[n] \in {"claiming", "asking"} /\ Silent(n)'
                         /\ Head(reply'[n]).by <= restarts'
      BY DEF AnswerInTurn
    <2>1. n # m /\ reply'[n] = reply[n]
      BY <1>c
    <2>2. mgr[n] \in {"claiming", "asking"} /\ Silent(n) /\ Head(reply[n]).by <= restarts
      BY <2>1 DEF WireOK, AnswerInTurn
    <2>3. Silent(n)'
      BY <1>c, <2>2 DEF Silent
    <2>. QED  BY <1>a, <1>d, <2>1, <2>2, <2>3
  <1>2. OpenIsLast'
    <2>. SUFFICES ASSUME NEW i \in DOMAIN inbox', inbox'[i].open
                  PROVE  /\ mgr'[inbox'[i].peer] \in {"claiming", "asking"}
                         /\ \A j \in DOMAIN inbox' : inbox'[j].peer = inbox'[i].peer => j <= i
      BY DEF OpenIsLast
    <2>1. inbox[i].peer # m /\ inbox[i].peer \in Mgrs /\ inbox'[i] = inbox[i]
      BY <1>b, <1>c
    <2>2. /\ mgr[inbox[i].peer] \in {"claiming", "asking"}
          /\ \A j \in DOMAIN inbox : inbox[j].peer = inbox[i].peer => j <= i
      BY <1>c, <2>1 DEF WireOK, OpenIsLast
    <2>. QED  BY <1>c, <1>d, <2>1, <2>2
  <1>3. ASSUME NEW i \in DOMAIN inbox
        PROVE  InPhase(inbox[i])' /\ Gated(inbox[i])'
    <2>1. InPhase(inbox[i]) /\ Gated(inbox[i]) /\ inbox[i].peer \in Mgrs
          /\ inbox[i].type \in {"REGISTER_MANAGER", "AUTHORIZE"}
      BY <1>a, <1>b, InboxElement, RequestShape DEF WireOK, RequestsFit
    <2>2. Gated(inbox[i])'
      BY <1>c, <2>1 DEF Gated, Permitted, Sensitive
    <2>3. InPhase(inbox[i])'
      <3>1. CASE inbox[i].peer # m
        BY <1>c, <1>d, <2>1, <3>1 DEF InPhase
      <3>2. CASE inbox[i].peer = m
        <4>1. \/ mgr'[m] = "off"
              \/ mgr[m] = "claiming" /\ mgr'[m] = "registering"
              \/ mgr[m] = "asking" /\ mgr'[m] = "stopping"
          BY <3>2 DEF Closed, Silent
        <4>2. inbox'[i].peer = m /\ inbox'[i].type = inbox[i].type
          BY <1>c, <3>2
        <4>. QED  BY <2>1, <3>2, <4>1, <4>2 DEF InPhase
      <3>. QED  BY <3>1, <3>2
    <2>. QED  BY <2>2, <2>3
  <1>4. RequestsFit'
    BY <1>c, <1>3 DEF WireOK, RequestsFit
  <1>. QED  BY <1>c, <1>1, <1>2, <1>4 DEF WireOK

LEMMA DecideWire ==
  ASSUME WireOK, ManagersOK, inbox # << >>, NEW ok \in BOOLEAN, Decide(ok),
         UNCHANGED <<mgr, queue, restarts>>
  PROVE  WireOK'
  <1>. DEFINE r == inbox[1]
  <1>a. inbox \in Seq(Request) /\ reply \in [Mgrs -> Seq(Answer)] /\ inbox' = Tail(inbox)
    BY DEF WireOK, Decide
  <1>b. /\ inbox' \in Seq(Request)
        /\ 1 \in DOMAIN inbox /\ Head(inbox) = r /\ r \in Request
        /\ \A i \in DOMAIN inbox' : /\ i \in Nat /\ i >= 1
                                    /\ i + 1 \in DOMAIN inbox
                                    /\ inbox'[i] = inbox[i + 1]
    BY <1>a, NextRequest
  <1>c. /\ r.peer \in Mgrs /\ restarts \in 0 .. MaxRestarts
        /\ reply' = IF r.open THEN [reply EXCEPT ![r.peer] = <<[ok |-> ok, by |-> restarts]>>]
                              ELSE reply
    BY <1>b, RequestShape DEF Decide, ManagersOK
  <1>. HIDE DEF r
  <1>d. [ok |-> ok, by |-> restarts] \in Answer
    BY <1>c DEF Answer
  <1>e. reply' \in [Mgrs -> Seq(Answer)]
    <2>1. <<[ok |-> ok, by |-> restarts]>> \in Seq(Answer)
      BY <1>d
    <2>. QED  BY <1>a, <1>c, <2>1
  <1>1. AnswerInTurn'
    <2>. SUFFICES ASSUME NEW n \in Mgrs, reply'[n] # << >>
                  PROVE  /\ mgr'[n] \in {"claiming", "asking"} /\ Silent(n)'
                         /\ Head(reply'[n]).by <= restarts'
      BY DEF AnswerInTurn
    <2>1. CASE r.open /\ n = r.peer
      <3>1. mgr[n] \in {"claiming", "asking"} /\ \A j \in DOMAIN inbox : inbox[j].peer = n => j <= 1
        BY <1>b, <2>1 DEF WireOK, OpenIsLast, r
      <3>2. Silent(n)'
        BY <1>b, <3>1 DEF Silent
      <3>3. reply'[n] = <<[ok |-> ok, by |-> restarts]>>
        BY <1>a, <1>c, <2>1
      <3>4. Head(reply'[n]).by = restarts
        BY <1>d, <3>3
      <3>. QED  BY <1>c, <3>1, <3>2, <3>4
    <2>2. CASE ~(r.open /\ n = r.peer)
      <3>1. reply'[n] = reply[n]
        BY <1>a, <1>c, <2>2
      <3>2. mgr[n] \in {"claiming", "asking"} /\ Silent(n) /\ Head(reply[n]).by <= restarts
        BY <3>1 DEF WireOK, AnswerInTurn
      <3>3. Silent(n)'
        BY <1>b, <3>2 DEF Silent
      <3>. QED  BY <3>1, <3>2, <3>3
    <2>. QED  BY <2>1, <2>2
  <1>2. OpenIsLast'
    <2>. SUFFICES ASSUME NEW i \in DOMAIN inbox', inbox'[i].open
                  PROVE  /\ mgr'[inbox'[i].peer] \in {"claiming", "asking"}
                         /\ \A j \in DOMAIN inbox' : inbox'[j].peer = inbox'[i].peer => j <= i
      BY DEF OpenIsLast
    <2>1. /\ mgr[inbox[i + 1].peer] \in {"claiming", "asking"}
          /\ \A j \in DOMAIN inbox : inbox[j].peer = inbox[i + 1].peer => j <= i + 1
      BY <1>b DEF WireOK, OpenIsLast
    <2>. QED  BY <1>b, <2>1
  <1>3. ASSUME NEW i \in DOMAIN inbox'
        PROVE  InPhase(inbox[i])' /\ Gated(inbox[i])'
    <2>1. InPhase(inbox[i + 1]) /\ Gated(inbox[i + 1]) /\ inbox'[i] = inbox[i + 1]
      BY <1>b DEF WireOK, RequestsFit
    <2>. QED  BY <2>1 DEF InPhase, Gated, Permitted, Sensitive
  <1>4. \A i, j \in DOMAIN inbox' : inbox'[i].peer = inbox'[j].peer => inbox'[i].type = inbox'[j].type
    BY <1>b DEF WireOK, RequestsFit
  <1>5. RequestsFit'
    BY <1>3, <1>4 DEF RequestsFit
  <1>. QED  BY <1>b, <1>e, <1>1, <1>2, <1>5 DEF WireOK

LEMMA CrashWire ==
  ASSUME WireOK, ManagersOK, CrashArbiter
  PROVE  WireOK'
  <1>1. /\ inbox' = << >> /\ UNCHANGED <<reply, mgr, queue>> /\ restarts' = restarts + 1
        /\ restarts \in 0 .. MaxRestarts /\ MaxRestarts \in Nat
    BY ChainAssumption DEF CrashArbiter, ManagersOK, consoleVars
  <1>2. inbox' \in Seq(Request) /\ DOMAIN inbox' = {}
    BY <1>1
  <1>3. AnswerInTurn'
    <2>. SUFFICES ASSUME NEW n \in Mgrs, reply'[n] # << >>
                  PROVE  /\ mgr'[n] \in {"claiming", "asking"} /\ Silent(n)'
                         /\ Head(reply'[n]).by <= restarts'
      BY DEF AnswerInTurn
    <2>1. mgr[n] \in {"claiming", "asking"} /\ Head(reply[n]).by <= restarts
      BY <1>1 DEF WireOK, AnswerInTurn
    <2>2. reply[n] \in Seq(Answer) /\ reply[n] # << >>
      BY <1>1 DEF WireOK
    <2>3. Head(reply[n]) \in Answer
      BY <2>2, HeadTailProperties
    <2>4. Head(reply[n]).by \in 0 .. MaxRestarts
      BY <2>3 DEF Answer
    <2>. QED  BY <1>1, <1>2, <2>1, <2>4 DEF Silent
  <1>. QED  BY <1>1, <1>2, <1>3 DEF WireOK, OpenIsLast, RequestsFit

----------------------------------------------------------------------------
(* What a step does to the table, and what users were told *)

SameRecord(p) ==
  /\ p \in DOMAIN proc_table' <=> p \in DOMAIN proc_table
  /\ p \in DOMAIN proc_table => proc_table'[p] = proc_table[p]

\* Records of dead processes go, at most.
Kept == IsTable(proc_table') /\ \A p \in Apps : SameRecord(p)

\* Process p gets the cap.
Granted(p, cap) ==
  /\ IsTable(proc_table')
  /\ CapOf(p)' = cap
  /\ LevelOf(p)' \in {LevelOf(p), USER}
  /\ \A q \in Apps : q # p => SameRecord(q)

\* Process q has its own level set.
LevelSet(q) ==
  /\ IsTable(proc_table')
  /\ CapOf(q)' = CapOf(q)
  /\ LevelOf(q)' > LevelOf(q) => LevelOf(q)' <= CapOf(q)
  /\ \A p \in Apps : p # q => SameRecord(p)

LEMMA SameCap ==
  ASSUME NEW p, SameRecord(p)
  PROVE  CapOf(p)' = CapOf(p) /\ LevelOf(p)' = LevelOf(p)
  BY DEF SameRecord, CapOf, LevelOf, GetProcessLevel

LEMMA ReapStep ==
  ASSUME IsTable(proc_table), proc_table' = Reaped
  PROVE  Kept
  BY ReapedTable DEF Kept, SameRecord

LEMMA LevelStep ==
  ASSUME IsTable(proc_table), NEW q \in Apps, SetLevel(q)
  PROVE  Kept \/ LevelSet(q)
  <1>1. PICK l \in SetLevels :
          proc_table' = IF MaySetLevel(Reaped, q, l, q)
                          THEN RegisterProcess(Reaped, q, l, ContextOf(q)) ELSE Reaped
    BY DEF SetLevel
  <1>2. /\ IsTable(Reaped)
        /\ \A p \in Apps : /\ p \in DOMAIN Reaped <=> p \in DOMAIN proc_table
                           /\ p \in DOMAIN proc_table => Reaped[p] = proc_table[p]
    BY ReapedTable
  <1>3. CASE MaySetLevel(Reaped, q, l, q)
    <2>. DEFINE t == RegisterProcess(Reaped, q, l, ContextOf(q))
    <2>1. q \in AnyPid /\ ContextOf(q) \in Domains /\ l \in Level
      BY Disjoint, ChainAssumption DEF ContextOf, Domains
    <2>2. /\ IsTable(t)
          /\ q \in DOMAIN t /\ t[q].level = l
          /\ t[q].user_authorized_cap =
               IF q \in DOMAIN Reaped THEN Reaped[q].user_authorized_cap ELSE READONLY
          /\ \A p : p # q => (p \in DOMAIN t <=> p \in DOMAIN Reaped)
          /\ \A p \in DOMAIN Reaped : p # q => t[p] = Reaped[p]
      BY <1>2, <2>1, RegisterTable
    <2>. HIDE DEF t
    <2>3. proc_table' = t
      BY <1>1, <1>3 DEF t
    <2>4. t[q].user_authorized_cap = CapOf(q)
      BY <1>2, <2>2 DEF CapOf
    <2>5. GetProcessLevel(Reaped, q) = LevelOf(q)
      BY <1>2 DEF LevelOf, GetProcessLevel
    <2>6. l > LevelOf(q) => l <= CapOf(q)
      BY <1>2, <1>3, <2>5 DEF MaySetLevel, MayRise, CapOf
    <2>7. ASSUME NEW p \in Apps, p # q
          PROVE  SameRecord(p)
      BY <1>2, <2>2, <2>3, <2>7 DEF SameRecord
    <2>8. CapOf(q)' = CapOf(q) /\ LevelOf(q)' = l
      BY <2>2, <2>3, <2>4 DEF CapOf, LevelOf, GetProcessLevel
    <2>. QED  BY <2>2, <2>3, <2>6, <2>7, <2>8 DEF LevelSet
  <1>4. CASE ~MaySetLevel(Reaped, q, l, q)
    BY <1>1, <1>4, ReapStep
  <1>. QED  BY <1>3, <1>4

LEMMA GrantStep ==
  ASSUME IsTable(proc_table), NEW p \in Apps, NEW cap \in Level,
         proc_table' = Authorize(Reaped, p, cap, ContextOf(p))
  PROVE  Granted(p, cap)
  <1>. DEFINE t == Authorize(Reaped, p, cap, ContextOf(p))
  <1>1. /\ IsTable(Reaped)
        /\ \A q \in Apps : /\ q \in DOMAIN Reaped <=> q \in DOMAIN proc_table
                           /\ q \in DOMAIN proc_table => Reaped[q] = proc_table[q]
    BY ReapedTable
  <1>2. p \in AnyPid /\ ContextOf(p) \in Domains
    BY Disjoint DEF ContextOf, Domains
  <1>3. /\ IsTable(t)
        /\ p \in DOMAIN t /\ t[p].user_authorized_cap = cap
        /\ t[p].level = IF p \in DOMAIN Reaped THEN Reaped[p].level ELSE USER
        /\ \A q : q # p => (q \in DOMAIN t <=> q \in DOMAIN Reaped)
        /\ \A q \in DOMAIN Reaped : q # p => t[q] = Reaped[q]
    BY <1>1, <1>2, AuthorizeTable
  <1>. HIDE DEF t
  <1>4. proc_table' = t
    BY DEF t
  <1>5. CapOf(p)' = cap /\ LevelOf(p)' = t[p].level
    BY <1>3, <1>4 DEF CapOf, LevelOf, GetProcessLevel
  <1>6. t[p].level \in {LevelOf(p), USER}
    BY <1>1, <1>3 DEF LevelOf, GetProcessLevel
  <1>7. ASSUME NEW q \in Apps, q # p
        PROVE  SameRecord(q)
    BY <1>1, <1>3, <1>4, <1>7 DEF SameRecord
  <1>. QED  BY <1>3, <1>4, <1>5, <1>6, <1>7 DEF Granted

\* The process a command in hand is about.
LEMMA InHand ==
  ASSUME ConsoleOK, NEW m \in Mgrs, mgr[m] = "asking"
  PROVE  /\ queue[m] # << >>
         /\ Head(queue[m]) \in Command
         /\ Head(queue[m]).pid \in Apps /\ Head(queue[m]).level \in Level
  BY HeadCommand DEF ConsoleOK, CommandInHand

\* No cap and no word changes, and nothing is sent, decided or read.
LEMMA QuietArbiter ==
  ASSUME ArbiterOK, WireOK, ConsoleOK, Quiet, IsTable(proc_table'),
         \A p \in Apps : CapOf(p)' = CapOf(p),
         UNCHANGED <<arbiter_up, manager_pid, acked, restarts>>
  PROVE  ArbiterOK'
  <1>1. AnswerHolds'
    <2>. SUFFICES ASSUME NEW m \in Mgrs, reply'[m] # << >>, Head(reply'[m]).ok,
                         Head(reply'[m]).by = restarts'
                  PROVE  /\ arbiter_up' /\ manager_pid' = m
                         /\ mgr'[m] = "asking" =>
                              (CapOf(Head(queue[m]).pid) = Head(queue[m]).level)'
      BY DEF AnswerHolds
    <2>1. /\ arbiter_up /\ manager_pid = m
          /\ mgr[m] = "asking" => CapOf(Head(queue[m]).pid) = Head(queue[m]).level
      BY DEF Quiet, ArbiterOK, AnswerHolds
    <2>2. mgr'[m] = mgr[m] /\ (mgr[m] = "asking" => Head(queue'[m]) = Head(queue[m]))
      BY DEF Quiet
    <2>3. mgr[m] = "asking" => Head(queue[m]).pid \in Apps
      BY InHand
    <2>. QED  BY <2>1, <2>2, <2>3
  <1>2. WordHolds'
    BY DEF Quiet, ArbiterOK, WordHolds
  <1>. QED  BY <1>1, <1>2 DEF ArbiterOK

LEMMA SentArbiter ==
  ASSUME ArbiterOK, WireOK, ConsoleOK, NEW m \in Mgrs, NEW r, Sent(m, r)
  PROVE  ArbiterOK'
  <1>a. /\ inbox \in Seq(Request) /\ r \in Request
        /\ UNCHANGED <<arbiter_up, proc_table, manager_pid, restarts, reply, queue>>
        /\ \A n \in Mgrs : n # m => mgr'[n] = mgr[n]
    BY DEF WireOK, Sent
  <1>b. \A i \in DOMAIN inbox' :
          (i \in DOMAIN inbox /\ inbox'[i] = inbox[i]) \/ inbox'[i] = r
    BY <1>a, AddedRequest DEF Sent
  <1>c. reply[m] = << >>
    BY DEF Sent, WireOK, AnswerInTurn
  <1>d. \A p : CapOf(p)' = CapOf(p)
    BY <1>a DEF CapOf
  <1>e. acked \in [Apps -> Level \cup {NoWord}]
    BY DEF ArbiterOK
  <1>f. /\ acked' \in [Apps -> Level \cup {NoWord}]
        /\ \A p \in Apps : acked'[p] # NoWord =>
             acked'[p] = acked[p] /\ ~(r.type = "AUTHORIZE" /\ r.msg.pid = p)
    BY <1>e DEF Sent
  <1>1. AnswerHolds'
    BY <1>a, <1>c, <1>d DEF ArbiterOK, AnswerHolds
  <1>2. WordHolds'
    <2>. SUFFICES ASSUME NEW p \in Apps, acked'[p] # NoWord
                  PROVE  /\ arbiter_up' /\ CapOf(p)' = acked'[p]
                         /\ \A i \in DOMAIN inbox' :
                              inbox'[i].type = "AUTHORIZE" /\ inbox'[i].msg.pid = p
                                => inbox'[i].peer # manager_pid'
      BY DEF WordHolds
    <2>1. acked'[p] = acked[p] /\ ~(r.type = "AUTHORIZE" /\ r.msg.pid = p)
      BY <1>f
    <2>. QED  BY <1>a, <1>b, <1>d, <2>1 DEF ArbiterOK, WordHolds
  <1>. QED  BY <1>a, <1>f, <1>1, <1>2 DEF ArbiterOK

\* An answer is read, and what the user is told counts if it is a success of
\* the arbiter that is running.
LEMMA ReadArbiter ==
  ASSUME ArbiterOK, WireOK, ConsoleOK, NEW m \in Mgrs, Read(m),
         \/ acked' = acked
         \/ /\ mgr[m] = "asking" /\ Head(reply[m]).ok /\ Head(reply[m]).by = restarts
            /\ acked' = [acked EXCEPT ![Head(queue[m]).pid] = Head(queue[m]).level]
  PROVE  ArbiterOK'
  <1>a. /\ inbox' = inbox /\ reply'[m] = << >>
        /\ \A n \in Mgrs : n # m => reply'[n] = reply[n] /\ mgr'[n] = mgr[n] /\ queue'[n] = queue[n]
        /\ UNCHANGED <<arbiter_up, proc_table, manager_pid, restarts>>
        /\ Silent(m)
    BY DEF WireOK, Read, AnswerInTurn
  <1>b. \A p : CapOf(p)' = CapOf(p)
    BY <1>a DEF CapOf
  <1>c. acked \in [Apps -> Level \cup {NoWord}]
    BY DEF ArbiterOK
  <1>1. AnswerHolds'
    BY <1>a, <1>b DEF ArbiterOK, AnswerHolds
  <1>2. CASE acked' = acked
    BY <1>a, <1>b, <1>c, <1>1, <1>2 DEF ArbiterOK, WordHolds
  <1>3. CASE /\ mgr[m] = "asking" /\ Head(reply[m]).ok /\ Head(reply[m]).by = restarts
             /\ acked' = [acked EXCEPT ![Head(queue[m]).pid] = Head(queue[m]).level]
    <2>. DEFINE pid == Head(queue[m]).pid
                cap == Head(queue[m]).level
    <2>1. pid \in Apps /\ cap \in Level
      BY <1>3, InHand
    <2>2. arbiter_up /\ manager_pid = m /\ CapOf(pid) = cap
      BY <1>3 DEF Read, ArbiterOK, AnswerHolds
    <2>. HIDE DEF pid, cap
    <2>3. acked' = [acked EXCEPT ![pid] = cap]
      BY <1>3 DEF pid, cap
    <2>4. acked' \in [Apps -> Level \cup {NoWord}]
      BY <1>c, <2>1, <2>3
    <2>5. \A i \in DOMAIN inbox : inbox[i].peer # manager_pid
      BY <1>a, <2>2 DEF Silent
    <2>6. WordHolds'
      <3>. SUFFICES ASSUME NEW p \in Apps, acked'[p] # NoWord
                    PROVE  arbiter_up' /\ CapOf(p)' = acked'[p]
        BY <1>a, <2>5 DEF WordHolds
      <3>1. CASE p = pid
        BY <1>a, <1>b, <1>c, <2>2, <2>3, <3>1
      <3>2. CASE p # pid
        <4>1. acked'[p] = acked[p]
          BY <1>c, <2>3, <3>2
        <4>. QED  BY <1>a, <1>b, <4>1 DEF ArbiterOK, WordHolds
      <3>. QED  BY <3>1, <3>2
    <2>. QED  BY <1>a, <1>1, <2>4, <2>6 DEF ArbiterOK
  <1>. QED  BY <1>2, <1>3

LEMMA ClosedArbiter ==
  ASSUME ArbiterOK, WireOK, NEW m \in Mgrs, Closed(m)
  PROVE  ArbiterOK'
  <1>a. /\ SameArbiter
        /\ \A n \in Mgrs : n # m => mgr'[n] = mgr[n] /\ queue'[n] = queue[n]
    BY DEF Closed
  <1>b. /\ DOMAIN inbox' = DOMAIN inbox /\ reply'[m] = << >>
        /\ \A n \in Mgrs : n # m => reply'[n] = reply[n]
        /\ \A i \in DOMAIN inbox :
             /\ inbox'[i].peer = inbox[i].peer /\ inbox'[i].type = inbox[i].type
             /\ inbox[i].type = "AUTHORIZE" => inbox'[i].msg = inbox[i].msg
    BY HungUp DEF Closed
  <1>c. \A p : CapOf(p)' = CapOf(p)
    BY <1>a DEF SameArbiter, CapOf
  <1>1. AnswerHolds'
    BY <1>a, <1>b, <1>c DEF SameArbiter, ArbiterOK, AnswerHolds
  <1>2. WordHolds'
    BY <1>a, <1>b, <1>c DEF SameArbiter, ArbiterOK, WordHolds
  <1>. QED  BY <1>a, <1>1, <1>2 DEF SameArbiter, ArbiterOK

LEMMA CrashesArbiter ==
  ASSUME ArbiterOK, WireOK, ManagersOK, CrashArbiter
  PROVE  ArbiterOK'
  <1>1. /\ proc_table' = EmptyTable /\ acked' = [p \in Apps |-> NoWord]
        /\ restarts' = restarts + 1 /\ reply' = reply
        /\ restarts \in 0 .. MaxRestarts /\ MaxRestarts \in Nat
    BY ChainAssumption DEF CrashArbiter, ManagersOK
  <1>2. arbiter_up' \in BOOLEAN
    BY Zenon DEF CrashArbiter
  <1>3. AnswerHolds'
    <2>. SUFFICES ASSUME NEW n \in Mgrs, reply'[n] # << >>, Head(reply'[n]).by = restarts'
                  PROVE  FALSE
      BY DEF AnswerHolds
    <2>1. Head(reply[n]).by <= restarts
      BY <1>1 DEF WireOK, AnswerInTurn
    <2>. QED  BY <1>1, <2>1
  <1>4. WordHolds'
    BY <1>1 DEF WordHolds
  <1>. QED  BY <1>1, <1>2, <1>3, <1>4, FreshTables DEF ArbiterOK

LEMMA StartsArbiter ==
  ASSUME ArbiterOK, StartArbiter
  PROVE  ArbiterOK'
  <1>1. /\ ~arbiter_up /\ proc_table' = InitialTable
        /\ UNCHANGED <<acked, reply, restarts, mgr, queue, manager_pid, inbox>>
    BY DEF StartArbiter, wire, consoleVars, bounds
  <1>2. arbiter_up' \in BOOLEAN
    BY Zenon DEF StartArbiter
  <1>3. AnswerHolds'
    BY <1>1 DEF ArbiterOK, AnswerHolds
  <1>4. WordHolds'
    BY <1>1 DEF ArbiterOK, WordHolds
  <1>. QED  BY <1>1, <1>2, <1>3, <1>4, FreshTables DEF ArbiterOK

\* The request the arbiter decides, and who waits for what.
LEMMA Deciding ==
  ASSUME WireOK, inbox # << >>, NEW ok \in BOOLEAN, Decide(ok)
  PROVE  /\ 1 \in DOMAIN inbox /\ Head(inbox) = inbox[1] /\ inbox[1] \in Request
         /\ \A i \in DOMAIN inbox' : i + 1 \in DOMAIN inbox /\ inbox'[i] = inbox[i + 1]
         /\ \A n \in Mgrs :
              \/ reply'[n] = reply[n]
              \/ /\ n = inbox[1].peer /\ inbox[1].open
                 /\ Head(reply'[n]).ok = ok
  <1>a. inbox \in Seq(Request) /\ reply \in [Mgrs -> Seq(Answer)] /\ inbox' = Tail(inbox)
    BY DEF WireOK, Decide
  <1>b. /\ 1 \in DOMAIN inbox /\ Head(inbox) = inbox[1] /\ inbox[1] \in Request
        /\ \A i \in DOMAIN inbox' : i + 1 \in DOMAIN inbox /\ inbox'[i] = inbox[i + 1]
    BY <1>a, NextRequest
  <1>c. inbox[1].peer \in Mgrs
    BY <1>b, RequestShape
  <1>d. reply' = IF inbox[1].open
                   THEN [reply EXCEPT ![inbox[1].peer] = <<[ok |-> ok, by |-> restarts]>>]
                   ELSE reply
    BY <1>b DEF Decide
  <1>1. ASSUME NEW n \in Mgrs, n = inbox[1].peer, inbox[1].open
        PROVE  Head(reply'[n]).ok = ok
    <2>1. reply'[n] = <<[ok |-> ok, by |-> restarts]>>
      BY <1>a, <1>c, <1>d, <1>1
    <2>. QED  BY <2>1
  <1>2. \A n \in Mgrs : ~(n = inbox[1].peer /\ inbox[1].open) => reply'[n] = reply[n]
    BY <1>a, <1>c, <1>d
  <1>. QED  BY <1>b, <1>1, <1>2

\* The instance an unread success was given to keeps the role.
LEMMA NotFree ==
  ASSUME NEW n \in Mgrs, Running(n), manager_pid = n
  PROVE  ~RoleFree
  BY Disjoint DEF RoleFree, MayRegisterManager, Alive

LEMMA DecidesRegister ==
  ASSUME Inv, DecideRegister
  PROVE  ArbiterOK'
  <1>. DEFINE r == inbox[1]
  <1>a. /\ ArbiterOK /\ WireOK /\ arbiter_up /\ arbiter_up' = arbiter_up
        /\ inbox # << >> /\ Head(inbox).type = "REGISTER_MANAGER" /\ Decide(RoleFree)
        /\ manager_pid' = IF RoleFree THEN Head(inbox).peer ELSE manager_pid
        /\ proc_table' = Reaped /\ UNCHANGED <<mgr, queue, acked, restarts>>
    BY DEF Inv, DecideRegister, consoleVars, bounds
  <1>b. RoleFree \in BOOLEAN
    BY DEF RoleFree, MayRegisterManager, ArbiterOK
  <1>c. /\ 1 \in DOMAIN inbox /\ Head(inbox) = r /\ r \in Request
        /\ \A i \in DOMAIN inbox' : i + 1 \in DOMAIN inbox /\ inbox'[i] = inbox[i + 1]
        /\ \A n \in Mgrs : reply'[n] = reply[n]
                           \/ (n = r.peer /\ r.open /\ Head(reply'[n]).ok = RoleFree)
    BY <1>a, <1>b, Deciding
  <1>d. InPhase(r) /\ r.type = "REGISTER_MANAGER"
    BY <1>a, <1>c DEF WireOK, RequestsFit
  <1>e. Kept
    BY <1>a, ReapStep DEF ArbiterOK
  <1>f. \A p \in Apps : CapOf(p)' = CapOf(p)
    BY <1>e, SameCap DEF Kept
  <1>1. AnswerHolds'
    <2>. SUFFICES ASSUME NEW m \in Mgrs, reply'[m] # << >>, Head(reply'[m]).ok,
                         Head(reply'[m]).by = restarts'
                  PROVE  /\ arbiter_up' /\ manager_pid' = m
                         /\ mgr'[m] = "asking" =>
                              (CapOf(Head(queue[m]).pid) = Head(queue[m]).level)'
      BY DEF AnswerHolds
    <2>1. CASE reply'[m] = reply[m]
      <3>1. /\ arbiter_up /\ manager_pid = m
            /\ mgr[m] = "asking" => CapOf(Head(queue[m]).pid) = Head(queue[m]).level
        BY <1>a, <2>1 DEF ArbiterOK, AnswerHolds
      <3>2. mgr[m] \in {"claiming", "asking"}
        BY <1>a, <2>1 DEF WireOK, AnswerInTurn
      <3>3. ~RoleFree
        BY <3>1, <3>2, NotFree DEF Running
      <3>4. mgr[m] = "asking" => Head(queue[m]).pid \in Apps
        BY InHand DEF Inv
      <3>. QED  BY <1>a, <1>f, <3>1, <3>3, <3>4
    <2>2. CASE m = r.peer /\ Head(reply'[m]).ok = RoleFree
      <3>1. mgr[m] # "asking"
        BY <1>d, <2>2 DEF InPhase
      <3>. QED  BY <1>a, <1>c, <2>2, <3>1
    <2>. QED  BY <1>c, <2>1, <2>2
  <1>2. WordHolds'
    <2>. SUFFICES ASSUME NEW p \in Apps, acked'[p] # NoWord
                  PROVE  /\ arbiter_up' /\ CapOf(p)' = acked'[p]
                         /\ \A i \in DOMAIN inbox' :
                              inbox'[i].type = "AUTHORIZE" /\ inbox'[i].msg.pid = p
                                => inbox'[i].peer # manager_pid'
      BY DEF WordHolds
    <2>1. /\ CapOf(p) = acked[p]
          /\ \A i \in DOMAIN inbox :
               inbox[i].type = "AUTHORIZE" /\ inbox[i].msg.pid = p => inbox[i].peer # manager_pid
      BY <1>a DEF ArbiterOK, WordHolds
    <2>2. \A i \in DOMAIN inbox : inbox[i].type = "AUTHORIZE" => inbox[i].peer # r.peer
      BY <1>a, <1>c, <1>d DEF WireOK, RequestsFit
    <2>. QED  BY <1>a, <1>c, <1>f, <2>1, <2>2
  <1>. QED  BY <1>a, <1>e, <1>1, <1>2 DEF Kept, ArbiterOK

LEMMA DecidesAuthorize ==
  ASSUME Inv, DecideAuthorize
  PROVE  /\ ArbiterOK'
         /\ inbox # << >> /\ inbox' = Tail(inbox) /\ Head(inbox) \in Request
         /\ Head(inbox).type = "AUTHORIZE" /\ Gated(Head(inbox))
         /\ \/ Kept
            \/ \E pid \in Apps, cap \in Level :
                 /\ Head(inbox).msg.pid = pid /\ Head(inbox).msg.level = cap
                 /\ Granted(pid, cap)
                 /\ acked[pid] = NoWord
  <1>. DEFINE r == inbox[1]
  <1>a. /\ ArbiterOK /\ WireOK /\ arbiter_up /\ arbiter_up' = arbiter_up
        /\ inbox # << >> /\ Head(inbox).type = "AUTHORIZE" /\ Decide(Accepted(Head(inbox)))
        /\ UNCHANGED <<mgr, queue, acked, restarts, manager_pid>>
    BY DEF Inv, DecideAuthorize, consoleVars, bounds
  <1>b. Accepted(Head(inbox)) \in BOOLEAN
    BY DEF Accepted, MayAuthorize
  <1>c. /\ 1 \in DOMAIN inbox /\ Head(inbox) = r /\ r \in Request
        /\ \A i \in DOMAIN inbox' : i + 1 \in DOMAIN inbox /\ inbox'[i] = inbox[i + 1]
        /\ \A n \in Mgrs : reply'[n] = reply[n]
                           \/ (n = r.peer /\ r.open /\ Head(reply'[n]).ok = Accepted(Head(inbox)))
    BY <1>a, <1>b, Deciding
  <1>d. InPhase(r) /\ Gated(r) /\ r.type = "AUTHORIZE"
    BY <1>a, <1>c DEF WireOK, RequestsFit
  <1>e. PICK pid \in Apps, cap \in Level : r.msg.pid = pid /\ r.msg.level = cap
    BY <1>c, <1>d, RequestShape, CommandShape DEF Gated
  <1>f. proc_table' = IF Accepted(r) THEN Authorize(Reaped, pid, cap, ContextOf(pid)) ELSE Reaped
    BY <1>c, <1>e DEF DecideAuthorize
  <1>g. inbox' = Tail(inbox)
    BY <1>a DEF Decide
  <1>1. CASE Accepted(r)
    <2>1. r.peer = manager_pid
      BY <1>1 DEF Accepted, MayAuthorize
    <2>2. Granted(pid, cap)
      <3>1. proc_table' = Authorize(Reaped, pid, cap, ContextOf(pid)) /\ IsTable(proc_table)
        BY <1>a, <1>f, <1>1 DEF ArbiterOK
      <3>. QED  BY <3>1, GrantStep
    <2>3. acked[pid] = NoWord
      BY <1>a, <1>c, <1>d, <1>e, <2>1 DEF ArbiterOK, WordHolds
    <2>4. AnswerHolds'
      <3>. SUFFICES ASSUME NEW m \in Mgrs, reply'[m] # << >>, Head(reply'[m]).ok,
                           Head(reply'[m]).by = restarts'
                    PROVE  /\ arbiter_up' /\ manager_pid' = m
                           /\ mgr'[m] = "asking" =>
                                (CapOf(Head(queue[m]).pid) = Head(queue[m]).level)'
        BY DEF AnswerHolds
      <3>1. CASE reply'[m] = reply[m]
        <4>1. manager_pid = m /\ Silent(m)
          BY <1>a, <3>1 DEF ArbiterOK, AnswerHolds, WireOK, AnswerInTurn
        <4>. QED  BY <1>c, <2>1, <4>1 DEF Silent
      <3>2. CASE m = r.peer
        <4>1. mgr[m] = "asking" => Head(queue[m]) = r.msg
          BY <1>d, <3>2 DEF InPhase
        <4>2. CapOf(pid)' = cap
          BY <2>2 DEF Granted
        <4>. QED  BY <1>a, <1>e, <2>1, <3>2, <4>1, <4>2
      <3>. QED  BY <1>c, <3>1, <3>2
    <2>5. WordHolds'
      <3>. SUFFICES ASSUME NEW p \in Apps, acked'[p] # NoWord
                    PROVE  /\ arbiter_up' /\ CapOf(p)' = acked'[p]
                           /\ \A i \in DOMAIN inbox' :
                                inbox'[i].type = "AUTHORIZE" /\ inbox'[i].msg.pid = p
                                  => inbox'[i].peer # manager_pid'
        BY DEF WordHolds
      <3>1. p # pid
        BY <1>a, <2>3
      <3>2. CapOf(p)' = CapOf(p)
        BY <2>2, <3>1, SameCap DEF Granted
      <3>. QED  BY <1>a, <1>c, <3>2 DEF ArbiterOK, WordHolds
    <2>6. ArbiterOK'
      BY <1>a, <2>2, <2>4, <2>5 DEF Granted, ArbiterOK
    <2>. QED  BY <1>a, <1>c, <1>d, <1>e, <1>g, <2>2, <2>3, <2>6
  <1>2. CASE ~Accepted(r)
    <2>1. Kept
      BY <1>a, <1>f, <1>2, ReapStep DEF ArbiterOK
    <2>2. \A p \in Apps : CapOf(p)' = CapOf(p)
      BY <2>1, SameCap DEF Kept
    <2>3. AnswerHolds'
      <3>. SUFFICES ASSUME NEW m \in Mgrs, reply'[m] # << >>, Head(reply'[m]).ok,
                           Head(reply'[m]).by = restarts'
                    PROVE  /\ arbiter_up' /\ manager_pid' = m
                           /\ mgr'[m] = "asking" =>
                                (CapOf(Head(queue[m]).pid) = Head(queue[m]).level)'
        BY DEF AnswerHolds
      <3>1. reply'[m] = reply[m]
        BY <1>c, <1>2
      <3>2. /\ arbiter_up /\ manager_pid = m
            /\ mgr[m] = "asking" => CapOf(Head(queue[m]).pid) = Head(queue[m]).level
        BY <1>a, <3>1 DEF ArbiterOK, AnswerHolds
      <3>3. mgr[m] = "asking" => Head(queue[m]).pid \in Apps
        BY InHand DEF Inv
      <3>. QED  BY <1>a, <2>2, <3>2, <3>3
    <2>4. WordHolds'
      BY <1>a, <1>c, <2>2 DEF ArbiterOK, WordHolds
    <2>5. ArbiterOK'
      BY <1>a, <2>1, <2>3, <2>4 DEF Kept, ArbiterOK
    <2>. QED  BY <1>a, <1>c, <1>d, <1>g, <2>1, <2>5
  <1>. QED  BY <1>1, <1>2

----------------------------------------------------------------------------
(* Which kind each step is *)

\* An instance that has nothing with the arbiter moves on, a new one may start.
LEMMA MovesOn ==
  ASSUME WireOK, UNCHANGED wire, NEW S, S \subseteq Mgrs,
         \A n \in S : mgr[n] \in {"starting", "registered", "serving"} \/ FreshPid(n),
         \A n \in Mgrs : n \notin S => mgr'[n] = mgr[n] /\ queue'[n] = queue[n]
  PROVE  Quiet
  <1>1. \A n \in S : Silent(n) /\ reply[n] = << >>
    BY Idle
  <1>. QED  BY <1>1 DEF Quiet, wire

\* After the loop condition the others are where they were.
LEMMA LoopPhase ==
  ASSUME ManagersOK, NEW m \in Mgrs, NEW r
  PROVE  /\ AfterLoop(m, r) \in [Mgrs -> Phases]
         /\ AfterLoop(m, r)[m] = IF r THEN "serving" ELSE "stopping"
         /\ \A n \in Mgrs : n # m => AfterLoop(m, r)[n] = mgr[n]
  BY DEF ManagersOK, AfterLoop, Phases

\* Steps that leave the arbiter and the way to it alone.
LEMMA QuietStep ==
  ASSUME Inv,
         \/ \E m \in Mgrs : \/ SetupConsole(m) \/ WritePidfile(m)
                            \/ ServeHarmless(m) \/ ServeService(m) \/ ServeQuit(m)
                            \/ ~arbiter_up /\ (RegisterAsManager(m) \/ ServeAuthorize(m))
                            \/ HandleSignal(m) \/ Interrupted(m) \/ ServiceEnds(m)
         \/ \E c \in Clients : SendConsole(c)
         \/ StartManager \/ WaitReady \/ UNCHANGED vars
  PROVE  Quiet /\ SameArbiter
  <1>a. WireOK /\ ManagersOK /\ ConsoleOK
    BY DEF Inv
  <1>b. mgr \in [Mgrs -> Phases] /\ queue \in [Mgrs -> Seq(Command)]
    BY <1>a DEF ManagersOK, ConsoleOK
  <1>1. ASSUME NEW m \in Mgrs, SetupConsole(m)
        PROVE  Quiet /\ SameArbiter
    <2>1. /\ mgr[m] = "starting" /\ mgr' = [mgr EXCEPT ![m] = "registering"]
          /\ UNCHANGED <<wire, queue>> /\ SameArbiter
      BY <1>1 DEF SetupConsole, arbiterVars, bounds, SameArbiter
    <2>2. \A n \in Mgrs : n \notin {m} => mgr'[n] = mgr[n] /\ queue'[n] = queue[n]
      BY <1>b, <2>1
    <2>. QED  BY <1>a, <2>1, <2>2, MovesOn
  <1>2. ASSUME NEW m \in Mgrs, mgr[m] \in {"registered", "serving"}, NEW r,
               mgr' = AfterLoop(m, r), UNCHANGED wire, SameArbiter,
               \A n \in Mgrs : n # m => queue'[n] = queue[n]
        PROVE  Quiet /\ SameArbiter
    <2>1. \A n \in Mgrs : n \notin {m} => mgr'[n] = mgr[n] /\ queue'[n] = queue[n]
      BY <1>a, <1>2, LoopPhase
    <2>. QED  BY <1>a, <1>2, <2>1, MovesOn
  <1>3. ASSUME NEW m \in Mgrs, WritePidfile(m)
        PROVE  Quiet /\ SameArbiter
    <2>1. /\ mgr[m] = "registered" /\ mgr' = AfterLoop(m, running[m]) /\ queue' = queue
          /\ UNCHANGED wire /\ SameArbiter
      BY <1>3 DEF WritePidfile, arbiterVars, bounds, consoleVars, SameArbiter
    <2>. QED  BY <1>2, <2>1
  <1>4. ASSUME NEW m \in Mgrs,
               ServeHarmless(m) \/ ServeQuit(m) \/ (~arbiter_up /\ ServeAuthorize(m))
        PROVE  Quiet /\ SameArbiter
    <2>1. /\ mgr[m] = "serving" /\ queue' = [queue EXCEPT ![m] = Tail(@)]
          /\ mgr' = AfterLoop(m, running[m]) \/ mgr' = AfterLoop(m, FALSE)
          /\ UNCHANGED wire /\ SameArbiter
      BY <1>4 DEF ServeHarmless, ServeQuit, ServeAuthorize, Accept, Finish, arbiterVars,
                  bounds, wire, SameArbiter
    <2>2. \A n \in Mgrs : n # m => queue'[n] = queue[n]
      BY <1>b, <2>1
    <2>. QED  BY <1>2, <2>1, <2>2
  <1>5. ASSUME NEW m \in Mgrs, ServeService(m)
        PROVE  Quiet /\ SameArbiter
    <2>1. /\ mgr[m] = "serving" /\ queue' = [queue EXCEPT ![m] = Tail(@)]
          /\ UNCHANGED wire /\ SameArbiter
      BY <1>5 DEF ServeService, Accept, arbiterVars, bounds, SameArbiter
    <2>2. \A n \in Mgrs : n # m => queue'[n] = queue[n]
      BY <1>b, <2>1
    <2>3. CASE mgr' = AfterLoop(m, running[m])
      BY <1>2, <2>1, <2>2, <2>3
    <2>4. ASSUME NEW n \in Mgrs, Launch(n, AfterLoop(m, running[m]))
          PROVE  Quiet /\ SameArbiter
      <3>. DEFINE f == AfterLoop(m, running[m])
      <3>1. f \in [Mgrs -> Phases] /\ \A k \in Mgrs : k # m => f[k] = mgr[k]
        BY <1>a, LoopPhase
      <3>. HIDE DEF f
      <3>2. FreshPid(n) /\ mgr' = [f EXCEPT ![n] = "starting"]
        BY <2>4 DEF Launch, f
      <3>3. \A k \in Mgrs : k \notin {m, n} => mgr'[k] = mgr[k] /\ queue'[k] = queue[k]
        BY <2>2, <3>1, <3>2
      <3>. QED  BY <1>a, <2>1, <3>2, <3>3, MovesOn
    <2>. QED  BY <1>5, <2>3, <2>4 DEF ServeService
  <1>6. ASSUME UNCHANGED <<mgr, queue, wire>>, SameArbiter
        PROVE  Quiet /\ SameArbiter
    BY <1>6 DEF Quiet, wire
  <1>7. ASSUME NEW m \in Mgrs,
               (~arbiter_up /\ RegisterAsManager(m)) \/ HandleSignal(m) \/ ServiceEnds(m)
        PROVE  Quiet /\ SameArbiter
    <2>1. UNCHANGED <<mgr, queue, wire>> /\ SameArbiter
      BY <1>7 DEF RegisterAsManager, HandleSignal, ServiceEnds, arbiterVars, bounds, wire,
                  consoleVars, SameArbiter
    <2>. QED  BY <1>6, <2>1
  <1>8. ASSUME NEW m \in Mgrs, Interrupted(m)
        PROVE  Quiet /\ SameArbiter
    <2>1. /\ mgr[m] = "serving" /\ mgr' = [mgr EXCEPT ![m] = "stopping"]
          /\ UNCHANGED <<wire, queue>> /\ SameArbiter
      BY <1>8 DEF Interrupted, arbiterVars, bounds, consoleVars, SameArbiter
    <2>2. \A n \in Mgrs : n \notin {m} => mgr'[n] = mgr[n] /\ queue'[n] = queue[n]
      BY <1>b, <2>1
    <2>. QED  BY <1>a, <2>1, <2>2, MovesOn
  <1>9. ASSUME NEW c \in Clients, SendConsole(c)
        PROVE  Quiet /\ SameArbiter
    <2>1. PICK msg \in Command :
            /\ console # NoPid
            /\ queue' = [queue EXCEPT ![console] =
                           IF Listening(console) THEN Append(@, msg) ELSE @]
            /\ UNCHANGED <<mgr, wire>> /\ SameArbiter
      BY <1>9 DEF SendConsole, arbiterVars, bounds, SameArbiter
    <2>2. console \in Mgrs
      BY <1>a, <2>1 DEF ConsoleOK
    <2>3. ASSUME NEW n \in Mgrs, mgr[n] = "asking"
          PROVE  Head(queue'[n]) = Head(queue[n])
      <3>1. CASE n = console
        <4>1. queue[n] # << >> /\ queue[n] \in Seq(Command)
          BY <1>a, <1>b, <2>3 DEF ConsoleOK, CommandInHand
        <4>2. Head(Append(queue[n], msg)) = Head(queue[n])
          BY <4>1
        <4>. QED  BY <1>b, <2>1, <2>2, <3>1, <4>2
      <3>2. CASE n # console
        BY <1>b, <2>1, <2>2, <3>2
      <3>. QED  BY <3>1, <3>2
    <2>. QED  BY <2>1, <2>3 DEF Quiet, wire
  <1>10. CASE StartManager
    <2>1. PICK n \in Mgrs : Launch(n, mgr)
      BY <1>10 DEF StartManager
    <2>2. /\ FreshPid(n) /\ mgr' = [mgr EXCEPT ![n] = "starting"]
          /\ UNCHANGED <<wire, queue>> /\ SameArbiter
      BY <1>10, <2>1 DEF StartManager, Launch, arbiterVars, bounds, consoleVars, SameArbiter
    <2>3. \A k \in Mgrs : k \notin {n} => mgr'[k] = mgr[k] /\ queue'[k] = queue[k]
      BY <1>b, <2>2
    <2>. QED  BY <1>a, <2>2, <2>3, MovesOn
  <1>11. CASE WaitReady \/ UNCHANGED vars
    <2>1. UNCHANGED <<mgr, queue, wire>> /\ SameArbiter
      BY <1>11 DEF WaitReady, vars, arbiterVars, bounds, consoleVars, SameArbiter
    <2>. QED  BY <1>6, <2>1
  <1>. QED  BY <1>1, <1>3, <1>4, <1>5, <1>7, <1>8, <1>9, <1>10, <1>11

\* Steps that send a request.
LEMMA SentStep ==
  ASSUME Inv, NEW m \in Mgrs, arbiter_up, RegisterAsManager(m) \/ ServeAuthorize(m)
  PROVE  \E r : Sent(m, r)
  <1>a. mgr \in [Mgrs -> Phases] /\ ConsoleOK
    BY DEF Inv, ManagersOK
  <1>1. CASE RegisterAsManager(m)
    <2>. DEFINE r == Claim(m)
    <2>1. r \in Request /\ r.peer = m /\ r.open /\ r.type = "REGISTER_MANAGER" /\ Gated(r)
      BY DEF Claim, Request, Gated
    <2>2. /\ inbox' = Append(inbox, r) /\ mgr[m] = "registering"
          /\ mgr' = [mgr EXCEPT ![m] = "claiming"]
          /\ UNCHANGED <<reply, acked, queue, arbiter_up, proc_table, manager_pid, restarts>>
      BY <1>1 DEF RegisterAsManager, Send, arbiterVars, bounds, consoleVars
    <2>. HIDE DEF r
    <2>3. Sent(m, r)
      BY <1>a, <2>1, <2>2 DEF Sent
    <2>. QED  BY <2>3
  <1>2. CASE ServeAuthorize(m)
    <2>. DEFINE msg == Head(queue[m])
                r == [peer |-> m, type |-> "AUTHORIZE", open |-> TRUE, msg |-> msg]
    <2>1. /\ mgr[m] = "serving" /\ queue[m] # << >>
          /\ msg.cmd \in {"AUTHORIZE", "DEAUTHORIZE"} /\ Permitted(msg)
          /\ inbox' = Append(inbox, r) /\ mgr' = [mgr EXCEPT ![m] = "asking"]
          /\ acked' = [acked EXCEPT ![msg.pid] = NoWord]
          /\ UNCHANGED <<reply, queue, arbiter_up, proc_table, manager_pid, restarts>>
      BY <1>2 DEF ServeAuthorize, Accept, Send, arbiterVars, bounds
    <2>2. msg \in Command
      BY <1>a, <2>1, HeadCommand
    <2>3. /\ r \in Request /\ r.peer = m /\ r.open /\ r.type = "AUTHORIZE" /\ r.msg = msg
      BY <2>2 DEF Request
    <2>4. Gated(r)
      BY <2>1, <2>3 DEF Gated
    <2>. HIDE DEF r
    <2>5. Sent(m, r)
      BY <1>a, <2>1, <2>3, <2>4 DEF Sent
    <2>. QED  BY <2>5
  <1>. QED  BY <1>1, <1>2

\* Steps that read an answer, and what they tell the user.
LEMMA ReadStep ==
  ASSUME Inv, NEW m \in Mgrs, ReadClaim(m) \/ ReadAuthorize(m)
  PROVE  /\ Read(m)
         /\ \/ acked' = acked
            \/ /\ mgr[m] = "asking" /\ Head(reply[m]).ok /\ Head(reply[m]).by = restarts
               /\ acked' = [acked EXCEPT ![Head(queue[m]).pid] = Head(queue[m]).level]
  <1>a. mgr \in [Mgrs -> Phases] /\ queue \in [Mgrs -> Seq(Command)] /\ ManagersOK
    BY DEF Inv, ManagersOK, ConsoleOK
  <1>1. CASE ReadClaim(m)
    <2>1. /\ mgr[m] = "claiming" /\ reply[m] # << >> /\ reply' = [reply EXCEPT ![m] = << >>]
          /\ mgr' = [mgr EXCEPT ![m] = "registered"] \/ mgr' = [mgr EXCEPT ![m] = "registering"]
          /\ UNCHANGED <<inbox, acked, queue, arbiter_up, proc_table, manager_pid, restarts>>
      BY <1>1 DEF ReadClaim, arbiterVars, bounds, consoleVars
    <2>. QED  BY <1>a, <2>1 DEF Read
  <1>2. CASE ReadAuthorize(m)
    <2>1. /\ mgr[m] = "asking" /\ reply[m] # << >> /\ reply' = [reply EXCEPT ![m] = << >>]
          /\ mgr' = AfterLoop(m, running[m]) /\ queue' = [queue EXCEPT ![m] = Tail(@)]
          /\ UNCHANGED <<inbox, arbiter_up, proc_table, manager_pid, restarts>>
      BY <1>2 DEF ReadAuthorize, Finish, arbiterVars, bounds
    <2>2. \A n \in Mgrs : n # m => mgr'[n] = mgr[n] /\ queue'[n] = queue[n]
      BY <1>a, <2>1, LoopPhase
    <2>3. \/ acked' = acked
          \/ /\ Head(reply[m]).ok /\ Head(reply[m]).by = restarts
             /\ acked' = [acked EXCEPT ![Head(queue[m]).pid] = Head(queue[m]).level]
      BY <1>2 DEF ReadAuthorize, Acknowledged
    <2>. QED  BY <2>1, <2>2, <2>3 DEF Read
  <1>. QED  BY <1>1, <1>2

\* Steps that end a process or a request.
LEMMA ClosedStep ==
  ASSUME Inv, NEW m \in Mgrs,
         \/ GiveUp(m) \/ Shutdown(m) \/ CrashManager(m) \/ SetupFails(m)
         \/ ConnectionLost(m) \/ ReadInterrupted(m)
  PROVE  Closed(m)
  <1>a. mgr \in [Mgrs -> Phases] /\ queue \in [Mgrs -> Seq(Command)] /\ ManagersOK
    BY DEF Inv, ManagersOK, ConsoleOK
  <1>1. CASE GiveUp(m) \/ Shutdown(m) \/ CrashManager(m) \/ SetupFails(m)
    <2>1. /\ HangUp(m) /\ SameArbiter
          /\ mgr' = [mgr EXCEPT ![m] = "off"] /\ queue' = [queue EXCEPT ![m] = << >>]
      BY <1>1 DEF GiveUp, Shutdown, CrashManager, SetupFails, Gone, SameArbiter, arbiterVars, bounds
    <2>. QED  BY <1>a, <2>1 DEF Closed
  <1>2. ASSUME NEW r, RequestFails(m, r), r => Silent(m)
        PROVE  Closed(m)
    <2>1. HangUp(m) /\ SameArbiter
      BY <1>2 DEF RequestFails, SameArbiter, arbiterVars
    <2>2. CASE /\ mgr[m] = "claiming" /\ mgr' = [mgr EXCEPT ![m] = "registering"]
               /\ queue' = queue
      BY <1>a, <2>1, <2>2 DEF Closed
    <2>3. CASE mgr[m] = "asking" /\ Finish(m, r)
      <3>1. mgr' = AfterLoop(m, r) /\ queue' = [queue EXCEPT ![m] = Tail(@)]
        BY <2>3 DEF Finish
      <3>2. /\ mgr'[m] = IF r THEN "serving" ELSE "stopping"
            /\ \A n \in Mgrs : n # m => mgr'[n] = mgr[n] /\ queue'[n] = queue[n]
        BY <1>a, <3>1, LoopPhase
      <3>. QED  BY <1>2, <2>1, <2>3, <3>2 DEF Closed
    <2>. QED  BY <1>2, <2>2, <2>3 DEF RequestFails
  <1>3. CASE ConnectionLost(m)
    BY <1>2, <1>3 DEF ConnectionLost, RequestsOf, Silent
  <1>4. CASE ReadInterrupted(m)
    BY <1>2, <1>4 DEF ReadInterrupted
  <1>. QED  BY <1>1, <1>2, <1>3, <1>4

\* Every step is of one of the kinds.
LEMMA Kinds ==
  ASSUME Inv, [Next]_vars
  PROVE  \/ Quiet /\ SameArbiter
         \/ \E p \in Apps : SetLevel(p)
         \/ \E m \in Mgrs : \E r : Sent(m, r)
         \/ \E m \in Mgrs :
              /\ Read(m)
              /\ \/ acked' = acked
                 \/ /\ mgr[m] = "asking" /\ Head(reply[m]).ok /\ Head(reply[m]).by = restarts
                    /\ acked' = [acked EXCEPT ![Head(queue[m]).pid] = Head(queue[m]).level]
         \/ \E m \in Mgrs : Closed(m)
         \/ DecideRegister \/ DecideAuthorize
         \/ CrashArbiter \/ StartArbiter
  <1>1. ASSUME NEW m \in Mgrs, ManagerStep(m)
        PROVE  \/ Quiet /\ SameArbiter
               \/ \E r : Sent(m, r)
               \/ ReadClaim(m) \/ ReadAuthorize(m)
               \/ Closed(m)
    BY <1>1, QuietStep, SentStep, ClosedStep DEF ManagerStep, ServeConsole
  <1>2. ASSUME NEW m \in Mgrs, Disturbance(m)
        PROVE  (Quiet /\ SameArbiter) \/ Closed(m)
    BY <1>2, QuietStep, ClosedStep DEF Disturbance
  <1>3. CASE (\E c \in Clients : SendConsole(c)) \/ StartManager \/ WaitReady \/ UNCHANGED vars
    BY <1>3, QuietStep
  <1>. QED  BY <1>1, <1>2, <1>3, ReadStep DEF Next, ArbiterDecides, Supervise

\* A process's own request leaves the way to the arbiter alone.
LEMMA SetLevelIsQuiet ==
  ASSUME NEW p \in Apps, SetLevel(p)
  PROVE  Quiet /\ UNCHANGED <<arbiter_up, manager_pid, acked, restarts>>
  BY DEF SetLevel, Quiet, wire, consoleVars, bounds

LEMMA WireStep ==
  ASSUME Inv, [Next]_vars
  PROVE  WireOK'
  <1>a. WireOK /\ ManagersOK
    BY DEF Inv
  <1>1. CASE Quiet /\ SameArbiter
    BY <1>a, <1>1, QuietWire DEF SameArbiter
  <1>2. ASSUME NEW p \in Apps, SetLevel(p)
        PROVE  WireOK'
    BY <1>a, <1>2, SetLevelIsQuiet, QuietWire
  <1>3. CASE DecideRegister
    <2>1. /\ inbox # << >> /\ Decide(RoleFree) /\ UNCHANGED <<mgr, queue, restarts>>
      BY <1>3 DEF DecideRegister, consoleVars, bounds
    <2>2. RoleFree \in BOOLEAN
      BY DEF Inv, ArbiterOK, RoleFree, MayRegisterManager
    <2>. QED  BY <1>a, <2>1, <2>2, DecideWire
  <1>4. CASE DecideAuthorize
    <2>1. /\ inbox # << >> /\ Decide(Accepted(Head(inbox)))
          /\ UNCHANGED <<mgr, queue, restarts>>
      BY <1>4 DEF DecideAuthorize, consoleVars, bounds
    <2>2. Accepted(Head(inbox)) \in BOOLEAN
      BY DEF Accepted, MayAuthorize
    <2>. QED  BY <1>a, <2>1, <2>2, DecideWire
  <1>5. CASE StartArbiter
    <2>1. Quiet /\ restarts' = restarts
      BY <1>5 DEF StartArbiter, Quiet, wire, consoleVars, bounds
    <2>. QED  BY <1>a, <2>1, QuietWire
  <1>. QED  BY <1>a, <1>1, <1>2, <1>3, <1>4, <1>5, Kinds, SentWire, ReadWire, ClosedWire,
               CrashWire

LEMMA ArbiterStep ==
  ASSUME Inv, [Next]_vars
  PROVE  ArbiterOK'
  <1>a. ArbiterOK /\ WireOK /\ ManagersOK /\ ConsoleOK
    BY DEF Inv
  <1>1. CASE Quiet /\ SameArbiter
    <2>1. IsTable(proc_table') /\ \A p \in Apps : CapOf(p)' = CapOf(p)
      BY <1>a, <1>1 DEF ArbiterOK, SameArbiter, CapOf
    <2>. QED  BY <1>a, <1>1, <2>1, QuietArbiter DEF SameArbiter
  <1>2. ASSUME NEW q \in Apps, SetLevel(q)
        PROVE  ArbiterOK'
    <2>1. Kept \/ LevelSet(q)
      BY <1>a, <1>2, LevelStep DEF ArbiterOK
    <2>2. IsTable(proc_table') /\ \A p \in Apps : CapOf(p)' = CapOf(p)
      BY <2>1, SameCap DEF Kept, LevelSet
    <2>. QED  BY <1>a, <1>2, <2>2, SetLevelIsQuiet, QuietArbiter
  <1>. QED  BY <1>a, <1>1, <1>2, Kinds, SentArbiter, ReadArbiter, ClosedArbiter, CrashesArbiter,
               StartsArbiter, DecidesRegister, DecidesAuthorize

----------------------------------------------------------------------------
(* The instances *)

\* Instance n stays where it is, or moves on in a way that leaves its duties.
Advances(n) ==
  \/ mgr'[n] = mgr[n]
  \/ mgr'[n] = "off"
  \/ mgr'[n] = "starting" /\ n # pidfile
  \/ mgr'[n] \in {"registering", "claiming"} /\ mgr[n] \in {"starting", "registering", "claiming"}
  \/ mgr'[n] \in {"serving", "asking", "stopping"} /\ mgr[n] \in {"registered", "serving", "asking"}

LEMMA Advance ==
  ASSUME ManagersOK, mgr' \in [Mgrs -> Phases], \A n \in Mgrs : Advances(n),
         UNCHANGED <<manager_pid, restarts>>, pidfile' \in {pidfile, NoPid}
  PROVE  ManagersOK'
  <1>1. RoleHeld'
    BY DEF ManagersOK, RoleHeld, Advances
  <1>2. WrittenAfterwards'
    <2>. SUFFICES ASSUME IsAlive' PROVE mgr'[pidfile'] \in {"serving", "asking", "stopping"}
      BY DEF WrittenAfterwards
    <2>1. pidfile \in Mgrs /\ pidfile' = pidfile /\ mgr'[pidfile] # "off"
      BY DEF IsAlive, Running, ManagersOK
    <2>2. mgr[pidfile] # "off" => mgr[pidfile] \in {"serving", "asking", "stopping"}
      BY <2>1, Disjoint DEF ManagersOK, WrittenAfterwards, IsAlive, Running
    <2>3. Advances(pidfile)
      BY <2>1
    <2>4. mgr[pidfile] \in Phases
      BY <2>1 DEF ManagersOK
    <2>5. CASE mgr[pidfile] = "off"
      BY <2>1, <2>3, <2>5 DEF Advances
    <2>6. CASE mgr[pidfile] # "off"
      BY <2>1, <2>2, <2>3, <2>6 DEF Advances
    <2>. QED  BY <2>5, <2>6
  <1>. QED  BY <1>1, <1>2 DEF ManagersOK

\* One instance moves.
LEMMA OneAdvances ==
  ASSUME ManagersOK, NEW m \in Mgrs, NEW phase \in Phases,
         mgr' = [mgr EXCEPT ![m] = phase],
         \/ phase = "off"
         \/ phase = "starting" /\ m # pidfile
         \/ phase \in {"registering", "claiming"} /\ mgr[m] \in {"starting", "registering", "claiming"}
         \/ phase \in {"serving", "asking", "stopping"} /\ mgr[m] \in {"registered", "serving", "asking"},
         UNCHANGED <<manager_pid, restarts>>, pidfile' \in {pidfile, NoPid}
  PROVE  ManagersOK'
  <1>1. mgr' \in [Mgrs -> Phases] /\ mgr'[m] = phase /\ \A n \in Mgrs : n # m => mgr'[n] = mgr[n]
    BY DEF ManagersOK
  <1>2. \A n \in Mgrs : Advances(n)
    BY <1>1 DEF Advances
  <1>. QED  BY <1>1, <1>2, Advance

\* Only an instance whose success is in its answer becomes registered.
LEMMA RoleTaken ==
  ASSUME Inv, NEW m \in Mgrs, mgr[m] = "claiming", reply[m] # << >>, Head(reply[m]).ok,
         restarts = 0
  PROVE  manager_pid = m
  <1>1. Head(reply[m]).by <= restarts /\ reply[m] \in Seq(Answer)
    BY DEF Inv, WireOK, AnswerInTurn
  <1>2. Head(reply[m]) \in Answer
    BY <1>1, HeadTailProperties
  <1>3. Head(reply[m]).by \in Nat
    BY <1>2 DEF Answer
  <1>4. Head(reply[m]).by = restarts
    BY <1>1, <1>3
  <1>. QED  BY <1>4 DEF Inv, ArbiterOK, AnswerHolds

LEMMA ManagersStep ==
  ASSUME Inv, [Next]_vars
  PROVE  ManagersOK'
  <1>a. /\ ManagersOK
        /\ mgr \in [Mgrs -> Phases]
        /\ manager_pid \in Mgrs \cup {NoPid} /\ pidfile \in Mgrs \cup {NoPid}
        /\ restarts \in 0 .. MaxRestarts
        /\ Phases = {"off", "starting", "registering", "claiming", "registered", "serving",
                     "asking", "stopping"}
    BY DEF Inv, ManagersOK, Phases
  <1>1. ASSUME NEW m \in Mgrs, SetupConsole(m)
        PROVE  ManagersOK'
    <2>1. /\ mgr[m] = "starting" /\ mgr' = [mgr EXCEPT ![m] = "registering"]
          /\ UNCHANGED <<manager_pid, restarts, pidfile>>
      BY <1>1 DEF SetupConsole, arbiterVars, bounds
    <2>. QED  BY <1>a, <2>1, OneAdvances
  <1>2. CASE UNCHANGED <<manager_pid, mgr, pidfile, restarts>>
    <2>1. \A n \in Mgrs : Advances(n)
      BY <1>2 DEF Advances
    <2>. QED  BY <1>a, <1>2, <2>1, Advance
  <1>3. ASSUME NEW m \in Mgrs, RegisterAsManager(m)
        PROVE  ManagersOK'
    <2>1. /\ mgr[m] = "registering" /\ UNCHANGED <<manager_pid, restarts, pidfile>>
          /\ mgr' = [mgr EXCEPT ![m] = "claiming"] \/ mgr' = mgr
      BY <1>3 DEF RegisterAsManager, arbiterVars, bounds
    <2>2. CASE mgr' = mgr
      BY <1>2, <2>1, <2>2
    <2>3. CASE mgr' = [mgr EXCEPT ![m] = "claiming"]
      BY <1>a, <2>1, <2>3, OneAdvances
    <2>. QED  BY <2>1, <2>2, <2>3
  <1>4. ASSUME NEW m \in Mgrs, ReadClaim(m)
        PROVE  ManagersOK'
    <2>1. /\ mgr[m] = "claiming" /\ reply[m] # << >>
          /\ UNCHANGED <<manager_pid, restarts, pidfile>>
      BY <1>4 DEF ReadClaim, arbiterVars, bounds
    <2>2. CASE Head(reply[m]).ok
      <3>1. mgr' = [mgr EXCEPT ![m] = "registered"]
        BY <1>4, <2>2 DEF ReadClaim
      <3>2. /\ mgr' \in [Mgrs -> Phases] /\ mgr'[m] = "registered"
            /\ \A n \in Mgrs : n # m => mgr'[n] = mgr[n]
        BY <1>a, <3>1
      <3>3. RoleHeld'
        BY <1>a, <2>1, <2>2, <3>2, RoleTaken DEF ManagersOK, RoleHeld
      <3>4. WrittenAfterwards'
        <4>1. pidfile # m
          BY <2>1, Disjoint DEF Inv, ManagersOK, WrittenAfterwards, IsAlive, Running
        <4>. QED  BY <1>a, <2>1, <3>2, <4>1, Disjoint
                  DEF ManagersOK, WrittenAfterwards, IsAlive, Running
      <3>. QED  BY <1>a, <2>1, <3>2, <3>3, <3>4 DEF ManagersOK
    <2>3. CASE ~Head(reply[m]).ok
      <3>1. mgr' = [mgr EXCEPT ![m] = "registering"]
        BY <1>4, <2>3 DEF ReadClaim
      <3>. QED  BY <1>a, <2>1, <3>1, OneAdvances
    <2>. QED  BY <2>2, <2>3
  <1>5. ASSUME NEW m \in Mgrs, GiveUp(m) \/ Shutdown(m) \/ CrashManager(m) \/ SetupFails(m)
        PROVE  ManagersOK'
    <2>1. /\ mgr' = [mgr EXCEPT ![m] = "off"] /\ UNCHANGED <<manager_pid, restarts>>
          /\ pidfile' \in {pidfile, NoPid}
      BY <1>5 DEF GiveUp, Shutdown, CrashManager, SetupFails, Gone, arbiterVars, bounds
    <2>. QED  BY <1>a, <2>1, OneAdvances
  <1>6. ASSUME NEW m \in Mgrs, WritePidfile(m)
        PROVE  ManagersOK'
    <2>1. /\ mgr[m] = "registered" /\ pidfile' = m /\ mgr' = AfterLoop(m, running[m])
          /\ UNCHANGED <<manager_pid, restarts>>
      BY <1>6 DEF WritePidfile, arbiterVars, bounds
    <2>2. /\ mgr' \in [Mgrs -> Phases] /\ mgr'[m] \in {"serving", "stopping"}
          /\ \A n \in Mgrs : n # m => mgr'[n] = mgr[n]
      BY <1>a, <2>1, LoopPhase
    <2>3. RoleHeld'
      BY <1>a, <2>1, <2>2 DEF ManagersOK, RoleHeld
    <2>4. WrittenAfterwards'
      BY <2>1, <2>2 DEF WrittenAfterwards
    <2>. QED  BY <1>a, <2>1, <2>2, <2>3, <2>4 DEF ManagersOK
  <1>7. ASSUME NEW m \in Mgrs, mgr[m] \in {"serving", "asking"}, NEW r, mgr' = AfterLoop(m, r),
               UNCHANGED <<manager_pid, restarts, pidfile>>
        PROVE  ManagersOK'
    <2>1. CASE r
      <3>1. mgr' = [mgr EXCEPT ![m] = "serving"]
        BY <1>7, <2>1 DEF AfterLoop
      <3>. QED  BY <1>a, <1>7, <3>1, OneAdvances
    <2>2. CASE ~r
      <3>1. mgr' = [mgr EXCEPT ![m] = "stopping"]
        BY <1>7, <2>2 DEF AfterLoop
      <3>. QED  BY <1>a, <1>7, <3>1, OneAdvances
    <2>. QED  BY <2>1, <2>2
  <1>8. ASSUME NEW m \in Mgrs, ServeConsole(m)
        PROVE  ManagersOK'
    <2>1. mgr[m] = "serving" /\ UNCHANGED <<manager_pid, restarts, pidfile>>
      BY <1>8 DEF ServeConsole, ServeHarmless, ServeAuthorize, ServeService, ServeQuit, Accept,
                  arbiterVars, bounds
    <2>2. ASSUME NEW r, mgr' = AfterLoop(m, r)
          PROVE  ManagersOK'
      BY <1>7, <2>1, <2>2
    <2>3. CASE mgr' = [mgr EXCEPT ![m] = "asking"]
      BY <1>a, <2>1, <2>3, OneAdvances
    <2>4. ASSUME NEW n \in Mgrs, Launch(n, AfterLoop(m, running[m]))
          PROVE  ManagersOK'
      <3>. DEFINE f == AfterLoop(m, running[m])
      <3>1. /\ f \in [Mgrs -> Phases] /\ f[m] \in {"serving", "stopping"}
            /\ \A k \in Mgrs : k # m => f[k] = mgr[k]
        BY <1>a, LoopPhase
      <3>. HIDE DEF f
      <3>2. n # pidfile /\ mgr' = [f EXCEPT ![n] = "starting"]
        BY <2>4 DEF Launch, FreshPid, f
      <3>3. mgr' \in [Mgrs -> Phases] /\ \A k \in Mgrs : Advances(k)
        BY <1>a, <2>1, <3>1, <3>2 DEF Advances
      <3>. QED  BY <1>a, <2>1, <3>3, Advance
    <2>. QED  BY <1>8, <2>2, <2>3, <2>4
              DEF ServeConsole, ServeHarmless, ServeAuthorize, ServeService, ServeQuit, Finish
  <1>9. ASSUME NEW m \in Mgrs, ReadAuthorize(m)
        PROVE  ManagersOK'
    BY <1>7, <1>9 DEF ReadAuthorize, Finish, arbiterVars, bounds
  <1>10. ASSUME NEW m \in Mgrs, NEW r, RequestFails(m, r)
         PROVE  ManagersOK'
    <2>1. UNCHANGED <<manager_pid, restarts, pidfile>>
      BY <1>10 DEF RequestFails, arbiterVars
    <2>2. CASE mgr[m] = "claiming" /\ mgr' = [mgr EXCEPT ![m] = "registering"]
      BY <1>a, <2>1, <2>2, OneAdvances
    <2>3. CASE mgr[m] = "asking" /\ Finish(m, r)
      BY <1>7, <2>1, <2>3 DEF Finish
    <2>. QED  BY <1>10, <2>2, <2>3 DEF RequestFails
  <1>11. ASSUME NEW m \in Mgrs, ConnectionLost(m) \/ ReadInterrupted(m)
         PROVE  ManagersOK'
    BY <1>10, <1>11 DEF ConnectionLost, ReadInterrupted
  <1>12. ASSUME NEW m \in Mgrs, Interrupted(m)
         PROVE  ManagersOK'
    <2>1. /\ mgr[m] = "serving" /\ mgr' = [mgr EXCEPT ![m] = "stopping"]
          /\ UNCHANGED <<manager_pid, restarts, pidfile>>
      BY <1>12 DEF Interrupted, arbiterVars, bounds
    <2>. QED  BY <1>a, <2>1, OneAdvances
  <1>13. CASE DecideRegister
    <2>1. /\ manager_pid' = IF RoleFree THEN Head(inbox).peer ELSE manager_pid
          /\ inbox # << >> /\ UNCHANGED <<mgr, pidfile, restarts>>
      BY <1>13 DEF DecideRegister, bounds
    <2>2. CASE RoleFree
      <3>1. Head(inbox) \in Request
        BY <2>1, HeadTailProperties DEF Inv, WireOK
      <3>2. manager_pid' \in Mgrs
        BY <2>1, <2>2, <3>1, RequestShape
      <3>3. \A n \in Mgrs : Running(n) => manager_pid # n
        BY <2>2, NotFree
      <3>4. RoleHeld'
        BY <1>a, <2>1, <3>3 DEF ManagersOK, RoleHeld, Running
      <3>5. WrittenAfterwards'
        BY <1>a, <2>1 DEF ManagersOK, WrittenAfterwards, IsAlive, Running
      <3>. QED  BY <1>a, <2>1, <3>2, <3>4, <3>5 DEF ManagersOK
    <2>3. CASE ~RoleFree
      BY <1>2, <2>1, <2>3
    <2>. QED  BY <2>2, <2>3
  <1>14. CASE StartManager
    <2>1. PICK n \in Mgrs : Launch(n, mgr)
      BY <1>14 DEF StartManager
    <2>2. /\ n # pidfile /\ mgr' = [mgr EXCEPT ![n] = "starting"]
          /\ pidfile' = NoPid /\ UNCHANGED <<manager_pid, restarts>>
      BY <1>14, <2>1 DEF StartManager, Launch, FreshPid, arbiterVars, bounds
    <2>. QED  BY <1>a, <2>2, OneAdvances
  <1>15. CASE CrashArbiter
    <2>1. /\ restarts < MaxRestarts /\ restarts' = restarts + 1 /\ manager_pid' = NoPid
          /\ UNCHANGED <<mgr, pidfile>>
      BY <1>15 DEF CrashArbiter
    <2>2. restarts' \in 0 .. MaxRestarts /\ restarts' # 0
      BY <1>a, <2>1, ChainAssumption
    <2>3. RoleHeld' /\ WrittenAfterwards'
      BY <1>a, <2>1, <2>2 DEF ManagersOK, RoleHeld, WrittenAfterwards, IsAlive, Running
    <2>. QED  BY <1>a, <2>1, <2>2, <2>3 DEF ManagersOK
  <1>16. ASSUME NEW m \in Mgrs, HandleSignal(m) \/ ServiceEnds(m)
         PROVE  ManagersOK'
    BY <1>2, <1>16 DEF HandleSignal, ServiceEnds, arbiterVars, bounds
  <1>17. ASSUME NEW c \in Clients, SendConsole(c)
         PROVE  ManagersOK'
    BY <1>2, <1>17 DEF SendConsole, arbiterVars, bounds
  <1>18. ASSUME NEW p \in Apps, SetLevel(p)
         PROVE  ManagersOK'
    BY <1>2, <1>18 DEF SetLevel, bounds
  <1>19. CASE DecideAuthorize \/ StartArbiter \/ WaitReady \/ UNCHANGED vars
    BY <1>2, <1>19 DEF DecideAuthorize, StartArbiter, WaitReady, vars, arbiterVars, bounds
  <1>. QED  BY <1>1, <1>3, <1>4, <1>5, <1>6, <1>8, <1>9, <1>11, <1>12, <1>13, <1>14, <1>15,
               <1>16, <1>17, <1>18, <1>19
            DEF Next, ManagerStep, Disturbance, ArbiterDecides, Supervise

----------------------------------------------------------------------------
(* The console *)

\* A command is in hand wherever one was.
LEMMA StillInHand ==
  ASSUME ConsoleOK, queue' \in [Mgrs -> Seq(Command)],
         \A n \in Mgrs : mgr'[n] = "asking" =>
           mgr[n] = "asking" /\ queue'[n] # << >> /\ Head(queue'[n]) = Head(queue[n])
  PROVE  CommandInHand'
  BY DEF ConsoleOK, CommandInHand

\* The command of m is taken off its queue, and at most its sender released;
\* another instance may start.
LEMMA Served ==
  ASSUME ConsoleOK, NEW m \in Mgrs, queue[m] # << >>, queue' = [queue EXCEPT ![m] = Tail(@)],
         mgr'[m] # "asking",
         \A n \in Mgrs : n # m => mgr'[n] = mgr[n] \/ mgr'[n] = "starting",
         CloseClient(m) \/ UNCHANGED client, inherited' \subseteq Mgrs, UNCHANGED console
  PROVE  ConsoleOK'
  <1>1. Tail(queue[m]) \in Seq(Command) /\ Head(queue[m]).from \in Clients
    BY HeadCommand
  <1>2. queue' \in [Mgrs -> Seq(Command)] /\ \A n \in Mgrs : n # m => queue'[n] = queue[n]
    BY <1>1 DEF ConsoleOK
  <1>3. client' \in [Clients -> Mgrs \cup {NoPid}]
    BY <1>1 DEF ConsoleOK, CloseClient
  <1>4. CommandInHand'
    <2>1. ASSUME NEW n \in Mgrs, mgr'[n] = "asking"
          PROVE  mgr[n] = "asking" /\ queue'[n] # << >> /\ Head(queue'[n]) = Head(queue[n])
      BY <1>2, <2>1 DEF ConsoleOK, CommandInHand
    <2>. QED  BY <1>2, <2>1, StillInHand
  <1>. QED  BY <1>2, <1>3, <1>4 DEF ConsoleOK

\* Nothing changes at the console, and nobody takes a command in hand.
LEMMA NotServed ==
  ASSUME ConsoleOK, UNCHANGED <<queue, client>>, inherited' \subseteq Mgrs,
         console' \in Mgrs \cup {NoPid},
         \A n \in Mgrs : mgr'[n] = "asking" => mgr[n] = "asking"
  PROVE  ConsoleOK'
  <1>1. CommandInHand'
    BY DEF ConsoleOK, CommandInHand
  <1>. QED  BY <1>1 DEF ConsoleOK

LEMMA ConsoleStep ==
  ASSUME Inv, [Next]_vars
  PROVE  ConsoleOK'
  <1>a. /\ ConsoleOK /\ ManagersOK /\ mgr \in [Mgrs -> Phases]
        /\ queue \in [Mgrs -> Seq(Command)] /\ client \in [Clients -> Mgrs \cup {NoPid}]
        /\ inherited \subseteq Mgrs /\ console \in Mgrs \cup {NoPid}
    BY DEF Inv, ConsoleOK, ManagersOK
  <1>1. ASSUME NEW m \in Mgrs, NEW phase, phase # "asking",
               mgr' = [mgr EXCEPT ![m] = phase] \/ mgr' = mgr,
               UNCHANGED <<queue, client, inherited>>, console' \in {console, m}
        PROVE  ConsoleOK'
    BY <1>a, <1>1, NotServed
  <1>2. ASSUME NEW m \in Mgrs,
               \/ SetupConsole(m) \/ RegisterAsManager(m) \/ ReadClaim(m)
               \/ HandleSignal(m) \/ Interrupted(m)
        PROVE  ConsoleOK'
    <2>1. /\ UNCHANGED <<queue, client, inherited>> /\ console' \in {console, m}
          /\ \/ mgr' = mgr
             \/ mgr' = [mgr EXCEPT ![m] = "registering"] \/ mgr' = [mgr EXCEPT ![m] = "claiming"]
             \/ mgr' = [mgr EXCEPT ![m] = "registered"] \/ mgr' = [mgr EXCEPT ![m] = "stopping"]
      BY <1>2 DEF SetupConsole, RegisterAsManager, ReadClaim, HandleSignal, Interrupted,
                  consoleVars
    <2>. QED  BY <1>1, <2>1
  <1>3. ASSUME NEW m \in Mgrs, WritePidfile(m)
        PROVE  ConsoleOK'
    <2>1. mgr' = AfterLoop(m, running[m]) /\ UNCHANGED <<queue, client, inherited, console>>
      BY <1>3 DEF WritePidfile, consoleVars
    <2>2. /\ mgr'[m] = IF running[m] THEN "serving" ELSE "stopping"
          /\ \A n \in Mgrs : n # m => mgr'[n] = mgr[n]
      BY <1>a, <2>1 DEF AfterLoop
    <2>3. \A n \in Mgrs : mgr'[n] = "asking" => mgr[n] = "asking"
      BY <2>2
    <2>. QED  BY <1>a, <2>1, <2>3, NotServed
  <1>4. ASSUME NEW m \in Mgrs, queue[m] # << >>, NEW r, Finish(m, r),
               CloseClient(m), UNCHANGED <<inherited, console>>
        PROVE  ConsoleOK'
    <2>1. mgr'[m] # "asking" /\ \A n \in Mgrs : n # m => mgr'[n] = mgr[n]
      BY <1>a, <1>4, LoopPhase DEF Finish
    <2>. QED  BY <1>a, <1>4, <2>1, Served DEF Finish
  <1>5. ASSUME NEW m \in Mgrs, ServeHarmless(m) \/ ServeQuit(m)
        PROVE  ConsoleOK'
    BY <1>4, <1>5 DEF ServeHarmless, ServeQuit, Accept
  <1>6. ASSUME NEW m \in Mgrs, ServeAuthorize(m)
        PROVE  ConsoleOK'
    <2>1. CASE ~arbiter_up
      BY <1>4, <1>6, <2>1 DEF ServeAuthorize, Accept
    <2>2. CASE arbiter_up
      <3>1. /\ queue[m] # << >> /\ Head(queue[m]).cmd \in {"AUTHORIZE", "DEAUTHORIZE"}
            /\ mgr' = [mgr EXCEPT ![m] = "asking"]
            /\ UNCHANGED <<queue, client, inherited, console>>
        BY <1>6, <2>2 DEF ServeAuthorize, Accept
      <3>2. CommandInHand'
        BY <1>a, <3>1 DEF ConsoleOK, CommandInHand
      <3>. QED  BY <1>a, <3>1, <3>2 DEF ConsoleOK
    <2>. QED  BY <2>1, <2>2
  <1>7. ASSUME NEW m \in Mgrs, ServeService(m)
        PROVE  ConsoleOK'
    <2>1. /\ queue[m] # << >> /\ queue' = [queue EXCEPT ![m] = Tail(@)]
          /\ CloseClient(m) \/ UNCHANGED client
          /\ inherited' \subseteq Mgrs /\ UNCHANGED console
      BY <1>a, <1>7 DEF ServeService, Accept
    <2>2. CASE mgr' = AfterLoop(m, running[m])
      <3>1. mgr'[m] # "asking" /\ \A n \in Mgrs : n # m => mgr'[n] = mgr[n]
        BY <1>a, <2>2, LoopPhase
      <3>. QED  BY <1>a, <2>1, <3>1, Served
    <2>3. ASSUME NEW n \in Mgrs, Launch(n, AfterLoop(m, running[m]))
          PROVE  ConsoleOK'
      <3>. DEFINE f == AfterLoop(m, running[m])
      <3>1. /\ f \in [Mgrs -> Phases] /\ f[m] # "asking" /\ \A k \in Mgrs : k # m => f[k] = mgr[k]
        BY <1>a, LoopPhase
      <3>. HIDE DEF f
      <3>2. mgr' = [f EXCEPT ![n] = "starting"]
        BY <2>3 DEF Launch, f
      <3>3. /\ mgr'[m] # "asking"
            /\ \A k \in Mgrs : k # m => mgr'[k] = mgr[k] \/ mgr'[k] = "starting"
        BY <3>1, <3>2
      <3>. QED  BY <1>a, <2>1, <3>3, Served
    <2>. QED  BY <1>7, <2>2, <2>3 DEF ServeService
  <1>8. ASSUME NEW m \in Mgrs, ReadAuthorize(m)
        PROVE  ConsoleOK'
    <2>1. queue[m] # << >>
      BY <1>a, <1>8 DEF ReadAuthorize, ConsoleOK, CommandInHand
    <2>. QED  BY <1>4, <1>8, <2>1 DEF ReadAuthorize
  <1>9. ASSUME NEW m \in Mgrs, NEW r, RequestFails(m, r)
        PROVE  ConsoleOK'
    <2>1. UNCHANGED <<inherited, console>>
      BY <1>9 DEF RequestFails
    <2>2. CASE mgr' = [mgr EXCEPT ![m] = "registering"] /\ UNCHANGED <<queue, client>>
      BY <1>1, <2>1, <2>2
    <2>3. CASE mgr[m] = "asking" /\ Finish(m, r) /\ CloseClient(m)
      <3>1. queue[m] # << >>
        BY <1>a, <2>3 DEF ConsoleOK, CommandInHand
      <3>. QED  BY <1>4, <2>1, <2>3, <3>1
    <2>. QED  BY <1>9, <2>2, <2>3 DEF RequestFails
  <1>10. ASSUME NEW m \in Mgrs, ConnectionLost(m) \/ ReadInterrupted(m)
         PROVE  ConsoleOK'
    BY <1>9, <1>10 DEF ConnectionLost, ReadInterrupted
  <1>11. ASSUME NEW m \in Mgrs, GiveUp(m) \/ Shutdown(m) \/ CrashManager(m) \/ SetupFails(m)
         PROVE  ConsoleOK'
    <2>1. Gone(m) /\ console' \in {console, NoPid} /\ UNCHANGED inherited
      BY <1>11 DEF GiveUp, Shutdown, CrashManager, SetupFails
    <2>2. << >> \in Seq(Command)
      OBVIOUS
    <2>3. /\ queue' \in [Mgrs -> Seq(Command)]
          /\ \A n \in Mgrs : n # m => queue'[n] = queue[n] /\ mgr'[n] = mgr[n]
          /\ mgr'[m] = "off"
      BY <1>a, <2>1, <2>2 DEF Gone
    <2>4. client' \in [Clients -> Mgrs \cup {NoPid}]
      BY <1>a, <2>1 DEF Gone
    <2>5. CommandInHand'
      BY <1>a, <2>3 DEF ConsoleOK, CommandInHand
    <2>. QED  BY <1>a, <2>1, <2>3, <2>4, <2>5 DEF ConsoleOK
  <1>12. ASSUME NEW m \in Mgrs, ServiceEnds(m)
         PROVE  ConsoleOK'
    <2>1. /\ inherited' = inherited \ {m} /\ UNCHANGED <<mgr, queue>>
          /\ client' = [c \in Clients |->
                          IF /\ client[c] = m
                             /\ \A i \in DOMAIN queue[m] : queue[m][i].from # c
                            THEN NoPid ELSE client[c]]
          /\ console' \in {console, NoPid}
      BY <1>12 DEF ServiceEnds
    <2>2. client' \in [Clients -> Mgrs \cup {NoPid}] /\ CommandInHand'
      BY <1>a, <2>1 DEF ConsoleOK, CommandInHand
    <2>. QED  BY <1>a, <2>1, <2>2 DEF ConsoleOK
  <1>13. ASSUME NEW c \in Clients, SendConsole(c)
         PROVE  ConsoleOK'
    <2>1. PICK msg \in Command :
            /\ console # NoPid
            /\ client' = [client EXCEPT ![c] = console]
            /\ queue' = [queue EXCEPT ![console] =
                           IF Listening(console) THEN Append(@, msg) ELSE @]
            /\ UNCHANGED <<mgr, inherited, console>>
      BY <1>13 DEF SendConsole
    <2>2. console \in Mgrs /\ Append(queue[console], msg) \in Seq(Command)
      BY <1>a, <2>1, AppendProperties
    <2>3. queue' \in [Mgrs -> Seq(Command)]
      BY <1>a, <2>1, <2>2
    <2>4. client' \in [Clients -> Mgrs \cup {NoPid}]
      BY <1>a, <2>1, <2>2
    <2>5. ASSUME NEW n \in Mgrs, mgr[n] = "asking"
          PROVE  queue'[n] # << >> /\ Head(queue'[n]) = Head(queue[n])
      <3>1. queue[n] # << >> /\ queue[n] \in Seq(Command)
        BY <1>a, <2>5 DEF ConsoleOK, CommandInHand
      <3>2. Append(queue[n], msg) # << >> /\ Head(Append(queue[n], msg)) = Head(queue[n])
        BY <3>1
      <3>3. queue'[n] \in {queue[n], Append(queue[n], msg)}
        BY <1>a, <2>1, <2>2
      <3>. QED  BY <3>1, <3>2, <3>3
    <2>6. CommandInHand'
      BY <1>a, <2>1, <2>3, <2>5, StillInHand
    <2>. QED  BY <1>a, <2>1, <2>3, <2>4, <2>6 DEF ConsoleOK
  <1>14. CASE StartManager
    <2>1. PICK n \in Mgrs : Launch(n, mgr)
      BY <1>14 DEF StartManager
    <2>2. mgr' = [mgr EXCEPT ![n] = "starting"] /\ UNCHANGED <<queue, client, inherited, console>>
      BY <1>14, <2>1 DEF StartManager, Launch, consoleVars
    <2>. QED  BY <1>1, <2>2
  <1>15. ASSUME UNCHANGED <<mgr, consoleVars>>
         PROVE  ConsoleOK'
    BY <1>a, <1>15, NotServed DEF consoleVars
  <1>16. ASSUME NEW p \in Apps, SetLevel(p)
         PROVE  ConsoleOK'
    BY <1>15, <1>16 DEF SetLevel
  <1>17. CASE \/ DecideRegister \/ DecideAuthorize
              \/ CrashArbiter \/ StartArbiter \/ WaitReady \/ UNCHANGED vars
    BY <1>15, <1>17 DEF DecideRegister, DecideAuthorize, CrashArbiter, StartArbiter, WaitReady, vars
  <1>. QED  BY <1>2, <1>3, <1>5, <1>6, <1>7, <1>8, <1>10, <1>11, <1>12, <1>13, <1>14, <1>16, <1>17
            DEF Next, ManagerStep, ServeConsole, Disturbance, ArbiterDecides, Supervise

----------------------------------------------------------------------------
(* Attempts, flags and counters *)

\* An attempt is only counted while there is one left.
LEMMA Counted ==
  ASSUME LocalsOK, NEW m \in Mgrs, attempt[m] < MaxAttempts,
         attempt' = [attempt EXCEPT ![m] = @ + 1], mgr'[m] # "claiming",
         \A n \in Mgrs : n # m => mgr'[n] = mgr[n],
         running' \in [Mgrs -> BOOLEAN], supervisor' = supervisor,
         disturbed' \in 0 .. MaxFaults
  PROVE  LocalsOK'
  <1>1. attempt[m] + 1 \in 0 .. MaxAttempts
    BY ChainAssumption DEF LocalsOK
  <1>2. /\ attempt' \in [Mgrs -> 0 .. MaxAttempts]
        /\ \A n \in Mgrs : n # m => attempt'[n] = attempt[n]
    BY <1>1 DEF LocalsOK
  <1>3. AttemptsLeft'
    BY <1>2 DEF LocalsOK, AttemptsLeft
  <1>. QED  BY <1>2, <1>3 DEF LocalsOK

\* No attempt is counted and nobody begins one.
LEMMA NotCounted ==
  ASSUME LocalsOK, UNCHANGED attempt,
         \A n \in Mgrs : mgr'[n] = "claiming" => mgr[n] = "claiming",
         running' \in [Mgrs -> BOOLEAN], supervisor' \in {"checking", "waiting"},
         disturbed' \in 0 .. MaxFaults
  PROVE  LocalsOK'
  <1>1. AttemptsLeft'
    BY DEF LocalsOK, AttemptsLeft
  <1>. QED  BY <1>1 DEF LocalsOK

\* The bound on what happens to instances.
LEMMA FaultCounted ==
  ASSUME LocalsOK, ManagersOK, Disturbed
  PROVE  disturbed' \in 0 .. MaxFaults
  BY ChainAssumption DEF LocalsOK, ManagersOK, Disturbed

LEMMA LocalsStep ==
  ASSUME Inv, [Next]_vars
  PROVE  LocalsOK'
  <1>a. /\ LocalsOK /\ ManagersOK /\ mgr \in [Mgrs -> Phases]
        /\ attempt \in [Mgrs -> 0 .. MaxAttempts] /\ running \in [Mgrs -> BOOLEAN]
        /\ supervisor \in {"checking", "waiting"} /\ disturbed \in 0 .. MaxFaults
        /\ MaxAttempts \in Nat
    BY ChainAssumption DEF Inv, LocalsOK, ManagersOK
  <1>1. ASSUME NEW m \in Mgrs, RegisterAsManager(m)
        PROVE  LocalsOK'
    <2>1. /\ attempt[m] < MaxAttempts /\ mgr[m] = "registering"
          /\ UNCHANGED <<running, supervisor, disturbed>>
      BY <1>1 DEF RegisterAsManager, bounds
    <2>2. CASE arbiter_up
      <3>1. mgr' = [mgr EXCEPT ![m] = "claiming"] /\ UNCHANGED attempt
        BY <1>1, <2>2 DEF RegisterAsManager
      <3>2. AttemptsLeft'
        BY <1>a, <2>1, <3>1 DEF LocalsOK, AttemptsLeft
      <3>. QED  BY <1>a, <2>1, <3>1, <3>2 DEF LocalsOK
    <2>3. CASE ~arbiter_up
      <3>1. attempt' = [attempt EXCEPT ![m] = @ + 1] /\ UNCHANGED mgr
        BY <1>1, <2>3 DEF RegisterAsManager
      <3>. QED  BY <1>a, <2>1, <3>1, Counted
    <2>. QED  BY <2>2, <2>3
  <1>2. ASSUME NEW m \in Mgrs, ReadClaim(m)
        PROVE  LocalsOK'
    <2>1. mgr[m] = "claiming" /\ attempt[m] < MaxAttempts
          /\ UNCHANGED <<running, supervisor, disturbed>>
      BY <1>a, <1>2 DEF ReadClaim, LocalsOK, AttemptsLeft, bounds
    <2>2. CASE mgr' = [mgr EXCEPT ![m] = "registered"] /\ UNCHANGED attempt
      BY <1>a, <2>1, <2>2, NotCounted
    <2>3. CASE /\ mgr' = [mgr EXCEPT ![m] = "registering"]
               /\ attempt' = [attempt EXCEPT ![m] = @ + 1]
      <3>1. mgr'[m] # "claiming" /\ \A n \in Mgrs : n # m => mgr'[n] = mgr[n]
        BY <1>a, <2>3
      <3>. QED  BY <1>a, <2>1, <2>3, <3>1, Counted
    <2>. QED  BY <1>2, <2>2, <2>3 DEF ReadClaim
  <1>3. ASSUME NEW m \in Mgrs, NEW r, RequestFails(m, r), running' \in [Mgrs -> BOOLEAN],
               disturbed' \in 0 .. MaxFaults
        PROVE  LocalsOK'
    <2>1. supervisor' = supervisor
      BY <1>3 DEF RequestFails
    <2>2. CASE /\ mgr[m] = "claiming" /\ mgr' = [mgr EXCEPT ![m] = "registering"]
               /\ attempt' = [attempt EXCEPT ![m] = @ + 1]
      <3>1. attempt[m] < MaxAttempts
        BY <1>a, <2>2 DEF LocalsOK, AttemptsLeft
      <3>2. mgr'[m] # "claiming" /\ \A n \in Mgrs : n # m => mgr'[n] = mgr[n]
        BY <1>a, <2>2
      <3>. QED  BY <1>a, <1>3, <2>1, <2>2, <3>1, <3>2, Counted
    <2>3. CASE Finish(m, r) /\ UNCHANGED attempt
      <3>1. mgr'[m] # "claiming" /\ \A n \in Mgrs : n # m => mgr'[n] = mgr[n]
        BY <1>a, <2>3, LoopPhase DEF Finish
      <3>. QED  BY <1>a, <1>3, <2>1, <2>3, <3>1, NotCounted
    <2>. QED  BY <1>3, <2>2, <2>3 DEF RequestFails
  <1>4. ASSUME NEW m \in Mgrs, ConnectionLost(m)
        PROVE  LocalsOK'
    BY <1>a, <1>3, <1>4 DEF ConnectionLost
  <1>5. ASSUME NEW m \in Mgrs, ReadInterrupted(m)
        PROVE  LocalsOK'
    <2>1. running' \in [Mgrs -> BOOLEAN]
      BY <1>a, <1>5 DEF ReadInterrupted
    <2>2. disturbed' \in 0 .. MaxFaults
      BY <1>a, <1>5, FaultCounted DEF ReadInterrupted
    <2>. QED  BY <1>3, <1>5, <2>1, <2>2 DEF ReadInterrupted
  <1>6. ASSUME NEW m \in Mgrs, GiveUp(m) \/ Shutdown(m) \/ CrashManager(m) \/ SetupFails(m)
        PROVE  LocalsOK'
    <2>1. Gone(m) /\ supervisor' = supervisor /\ (disturbed' = disturbed \/ Disturbed)
      BY <1>6 DEF GiveUp, Shutdown, CrashManager, SetupFails, bounds
    <2>2. disturbed' \in 0 .. MaxFaults
      BY <1>a, <2>1, FaultCounted
    <2>3. /\ attempt' \in [Mgrs -> 0 .. MaxAttempts]
          /\ \A n \in Mgrs : n # m => attempt'[n] = attempt[n] /\ mgr'[n] = mgr[n]
          /\ mgr'[m] = "off"
      BY <1>a, <2>1 DEF Gone
    <2>4. running' \in [Mgrs -> BOOLEAN]
      BY <1>a, <2>1 DEF Gone
    <2>5. AttemptsLeft'
      BY <1>a, <2>3 DEF LocalsOK, AttemptsLeft
    <2>. QED  BY <1>a, <2>1, <2>2, <2>3, <2>4, <2>5 DEF LocalsOK
  <1>7. ASSUME NEW m \in Mgrs, NEW r, mgr' = AfterLoop(m, r), running' \in [Mgrs -> BOOLEAN],
               UNCHANGED <<attempt, supervisor, disturbed>>
        PROVE  LocalsOK'
    <2>1. mgr'[m] # "claiming" /\ \A n \in Mgrs : n # m => mgr'[n] = mgr[n]
      BY <1>a, <1>7, LoopPhase
    <2>. QED  BY <1>a, <1>7, <2>1, NotCounted
  <1>8. ASSUME NEW m \in Mgrs,
               WritePidfile(m) \/ ServeHarmless(m) \/ ReadAuthorize(m)
        PROVE  LocalsOK'
    BY <1>a, <1>7, <1>8 DEF WritePidfile, ServeHarmless, ReadAuthorize, Finish, bounds
  <1>9. ASSUME NEW m \in Mgrs, ServeQuit(m)
        PROVE  LocalsOK'
    <2>1. running' \in [Mgrs -> BOOLEAN]
      BY <1>a, <1>9 DEF ServeQuit
    <2>. QED  BY <1>7, <1>9, <2>1 DEF ServeQuit, Finish, bounds
  <1>10. ASSUME UNCHANGED <<attempt, running, supervisor, disturbed>>,
                \A n \in Mgrs : mgr'[n] = "claiming" => mgr[n] = "claiming"
         PROVE  LocalsOK'
    BY <1>a, <1>10, NotCounted
  <1>11. ASSUME NEW m \in Mgrs, ServeAuthorize(m)
         PROVE  LocalsOK'
    <2>1. UNCHANGED <<attempt, running, supervisor, disturbed>>
      BY <1>11 DEF ServeAuthorize, bounds
    <2>2. CASE arbiter_up
      <3>1. mgr' = [mgr EXCEPT ![m] = "asking"]
        BY <1>11, <2>2 DEF ServeAuthorize
      <3>. QED  BY <1>a, <1>10, <2>1, <3>1
    <2>3. CASE ~arbiter_up
      BY <1>a, <1>7, <1>11, <2>1, <2>3 DEF ServeAuthorize, Finish
    <2>. QED  BY <2>2, <2>3
  <1>12. ASSUME NEW m \in Mgrs, ServeService(m)
         PROVE  LocalsOK'
    <2>1. UNCHANGED <<attempt, running, supervisor, disturbed>>
      BY <1>12 DEF ServeService, bounds
    <2>2. CASE mgr' = AfterLoop(m, running[m])
      BY <1>a, <1>7, <2>1, <2>2
    <2>3. ASSUME NEW n \in Mgrs, Launch(n, AfterLoop(m, running[m]))
          PROVE  LocalsOK'
      <3>. DEFINE f == AfterLoop(m, running[m])
      <3>1. /\ f \in [Mgrs -> Phases]
            /\ f[m] = IF running[m] THEN "serving" ELSE "stopping"
            /\ \A k \in Mgrs : k # m => f[k] = mgr[k]
        BY <1>a DEF AfterLoop, Phases, ManagersOK
      <3>. HIDE DEF f
      <3>a. f[m] # "claiming"
        BY <3>1
      <3>2. mgr' = [f EXCEPT ![n] = "starting"]
        BY <2>3 DEF Launch, f
      <3>. QED  BY <1>10, <2>1, <3>1, <3>a, <3>2
    <2>. QED  BY <1>12, <2>2, <2>3 DEF ServeService
  <1>13. ASSUME NEW m \in Mgrs, SetupConsole(m) \/ Interrupted(m) \/ ServiceEnds(m)
         PROVE  LocalsOK'
    <2>1. /\ UNCHANGED <<attempt, running, supervisor, disturbed>>
          /\ \/ mgr' = [mgr EXCEPT ![m] = "registering"] \/ mgr' = [mgr EXCEPT ![m] = "stopping"]
             \/ mgr' = mgr
      BY <1>13 DEF SetupConsole, Interrupted, ServiceEnds, bounds
    <2>. QED  BY <1>a, <1>10, <2>1
  <1>14. ASSUME NEW m \in Mgrs, HandleSignal(m)
         PROVE  LocalsOK'
    <2>1. /\ running' = [running EXCEPT ![m] = FALSE] /\ Disturbed
          /\ UNCHANGED <<mgr, attempt, supervisor>>
      BY <1>14 DEF HandleSignal
    <2>2. running' \in [Mgrs -> BOOLEAN]
      BY <1>a, <2>1
    <2>3. disturbed' \in 0 .. MaxFaults
      BY <1>a, <2>1, FaultCounted
    <2>. QED  BY <1>a, <2>1, <2>2, <2>3, NotCounted
  <1>15. CASE StartManager
    <2>1. PICK n \in Mgrs : Launch(n, mgr)
      BY <1>15 DEF StartManager
    <2>2. mgr' = [mgr EXCEPT ![n] = "starting"] /\ supervisor' = "waiting"
          /\ UNCHANGED <<attempt, running, disturbed>>
      BY <1>15, <2>1 DEF StartManager, Launch, bounds
    <2>. QED  BY <1>a, <2>2, NotCounted
  <1>16. CASE WaitReady
    <2>1. supervisor' = "checking" /\ UNCHANGED <<mgr, attempt, running, disturbed>>
      BY <1>16 DEF WaitReady, bounds
    <2>. QED  BY <1>a, <2>1, NotCounted
  <1>17. ASSUME NEW c \in Clients, SendConsole(c)
         PROVE  LocalsOK'
    BY <1>10, <1>17 DEF SendConsole, bounds
  <1>18. ASSUME NEW p \in Apps, SetLevel(p)
         PROVE  LocalsOK'
    BY <1>10, <1>18 DEF SetLevel, bounds
  <1>19. CASE DecideRegister \/ DecideAuthorize \/ CrashArbiter \/ StartArbiter \/ UNCHANGED vars
    BY <1>10, <1>19 DEF DecideRegister, DecideAuthorize, CrashArbiter, StartArbiter, vars, bounds
  <1>. QED  BY <1>1, <1>2, <1>4, <1>5, <1>6, <1>8, <1>9, <1>11, <1>12, <1>13, <1>14, <1>15, <1>16,
               <1>17, <1>18, <1>19
            DEF Next, ManagerStep, ServeConsole, Disturbance, ArbiterDecides, Supervise

----------------------------------------------------------------------------
(* The theorems *)

LEMMA InvInit == Init => Inv
  <1>. SUFFICES ASSUME Init PROVE Inv
    OBVIOUS
  <1>1. arbiter_up \in BOOLEAN
    BY Zenon DEF Init
  <1>2. ArbiterOK
    BY <1>1, FreshTables DEF Init, ArbiterOK, AnswerHolds, WordHolds
  <1>3. ManagersOK
    BY ChainAssumption DEF Init, ManagersOK, Phases, RoleHeld, WrittenAfterwards, IsAlive
  <1>4. ConsoleOK
    BY DEF Init, ConsoleOK, CommandInHand
  <1>5. LocalsOK
    BY ChainAssumption DEF Init, LocalsOK, AttemptsLeft
  <1>6. WireOK
    <2>1. inbox = << >> /\ inbox \in Seq(Request) /\ DOMAIN inbox = {}
      BY DEF Init
    <2>2. reply \in [Mgrs -> Seq(Answer)] /\ \A m \in Mgrs : reply[m] = << >>
      BY DEF Init
    <2>. QED  BY <2>1, <2>2 DEF WireOK, AnswerInTurn, OpenIsLast, RequestsFit
  <1>. QED  BY <1>2, <1>3, <1>4, <1>5, <1>6 DEF Inv

LEMMA InvStep == Inv /\ [Next]_vars => Inv'
  BY ArbiterStep, WireStep, ManagersStep, ConsoleStep, LocalsStep DEF Inv

LEMMA Invariance == Spec => []Inv
  BY InvInit, InvStep, PTL DEF Spec

\* The state has its types, however many instances come and go.
THEOREM TypeCorrect == Spec => []TypeOK
  <1>1. Inv => TypeOK
    BY DEF Inv, ManagersOK, ConsoleOK, LocalsOK, WireOK, ArbiterOK, TypeOK
  <1>. QED  BY <1>1, Invariance, PTL

\* What a user has read to be the cap of a process is what the arbiter enforces
\* until the next command about the process is sent or the arbiter dies:
\* whichever instances took the commands, and whatever requests were left behind
\* by instances that were killed or interrupted in request_arbiter.
THEOREM AcknowledgementsHold == Spec => []AcknowledgedInEffect
  <1>1. Inv => AcknowledgedInEffect
    BY DEF Inv, ArbiterOK, WordHolds, AcknowledgedInEffect
  <1>. QED  BY <1>1, Invariance, PTL

\* Until the arbiter is restarted, a live process in the manager's pidfile
\* holds the manager role: the gate of the UI means what it says.
THEOREM PidfileNamesManager == Spec => []GateMeansAuthority
  <1>1. Inv => GateMeansAuthority
    <2>. SUFFICES ASSUME Inv, IsAlive, restarts = 0 PROVE manager_pid = pidfile
      BY DEF GateMeansAuthority
    <2>1. pidfile \in Mgrs /\ mgr[pidfile] \in {"serving", "asking", "stopping"}
      BY DEF Inv, ManagersOK, WrittenAfterwards, IsAlive
    <2>. QED  BY <2>1 DEF Inv, ManagersOK, RoleHeld
  <1>. QED  BY <1>1, Invariance, PTL

\* What can happen to the record of a process while the arbiter runs on.
LEMMA RecordStep ==
  ASSUME Inv, [Next]_vars, NEW p \in Apps
  PROVE  \/ SameRecord(p)
         \/ SetLevel(p) /\ LevelSet(p)
         \/ CrashArbiter \/ StartArbiter
         \/ \E cap \in Level :
              /\ DecideAuthorize /\ Granted(p, cap)
              /\ Head(inbox).msg.pid = p /\ Head(inbox).msg.level = cap
              /\ acked[p] = NoWord
  <1>a. IsTable(proc_table)
    BY DEF Inv, ArbiterOK
  <1>1. proc_table' = proc_table => SameRecord(p)
    BY DEF SameRecord
  <1>2. CASE DecideRegister
    <2>1. Kept
      BY <1>a, <1>2, ReapStep DEF DecideRegister
    <2>. QED  BY <2>1 DEF Kept
  <1>3. CASE DecideAuthorize
    BY <1>3, DecidesAuthorize DEF Kept, Granted
  <1>4. ASSUME NEW q \in Apps, SetLevel(q)
        PROVE  SameRecord(p) \/ (SetLevel(p) /\ LevelSet(p))
    BY <1>a, <1>4, LevelStep DEF Kept, LevelSet
  <1>. QED  BY <1>1, <1>2, <1>3, <1>4, Kinds DEF SameArbiter, Sent, Read, Closed

\* A cap only goes up because the arbiter reads an AUTHORIZE for this process
\* and this cap that an instance took from a user with the daemon's own uid.
THEOREM GrantsAreTrusted == Spec => OnlyTrustedGrants
  <1>. DEFINE Took(p) ==
         /\ inbox # << >> /\ inbox' = Tail(inbox)
         /\ Head(inbox).type = "AUTHORIZE"
         /\ Head(inbox).msg \in [from: Trusted, cmd: {"AUTHORIZE"}, pid: {p},
                                 level: {CapOf(p)'}]
  <1>1. Inv /\ [Next]_vars => [\A p \in Apps : CapOf(p)' > CapOf(p) => Took(p)]_vars
    <2>. SUFFICES ASSUME Inv, [Next]_vars, NEW p \in Apps, CapOf(p)' > CapOf(p)
                  PROVE  Took(p)
      OBVIOUS
    <2>1. CapOf(p) \in Nat /\ READONLY = 0
      BY CapType, LevelBounds DEF Inv, ArbiterOK, READONLY
    <2>2. CapOf(p)' # CapOf(p) /\ CapOf(p)' # 0
      BY <2>1
    <2>3. ~SameRecord(p) /\ ~LevelSet(p)
      BY <2>2, SameCap DEF LevelSet
    <2>4. ~CrashArbiter /\ ~StartArbiter
      BY <2>1, <2>2, FreshTables, Disjoint DEF CrashArbiter, StartArbiter, CapOf
    <2>5. PICK cap \in Level :
            /\ DecideAuthorize /\ Granted(p, cap)
            /\ Head(inbox).msg.pid = p /\ Head(inbox).msg.level = cap
      BY <2>3, <2>4, RecordStep
    <2>. DEFINE msg == Head(inbox).msg
    <2>6. /\ inbox # << >> /\ inbox' = Tail(inbox) /\ Head(inbox) \in Request
          /\ Head(inbox).type = "AUTHORIZE" /\ Gated(Head(inbox))
      BY <2>5, DecidesAuthorize
    <2>7. msg \in Command /\ msg.cmd \in {"AUTHORIZE", "DEAUTHORIZE"} /\ Permitted(msg)
      BY <2>6, RequestShape DEF Gated
    <2>8. CapOf(p)' = cap /\ msg.pid = p /\ msg.level = cap
      BY <2>5 DEF Granted
    <2>. HIDE DEF msg
    <2>9. /\ msg.cmd = "AUTHORIZE"
          /\ msg \in [from: Clients, cmd: {"AUTHORIZE"}, pid: Apps, level: GrantLevels]
      BY <2>1, <2>2, <2>7, <2>8, CommandShape
    <2>10. msg.from \in Trusted
      BY <2>7, <2>9 DEF Permitted, Sensitive
    <2>11. msg \in [from: Trusted, cmd: {"AUTHORIZE"}, pid: {p}, level: {CapOf(p)'}]
      BY <2>8, <2>9, <2>10
    <2>. QED  BY <2>6, <2>11 DEF msg
  <1>. QED  BY <1>1, Invariance, PTL DEF Spec, OnlyTrustedGrants

\* Once a user has read that the rights of a process are revoked, its level does
\* not rise, until the next command about it is sent or the arbiter dies.
THEOREM RevocationsHold == Spec => RevocationHolds
  <1>. DEFINE Within(p) == acked[p] = READONLY /\ arbiter_up' => LevelOf(p)' <= LevelOf(p)
  <1>1. Inv /\ [Next]_vars => [\A p \in Apps : Within(p)]_vars
    <2>. SUFFICES ASSUME Inv, [Next]_vars, NEW p \in Apps, acked[p] = READONLY, arbiter_up'
                  PROVE  LevelOf(p)' <= LevelOf(p)
      OBVIOUS
    <2>1. acked[p] # NoWord
      BY DEF READONLY, NoWord
    <2>2. arbiter_up /\ CapOf(p) = 0
      BY <2>1 DEF Inv, ArbiterOK, WordHolds, READONLY
    <2>3. LevelOf(p) \in Nat /\ LevelOf(p)' \in Nat
      <3>1. IsTable(proc_table) /\ IsTable(proc_table)'
        BY ArbiterStep DEF Inv, ArbiterOK
      <3>2. LevelOf(p) \in Level /\ LevelOf(p)' \in Level
        BY <3>1, CapType, LevelBounds DEF IsTable, ProcCred, LevelOf, GetProcessLevel
      <3>. QED  BY <3>2, LevelBounds
    <2>4. CASE SameRecord(p)
      BY <2>3, <2>4, SameCap
    <2>5. CASE LevelSet(p)
      BY <2>2, <2>3, <2>5 DEF LevelSet
    <2>6. ~CrashArbiter /\ ~StartArbiter
      BY <2>2 DEF CrashArbiter, StartArbiter
    <2>. QED  BY <2>1, <2>4, <2>5, <2>6, RecordStep
  <1>. QED  BY <1>1, Invariance, PTL DEF Spec, RevocationHolds
=============================================================================
