--------------------------- MODULE ArbiterProofs ---------------------------
(***************************************************************************)
(* What TLAPS proves of Arbiter, for every set of pids, every number of    *)
(* slots and every set of requests.                                        *)
(***************************************************************************)
EXTENDS Arbiter, FiniteSetTheorems, TLAPS

----------------------------------------------------------------------------
(* The operators of PermTable keep a table a table.                        *)

\* Reaping removes records and changes none.
LEMMA ReapTable ==
  ASSUME NEW t, IsTable(t), NEW alive
  PROVE  IsTable(Reap(t, alive)) /\ DOMAIN Reap(t, alive) \subseteq DOMAIN t
BY DEF IsTable, Reap

\* A record made by register_process is a proc_cred_t.
LEMMA NewCredType ==
  ASSUME NEW level \in Level, NEW dom \in Domains
  PROVE  NewCred(level, dom) \in ProcCred
BY DEF NewCred, ProcCred, Level, READONLY, BOOTLOADER

\* Storing a record adds at most its own pid.
LEMMA StoreTable ==
  ASSUME NEW t, IsTable(t), NEW p \in AnyPid, NEW c \in ProcCred
  PROVE  /\ IsTable(Store(t, p, c))
         /\ DOMAIN Store(t, p, c) = DOMAIN t \cup {p}
         /\ Store(t, p, c)[p] = c
         /\ \A q \in DOMAIN t : q # p => Store(t, p, c)[q] = t[q]
BY DEF IsTable, Store

\* register_process stores the level under the pid and leaves the cap of a
\* known process, and every other record, alone.
LEMMA RegisterTable ==
  ASSUME NEW t, IsTable(t), NEW p \in AnyPid, NEW level \in Level,
         NEW dom \in Domains
  PROVE  LET r == RegisterProcess(t, p, level, dom)
         IN  /\ IsTable(r)
             /\ DOMAIN r = DOMAIN t \cup {p}
             /\ r[p].level = level
             /\ r[p].user_authorized_cap =
                  IF p \in DOMAIN t THEN t[p].user_authorized_cap ELSE READONLY
             /\ \A q \in DOMAIN t : q # p => r[q] = t[q]
<1> DEFINE c == IF p \in DOMAIN t THEN [t[p] EXCEPT !.level = level]
                                  ELSE NewCred(level, dom)
<1>1. c \in ProcCred
  <2>1. CASE p \in DOMAIN t
    BY <2>1 DEF IsTable, ProcCred
  <2>2. CASE p \notin DOMAIN t
    BY <2>2, NewCredType
  <2> QED BY <2>1, <2>2
<1>2. c.level = level
  BY DEF NewCred, IsTable, ProcCred
<1>3. c.user_authorized_cap =
        IF p \in DOMAIN t THEN t[p].user_authorized_cap ELSE READONLY
  BY DEF NewCred, IsTable, ProcCred
<1>4. RegisterProcess(t, p, level, dom) = Store(t, p, c)
  BY DEF RegisterProcess
<1> HIDE DEF c
<1>5. /\ IsTable(Store(t, p, c))
      /\ DOMAIN Store(t, p, c) = DOMAIN t \cup {p}
      /\ Store(t, p, c)[p] = c
      /\ \A q \in DOMAIN t : q # p => Store(t, p, c)[q] = t[q]
  BY <1>1, StoreTable
<1> QED BY <1>2, <1>3, <1>4, <1>5

\* authorize_process gives the target its cap; the level of a target that was
\* not known becomes USER, that of a known one stays.
LEMMA AuthorizeTable ==
  ASSUME NEW t, IsTable(t), NEW p \in AnyPid, NEW cap \in Level,
         NEW dom \in Domains
  PROVE  LET r == Authorize(t, p, cap, dom)
         IN  /\ IsTable(r)
             /\ DOMAIN r = DOMAIN t \cup {p}
             /\ r[p].user_authorized_cap = cap
             /\ r[p].level = IF p \in DOMAIN t THEN t[p].level ELSE USER
             /\ \A q \in DOMAIN t : q # p => r[q] = t[q]
<1> DEFINE known == IF p \in DOMAIN t THEN t ELSE RegisterProcess(t, p, USER, dom)
<1>0. USER \in Level
  BY DEF USER, Level, READONLY, BOOTLOADER
<1>1. /\ IsTable(known)
      /\ DOMAIN known = DOMAIN t \cup {p}
      /\ known[p].level = IF p \in DOMAIN t THEN t[p].level ELSE USER
      /\ \A q \in DOMAIN t : q # p => known[q] = t[q]
  <2>1. CASE p \in DOMAIN t
    BY <2>1
  <2>2. CASE p \notin DOMAIN t
    <3>1. LET r == RegisterProcess(t, p, USER, dom)
          IN  /\ IsTable(r) /\ DOMAIN r = DOMAIN t \cup {p}
              /\ r[p].level = USER /\ \A q \in DOMAIN t : q # p => r[q] = t[q]
      BY <1>0, RegisterTable
    <3> QED BY <2>2, <3>1
  <2> QED BY <2>1, <2>2
<1>2. Authorize(t, p, cap, dom) = [known EXCEPT ![p].user_authorized_cap = cap]
  BY DEF Authorize
<1> HIDE DEF known
<1> QED BY <1>1, <1>2 DEF IsTable, ProcCred

----------------------------------------------------------------------------
(* Type correctness.                                                       *)

\* selinux_get_context, with its fallback, names a domain.
LEMMA ContextType ==
  ASSUME TypeOK, NEW p \in AnyPid
  PROVE  ContextOf(p) \in Domains
BY DEF TypeOK, ContextOf, Running, Domains

\* A request names a pid and a number.
LEMMA RequestType ==
  ASSUME NEW m \in Request \cup {NoRequest}
  PROVE  m.pid \in AnyPid /\ m.level \in Int
<1>1. CASE m = NoRequest
  BY <1>1 DEF NoRequest, AnyPid
<1>2. CASE m \in [type: {"CHECK_PERM", "SET_LEVEL", "AUTHORIZE"}, pid: ReqPids,
                  level: ReqLevels]
  BY <1>2, InputAssumption
<1>3. CASE m \in [type: {"GET_LEVEL", "REGISTER_MANAGER"}, pid: ReqPids,
                  level: {0}]
  BY <1>3, InputAssumption
<1>4. CASE m \in [type: {"QUERY_CAP"}, pid: {NoPid}, level: {0}]
  BY <1>4 DEF AnyPid
<1> QED BY <1>1, <1>2, <1>3, <1>4 DEF Request

\* The head of a queue that is not empty is a connection, and so are the rest.
LEMMA HeadType ==
  ASSUME TypeOK, backlog # << >>
  PROVE  /\ Head(backlog) \in Connection
         /\ Head(backlog).peer \in Pids
         /\ Head(backlog).msg.pid \in AnyPid
         /\ Head(backlog).msg.level \in Int
         /\ Tail(backlog) \in Seq(Connection)
<1>1. Head(backlog) \in Connection /\ Tail(backlog) \in Seq(Connection)
  BY DEF TypeOK
<1>2. Head(backlog).peer \in Pids /\ Head(backlog).msg \in Request \cup {NoRequest}
  BY <1>1 DEF Connection
<1> QED BY <1>1, <1>2, RequestType

\* An answer with an existing level is a reply, and takes one connection away.
LEMMA AnswerType ==
  ASSUME TypeOK, backlog # << >>, NEW status \in {0, -1}, NEW level \in Level,
         Answer(status, level)
  PROVE  reply' \in Reply /\ backlog' \in Seq(Connection)
BY HeadType DEF Answer, Reply

\* The level looked up for any pid is a level.
LEMMA LevelType ==
  ASSUME NEW t, IsTable(t), NEW p
  PROVE  GetProcessLevel(t, p) \in Level
BY DEF IsTable, GetProcessLevel, ProcCred, Level, SANDBOX, READONLY, BOOTLOADER

\* main starts in a well-typed state.
LEMMA TypeInit == Init => TypeOK
<1> SUFFICES ASSUME Init PROVE TypeOK
  OBVIOUS
<1>1. IsTable(InitialTable)
  BY NewCredType DEF InitialTable, IsTable, AnyPid, Level, SELINUX, READONLY,
     BOOTLOADER, Domains
<1>2. NoReply \in Reply
  BY DEF NoReply, Reply, AnyPid, Level, READONLY, BOOTLOADER
<1>3. granted \in [AnyPid -> Level]
  BY DEF Init, Level, READONLY, BOOTLOADER
<1>4. backlog \in Seq(Connection) /\ proc \in [Pids -> Domains \cup {"none"}]
  BY DEF Init
<1>5. up \in BOOLEAN /\ manager_live \in BOOLEAN
  BY Zenon DEF Init
<1> QED BY <1>1, <1>2, <1>3, <1>4, <1>5 DEF Init, TypeOK

\* reap_dead_processes leaves a well-formed table.
LEMMA ReapedTable ==
  ASSUME TypeOK
  PROVE  /\ IsTable(Reaped)
         /\ DOMAIN Reaped \subseteq DOMAIN proc_table
         /\ \A p \in DOMAIN Reaped : Reaped[p] = proc_table[p] /\ p \in Alive
         /\ \A p \in DOMAIN proc_table : p \in Alive => p \in DOMAIN Reaped
BY ReapTable DEF Reaped, TypeOK, Reap

\* What the handlers make of the table is a table again.
LEMMA HandledTable ==
  ASSUME TypeOK, ArbiterLoop
  PROVE  IsTable(proc_table')
<1> USE ReapedTable
<1>1. CASE HandleSetLevel
  <2> DEFINE m == Head(backlog).msg
  <2>1. backlog # << >>
    BY <1>1 DEF HandleSetLevel, Reading
  <2>2. CASE MaySetLevel(Reaped, m.pid, m.level, Head(backlog).peer)
    <3>1. m.level \in Level /\ m.pid \in AnyPid /\ ContextOf(m.pid) \in Domains
      BY <2>1, <2>2, HeadType, ContextType DEF MaySetLevel
    <3>2. \A p \in AnyPid, l \in Level, d \in Domains :
            IsTable(RegisterProcess(Reaped, p, l, d))
      BY RegisterTable
    <3> QED BY <1>1, <2>2, <3>1, <3>2 DEF HandleSetLevel
  <2>3. CASE ~MaySetLevel(Reaped, m.pid, m.level, Head(backlog).peer)
    BY <1>1, <2>3 DEF HandleSetLevel
  <2> QED BY <2>2, <2>3
<1>2. CASE HandleAuthorize
  <2> DEFINE m == Head(backlog).msg
  <2>1. backlog # << >>
    BY <1>2 DEF HandleAuthorize, Reading
  <2>2. CASE MayAuthorize(Reaped, m.pid, m.level, Head(backlog).peer, manager_pid)
    <3>1. m.level \in Level /\ m.pid \in AnyPid /\ ContextOf(m.pid) \in Domains
      BY <2>1, <2>2, HeadType, ContextType DEF MayAuthorize
    <3>2. \A p \in AnyPid, l \in Level, d \in Domains :
            IsTable(Authorize(Reaped, p, l, d))
      BY AuthorizeTable
    <3> QED BY <1>2, <2>2, <3>1, <3>2 DEF HandleAuthorize
  <2>3. CASE ~MayAuthorize(Reaped, m.pid, m.level, Head(backlog).peer, manager_pid)
    BY <1>2, <2>3 DEF HandleAuthorize
  <2> QED BY <2>2, <2>3
<1>3. CASE DropConnection
  BY <1>3 DEF DropConnection, TypeOK
<1>4. CASE \/ HandleCheckPerm \/ HandleGetLevel
           \/ HandleRegisterManager \/ HandleUnknown
  BY <1>4 DEF HandleCheckPerm, HandleGetLevel, HandleRegisterManager, HandleUnknown
<1> QED BY <1>1, <1>2, <1>3, <1>4 DEF ArbiterLoop

\* Level 0, the default of a reply and of a cap.
LEMMA ZeroLevel == 0 \in Level /\ READONLY \in Level
BY DEF Level, READONLY, BOOTLOADER

\* The absence of a reply is well-typed.
LEMMA NoAnswerType == NoReply \in Reply
BY DEF NoReply, Reply, AnyPid, Level, READONLY, BOOTLOADER

\* Every answer is a reply.
LEMMA HandledReply ==
  ASSUME TypeOK, ArbiterLoop
  PROVE  reply' \in Reply /\ backlog' \in Seq(Connection)
<1> USE ZeroLevel, ReapedTable
<1>1. CASE HandleCheckPerm
  <2>1. backlog # << >> /\ \E s \in {0, -1} : Answer(s, 0)
    BY <1>1 DEF HandleCheckPerm, Reading
  <2> QED BY <2>1, AnswerType
<1>2. CASE HandleGetLevel
  <2>1. backlog # << >> /\ \E s \in {0, -1}, l \in Level : Answer(s, l)
    BY <1>2, LevelType DEF HandleGetLevel, Reading
  <2> QED BY <2>1, AnswerType
<1>3. CASE HandleSetLevel
  <2>1. backlog # << >> /\ \E s \in {0, -1}, l \in Level : Answer(s, l)
    BY <1>3 DEF HandleSetLevel, Reading, MaySetLevel
  <2> QED BY <2>1, AnswerType
<1>4. CASE HandleRegisterManager
  <2>1. backlog # << >> /\ \E s \in {0, -1}, l \in Level : Answer(s, l)
    BY <1>4, LevelType DEF HandleRegisterManager, Reading
  <2> QED BY <2>1, AnswerType
<1>5. CASE HandleAuthorize
  <2>1. backlog # << >> /\ \E s \in {0, -1} : Answer(s, 0)
    BY <1>5 DEF HandleAuthorize, Reading
  <2> QED BY <2>1, AnswerType
<1>6. CASE HandleUnknown
  <2>1. backlog # << >> /\ Answer(-1, 0)
    BY <1>6 DEF HandleUnknown, Reading
  <2> QED BY <2>1, AnswerType
<1>7. CASE DropConnection
  BY <1>7, NoAnswerType, HeadType DEF DropConnection, Reading, NoAnswer
<1> QED BY <1>1, <1>2, <1>3, <1>4, <1>5, <1>6, <1>7 DEF ArbiterLoop

\* Every handler, client and crash step keeps the types.
LEMMA TypeStep == TypeOK /\ [Next]_vars => TypeOK'
<1> SUFFICES ASSUME TypeOK, [Next]_vars PROVE TypeOK'
  OBVIOUS
<1> USE ZeroLevel, NoAnswerType
<1>1. ASSUME NEW p \in Pids, Spawn(p) PROVE TypeOK'
  <2>1. proc' \in [Pids -> Domains \cup {"none"}]
    BY <1>1, InputAssumption DEF Spawn, TypeOK
  <2>2. granted' \in [AnyPid -> Level]
    BY <1>1 DEF Spawn, TypeOK
  <2> QED BY <1>1, <2>1, <2>2 DEF Spawn, TypeOK, NoAnswer
<1>2. ASSUME NEW p \in Pids, Exit(p) PROVE TypeOK'
  <2>1. proc' \in [Pids -> Domains \cup {"none"}]
    BY <1>2 DEF Exit, TypeOK
  <2>2. backlog' \in Seq(Connection)
    <3>1. \A i \in 1 .. Len(backlog) : backlog[i] \in Connection
      BY DEF TypeOK
    <3>a. \A c \in Connection : [c EXCEPT !.open = FALSE] \in Connection
      BY DEF Connection
    <3>2. \A i \in 1 .. Len(backlog) : backlog'[i] \in Connection
      BY <1>2, <3>1, <3>a DEF Exit, TypeOK
    <3>3. backlog' = [i \in 1 .. Len(backlog) |-> backlog'[i]]
      BY <1>2 DEF Exit, TypeOK
    <3> QED BY <3>2, <3>3 DEF TypeOK
  <2>3. manager_live' \in BOOLEAN
    BY <1>2, Zenon DEF Exit
  <2> QED BY <1>2, <2>1, <2>2, <2>3 DEF Exit, TypeOK, NoAnswer
<1>3. ASSUME NEW p \in Pids, Connect(p) PROVE TypeOK'
  <2>1. [peer |-> p, open |-> TRUE, msg |-> NoRequest] \in Connection
    BY DEF Connection
  <2>2. backlog' \in Seq(Connection)
    BY <1>3, <2>1 DEF Connect, TypeOK
  <2> QED BY <1>3, <2>2 DEF Connect, TypeOK, NoAnswer
<1>4. ASSUME NEW p \in Pids, Send(p) PROVE TypeOK'
  <2>1. PICK i \in DOMAIN backlog, m \in Request :
          backlog' = [backlog EXCEPT ![i].msg = m]
    BY <1>4 DEF Send
  <2>2. backlog[i] \in Connection
    BY <2>1 DEF TypeOK
  <2>3. [backlog[i] EXCEPT !.msg = m] \in Connection
    BY <2>2 DEF Connection
  <2>4. backlog' \in Seq(Connection)
    BY <2>1, <2>3 DEF TypeOK
  <2> QED BY <1>4, <2>4 DEF Send, TypeOK, NoAnswer
<1>5. ASSUME ArbiterLoop PROVE TypeOK'
  <2>1. IsTable(proc_table') /\ reply' \in Reply /\ backlog' \in Seq(Connection)
    BY <1>5, HandledTable, HandledReply
  <2>2. granted' \in [AnyPid -> Level]
    <3>1. CASE HandleAuthorize
      <4>1. Head(backlog).msg.level \in Level \/ granted' = granted
        BY <3>1 DEF HandleAuthorize, MayAuthorize
      <4> QED BY <3>1, <4>1 DEF HandleAuthorize, TypeOK
    <3> QED BY <1>5, <3>1 DEF ArbiterLoop, TypeOK, HandleCheckPerm, HandleGetLevel,
               HandleSetLevel, HandleRegisterManager, HandleUnknown, DropConnection
  <2>3. manager_pid' \in Pids \cup {NoPid}
    <3>1. CASE HandleRegisterManager
      <4>1. Head(backlog).peer \in Pids
        BY <3>1, HeadType DEF HandleRegisterManager, Reading
      <4> QED BY <3>1, <4>1 DEF HandleRegisterManager, TypeOK
    <3> QED BY <1>5, <3>1 DEF ArbiterLoop, TypeOK, HandleCheckPerm, HandleGetLevel,
               HandleSetLevel, HandleAuthorize, HandleUnknown, DropConnection
  <2>4. manager_live' \in BOOLEAN
    <3>1. CASE HandleRegisterManager
      <4>1. Head(backlog).open \in BOOLEAN
        BY <3>1, HeadType DEF HandleRegisterManager, Reading, Connection
      <4> QED BY <3>1, <4>1 DEF HandleRegisterManager, TypeOK
    <3> QED BY <1>5, <3>1 DEF ArbiterLoop, TypeOK, HandleCheckPerm, HandleGetLevel,
               HandleSetLevel, HandleAuthorize, HandleUnknown, DropConnection
  <2>5. up' = up /\ proc' = proc
    BY <1>5 DEF ArbiterLoop, HandleCheckPerm, HandleGetLevel, HandleSetLevel,
       HandleRegisterManager, HandleAuthorize, HandleUnknown, DropConnection
  <2> QED BY <2>1, <2>2, <2>3, <2>4, <2>5 DEF TypeOK
<1>6. CASE Crash
  <2>1. IsTable(EmptyTable)
    BY DEF EmptyTable, IsTable
  <2>2. up' \in BOOLEAN /\ manager_live' \in BOOLEAN
    BY <1>6, Zenon DEF Crash
  <2>3. backlog' \in Seq(Connection)
    BY <1>6 DEF Crash
  <2> QED BY <1>6, <2>1, <2>2, <2>3 DEF Crash, TypeOK, NoAnswer
<1>7. CASE Start
  <2>1. IsTable(InitialTable)
    BY NewCredType DEF InitialTable, IsTable, AnyPid, Level, SELINUX, READONLY,
       BOOTLOADER, Domains
  <2>2. up' \in BOOLEAN
    BY <1>7, Zenon DEF Start
  <2> QED BY <1>7, <2>1, <2>2 DEF Start, TypeOK, NoAnswer
<1>8. CASE UNCHANGED vars
  BY <1>8 DEF vars, TypeOK
<1> QED BY <1>1, <1>2, <1>3, <1>4, <1>5, <1>6, <1>7, <1>8 DEF Next

\* The arbiter's state keeps its type: in particular every record holds a level
\* and a cap that exist (0 to 11), whatever integers the requests carried.
THEOREM TypeCorrect == Spec => []TypeOK
BY TypeInit, TypeStep, PTL DEF Spec

----------------------------------------------------------------------------
(* The table stays within its slots.                                       *)

\* The table has finitely many records.
LEMMA TableFinite ==
  ASSUME NEW t, IsTable(t)
  PROVE  IsFiniteSet(DOMAIN t) /\ ProcCount(t) \in Nat
<1>1. IsFiniteSet(AnyPid)
  <2>1. IsFiniteSet(Pids \cup {ArbiterPid})
    BY PidAssumption, FS_AddElement
  <2>2. IsFiniteSet((Pids \cup {ArbiterPid}) \cup {NoPid})
    BY <2>1, FS_AddElement
  <2>3. AnyPid = (Pids \cup {ArbiterPid}) \cup {NoPid}
    BY DEF AnyPid
  <2> QED BY <2>2, <2>3
<1>2. IsFiniteSet(DOMAIN t)
  BY <1>1, FS_Subset DEF IsTable
<1> QED BY <1>2, FS_CardinalityType DEF ProcCount

\* Registering where CanRegister holds keeps the bound.
LEMMA RegisterBound ==
  ASSUME NEW t, IsTable(t), ProcCount(t) <= MAX_REQUESTS,
         NEW p, CanRegister(t, p), NEW r, DOMAIN r = DOMAIN t \cup {p}
  PROVE  ProcCount(r) <= MAX_REQUESTS
<1>1. IsFiniteSet(DOMAIN t) /\ ProcCount(t) \in Nat
  BY TableFinite
<1>2. CASE p \in DOMAIN t
  <2>1. DOMAIN r = DOMAIN t
    BY <1>2
  <2> QED BY <2>1 DEF ProcCount
<1>3. CASE p \notin DOMAIN t
  <2>1. ProcCount(t) < MAX_REQUESTS
    BY <1>3 DEF CanRegister
  <2>2. ProcCount(r) = ProcCount(t) + 1
    BY <1>1, <1>3, FS_AddElement DEF ProcCount
  <2> QED BY <1>1, <2>1, <2>2, SlotAssumption
<1> QED BY <1>2, <1>3

\* Reaping frees slots and never takes one.
LEMMA ReapedBound ==
  ASSUME TypeOK, TableWithinBound
  PROVE  ProcCount(Reaped) <= MAX_REQUESTS
<1>1. IsFiniteSet(DOMAIN proc_table)
  BY TableFinite DEF TypeOK
<1>2. Cardinality(DOMAIN Reaped) <= Cardinality(DOMAIN proc_table)
  BY <1>1, ReapedTable, FS_Subset
<1>3. ProcCount(Reaped) \in Nat /\ ProcCount(proc_table) \in Nat
  BY ReapedTable, TableFinite DEF TypeOK
<1> QED BY <1>2, <1>3, SlotAssumption DEF ProcCount, TableWithinBound

\* What a handler stores: the reaped table; or, on a permitted SET_LEVEL or
\* AUTHORIZE, the reaped table with one record changed or added.
LEMMA HandledShape ==
  ASSUME TypeOK, ArbiterLoop
  PROVE  \/ proc_table' = proc_table
         \/ proc_table' = Reaped
         \/ /\ HandleSetLevel
            /\ MaySetLevel(Reaped, Head(backlog).msg.pid, Head(backlog).msg.level,
                           Head(backlog).peer)
            /\ proc_table' = RegisterProcess(Reaped, Head(backlog).msg.pid,
                 Head(backlog).msg.level, ContextOf(Head(backlog).msg.pid))
         \/ /\ HandleAuthorize
            /\ MayAuthorize(Reaped, Head(backlog).msg.pid, Head(backlog).msg.level,
                            Head(backlog).peer, manager_pid)
            /\ proc_table' = Authorize(Reaped, Head(backlog).msg.pid,
                 Head(backlog).msg.level, ContextOf(Head(backlog).msg.pid))
<1>1. CASE HandleSetLevel
  BY <1>1 DEF HandleSetLevel
<1>2. CASE HandleAuthorize
  BY <1>2 DEF HandleAuthorize
<1> QED BY <1>1, <1>2 DEF ArbiterLoop, HandleCheckPerm, HandleGetLevel,
           HandleRegisterManager, HandleUnknown, DropConnection

\* The facts about the head request that the two storing handlers use.
LEMMA StoredShape ==
  ASSUME TypeOK, ArbiterLoop, proc_table' # proc_table, proc_table' # Reaped
  PROVE  \E p \in AnyPid, l \in Level :
           /\ backlog # << >>
           /\ p = Head(backlog).msg.pid /\ l = Head(backlog).msg.level
           /\ CanRegister(Reaped, p)
           /\ DOMAIN proc_table' = DOMAIN Reaped \cup {p}
           /\ \A q \in DOMAIN Reaped : q # p => proc_table'[q] = Reaped[q]
           /\ \/ /\ HandleSetLevel
                 /\ Head(backlog).peer = p
                 /\ l > GetProcessLevel(Reaped, p) => MayRise(Reaped, p, l)
                 /\ proc_table'[p].level = l
                 /\ proc_table'[p].user_authorized_cap =
                      IF p \in DOMAIN Reaped THEN Reaped[p].user_authorized_cap
                                             ELSE READONLY
              \/ /\ HandleAuthorize
                 /\ Head(backlog).peer = manager_pid
                 /\ proc_table'[p].level =
                      IF p \in DOMAIN Reaped THEN Reaped[p].level ELSE USER
                 /\ proc_table'[p].user_authorized_cap = l
                 /\ granted' = [granted EXCEPT ![p] = IF @ < l THEN l ELSE @]
<1> DEFINE p == Head(backlog).msg.pid
           l == Head(backlog).msg.level
<1>1. backlog # << >> /\ p \in AnyPid /\ ContextOf(p) \in Domains
  <2>1. HandleSetLevel \/ HandleAuthorize
    BY HandledShape
  <2>2. backlog # << >>
    BY <2>1 DEF HandleSetLevel, HandleAuthorize, Reading
  <2> QED BY <2>2, HeadType, ContextType
<1>2. IsTable(Reaped)
  BY ReapedTable
<1> DEFINE d == ContextOf(p)
<1> HIDE DEF d
<1>d. d \in Domains /\ d = ContextOf(p)
  BY <1>1 DEF d
<1>3. CASE /\ HandleSetLevel
           /\ MaySetLevel(Reaped, p, l, Head(backlog).peer)
           /\ proc_table' = RegisterProcess(Reaped, p, l, d)
  <2>1. l \in Level /\ Head(backlog).peer = p /\ CanRegister(Reaped, p)
    BY <1>3 DEF MaySetLevel
  <2>2. l > GetProcessLevel(Reaped, p) => MayRise(Reaped, p, l)
    BY <1>3 DEF MaySetLevel
  <2> HIDE DEF p, l
  <2>3. LET r == RegisterProcess(Reaped, p, l, d)
        IN  /\ DOMAIN r = DOMAIN Reaped \cup {p}
            /\ r[p].level = l
            /\ r[p].user_authorized_cap =
                 IF p \in DOMAIN Reaped THEN Reaped[p].user_authorized_cap
                                        ELSE READONLY
            /\ \A q \in DOMAIN Reaped : q # p => r[q] = Reaped[q]
    <3>1. PICK t : t = Reaped
      OBVIOUS
    <3>a. IsTable(t)
      BY <1>2, <3>1
    <3>b. p \in AnyPid /\ l \in Level /\ d \in Domains
      BY <1>1, <1>d, <2>1 DEF p
    <3>2. LET r == RegisterProcess(t, p, l, d)
          IN  /\ DOMAIN r = DOMAIN t \cup {p}
              /\ r[p].level = l
              /\ r[p].user_authorized_cap =
                   IF p \in DOMAIN t THEN t[p].user_authorized_cap ELSE READONLY
              /\ \A q \in DOMAIN t : q # p => r[q] = t[q]
      BY <3>a, <3>b DEF RegisterProcess, Store, NewCred, IsTable, ProcCred
    <3> QED BY <3>1, <3>2
  <2>4. p = Head(backlog).msg.pid /\ l = Head(backlog).msg.level
    BY DEF p, l
  <2> QED BY <1>1, <1>3, <2>1, <2>2, <2>3, <2>4
<1>4. CASE /\ HandleAuthorize
           /\ MayAuthorize(Reaped, p, l, Head(backlog).peer, manager_pid)
           /\ proc_table' = Authorize(Reaped, p, l, d)
  <2>1. l \in Level /\ Head(backlog).peer = manager_pid /\ CanRegister(Reaped, p)
    BY <1>4 DEF MayAuthorize
  <2>2. granted' = [granted EXCEPT ![p] = IF @ < l THEN l ELSE @]
    BY <1>4 DEF HandleAuthorize
  <2> HIDE DEF p, l
  <2>3. LET r == Authorize(Reaped, p, l, d)
        IN  /\ DOMAIN r = DOMAIN Reaped \cup {p}
            /\ r[p].user_authorized_cap = l
            /\ r[p].level = IF p \in DOMAIN Reaped THEN Reaped[p].level ELSE USER
            /\ \A q \in DOMAIN Reaped : q # p => r[q] = Reaped[q]
    <3>1. PICK t : t = Reaped
      OBVIOUS
    <3>a. IsTable(t)
      BY <1>2, <3>1
    <3>b. p \in AnyPid /\ l \in Level /\ d \in Domains
      BY <1>1, <1>d, <2>1 DEF p
    <3>2. LET r == Authorize(t, p, l, d)
          IN  /\ DOMAIN r = DOMAIN t \cup {p}
              /\ r[p].user_authorized_cap = l
              /\ r[p].level = IF p \in DOMAIN t THEN t[p].level ELSE USER
              /\ \A q \in DOMAIN t : q # p => r[q] = t[q]
      <4>1. CASE p \in DOMAIN t
        BY <3>a, <3>b, <4>1 DEF Authorize, IsTable, ProcCred
      <4>2. CASE p \notin DOMAIN t
        BY <3>a, <3>b, <4>2 DEF Authorize, RegisterProcess, Store, NewCred,
           IsTable, ProcCred
      <4> QED BY <4>1, <4>2
    <3> QED BY <3>1, <3>2
  <2>4. p = Head(backlog).msg.pid /\ l = Head(backlog).msg.level
    BY DEF p, l
  <2> QED BY <1>1, <1>4, <2>1, <2>2, <2>3, <2>4
<1> QED BY <1>3, <1>4, <1>d, HandledShape

\* A step outside the loop leaves the table as it is, or empties it, or starts
\* it afresh with the arbiter's own record.
LEMMA OutsideLoop ==
  ASSUME [Next]_vars, ~ArbiterLoop
  PROVE  \/ proc_table' = proc_table
         \/ Crash
         \/ Start
BY DEF Next, Spawn, Exit, Connect, Send, vars

\* The tables of a dead and of a new arbiter fit.
LEMMA EmptyBound ==
  /\ ProcCount(EmptyTable) <= MAX_REQUESTS
  /\ ProcCount(InitialTable) <= MAX_REQUESTS
<1>1. DOMAIN EmptyTable = {} /\ DOMAIN InitialTable = {ArbiterPid}
  BY DEF EmptyTable, InitialTable
<1>2. Cardinality({}) = 0 /\ Cardinality({ArbiterPid}) = 1
  BY FS_EmptySet, FS_Singleton
<1> QED BY <1>1, <1>2, SlotAssumption DEF ProcCount

\* No step fills more slots than there are.
LEMMA BoundStep == TypeOK /\ TableWithinBound /\ [Next]_vars => TableWithinBound'
<1> SUFFICES ASSUME TypeOK, TableWithinBound, [Next]_vars
             PROVE  ProcCount(proc_table') <= MAX_REQUESTS
  BY DEF TableWithinBound
<1>1. CASE proc_table' = proc_table
  BY <1>1 DEF TableWithinBound
<1>2. CASE proc_table' = Reaped
  BY <1>2, ReapedBound
<1>3. CASE ArbiterLoop /\ proc_table' # proc_table /\ proc_table' # Reaped
  <2>1. PICK p \in AnyPid : /\ CanRegister(Reaped, p)
                            /\ DOMAIN proc_table' = DOMAIN Reaped \cup {p}
    BY <1>3, StoredShape
  <2>2. IsTable(Reaped) /\ ProcCount(Reaped) <= MAX_REQUESTS
    BY ReapedTable, ReapedBound
  <2> QED BY <2>1, <2>2, RegisterBound
<1>4. CASE Crash \/ Start
  BY <1>4, EmptyBound DEF Crash, Start
<1> QED BY <1>1, <1>2, <1>3, <1>4, OutsideLoop

\* The table never holds more records than slots: the bound of register_process
\* is enough because no other code adds a record.
THEOREM TableBounded == Spec => []TableWithinBound
<1>1. Init => TableWithinBound
  BY EmptyBound DEF Init, TableWithinBound
<1> QED BY <1>1, BoundStep, TypeCorrect, PTL DEF Spec

----------------------------------------------------------------------------
(* Levels and caps are backed by authorisations, when a pid is not reused   *)
(* before the arbiter has forgotten it.  LevelBacked is inductive: the cap  *)
(* half is what makes a permitted rise keep the level half.                 *)

\* Without quick pid reuse, no step leaves a level or a cap unbacked.
LEMMA BackedStep ==
  ASSUME QuickReuse = FALSE
  PROVE  TypeOK /\ LevelBacked /\ [Next]_vars => LevelBacked'
<1> SUFFICES ASSUME TypeOK, LevelBacked, [Next]_vars,
                    NEW q \in DOMAIN proc_table' \ {ArbiterPid}
             PROVE  /\ proc_table'[q].level > USER =>
                         proc_table'[q].level <= granted'[q]
                    /\ proc_table'[q].user_authorized_cap <= granted'[q]
  BY DEF LevelBacked, LevelAuthorised, CapAuthorised
<1> DEFINE Backed(t, g) == /\ t[q].level > USER => t[q].level <= g[q]
                           /\ t[q].user_authorized_cap <= g[q]
<1>0. q \in DOMAIN proc_table => Backed(proc_table, granted)
  BY DEF LevelBacked, LevelAuthorised, CapAuthorised
<1>a. /\ q \in DOMAIN Reaped => q \in DOMAIN proc_table /\ Reaped[q] = proc_table[q]
      /\ IsTable(Reaped)
  BY ReapedTable
<1>b. q \in DOMAIN proc_table => /\ proc_table[q].level \in Int
                                 /\ proc_table[q].user_authorized_cap \in Int
  BY DEF TypeOK, IsTable, ProcCred, Level, READONLY, BOOTLOADER
<1>c. Level \subseteq Int /\ USER = 2 /\ SANDBOX = 1 /\ READONLY = 0
  BY DEF Level, USER, SANDBOX, READONLY, BOOTLOADER
<1>d. granted \in [AnyPid -> Level] /\ granted' \in [AnyPid -> Level]
  BY TypeStep DEF TypeOK
<1>e. q \in AnyPid
  BY TypeStep DEF TypeOK, IsTable
<1>f. granted[q] >= 0 /\ granted[q] \in Int
  BY <1>d, <1>e DEF Level, READONLY, BOOTLOADER
<1>1. CASE ArbiterLoop
  <2>1. CASE proc_table' = proc_table \/ proc_table' = Reaped
    <3>1. q \in DOMAIN proc_table /\ proc_table'[q] = proc_table[q]
      BY <2>1, <1>a
    <3>2. granted'[q] >= granted[q]
      <4>1. CASE HandleAuthorize
        <5>1. PICK x, l : /\ l \in Level
                          /\ \/ granted' = [granted EXCEPT ![x] = IF @ < l THEN l ELSE @]
                             \/ granted' = granted
          BY <4>1, ZeroLevel DEF HandleAuthorize, MayAuthorize
        <5>2. l \in Int
          BY <5>1, <1>c
        <5>3. CASE granted' = granted
          BY <1>f, <5>3
        <5>4. CASE granted' = [granted EXCEPT ![x] = IF @ < l THEN l ELSE @]
          <6>1. granted'[q] = granted[q] \/ granted'[q] = IF granted[q] < l THEN l ELSE granted[q]
            BY <1>d, <1>e, <5>4
          <6> QED BY <1>f, <5>2, <6>1
        <5> QED BY <5>1, <5>3, <5>4
      <4>2. CASE ~HandleAuthorize
        BY <1>1, <1>f, <4>2 DEF ArbiterLoop, HandleCheckPerm, HandleGetLevel,
           HandleSetLevel, HandleRegisterManager, HandleUnknown, DropConnection
      <4> QED BY <4>1, <4>2
    <3>3. granted'[q] \in Int
      BY <1>c, <1>d, <1>e
    <3>4. Backed(proc_table, granted)
      BY <1>0, <3>1
    <3> QED BY <1>b, <1>f, <3>1, <3>2, <3>3, <3>4 DEF USER
  <2>2. CASE proc_table' # proc_table /\ proc_table' # Reaped
    <3>1. PICK p \in AnyPid, l \in Level :
           /\ DOMAIN proc_table' = DOMAIN Reaped \cup {p}
           /\ \A x \in DOMAIN Reaped : x # p => proc_table'[x] = Reaped[x]
           /\ \/ /\ HandleSetLevel
                 /\ l > GetProcessLevel(Reaped, p) => MayRise(Reaped, p, l)
                 /\ proc_table'[p].level = l
                 /\ proc_table'[p].user_authorized_cap =
                      IF p \in DOMAIN Reaped THEN Reaped[p].user_authorized_cap
                                             ELSE READONLY
              \/ /\ HandleAuthorize
                 /\ proc_table'[p].level =
                      IF p \in DOMAIN Reaped THEN Reaped[p].level ELSE USER
                 /\ proc_table'[p].user_authorized_cap = l
                 /\ granted' = [granted EXCEPT ![p] = IF @ < l THEN l ELSE @]
      BY <1>1, <2>2, StoredShape
    <3>2. CASE q # p
      <4>1. q \in DOMAIN proc_table /\ proc_table'[q] = proc_table[q]
        BY <1>a, <3>1, <3>2
      <4>2. granted'[q] = granted[q]
        BY <1>d, <1>e, <3>1, <3>2 DEF HandleSetLevel
      <4> QED BY <1>0, <4>1, <4>2
    <3>3. CASE q = p /\ HandleSetLevel
      <4>1. granted' = granted
        BY <3>3 DEF HandleSetLevel
      <4>2. ~HandleAuthorize
        BY <3>3 DEF HandleSetLevel, HandleAuthorize, Reading
      <4>3. CASE l > GetProcessLevel(Reaped, p)
        <5>1. p \in DOMAIN Reaped /\ l <= Reaped[p].user_authorized_cap
          BY <3>1, <4>2, <4>3 DEF MayRise
        <5>2. /\ q \in DOMAIN proc_table /\ Reaped[q] = proc_table[q]
              /\ proc_table'[q].level = l
              /\ proc_table'[q].user_authorized_cap = proc_table[q].user_authorized_cap
          BY <1>a, <3>1, <3>3, <4>2, <5>1
        <5>3. l <= proc_table[q].user_authorized_cap /\ l \in Int
          BY <1>c, <3>3, <5>1, <5>2
        <5> QED BY <1>0, <1>b, <1>f, <4>1, <5>2, <5>3
      <4>4. CASE ~(l > GetProcessLevel(Reaped, p))
        <5>1. GetProcessLevel(Reaped, p) =
                IF p \in DOMAIN Reaped THEN Reaped[p].level ELSE 1
          BY <1>c DEF GetProcessLevel
        <5>2. proc_table'[q].level = l /\ l \in Int /\ granted'[q] = granted[q]
          BY <1>c, <3>1, <3>3, <4>1, <4>2
        <5>3. CASE p \in DOMAIN Reaped
          <6>1. /\ q \in DOMAIN proc_table /\ Reaped[q] = proc_table[q]
                /\ proc_table'[q].user_authorized_cap = proc_table[q].user_authorized_cap
            BY <1>a, <3>1, <3>3, <4>2, <5>3
          <6>2. l <= proc_table[q].level
            BY <1>b, <3>3, <4>4, <5>1, <5>2, <5>3, <6>1
          <6> QED BY <1>0, <1>b, <1>c, <1>f, <5>2, <6>1, <6>2
        <5>4. CASE p \notin DOMAIN Reaped
          <6>1. proc_table'[q].user_authorized_cap = 0
            BY <1>c, <3>1, <3>3, <4>2, <5>4
          <6>2. l <= 1
            BY <4>4, <5>1, <5>2, <5>4
          <6> QED BY <1>c, <1>f, <5>2, <6>1, <6>2
        <5> QED BY <5>3, <5>4
      <4> QED BY <4>3, <4>4
    <3>4. CASE q = p /\ HandleAuthorize
      <4>1. ~HandleSetLevel
        BY <3>4 DEF HandleSetLevel, HandleAuthorize, Reading
      <4>2. granted'[q] = IF granted[q] < l THEN l ELSE granted[q]
        BY <1>d, <1>e, <3>1, <3>4, <4>1
      <4>3. proc_table'[q].user_authorized_cap = l /\ l \in Int
        BY <1>c, <3>1, <3>4, <4>1
      <4>4. CASE p \in DOMAIN Reaped
        <5>1. q \in DOMAIN proc_table /\ proc_table'[q].level = proc_table[q].level
          BY <1>a, <3>1, <3>4, <4>1, <4>4
        <5> QED BY <1>0, <1>b, <1>c, <1>f, <4>2, <4>3, <5>1
      <4>5. CASE p \notin DOMAIN Reaped
        <5>1. proc_table'[q].level = 2
          BY <1>c, <3>1, <3>4, <4>1, <4>5
        <5> QED BY <1>c, <1>f, <4>2, <4>3, <5>1
      <4> QED BY <4>4, <4>5
    <3> QED BY <3>1, <3>2, <3>3, <3>4
  <2> QED BY <2>1, <2>2
<1>2. ASSUME NEW p \in Pids, Spawn(p)
      PROVE  Backed(proc_table', granted')
  <2>1. p \notin DOMAIN proc_table /\ proc_table' = proc_table
    BY <1>2 DEF Spawn, Forgotten
  <2>2. q # p /\ granted'[q] = granted[q]
    BY <1>2, <1>d, <1>e, <2>1 DEF Spawn
  <2> QED BY <1>0, <2>1, <2>2
<1>3. CASE Crash
  BY <1>3 DEF Crash, EmptyTable
<1>4. CASE Start
  BY <1>4 DEF Start, InitialTable
<1>5. CASE proc_table' = proc_table /\ granted' = granted
  BY <1>0, <1>5
<1>6. CASE \E p \in Pids : Exit(p) \/ Connect(p) \/ Send(p)
  BY <1>5, <1>6 DEF Exit, Connect, Send
<1>7. CASE UNCHANGED vars
  BY <1>5, <1>7 DEF vars
<1> QED BY <1>1, <1>2, <1>3, <1>4, <1>6, <1>7 DEF Next

\* No client ever holds a level above USER, or a cap, that a manager has not
\* authorised for this very process: through deaths, restarts of the arbiter,
\* changes of manager and requests of the dead, as long as the kernel does not
\* hand out a pid the arbiter still remembers.
THEOREM LevelsAreBacked ==
  ASSUME QuickReuse = FALSE
  PROVE  Spec => []LevelBacked
<1>1. Init => LevelBacked
  BY DEF Init, LevelBacked, LevelAuthorised, CapAuthorised, InitialTable
<1> QED BY <1>1, BackedStep, TypeCorrect, PTL DEF Spec

----------------------------------------------------------------------------
(* The manager role.                                                       *)

\* The arbiter's loop leaves the client processes alone.
LEMMA LoopFrame ==
  ASSUME ArbiterLoop
  PROVE  /\ up /\ up' = up /\ proc' = proc
         /\ backlog # << >> /\ backlog' = Tail(backlog)
         /\ ~HandleRegisterManager => UNCHANGED <<manager_pid, manager_live>>
BY DEF ArbiterLoop, HandleCheckPerm, HandleGetLevel, HandleSetLevel,
   HandleRegisterManager, HandleAuthorize, HandleUnknown, DropConnection, Answer,
   Reading

\* What is known of the live manager and of open connections is kept.
LEMMA ManagerStep == TypeOK /\ ManagerInv /\ [Next]_vars => ManagerInv'
<1> SUFFICES ASSUME TypeOK, ManagerInv, [Next]_vars PROVE ManagerInv'
  OBVIOUS
<1>0. \A i \in DOMAIN backlog : backlog[i] \in Connection /\ backlog[i].peer \in Pids
  <2>1. \A i \in DOMAIN backlog : backlog[i] \in Connection
    BY DEF TypeOK
  <2> QED BY <2>1 DEF Connection
<1>1. ASSUME NEW p \in Pids, Spawn(p) PROVE ManagerInv'
  BY <1>0, <1>1, InputAssumption DEF Spawn, ManagerInv, Running, TypeOK, Domains
<1>2. ASSUME NEW p \in Pids, Exit(p) PROVE ManagerInv'
  <2>1. DOMAIN backlog' = DOMAIN backlog
    BY <1>2 DEF Exit
  <2>2. \A i \in DOMAIN backlog' : backlog'[i].open => proc'[backlog'[i].peer] # "none"
    <3> SUFFICES ASSUME NEW i \in DOMAIN backlog', backlog'[i].open
                 PROVE  proc'[backlog'[i].peer] # "none"
      OBVIOUS
    <3>1. CASE backlog[i].peer = p
      BY <1>0, <1>2, <2>1, <3>1 DEF Exit, Connection
    <3>2. CASE backlog[i].peer # p
      <4>1. backlog'[i] = backlog[i]
        BY <1>2, <2>1, <3>2 DEF Exit
      <4>2. Running(backlog[i].peer)
        BY <2>1, <4>1 DEF ManagerInv
      <4> QED BY <1>0, <1>2, <2>1, <3>2, <4>1, <4>2 DEF Exit, Running, TypeOK
    <3> QED BY <3>1, <3>2
  <2>3. manager_live' => manager_pid' \in Pids /\ proc'[manager_pid'] # "none"
    BY <1>2 DEF Exit, ManagerInv, Running, TypeOK
  <2> QED BY <2>2, <2>3 DEF ManagerInv, Running
<1>3. ASSUME NEW p \in Pids, Connect(p) PROVE ManagerInv'
  <2> DEFINE c == [peer |-> p, open |-> TRUE, msg |-> NoRequest]
  <2>1. \A i \in DOMAIN backlog' :
          \/ i \in DOMAIN backlog /\ backlog'[i] = backlog[i]
          \/ backlog'[i] = c
    <3>1. backlog' = Append(backlog, c) /\ backlog \in Seq(Connection)
      BY <1>3 DEF Connect, TypeOK
    <3> HIDE DEF c
    <3> QED BY <3>1
  <2>2. Running(p) /\ proc' = proc /\ UNCHANGED <<manager_pid, manager_live>>
    BY <1>3 DEF Connect
  <2> QED BY <2>1, <2>2 DEF ManagerInv, Running
<1>4. ASSUME NEW p \in Pids, Send(p) PROVE ManagerInv'
  <2>1. PICK k \in DOMAIN backlog, m \in Request :
          backlog' = [backlog EXCEPT ![k].msg = m]
    BY <1>4 DEF Send
  <2>2. \A i \in DOMAIN backlog' : /\ i \in DOMAIN backlog
                                   /\ backlog'[i].peer = backlog[i].peer
                                   /\ backlog'[i].open = backlog[i].open
    BY <1>0, <2>1 DEF Connection
  <2>3. proc' = proc /\ UNCHANGED <<manager_pid, manager_live>>
    BY <1>4 DEF Send
  <2> QED BY <2>2, <2>3 DEF ManagerInv, Running
<1>5. CASE ArbiterLoop
  <2>1. \A i \in DOMAIN backlog' : i + 1 \in DOMAIN backlog /\ backlog'[i] = backlog[i + 1]
    <3>1. backlog \in Seq(Connection) /\ backlog # << >> /\ backlog' = Tail(backlog)
      BY <1>5, LoopFrame DEF TypeOK
    <3> QED BY <3>1
  <2>2. proc' = proc
    BY <1>5, LoopFrame
  <2>3. \A i \in DOMAIN backlog' : backlog'[i].open => proc'[backlog'[i].peer] # "none"
    BY <2>1, <2>2 DEF ManagerInv, Running
  <2>4. manager_live' => manager_pid' \in Pids /\ proc'[manager_pid'] # "none"
    <3>1. CASE HandleRegisterManager
      <4>1. Head(backlog) = backlog[1] /\ 1 \in DOMAIN backlog
        BY <1>5, LoopFrame DEF TypeOK
      <4>2. Head(backlog).open => Running(Head(backlog).peer)
        BY <4>1 DEF ManagerInv
      <4>3. Head(backlog).peer \in Pids
        BY <1>0, <4>1
      <4> QED BY <2>2, <3>1, <4>2, <4>3 DEF HandleRegisterManager, ManagerInv, Running
    <3>2. CASE ~HandleRegisterManager
      BY <1>5, <2>2, <3>2, LoopFrame DEF ManagerInv, Running
    <3> QED BY <3>1, <3>2
  <2> QED BY <2>3, <2>4 DEF ManagerInv, Running
<1>6. CASE Crash
  BY <1>6 DEF Crash, ManagerInv
<1>7. CASE Start
  BY <1>7 DEF Start, ManagerInv, Running
<1>8. CASE UNCHANGED vars
  BY <1>8 DEF vars, ManagerInv, Running
<1> QED BY <1>1, <1>2, <1>3, <1>4, <1>5, <1>6, <1>7, <1>8 DEF Next

\* A live manager is found by its pid, in every state.
LEMMA ManagerInvariant == Spec => []ManagerInv
<1>1. Init => ManagerInv
  BY DEF Init, ManagerInv
<1> QED BY <1>1, ManagerStep, TypeCorrect, PTL DEF Spec

\* A manager that is still running keeps the role until the arbiter dies, with
\* or without reuse of pids: register_manager asks the kernel about the pid, and
\* the pid of a running process is occupied.
THEOREM NoTakeover == Spec => TakeoverOnlyWhenGone
<1>1. TypeOK /\ ManagerInv /\ [Next]_vars
        => [up' /\ manager_live => manager_pid' = manager_pid]_vars
  <2> SUFFICES ASSUME TypeOK, ManagerInv, Next, up', manager_live
               PROVE  manager_pid' = manager_pid
    OBVIOUS
  <2>1. manager_pid \in Pids /\ manager_pid \in Alive
    BY DEF ManagerInv, Alive
  <2>2. CASE HandleRegisterManager
    <3>1. ~MayRegisterManager(manager_pid, Alive)
      BY <2>1, PidAssumption DEF MayRegisterManager
    <3> QED BY <2>2, <3>1 DEF HandleRegisterManager
  <2>3. CASE ArbiterLoop /\ ~HandleRegisterManager
    BY <2>3, LoopFrame
  <2>4. CASE Crash
    BY <2>4 DEF Crash
  <2> QED BY <2>2, <2>3, <2>4 DEF Next, Spawn, Exit, Connect, Send, Start
<1> QED BY <1>1, TypeCorrect, ManagerInvariant, PTL DEF Spec, TakeoverOnlyWhenGone

----------------------------------------------------------------------------
(* Who may change the record of a running process.                         *)

\* The level and the cap of a running process are its own and the manager's to
\* change, for every request the others send and at every point they may die.
THEOREM RecordsProtected == Spec => OnlyOwnerOrManager
<1> DEFINE Protected(p) ==
      /\ LevelOf(p)' # LevelOf(p) =>
           \/ HeadIs("SET_LEVEL", p) /\ Head(backlog).peer = p
           \/ /\ HeadIs("AUTHORIZE", p) /\ Head(backlog).peer = manager_pid
              /\ p \notin DOMAIN proc_table /\ LevelOf(p)' = USER
      /\ CapOf(p)' # CapOf(p) =>
           HeadIs("AUTHORIZE", p) /\ Head(backlog).peer = manager_pid
<1>1. ASSUME TypeOK, Next, NEW p \in Pids, Running(p), up, up'
      PROVE  Protected(p)
  <2>1. CASE proc_table' = proc_table
    BY <2>1 DEF LevelOf, CapOf, GetProcessLevel
  <2>a. /\ p \in DOMAIN Reaped <=> p \in DOMAIN proc_table
        /\ p \in DOMAIN Reaped => Reaped[p] = proc_table[p]
    BY <1>1, ReapedTable DEF Alive
  <2>2. CASE proc_table' = Reaped
    BY <2>2, <2>a DEF LevelOf, CapOf, GetProcessLevel
  <2>3. CASE ArbiterLoop /\ proc_table' # proc_table /\ proc_table' # Reaped
    <3>1. PICK x \in AnyPid, l \in Level :
           /\ backlog # << >>
           /\ x = Head(backlog).msg.pid
           /\ DOMAIN proc_table' = DOMAIN Reaped \cup {x}
           /\ \A q \in DOMAIN Reaped : q # x => proc_table'[q] = Reaped[q]
           /\ \/ /\ HandleSetLevel
                 /\ Head(backlog).peer = x
                 /\ proc_table'[x].user_authorized_cap =
                      IF x \in DOMAIN Reaped THEN Reaped[x].user_authorized_cap
                                             ELSE READONLY
              \/ /\ HandleAuthorize
                 /\ Head(backlog).peer = manager_pid
                 /\ proc_table'[x].level =
                      IF x \in DOMAIN Reaped THEN Reaped[x].level ELSE USER
      BY <1>1, <2>3, StoredShape
    <3>2. CASE p # x
      <4>1. /\ p \in DOMAIN proc_table' <=> p \in DOMAIN proc_table
            /\ p \in DOMAIN proc_table => proc_table'[p] = proc_table[p]
        BY <2>a, <3>1, <3>2
      <4> QED BY <4>1 DEF LevelOf, CapOf, GetProcessLevel
    <3>3. CASE p = x /\ HandleSetLevel
      <4>1. HeadIs("SET_LEVEL", p) /\ ~HandleAuthorize
        BY <3>1, <3>3 DEF HeadIs, HandleSetLevel, HandleAuthorize, Reading
      <4>2. CapOf(p)' = CapOf(p)
        BY <2>a, <3>1, <3>3, <4>1 DEF CapOf
      <4>3. Head(backlog).peer = p
        BY <3>1, <3>3, <4>1
      <4> QED BY <4>1, <4>2, <4>3
    <3>4. CASE p = x /\ HandleAuthorize
      <4>1. HeadIs("AUTHORIZE", p) /\ ~HandleSetLevel
        BY <3>1, <3>4 DEF HeadIs, HandleSetLevel, HandleAuthorize, Reading
      <4>2. Head(backlog).peer = manager_pid
        BY <3>1, <3>4, <4>1
      <4>3. LevelOf(p)' # LevelOf(p) => p \notin DOMAIN proc_table /\ LevelOf(p)' = USER
        BY <2>a, <3>1, <3>4, <4>1 DEF LevelOf, GetProcessLevel
      <4> QED BY <4>1, <4>2, <4>3
    <3> QED BY <3>1, <3>2, <3>3, <3>4
  <2>4. ~Crash /\ ~Start
    BY <1>1 DEF Crash, Start
  <2> QED BY <1>1, <2>1, <2>2, <2>3, <2>4, OutsideLoop
<1>2. TypeOK /\ [Next]_vars
        => [\A p \in Pids : Running(p) /\ Running(p)' /\ up /\ up' =>
              Protected(p)]_vars
  BY <1>1
<1> QED BY <1>2, TypeCorrect, PTL DEF Spec, OnlyOwnerOrManager

----------------------------------------------------------------------------
(* Giving up privilege.                                                    *)

\* A process that lowers its own level, or keeps it, is refused only when it has
\* no record and living processes occupy all the slots: neither its cap, its
\* signature nor the records of dead processes stand in its way.
THEOREM LoweringIsAllowed == Spec => LoweringAllowed
<1> DEFINE Full(p) ==
      /\ p \notin DOMAIN proc_table
      /\ Cardinality({q \in DOMAIN proc_table : q \in Alive}) >= MAX_REQUESTS
<1>1. ASSUME TypeOK, Next, NEW p \in Pids, up, up', HeadIs("SET_LEVEL", p),
             Head(backlog).peer = p, Running(p),
             Head(backlog).msg.level \in READONLY .. LevelOf(p), reply'.status = -1
      PROVE  Full(p)
  <2> DEFINE l == Head(backlog).msg.level
  <2>1. HandleSetLevel
    <3>1. ~NoAnswer
      BY <1>1 DEF NoAnswer, NoReply
    <3>2. ArbiterLoop
      BY <1>1, <3>1 DEF Next, Spawn, Exit, Connect, Send, Crash, Start
    <3> QED BY <1>1, <3>1, <3>2
            DEF ArbiterLoop, HandleCheckPerm, HandleGetLevel, HandleRegisterManager,
                HandleAuthorize, HandleUnknown, DropConnection, Reading, HeadIs
  <2>2. ~MaySetLevel(Reaped, p, l, p)
    BY <1>1, <2>1 DEF HandleSetLevel, HeadIs, Answer
  <2>3. /\ p \in DOMAIN Reaped <=> p \in DOMAIN proc_table
        /\ p \in DOMAIN Reaped => Reaped[p] = proc_table[p]
    BY <1>1, ReapedTable DEF Alive
  <2>4. GetProcessLevel(Reaped, p) = LevelOf(p) /\ LevelOf(p) \in Level
    BY <1>1, <2>3, LevelType DEF LevelOf, GetProcessLevel, TypeOK
  <2>5. l \in Level /\ ~(l > LevelOf(p))
    BY <1>1, <2>4 DEF Level, READONLY, BOOTLOADER
  <2>6. ~CanRegister(Reaped, p)
    BY <2>2, <2>4, <2>5 DEF MaySetLevel
  <2>7. p \notin DOMAIN proc_table /\ ~(ProcCount(Reaped) < MAX_REQUESTS)
    BY <2>3, <2>6 DEF CanRegister
  <2>8. DOMAIN Reaped = {q \in DOMAIN proc_table : q \in Alive}
    BY DEF Reaped, Reap
  <2>9. ProcCount(Reaped) \in Nat
    BY <1>1, ReapedTable, TableFinite, FS_CardinalityType DEF ProcCount
  <2> QED BY <2>7, <2>8, <2>9, SlotAssumption DEF ProcCount
<1>2. TypeOK /\ [Next]_vars
        => [\A p \in Pids :
              /\ up /\ up' /\ HeadIs("SET_LEVEL", p) /\ Head(backlog).peer = p
              /\ Running(p) /\ backlog' = Tail(backlog)
              /\ Head(backlog).msg.level \in READONLY .. LevelOf(p)
              /\ reply'.status = -1
              => Full(p)]_vars
  BY <1>1
<1> QED BY <1>2, TypeCorrect, PTL DEF Spec, LoweringAllowed
=============================================================================
