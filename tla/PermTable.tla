----------------------------- MODULE PermTable -----------------------------
(***************************************************************************)
(* The permission table of backend/sub_kernel/permission_arbiter.c and the *)
(* decisions the arbiter takes on it, as operators on table values: a step *)
(* of Arbiter or of AuthChain applies them to its own table.               *)
(*                                                                         *)
(* proc_table is an array of proc_count records that is only ever searched *)
(* by pid, appended to by register_process (after a failed search, so no   *)
(* pid occurs twice) and compacted by reap_dead_processes.  No result      *)
(* depends on the order of the records: a table is the function from the   *)
(* pids it tracks to their records, and proc_count is its cardinality.     *)
(***************************************************************************)
EXTENDS Integers, FiniteSets

CONSTANTS
  Pids,         \* the pids the kernel gives to client processes
  ArbiterPid,   \* the arbiter's own pid
  NoPid,        \* the value -1 (no manager), or any pid that is never alive
  MAX_REQUESTS  \* the number of slots of proc_table

ASSUME PidAssumption ==
  /\ IsFiniteSet(Pids)
  /\ ArbiterPid \notin Pids
  /\ NoPid \notin Pids \cup {ArbiterPid}

\* main registers the arbiter itself before any request: one slot is needed.
ASSUME SlotAssumption == MAX_REQUESTS \in Nat \ {0}

\* perm_level_t
READONLY   == 0
SANDBOX    == 1
USER       == 2
DEBUG      == 3
SELINUX    == 8
BOOTLOADER == 11

Level == READONLY .. BOOTLOADER

AnyPid == Pids \cup {ArbiterPid, NoPid}

\* What the answers of the embedded allowlist can tell apart: the domains that
\* hold "process signal" (sys_dom_t, uid_dom_t) and those that do not.
Domains == {"sys_dom_t", "uid_dom_t", "app_sandbox_t", "oipes_client_t"}

SelinuxAllowsSignal(dom) == dom \in {"sys_dom_t", "uid_dom_t"}

\* proc_cred_t without its key, the pid.
ProcCred ==
  [level: Level, domain: Domains, is_signed: BOOLEAN, is_self_signed: BOOLEAN,
   user_authorized_cap: Level]

IsTable(t) == DOMAIN t \subseteq AnyPid /\ t \in [DOMAIN t -> ProcCred]

ProcCount(t) == Cardinality(DOMAIN t)

\* The table with record c stored under pid p.
Store(t, p, c) == [q \in DOMAIN t \cup {p} |-> IF q = p THEN c ELSE t[q]]

----------------------------------------------------------------------------
\* Mutant of Reap: the records of dead processes are never dropped.
ReapNothing(t, alive) == t

(* reap_dead_processes keeps the records whose pid is occupied: kill(pid, 0) *)
(* succeeds or is refused with EPERM.  It cannot tell one process from a     *)
(* later one with the same pid.                                              *)
Reap(t, alive) == [p \in DOMAIN t \cap alive |-> t[p]]

\* Mutant of CanRegister: the bound check is off by one.
CanRegisterOneMore(t, p) == p \in DOMAIN t \/ ProcCount(t) <= MAX_REQUESTS

(* register_process: a known pid only has its level overwritten, a new one   *)
(* needs a free slot and starts unsigned, with no authorisation, in the      *)
(* domain that dom reports for it (app_sandbox_t when the context of the     *)
(* process cannot be read).                                                  *)
CanRegister(t, p) == p \in DOMAIN t \/ ProcCount(t) < MAX_REQUESTS

NewCred(level, dom) ==
  [level |-> level, domain |-> dom, is_signed |-> FALSE,
   is_self_signed |-> FALSE, user_authorized_cap |-> READONLY]

RegisterProcess(t, p, level, dom) ==
  Store(t, p, IF p \in DOMAIN t THEN [t[p] EXCEPT !.level = level]
                                ELSE NewCred(level, dom))

GetProcessLevel(t, p) == IF p \in DOMAIN t THEN t[p].level ELSE SANDBOX

\* perm_level_t is an unsigned enum: a negative requirement is a huge one.
CheckPermission(t, p, required) ==
  required >= 0 /\ GetProcessLevel(t, p) >= required

IsSignedByOfficial(c) == c.is_signed /\ ~c.is_self_signed

\* Mutant of MayRise: the user's cap is not consulted.
MayRiseUncapped(t, p, new) ==
  /\ p \in DOMAIN t
  /\ DEBUG < new /\ new < SELINUX => IsSignedByOfficial(t[p])
  /\ SelinuxAllowsSignal(t[p].domain)

(* The conditions set_process_level puts on a rise above the current level. *)
MayRise(t, p, new) ==
  /\ p \in DOMAIN t
  /\ new <= t[p].user_authorized_cap
  /\ DEBUG < new /\ new < SELINUX => IsSignedByOfficial(t[p])
  /\ SelinuxAllowsSignal(t[p].domain)

\* Mutant of MaySetLevel: no range check, with a signed level type.
MaySetAnyLevel(t, p, new, peer) ==
  /\ peer = p
  /\ new > GetProcessLevel(t, p) => MayRise(t, p, new)
  /\ CanRegister(t, p)

\* Mutant of MaySetLevel: the caller is not compared with the target.
MaySetAnyone(t, p, new, peer) ==
  /\ new \in Level
  /\ new > GetProcessLevel(t, p) => MayRise(t, p, new)
  /\ CanRegister(t, p)

(* set_process_level succeeds: the level exists, a process only acts on      *)
(* itself, a rise is permitted, and there is a slot to record the level in.  *)
MaySetLevel(t, p, new, peer) ==
  /\ new \in Level
  /\ peer = p
  /\ new > GetProcessLevel(t, p) => MayRise(t, p, new)
  /\ CanRegister(t, p)

(* authorize_process succeeds. *)
MayAuthorize(t, target, cap, peer, manager) ==
  /\ peer = manager
  /\ cap \in Level
  /\ CanRegister(t, target)

(* An unknown target is registered at USER first, whatever the cap. *)
Authorize(t, target, cap, dom) ==
  LET known == IF target \in DOMAIN t
                 THEN t ELSE RegisterProcess(t, target, USER, dom)
  IN  [known EXCEPT ![target].user_authorized_cap = cap]

(* CHECK_PERM and GET_LEVEL answer about oneself, or anyone for the manager. *)
MayQuery(p, peer, manager) == peer = p \/ peer = manager

\* Mutant of MayRegisterManager: the last claimant wins.
MayAlwaysRegister(manager, alive) == TRUE

\* Mutant of MayRegisterManager: the first claimant keeps the role for ever.
MayRegisterOnce(manager, alive) == manager = NoPid

(* register_manager: the first claimant, or anyone once the pid of the       *)
(* previous manager is no longer occupied.                                   *)
MayRegisterManager(manager, alive) == manager = NoPid \/ manager \notin alive

(* main registers the arbiter itself at SELINUX before it listens. *)
EmptyTable == [p \in {} |-> NewCred(SANDBOX, "app_sandbox_t")]

InitialTable == [p \in {ArbiterPid} |-> NewCred(SELINUX, "sys_dom_t")]
=============================================================================
