# ServEcosys / Concept OS in TLA+

This directory is a TLA+ development of the user-space core of ServEcosys: the
daemons under `root project/backend/sub_kernel` and `root project/frontend/ui`,
the shell scripts that start and supervise them, and the guard module of the
kernel. The modules are translated
from the code and checked with TLC on small instances, and every safety property
that holds there is also proved with TLAPS, for every value of the constants. Paths below
are relative to `root project/`.

## 1. The system

At boot, `system/sysinit` runs `system/sed-bootstrap.sh` (the backend security
domain, SED), tests two pidfiles (the security gate), runs
`system/uid-bootstrap.sh` (the UI domain, UID), and leaves `system/supervise.sh`
running. Daemons talk over `AF_UNIX`/`SOCK_SEQPACKET` sockets, one request per
connection, and announce readiness by writing a pidfile.

| Component | State | Operations | Interacts with |
|---|---|---|---|
| `permission_arbiter.c` | `proc_table` (pid, level, domain, signature flags, cap), `manager_pid` | check, get, set level, register manager, authorise; reaping before every request | every client, by socket; the kernel's pid table through `kill(pid, 0)` |
| `system_manager.c` | `running`, console socket, pidfile | register with retries, console commands, signals | arbiter (client), console users (server), supervisor (pidfile) |
| `sysinit`, `*-bootstrap.sh`, `supervise.sh`, `lib.sh` | position in the start list, pidfiles | `start_daemon`, `wait_ready`, gate, pre-authorisation, supervision | all daemons, by fork, pidfile and `kill -0` |
| `input_manager.c` | ring of events, two threads | read devices, enqueue, accept, dequeue, write | kernel devices, UI clients |
| `display_server.c`, `compositor.c` | frame buffer; window list, one connection | fill, clear; create, focus, render | each other, by socket; the boot, by pidfile |
| `system_ui.c` | cached level, notifications, line and history | query level, edit a line, run a command | arbiter |
| `ipc_bus.c` | session table | heartbeat, permission check | SED and UID clients |
| `oipes_client.c` | token and its store | load, save, authenticate, renew | a remote service |
| `hal_manager.c`, `selinux_manager.c` | device list; policy state | scan, report; load, check | kernel |
| `scripts/snapshot.sh`, `scripts/initramfs/init` | snapshots, boot configuration | create, delete, cleanup, roll back, set boot, boot | btrfs, boot |
| `kernel/modules/guard/guard.c` | oops counters, base CRC, switches | notifier, timer, hooks, sysctl | kernel |

What is hard here: daemons and their clients die at any point, and pids are
reused; the arbiter keeps everything in memory and loses it when it restarts;
several instances of a daemon can overlap, sharing a socket path and a pidfile;
start-up waits are bounded while start-up itself may take longer; two threads
share a ring; a server that serves one command per connection meets a client that
keeps its connection; a token expires while the service is away; counters are
kept per window of time in a table that is too small. The list with a source line each is `hazards` in `PROJECT.json`.

`system_manager.c` has four stray lines at file scope (191-194, the remains of an
earlier version of `register_as_manager`), with which it does not compile. The
model is of the file without them.

## 2. Modules

| Module | Models | Kind |
|---|---|---|
| `PermTable` | the table and the decisions of `permission_arbiter.c`, as operators on table values; the embedded SELinux allowlist as far as it decides anything there | operators |
| `Arbiter` | the accept loop and its handlers, clients that connect, send and die, pid reuse, crash and restart | state machine, EXTENDS `PermTable` |
| `ArbiterProofs` | theorems about `Arbiter` | proofs |
| `AuthChain` | instances of `system_manager`, console users, the arbiter's table, the supervisor | composition, EXTENDS `PermTable` |
| `AuthChainProofs` | theorems about `AuthChain` | proofs |
| `Boot` | boot scripts, gate, supervisor, readiness and death of daemons | state machine |
| `BootProofs` | theorems about `Boot` | proofs |
| `InputManager` | both threads of `input_manager.c`, the ring, devices, clients | state machine |
| `EventQueue` | what `input_manager` promises: a bounded FIFO queue | abstract specification |
| `InputProofs` | theorems about `InputManager`, among them that it implements `EventQueue` | proofs |
| `SystemUI` | the terminal of `system_ui.c`: top bar, keys, history, commands, cached level | state machine |
| `LineEditor` | what that terminal promises: a line with a cursor and the lines before it | abstract specification |
| `SystemUIProofs` | theorems about `SystemUI`, among them that it implements `LineEditor` | proofs |
| `Desktop` | `display_server.c` and `compositor.c`: start-up, listener, connections, rendering, clipping | composition |
| `DesktopProofs` | theorems about `Desktop` | proofs |
| `OipesToken` | the access token of `oipes_client.c`, its file and its renewal | state machine |
| `OipesProofs` | theorems about `OipesToken` | proofs |
| `Guard` | oops counters, sentinel check and switches of `guard.c` | state machine |
| `GuardProofs` | theorems about `Guard` | proofs |
| `MC*` | constants for TLC | instances |

**PermTable, Arbiter.** The array `proc_table` is only searched by pid, appended
to after a failed search and compacted, so it is a function from pids to records.
Each request type is one action, the whole body of the loop: read, reap, decide,
answer, close. This is atomic in the program too: one thread, and no other writer
of its memory. Not atomic with it are the processes: connecting, sending, dying
and starting are actions of their own, so a request may be decided after its
sender is gone, with the pid the kernel noted at connect. `granted` and
`manager_live` are history variables that only properties read. Levels keep all
twelve values; requests may carry any integers, negative ones included
(`perm_level_t` is unsigned, so that a negative requirement is a huge one).

Not modelled is the -1 of `get_peer_pid`: `getsockopt(SO_PEERCRED)` does not fail
on a connected local socket.

**AuthChain.** `request_arbiter` is three steps: the request is written (into
`inbox`, in the order of the arbiter's backlog), the arbiter decides it, and the
answer (`reply`) is read. In between the instance may be killed, or its read
interrupted by a signal (`sa_flags` is 0): the arbiter carries the request out all
the same, and the user was told nothing, or that it failed. If the arbiter dies
first, the read fails. That `socket` in `request_arbiter` succeeds is assumed; an
arbiter that is not there is the case of a failing `connect`. Phases of `main`
follow its blocking points: before the console socket, registering, waiting for
the answer to that, registered, serving, waiting for the answer to an AUTHORIZE,
stopping. Files are variables, `console` for the socket behind the path and
`pidfile`. A signal sets `running`; whether it also interrupts `accept` or the
read is a separate step, since one that arrives between the test and the call does
not. A service started from the console holds copies of the sockets (`inherited`)
until it ends. `acked` is a history variable: what a user has read to be in effect
about a process, until the next command about it is sent. `start_daemon` is split
where it waits. `SlowStart` says whether its eight seconds may pass while
registration is possible but slow.

**Boot.** Daemons are known by pidfile only. `late` and `seen` are history
variables. Any daemon in `Missable` may not be installed; `start_daemon` then
returns before `rm -f`, so that a pidfile of an earlier boot stays. `LastScripts`
has the two ways sysinit can end: with the supervisor, or with the console alone,
for `supervise.sh` uses arrays under `#!/bin/sh`, which busybox, the shell that
`scripts/build_disk_image.sh` installs, does not parse. Pids recorded in stale
pidfiles are not reused in this model.

**InputManager, EventQueue.** A critical section under `event_mutex` is one step;
between two of them a thread holds one event (`sev`, `ev`). Coordinates are left
out. Refinement: `offered <- sev`, `taken <- ev`, and `queue` is the slots from
`event_head` to `event_tail` around the end of the array.

**SystemUI, LineEditor.** The line buffer is a function on byte positions, edited
with the `memmove`, `strncpy` and `strtok_r` of the code; it is an uninitialised
local of `main`, so every content is initial, and it keeps the old line below the
next prompt. Each key is one action. The terminal does not block (`VMIN` 0), so
an arrow key may be read in parts and then counts as other bytes: since any key
may follow any other, this adds no behaviour. `stale` is a history variable:
how long the cached level has differed from the arbiter's answer. The clock does
not go back. Notifications are their ids. The mode without a terminal is left out.
Refinement: `text` is the first `len` bytes
while a line is edited, and the string in the buffer when `run_command` gets it.

**Desktop.** A connection is a record in the backlog or with the listener: whose it
is, the messages that wait in it, and whether the client's end is open. The
client's end is `link`. After a close by the server every further write fails with
`EPIPE`; on `SOCK_SEQPACKET` Linux raises no signal, and `send_display_cmd`'s result
is looked at nowhere, so that the compositor goes on. The operators for
connections are marked external. `main` of the server is
split where another process can see a difference: painting, binding, pidfile. A
command is a rectangle, CLEAR the one that is the screen; what does not parse is
`Garbage`. `screen` is a function that `Draw` and `DrawDots` extend to whatever is
written outside the pixels, so that such a write shows in its domain. Colours are
names. Three bytes are written for a pixel of `BPP` bytes, and what reaches into the
next pixel, or behind the line, is `"mixed"`; with fewer than eight bits a pixel
`display_fill_rect` does nothing. The dots of the status bar (`Dots`) are clipped
nowhere, and compared with an unsigned `xres - 10`. The windows are a constant,
since nothing creates or removes one after `init_desktop`.

**OipesToken.** Times are seconds from now, so the state space is finite without
a bound on time. There are two clocks for a token: the client's `left`, set to
`LIFETIME` when the answer is read, whatever `expires_in` says, and the service's
`fresh` (on its way) and `granted` (with the client), set to `GRANT` when the token
is issued. A token's text is left out; which strings are blank is not,
because `fscanf` counts words and `refresh_token` is always blank: in this
program a stored token is never read back. A request takes any time, and ends
with an answer, a malformed one, a failure, or silence, after which the
uninitialised response buffer is searched (it may still hold the last answer, or
not). `wait`, `served` and `reused` are history variables.

**Guard.** The table is an array of records as in the code, since eviction goes
by position. An oops is one step. Switches and the sentinel change at any time;
the timer fires exactly when it is due. `burst` (when a pid oopsed, since its
last alarm or eviction) and `exposed` are history variables. A CRC is taken to
tell all contents of the sentinel apart. A sysctl takes any int; the code tells
`guard_mode` below 1, 1 and above apart, and the other two only from 0, so three
values and two stand for all of them.

## 3. Runs

| Run | What it asks | Result |
|---|---|---|
| `arbiter` | safety of the table under all interleavings of two processes that die and return, and release of every client | holds |
| `arbiter_pid_reuse` | the comment on reaping: no inheritance through a reused pid | violated |
| `authchain` | what users were told stays in effect, only trusted users raise a cap, revocation holds, the gate means authority, users are released, takeover works | holds |
| `authchain_restart` | the chain recovers from any crash of the arbiter | violated |
| `boot` | the gate is real but for a missing authority's old pidfile, no double start unless late, the boot ends | holds |
| `boot_supervise` | dead daemons are started again | violated |
| `input` | the ring is a FIFO queue, no starvation | holds |
| `system_ui` | the buffer is a line editor's line, the command run is the line entered, the history has the lines entered, the cached level is recent | holds |
| `guard` | kills are earned, storms are noticed, eviction takes spent records first, tampering ends in a panic in time | holds |
| `oipes` | the token does not lapse, by the client's clock or the service's, while the service answers; it is replaced after it has lapsed, and an expiry taken from an old response does not last | holds |
| `desktop` | no write outside a screen the start picture fits, exact clipping, a sound readiness signal, nobody waits for ever | holds |
| `desktop_drawn` | the compositor's windows get on the screen | violated |

The violated properties state what a comment of the code says; `findings` in
`PROJECT.json` quotes it. In short: (1) `kill(pid, 0)` at the next request does
not notice that a pid changed hands in between; (2) `system_manager` registers
once, so after a restart of the arbiter it serves users and is refused
everything, while the supervisor sees it alive; (3) `continue` skips the
increment in `supervise_loop`; (4) the display server closes after one command,
so of the compositor's picture only CLEAR is executed.

The models also have smaller behaviours that a comment contradicts, for
which no run is kept: `deauthorize` takes the cap and leaves the level, where the
comment says that the process drops to read-only (`system_manager.c:235`;
`RevocationHolds` is its other half); the gate that is to keep the UI down until
the authorities are up (`uid-bootstrap.sh:22`) opens on the old pidfile of one
that is not installed (`GateIsReal` names the exception); an instance of `system_manager` that gives up unlinks
the console path of the one that runs (`system_manager.c:470`); a typed character
moves up the byte behind the line instead of ending the string, so that the echo
shows remains of the line before (`system_ui.c:464`). Further behaviours of the
models that no property promises anything about: a request whose sender no longer
waits takes effect although its user was told that it failed (the converse of
`AcknowledgedInEffect`); a rectangle whose far edge is negative paints to the edge
of the screen (excluded from `ClipIsExact`); dots outside of a screen with fewer
than 24 lines or 10 columns, and bytes behind a pixel of one or two bytes
(excluded by `Fits`).

**Bounds.** `arbiter`: two client pids and two slots, of which the arbiter itself
takes one: one client is in the table, the other competes for its slot, which
happens only when the first dies; requests about oneself and the other; levels -1,
0 and 8 are out of range, lowering, and rising (8 is the lowest level above
`DEBUG` for which no signature is asked; nothing in the program ever sets a
signature flag). `authchain`: two instances, since all interference is pairwise,
one process to authorise, one trusted user and one other, two registration
attempts instead of thirty (one that fails and one that decides), one fault: a
crash of an instance or of the arbiter, a signal, or a console socket that cannot
be set up. After the one crash that makes a takeover necessary nothing excuses
`TakeoverWorks` any more; after a QUIT, which is no fault, there is one to come.
Behaviours with more faults are covered by the proofs only. `boot`: both
authorities, `selinux_manager`, one more backend daemon and two UI daemons,
`selinux_manager` and `system_manager` installed or not, two deaths (one of a
daemon and one of its successor), every combination of old pidfiles. `input`:
three slots (two events), two devices, two clients: full, empty and wrapped-around
rings all occur. `system_ui`: three bytes (two characters and the end), one letter
and the blank, two lines of history, two levels, two seconds to live: insertion
and deletion before, in and after the text, a full buffer and a full history all
occur. `guard`: three pids for two slots, so that records are evicted; a threshold
of two; windows and timer intervals of two seconds in five seconds, so that
windows end, storms straddle their ends and the timer fires twice. `oipes`: twelve
seconds of life for the client and eleven for the service, renewed nine before the
end, polled every three, answered within two, in the order of the real values
(3600, 60, 30). `desktop`: five by five pixels, two overlapping windows (seven
commands), four bytes to a pixel, a bar of three lines with dots in one of them,
one other client, a backlog of one, two crashes of any kind; rectangles over each
edge, beyond the screen and empty; 256 stands for the 2^32 of an unsigned int. The
run also passes with none, one and two bytes to a pixel. The backlog is full when
a compositor starts again before its old connection was accepted.

**Fairness.** The arbiter's loop and each daemon's main loop are weakly fair: they
are running processes, and no step waits for anything but input. Clients of the
arbiter send right after they connect (`request_arbiter`, `query_level`), so
`Send` is weakly fair; without that a silent client blocks the arbiter for
everybody. Nothing obliges anyone to connect, exit, crash or send a signal. The
shell that boots is weakly fair. In `desktop` the listener and a compositor that
has started are weakly fair, and other clients write or close once they have
connected: one that does neither blocks the listener, as in the arbiter. One that
has written need not close: it is the server that ends its connection. Nobody is
obliged to start anything. In `oipes` the process, the clock and requests (in
whatever way they end) are weakly fair; that the service issues a token and that
an answer arrives are strongly fair: if the client asks again and again, it gets a
token in the end; nobody is obliged to restart a dead process. For
`authchain_restart` the supervisor is given strong fairness on starting what is
dead, more than it has: the chain does not recover even so. For `boot_supervise`
daemons that are started become ready.

## 4. Proofs

Every safety property of the passing runs, invariant or action property, is also
a theorem. A property is not inductive as it stands; each proof module begins
with the parts that were added to it, and `Inv`, their conjunction with the types,
is what every step is shown to preserve, one step of the proof per action. The
theorems then follow from `Invariance` (`Spec => []Inv`). The inductive invariants
were checked with TLC before they were proved.

`ArbiterProofs` (for any finite set of pids, any number of slots, any backlog and
any requests):

- `TypeCorrect`: `Spec => []TypeOK`.
- `TableBounded`: `Spec => []TableWithinBound`. Inductive together with the types;
  the lemmas say what reaping, registering and authorising do to the cardinality
  of the table's domain.
- `LevelsAreBacked`: `Spec => []LevelBacked` under `QuickReuse = FALSE`. A level
  above `USER` is reached only through the cap, so level and cap must be carried
  together, and a table never holds a pid that has been given to another process:
  that is what the assumption provides, and `arbiter_pid_reuse` shows that it is
  needed.
- `NoTakeover`: the action property `TakeoverOnlyWhenGone`, from the inductive
  invariant `ManagerInv`: a manager that still runs is found under its pid, and an
  open connection belongs to a running process.
- `RecordsProtected`: the action property `OnlyOwnerOrManager`.
- `LoweringIsAllowed`: the action property `LoweringAllowed`.

`AuthChainProofs` (for any number of pids, instances, users, commands, crashes
and restarts):

- `TypeCorrect`; `AcknowledgementsHold`: `[]AcknowledgedInEffect`;
  `PidfileNamesManager`: `[]GateMeansAuthority`; and the action properties
  `GrantsAreTrusted` (`OnlyTrustedGrants`) and `RevocationsHold`
  (`RevocationHolds`).
- The invariant has one part for the instances (`RoleHeld`: one beyond registration
  holds the role until the arbiter is restarted; `WrittenAfterwards`: a live process
  in the pidfile is one that has written it), from which the gate follows, since
  only the order of `main` connects the pidfile with the role.
- Another is for the requests and answers on their way: an answer is there for
  someone who waits, and to the last request (`AnswerInTurn`), only the last request
  of an instance is waited for (`OpenIsLast`), which requests an instance can have
  left behind, by where it is, and that they passed the uid gate (`RequestsFit`).
- The third is for the arbiter: a success not read yet is in effect and was given
  to the manager (`AnswerHolds`), and what a user was told is in effect while no
  request of the manager about that process is on its way (`WordHolds`). The last
  clause is the point: requests left behind by an instance that has lost the role
  are refused when they are read, and a manager that left one behind is not asked
  again.
- Every step is one of a few kinds for the wire (`Quiet`, `Sent`, `Read`, `Closed`,
  a decision, a crash), and a lemma for each kind says what becomes of each part.

`BootProofs` (for any lists of daemons, any of them installed, any number of deaths):

- `TypeCorrect`, `RunsOnce` (`SingleInstance`), and `GateNeedsAuthorities`
  (`GateIsReal`), whatever is installed.
- The invariant says which pidfiles can still be old ones (`SedRemovesOld`,
  `WrittenIsSeen`), that what is missing never runs (`MissingNeverRuns`), what cannot be running yet (`NotYetStarted`), and that a daemon
  never given up on has at most one process, which is the one waited for until its
  pidfile names it (`Single`). `SingleInstance` alone is not inductive: respawning
  looks at the pidfile and not at the processes.
- `BootAssumption`: the lists have no entry twice, those of the two bootstrap
  scripts have none in common, and the authorities are in the first. So it is in
  the scripts; with a daemon in both lists `NotYetStarted` would be false.

`InputProofs` (for any ring size, number of devices and codes):

- `TypeCorrect`, and `RingImplementsFifo`: `Spec => ImplementsFifo`. The invariant
  adds to the types that occupied slots hold events. The lemmas `EnqueueAppends`
  and `DequeueRemoves` say what one move of an index does to the sequence of
  waiting events; the arithmetic modulo `MAX_EVENTS` is confined to them.

`SystemUIProofs` (for any sizes of buffer, history and notifications, any
characters and any time to live):

- `TypeCorrect` (in it, that `read_line` stays inside its buffer) and
  `LevelShownIsRecent` (`LevelIsRecent`).
- `EditorRefinement`: `Spec => ImplementsEditor`. The initial states and every key
  and command map to a step of `LineEditor` or to none. The invariant adds that no
  end mark is among the first `len` bytes (`Filled`), which is why the string that
  `run_command` gets is the line that was edited, and that `len` and `pos` are 0
  outside of `read_line` (`AtRest`). The lemmas `InsertedBytes`, `ErasedBytes`,
  `ShownBytes` and `EnteredBytes` translate each movement of bytes into an
  operation on sequences; the buffer appears nowhere else.
- `StaleIsOld` (a value that has been wrong for some time is at least that old)
  is what `LevelIsRecent` needs.

`GuardProofs` (for any number of pids and slots, any threshold, window and interval):

- `TypeCorrect`, `StormsAreNoticed` (`StormIsNoticed`), `PanicIsInTime`
  (`PanicsInTime`), and the action properties `EveryKillIsEarned`
  (`KillsAreEarned`) and `EvictionIsLastResort` (`EvictsSpentFirst`).
- `Layered` relates a record to the times at which its process oopsed: the last
  `count` of them are in the record's window, those before it in earlier ones, and
  all but the last `GUARD_OOPS_THRESH - 1` of these lie more than a window back.
  The bound on a storm that straddles the end of a window is the sum of the two.
  With it go `OneRecord`, `Windows` (an unused slot looks like the oldest one) and
  `Remembered`. `Exposure` relates the timer to the moment of the change.
- The number of recent oopses is the cardinality of a set of positions, so that the
  theorems about finite sets apply; the slot that is evicted is found with the
  well-foundedness of `<` on the natural numbers (lemma `Least`).

`OipesProofs` (for all times that satisfy `TimingAssumption`):

- `TypeCorrect`, `TokenNeverLapses` (`NeverLapses`), `TokenIsHonoured`
  (`HonouredWhileServed`), and `FileIsNeverLoaded`: the file never has the three
  words that `load_token` asks for.
- `Budget` says for each point of `main` what is left of the token at least: the
  life time or the margin less the request under way and the sleep so far. `Transit`
  bounds the age of a token on its way, and `Gap` how far the service's clock is
  behind the client's.
- `TimingAssumption`: `POLL + MaxLatency < MARGIN` and `MARGIN + MaxLatency <=
  LIFETIME`. The second is needed as well: with a shorter life, a token may be
  within its margin, or gone, before it is first looked at. For the service's clock
  `POLL + 2 * MaxLatency + LIFETIME < MARGIN + GRANT`: the margin makes up for the
  sleep, the request that fetched the token, the one that renews it, and for what
  the service grants less than the client assumes. With the real values 30, 60 and
  3600 that is a service that grants an hour and answers in less than 15 seconds.

`DesktopProofs` (for any resolution, pixel and word size, windows, commands, backlog
and number of programs):

- `TypeCorrect`. `NothingBeyondTheScreen`: `[]OnScreen`, nothing is written outside
  the screen if it is large enough for the dots and a pixel has three bytes (`Fits`;
  with the real values at least 10 columns, 24 lines and 24 bits).
  `ClippingIsExact`: the action property `ClipIsExact`.
  `ReadinessIsSound`: the action property `HeadlessOnlyWithoutServer`, from
  `PidfileLast`.
- The comparison of a signed sum with an unsigned resolution is confined to the
  lemma `FarEdgeCut`, the dots to `DotsOnScreen`. `ScreenAssumption`: the coordinates are values of an int, and
  the resolution is less than the number of values of an unsigned int.

Only model-checked: liveness (`EveryClientReleased`, `ConsoleReleases`,
`TakeoverWorks`, `BootCompletes`, `DevicesDrained`, `ClientsServed`,
`EveryoneIsServed`, `Renews`, `ReuseHeals`), since the prover does not do fairness and
`ENABLED`. The four violated properties are refuted by the runs.

## 5. Not modelled, and the plan

1. An abstract specification of authority (who may have which cap) implemented by
   `Arbiter` and `AuthChain`.
2. `Snapshots`: `scripts/snapshot.sh` with `scripts/initramfs/init`, a crash
   between any two btrfs commands, and the boot that follows. What a crash leaves
   depends on btrfs, which has to be specified first.

Left out for good:

- `ipc_bus.c`: a sequential loop that answers each message from its own fields;
  its session table is written and never read, and no program of the repository
  connects to it.
- `hal_manager.c`: scans once, prints and sleeps; `claim_device` is never called.
  `selinux_manager.c`: loads the policy once and pauses until a signal; as a
  daemon that is started it is in `Boot`.
- The LSM hooks of `guard.c`, functions of their arguments and of the switches;
  `ai_inference` in `oipes_client.c` and `remove_window` in `compositor.c`, which
  nothing calls.
- Cryptography (`boot/crypto.c`, `backend/deps/crypto`), byte and number
  arithmetic beyond TLC; `frontend/apps/ssle_packer.c`, build and image scripts,
  sequential file processing; kernel stubs; the client wrapper libraries, except
  where a protocol needs its client; logging and audit files throughout.
