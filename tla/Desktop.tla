------------------------------ MODULE Desktop -------------------------------
(***************************************************************************)
(* frontend/ui/display_server.c and frontend/ui/compositor.c: how a picture *)
(* gets on the screen.                                                     *)
(*                                                                         *)
(* The display server paints its start picture, binds its socket, starts   *)
(* the listener thread and then writes its pidfile.  The listener takes    *)
(* one connection at a time, reads one command, executes it and closes.    *)
(* The compositor connects once, at its start, and writes all its commands *)
(* to that connection.  Other programs connect to send one command.  Both  *)
(* daemons crash and are started again.                                    *)
(*                                                                         *)
(* `running' is never cleared, so the code behind the main loops is left   *)
(* out, and so is remove_window, which nothing calls.                      *)
(***************************************************************************)
EXTENDS Integers, Sequences, FiniteSets

CONSTANTS
  XRES, YRES,   \* the resolution
  WORD,         \* the number of values of an unsigned int (2^32)
  BPP,          \* the whole bytes of a pixel
  BAR,          \* the height of the status bar (32)
  DOT_X, DOT_Y, \* where its dots begin, and how far from its end they stop (10, 8)
  STEP_X, STEP_Y, \* how far apart they are (8, 2)
  TITLE,        \* the height of a window's title (24)
  Geometry,     \* the windows of init_desktop: x, y, width and height
  FOCUS,        \* the id init_desktop passes to set_focus (1)
  MAX_WINDOWS,  \* 64
  BACKLOG,      \* what listen is called with (5)
  Apps,         \* programs that send one command
  Commands,     \* the rectangles they fill
  MaxCrashes    \* bound on the number of crashes

\* The values of an int.
Ints == -(WORD \div 2) .. (WORD \div 2) - 1

ASSUME ScreenAssumption ==
  /\ XRES \in Nat /\ YRES \in Nat /\ WORD \in Nat /\ XRES < WORD /\ YRES < WORD
  /\ BPP \in Nat
  /\ DOT_X \in Nat /\ DOT_Y \in Nat /\ STEP_X \in Nat \ {0} /\ STEP_Y \in Nat \ {0}
  /\ BAR \in Ints /\ TITLE \in Ints
  /\ Geometry \in Seq([x : Ints, y : Ints, w : Ints, h : Ints])
  /\ Len(Geometry) <= MAX_WINDOWS
  /\ \A c \in Commands :
       c.x \in Ints /\ c.y \in Ints /\ c.w \in Ints /\ c.h \in Ints
  /\ BACKLOG \in Nat /\ MaxCrashes \in Nat

VARIABLES
  server,     \* where main of the display server is: "off", "open", "bind",
              \* "pidfile", "sleep"
  sock,       \* its socket: "none", "listening", "failed"
  pidfile,    \* is there a display_server.pid?
  backlog,    \* connections that wait for accept
  serving,    \* the connection that the listener has accepted, or NoConn
  cmd,        \* the command it has read, or NoCmd
  screen,     \* the colour of each pixel, and of what was written beyond them
  compositor, \* where the compositor is: "off", "connect", "render", "headless",
              \* "sleep"
  next,       \* the number of the command it writes next
  link,       \* each client's end of its connection: "none", "up", or "closed" by
              \* the server
  app,        \* what each app does: "new", "write", "done"
  crashes     \* the crashes so far

serverVars == <<server, sock, pidfile>>
wire == <<backlog, serving, cmd, link>>
vars == <<serverVars, wire, screen, compositor, next, app, crashes>>

Clients == {"compositor"} \cup Apps
NoConn == [who |-> "nobody", msgs |-> << >>, open |-> FALSE]
NoCmd == [op |-> "none"]
Garbage == [op |-> "garbage"]     \* what neither strncmp nor sscanf knows
Rect(x, y, w, h, color) ==
  [op |-> "FILL_RECT", x |-> x, y |-> y, w |-> w, h |-> h, color |-> color]
Pixels == (0 .. XRES - 1) \X (0 .. YRES - 1)

----------------------------------------------------------------------------
(* display_fill_rect *)

NearEdge(x) == IF x < 0 THEN 0 ELSE x

\* Mutant of FarEdge: the resolution is the last column, not the one after it.
FarEdgeInclusive(far, res) == IF far % WORD > res THEN res + 1 ELSE far

\* vinfo.xres is unsigned, and so is the comparison: a negative x + w is large.
FarEdge(far, res) == IF far % WORD > res THEN res ELSE far

\* Mutant of Area: the width is counted from the corner that was cut off.
AreaOfCut(c) ==
  (NearEdge(c.x) .. FarEdge(NearEdge(c.x) + c.w, XRES) - 1)
    \X (NearEdge(c.y) .. FarEdge(NearEdge(c.y) + c.h, YRES) - 1)

\* The pixels the loops write to, of the screen or not.
Area(c) ==
  (NearEdge(c.x) .. FarEdge(c.x + c.w, XRES) - 1)
    \X (NearEdge(c.y) .. FarEdge(c.y + c.h, YRES) - 1)

\* Three bytes are written for every pixel.  Where it has fewer they reach into the
\* next ones, and behind the last column into what follows the line.
Behind(col) == col + 1 .. col + 3 - (IF BPP = 0 THEN 1 ELSE BPP)

\* What the last column of the loops spills into; all others are written after it.
Spill(c) ==
  {p \in Behind(FarEdge(c.x + c.w, XRES) - 1)
           \X (NearEdge(c.y) .. FarEdge(c.y + c.h, YRES) - 1) : Area(c) # {}}

Draw(s, c) ==
  IF BPP = 0 THEN s
  ELSE [p \in DOMAIN s \cup Area(c) \cup Spill(c) |->
          IF p \in Area(c) THEN c.color ELSE IF p \in Spill(c) THEN "mixed" ELSE s[p]]

display_clear(color) == Rect(0, 0, XRES, YRES, color)

----------------------------------------------------------------------------
(* render_status_bar *)

StatusBar == Rect(0, 0, XRES, BAR, "bar")

\* The dots that stand for its text: x is compared with an unsigned difference, y
\* with a signed one, and neither with the size of the screen.  Below a byte per
\* pixel all of a line are at its begin.
Dots ==
  {<<IF BPP = 0 THEN 0 ELSE x, y>> :
     x \in {x \in DOT_X .. ((XRES - DOT_X) % WORD) - 1 : (x - DOT_X) % STEP_X = 0},
     y \in {y \in DOT_Y .. BAR - DOT_Y - 1 : (y - DOT_Y) % STEP_Y = 0}}

DotSpill == UNION {Behind(p[1]) \X {p[2]} : p \in Dots}

DrawDots(s) ==
  [p \in DOMAIN s \cup Dots \cup DotSpill |->
     IF p \in Dots THEN "text" ELSE IF p \in DotSpill THEN "mixed" ELSE s[p]]

----------------------------------------------------------------------------
(* init_desktop and render_all_windows *)

\* create_window for each, then set_focus.
windows ==
  [i \in 1 .. Len(Geometry) |->
     [rect |-> Geometry[i], has_focus |-> i - 1 = FOCUS]]

\* Border, title and background of a window.
Frame(win) ==
  LET r == win.rect
  IN  << Rect(r.x - 1, r.y - 1, r.w + 2, r.h + 2,
              IF win.has_focus THEN "focus_border" ELSE "border"),
         Rect(r.x, r.y, r.w, TITLE, "title"),
         Rect(r.x, r.y + TITLE, r.w, r.h - TITLE,
              IF win.has_focus THEN "focus_bg" ELSE "bg") >>

\* What render_all_windows writes, in order.
Rendering ==
  [k \in 1 .. 1 + 3 * Len(windows) |->
     IF k = 1 THEN display_clear("desktop")
     ELSE Frame(windows[((k - 2) \div 3) + 1])[((k - 2) % 3) + 1]]

\* The picture that these commands make.
Picture ==
  LET after[k \in 0 .. Len(Rendering)] ==
        IF k = 0 THEN [p \in Pixels |-> "desktop"]
        ELSE Draw(after[k - 1], Rendering[k])
  IN  after[Len(Rendering)]

Colours == {"before", "desktop", "bar", "text", "mixed", "focus_border", "border", "title",
            "focus_bg", "bg"} \cup {c.color : c \in Commands}
Messages == {Rendering[k] : k \in DOMAIN Rendering} \cup Commands \cup {Garbage}

Connection == [who : Clients, msgs : Seq(Messages), open : BOOLEAN]

TypeOK ==
  /\ server \in {"off", "open", "bind", "pidfile", "sleep"}
  /\ sock \in {"none", "listening", "failed"}
  /\ pidfile \in BOOLEAN
  /\ backlog \in Seq(Connection) /\ Len(backlog) <= BACKLOG + 1
  /\ serving \in Connection \cup {NoConn}
  /\ cmd \in Messages \cup {NoCmd}
  /\ Pixels \subseteq DOMAIN screen /\ screen \in [DOMAIN screen -> Colours]
  /\ compositor \in {"off", "connect", "render", "headless", "sleep"}
  /\ next \in 1 .. Len(Rendering) + 1
  /\ link \in [Clients -> {"none", "up", "closed"}]
  /\ app \in [Apps -> {"new", "write", "done"}]
  /\ crashes \in 0 .. MaxCrashes

Init ==
  /\ server = "off" /\ sock = "none" /\ pidfile = FALSE
  /\ backlog = << >> /\ serving = NoConn /\ cmd = NoCmd
  /\ screen = [p \in Pixels |-> "before"]
  /\ compositor = "off" /\ next = 1
  /\ link = [c \in Clients |-> "none"]
  /\ app = [a \in Apps |-> "new"]
  /\ crashes = 0

----------------------------------------------------------------------------
(* main of the display server *)

\* start_daemon removes the pidfile and runs the program.
StartServer ==
  /\ server = "off"
  /\ server' = "open"
  /\ pidfile' = FALSE
  /\ UNCHANGED <<sock, wire, screen, compositor, next, app, crashes>>

\* No device can be opened.
OpenFails ==
  /\ server = "open"
  /\ server' = "off"
  /\ UNCHANGED <<sock, pidfile, wire, screen, compositor, next, app, crashes>>

\* open_display, display_clear and render_status_bar.
Open ==
  /\ server = "open"
  /\ server' = "bind"
  /\ screen' = DrawDots(Draw(Draw(screen, display_clear("desktop")), StatusBar))
  /\ UNCHANGED <<sock, pidfile, wire, compositor, next, app, crashes>>

\* unlink, socket, bind and listen, and the listener thread.  After a failure it
\* has no socket, and main goes on.
Bind ==
  /\ server = "bind"
  /\ sock' \in {"listening", "failed"}
  /\ server' = "pidfile"
  /\ UNCHANGED <<pidfile, wire, screen, compositor, next, app, crashes>>

\* Mutant of WritePid: the server reports itself ready before it can be reached.
WritePidFirst ==
  /\ server \in {"bind", "pidfile"}
  /\ pidfile' = TRUE
  /\ server' = IF server = "pidfile" THEN "sleep" ELSE server
  /\ UNCHANGED <<sock, wire, screen, compositor, next, app, crashes>>

WritePid ==
  /\ server = "pidfile"
  /\ server' = "sleep"
  /\ pidfile' = TRUE
  /\ UNCHANGED <<sock, wire, screen, compositor, next, app, crashes>>

----------------------------------------------------------------------------
(* ipc_listener *)

Accept ==
  /\ sock = "listening" /\ serving = NoConn /\ backlog # << >>
  /\ serving' = Head(backlog)
  /\ backlog' = Tail(backlog)
  /\ UNCHANGED <<serverVars, cmd, link, screen, compositor, next, app, crashes>>

\* One message; read blocks while there is none and the other end is open.
Read ==
  /\ serving # NoConn /\ cmd = NoCmd
  /\ serving.msgs # << >>
  /\ cmd' = Head(serving.msgs)
  /\ serving' = [serving EXCEPT !.msgs = Tail(@)]
  /\ UNCHANGED <<serverVars, backlog, link, screen, compositor, next, app, crashes>>

\* The other end of a connection sees that it is closed; what was sent and not read
\* is lost.
Cut(l, conn) == IF conn.open THEN [l EXCEPT ![conn.who] = "closed"] ELSE l

\* Mutant of Executed: nobody looks whether sscanf has found everything.
ExecutedUnchecked ==
  Draw(screen, IF cmd = Garbage THEN display_clear("unset") ELSE cmd)

Executed == IF cmd = Garbage THEN screen ELSE Draw(screen, cmd)

\* Mutant of Execute: the listener reads on until the client closes.
ExecuteOn ==
  /\ cmd # NoCmd
  /\ screen' = Executed
  /\ cmd' = NoCmd
  /\ UNCHANGED <<serverVars, backlog, serving, link, compositor, next, app, crashes>>

\* What was read is executed and the connection closed.
Execute ==
  /\ cmd # NoCmd
  /\ screen' = Executed
  /\ cmd' = NoCmd
  /\ link' = Cut(link, serving)
  /\ serving' = NoConn
  /\ UNCHANGED <<serverVars, backlog, compositor, next, app, crashes>>

\* The client has closed, and there is nothing to read.
EndOfFile ==
  /\ serving # NoConn /\ cmd = NoCmd
  /\ serving.msgs = << >> /\ ~serving.open
  /\ serving' = NoConn
  /\ UNCHANGED <<serverVars, backlog, cmd, link, screen, compositor, next, app, crashes>>

----------------------------------------------------------------------------
(* Both ends of a connection, as the kernel keeps them *)

\* connect succeeds, or waits until the backlog has room.
Connected(c) ==
  /\ sock = "listening" /\ Len(backlog) <= BACKLOG
  /\ backlog' = Append(backlog, [who |-> c, msgs |-> << >>, open |-> TRUE])
  /\ link' = [link EXCEPT ![c] = "up"]

IsOf(conn, c) == conn.who = c /\ conn.open

Sent(conn, c, m) ==
  IF IsOf(conn, c) THEN [conn EXCEPT !.msgs = Append(@, m)] ELSE conn

Send(c, m) ==
  /\ backlog' = [i \in DOMAIN backlog |-> Sent(backlog[i], c, m)]
  /\ serving' = Sent(serving, c, m)

Shut(conn, c) == IF IsOf(conn, c) THEN [conn EXCEPT !.open = FALSE] ELSE conn

\* c closes its connection or ends; what it has sent can still be read.
Hangup(c) ==
  /\ backlog' = [i \in DOMAIN backlog |-> Shut(backlog[i], c)]
  /\ serving' = Shut(serving, c)
  /\ link' = [link EXCEPT ![c] = "none"]

----------------------------------------------------------------------------
(* main of the compositor *)

StartCompositor ==
  /\ compositor = "off"
  /\ compositor' = "connect"
  /\ next' = 1
  /\ UNCHANGED <<serverVars, wire, screen, app, crashes>>

Connect ==
  /\ compositor = "connect"
  /\ Connected("compositor")
  /\ compositor' = "render"
  /\ UNCHANGED <<serverVars, serving, cmd, screen, next, app, crashes>>

\* The socket is not there or nobody listens: there is no second attempt.
Refused ==
  /\ compositor = "connect" /\ sock # "listening"
  /\ compositor' = "headless"
  /\ UNCHANGED <<serverVars, wire, screen, next, app, crashes>>

\* send_display_cmd comes to the next command.
AtWrite == compositor = "render" /\ next <= Len(Rendering)

Render ==
  /\ AtWrite /\ link["compositor"] = "up"
  /\ Send("compositor", Rendering[next])
  /\ next' = next + 1
  /\ UNCHANGED <<serverVars, cmd, link, screen, compositor, app, crashes>>

\* A write to a connection that the server has closed fails, on a socket of this
\* type without a signal; nobody looks at that.
RenderLost ==
  /\ AtWrite /\ link["compositor"] = "closed"
  /\ next' = next + 1
  /\ UNCHANGED <<serverVars, wire, screen, compositor, app, crashes>>

\* The pidfile of the compositor, and then it only sleeps.
Settle ==
  /\ compositor = "render" /\ next > Len(Rendering)
  /\ compositor' = "sleep"
  /\ UNCHANGED <<serverVars, wire, screen, next, app, crashes>>

----------------------------------------------------------------------------
(* Other programs, and failures *)

AppConnect(a) ==
  /\ app[a] = "new"
  /\ Connected(a)
  /\ app' = [app EXCEPT ![a] = "write"]
  /\ UNCHANGED <<serverVars, serving, cmd, screen, compositor, next, crashes>>

AppWrite(a) ==
  /\ app[a] = "write" /\ link[a] = "up"
  /\ \E m \in Commands \cup {Garbage} : Send(a, m)
  /\ app' = [app EXCEPT ![a] = "done"]
  /\ UNCHANGED <<serverVars, cmd, link, screen, compositor, next, crashes>>

\* It closes, having written or not.
AppClose(a) ==
  /\ app[a] # "new" /\ link[a] # "none"
  /\ Hangup(a)
  /\ app' = [app EXCEPT ![a] = "done"]
  /\ UNCHANGED <<serverVars, cmd, screen, compositor, next, crashes>>

\* All its connections end; pidfile and screen stay as they are.
CrashServer ==
  /\ server # "off" /\ crashes < MaxCrashes
  /\ crashes' = crashes + 1
  /\ server' = "off" /\ sock' = "none"
  /\ backlog' = << >> /\ serving' = NoConn /\ cmd' = NoCmd
  /\ link' = [c \in Clients |-> IF link[c] = "up" THEN "closed" ELSE link[c]]
  /\ UNCHANGED <<pidfile, screen, compositor, next, app>>

CrashCompositor ==
  /\ compositor # "off" /\ crashes < MaxCrashes
  /\ crashes' = crashes + 1
  /\ compositor' = "off"
  /\ Hangup("compositor")
  /\ UNCHANGED <<serverVars, cmd, screen, next, app>>

Server == StartServer \/ OpenFails \/ Open \/ Bind \/ WritePid
Listener == Accept \/ Read \/ Execute \/ EndOfFile
Compositor ==
  StartCompositor \/ Connect \/ Refused \/ Render \/ RenderLost \/ Settle
App == \E a \in Apps : AppConnect(a) \/ AppWrite(a) \/ AppClose(a)

Next == Server \/ Listener \/ Compositor \/ App \/ CrashServer \/ CrashCompositor

(* The threads run.  A program that has connected writes or closes; when it *)
(* has written it may keep its end open for ever, as the compositor does.   *)
Fairness ==
  /\ WF_vars(Listener)
  /\ WF_vars(Connect \/ Render \/ RenderLost \/ Settle)
  /\ \A a \in Apps : WF_vars(app[a] = "write" /\ (AppWrite(a) \/ AppClose(a)))

Spec == Init /\ [][Next]_vars /\ Fairness

----------------------------------------------------------------------------
(* Properties. *)

\* The readiness signal is sound, through failed starts, crashes and the stale
\* pidfiles they leave: a compositor that is refused by a living server
\* whose pidfile is there was refused because bind or listen had failed.
HeadlessOnlyWithoutServer ==
  [][Refused /\ pidfile /\ server # "off" => sock = "failed"]_vars

\* The screen is large enough for the dots, which are not clipped, and a pixel for
\* the bytes that are written for it.
Fits == BPP >= 3 /\ DOT_X <= XRES /\ BAR - DOT_Y <= YRES

\* Nothing is written outside the screen, whatever rectangles and garbage are sent
\* and however often the server starts, on a screen that the start picture fits.
OnScreen == Fits => DOMAIN screen = Pixels

\* Clipping loses and adds nothing: a command that was read changes exactly the
\* pixels of the screen inside its rectangle, for rectangles that hang out of it
\* on any side, lie beyond it or are empty, provided their far edges are not
\* negative and a pixel has three bytes.
ClipIsExact ==
  [][/\ Execute /\ cmd # Garbage /\ BPP >= 3
     /\ cmd.x + cmd.w >= 0 /\ cmd.y + cmd.h >= 0
     => screen' = [p \in DOMAIN screen |->
          IF /\ p \in Pixels
             /\ cmd.x <= p[1] /\ p[1] < cmd.x + cmd.w
             /\ cmd.y <= p[2] /\ p[2] < cmd.y + cmd.h
            THEN cmd.color ELSE screen[p]]]_vars

\* A client that has connected is served and its connection closed by the server,
\* whoever is ahead of it, although neither the compositor nor a program that has
\* sent its command need ever close their own ends.
EveryoneIsServed ==
  \A c \in Clients : link[c] = "up" ~> link[c] # "up"

\* The compositor has done its work, the server has dealt with all it was sent:
\* the desktop is on the screen.
DesktopIsDrawn ==
  compositor = "sleep" /\ link["compositor"] # "up" => screen = Picture
=============================================================================
