--------------------------- MODULE DesktopProofs ----------------------------
(***************************************************************************)
(* Proofs about Desktop, for any resolution, pixel and word size, windows, *)
(* commands, backlog and number of programs: nothing is ever written       *)
(* outside a screen that the start picture fits, clipping is exact, and the *)
(* pidfile means that the server can be reached.                           *)
(***************************************************************************)
EXTENDS Desktop, SequenceTheorems, TLAPS

\* The pidfile is there only behind bind and listen, of which one may have failed.
PidfileLast ==
  /\ server \in {"open", "bind", "pidfile"} => ~pidfile
  /\ server \in {"pidfile", "sleep"} => sock # "none"

Inv == TypeOK /\ PidfileLast /\ OnScreen

\* A rectangle that can be drawn: its far edges fit into an unsigned int.
IsRect(c) ==
  /\ c.x \in Int /\ c.y \in Int /\ c.w \in Int /\ c.h \in Int
  /\ c.x + c.w < WORD /\ c.y + c.h < WORD
  /\ c.color \in Colours

----------------------------------------------------------------------------
(* display_fill_rect *)

\* The far edge is cut at the resolution, even where the comparison is unsigned.
LEMMA FarEdgeCut ==
  ASSUME NEW far \in Int, far < WORD, NEW res \in Nat, res < WORD, WORD \in Nat
  PROVE  /\ FarEdge(far, res) \in Int /\ FarEdge(far, res) <= res
         /\ far >= 0 => FarEdge(far, res) = IF far > res THEN res ELSE far
  <1>1. CASE far >= 0
    <2>1. far % WORD = far
      BY <1>1
    <2>. QED  BY <2>1 DEF FarEdge
  <1>2. CASE far < 0
    BY <1>2 DEF FarEdge
  <1>. QED  BY <1>1, <1>2

\* The loops of display_fill_rect stay on the screen.
LEMMA AreaOnScreen ==
  ASSUME NEW c, IsRect(c)
  PROVE  Area(c) \subseteq Pixels
  <1>1. /\ XRES \in Nat /\ YRES \in Nat /\ WORD \in Nat /\ XRES < WORD /\ YRES < WORD
    BY ScreenAssumption
  <1>. DEFINE fx == FarEdge(c.x + c.w, XRES)
              fy == FarEdge(c.y + c.h, YRES)
  <1>2. /\ fx \in Int /\ fx <= XRES
        /\ fy \in Int /\ fy <= YRES
    BY <1>1, FarEdgeCut DEF IsRect
  <1>3. NearEdge(c.x) \in Nat /\ NearEdge(c.y) \in Nat
    BY DEF NearEdge, IsRect
  <1>4. /\ NearEdge(c.x) .. fx - 1 \subseteq 0 .. XRES - 1
        /\ NearEdge(c.y) .. fy - 1 \subseteq 0 .. YRES - 1
    BY <1>1, <1>2, <1>3
  <1>. QED  BY <1>4 DEF Area, Pixels

\* With three bytes to a pixel nothing is spilled.
LEMMA NothingBehind == ASSUME BPP >= 3, NEW col \in Int PROVE Behind(col) = {}
  <1>1. BPP \in Nat /\ BPP # 0
    BY ScreenAssumption
  <1>2. Behind(col) = col + 1 .. col + 3 - BPP
    BY <1>1 DEF Behind
  <1>. QED  BY <1>1, <1>2

LEMMA NoSpill ==
  ASSUME BPP >= 3, NEW c, IsRect(c)
  PROVE  Spill(c) = {}
  <1>0. XRES \in Nat /\ WORD \in Nat /\ XRES < WORD
    BY ScreenAssumption
  <1>1. FarEdge(c.x + c.w, XRES) - 1 \in Int
    <2>1. FarEdge(c.x + c.w, XRES) \in Int
      BY <1>0, FarEdgeCut DEF IsRect
    <2>. QED  BY <2>1
  <1>2. Behind(FarEdge(c.x + c.w, XRES) - 1) = {}
    BY <1>1, NothingBehind
  <1>. QED  BY <1>2 DEF Spill

\* A picture of all pixels, and perhaps of what lies beyond them.
IsScreen(s) == Pixels \subseteq DOMAIN s /\ s \in [DOMAIN s -> Colours]

LEMMA DrawnColours == "mixed" \in Colours /\ "text" \in Colours
  BY DEF Colours

\* Drawing a rectangle leaves a picture, and one of the same pixels unless it spills.
LEMMA DrawOnScreen ==
  ASSUME NEW s, IsScreen(s), NEW c, IsRect(c)
  PROVE  /\ IsScreen(Draw(s, c))
         /\ BPP >= 3 => DOMAIN Draw(s, c) = DOMAIN s
  <1>1. CASE BPP = 0
    BY <1>1, ScreenAssumption DEF Draw
  <1>2. CASE BPP # 0
    <2>1. Draw(s, c) = [p \in DOMAIN s \cup Area(c) \cup Spill(c) |->
            IF p \in Area(c) THEN c.color ELSE IF p \in Spill(c) THEN "mixed" ELSE s[p]]
      BY <1>2 DEF Draw
    <2>2. IsScreen(Draw(s, c))
      BY <2>1, DrawnColours DEF IsScreen, IsRect
    <2>3. ASSUME BPP >= 3 PROVE DOMAIN Draw(s, c) = DOMAIN s
      <3>1. Spill(c) = {} /\ Area(c) \subseteq DOMAIN s
        BY <2>3, NoSpill, AreaOnScreen DEF IsScreen
      <3>. QED  BY <2>1, <3>1
    <2>. QED  BY <2>2, <2>3
  <1>. QED  BY <1>1, <1>2

\* So do the dots, and they are on a screen that is large enough.
LEMMA DotsOnScreen ==
  ASSUME NEW s, IsScreen(s)
  PROVE  /\ IsScreen(DrawDots(s))
         /\ Fits => DOMAIN DrawDots(s) = DOMAIN s
  <1>1. IsScreen(DrawDots(s))
    BY DrawnColours DEF DrawDots, IsScreen
  <1>2. ASSUME Fits PROVE DOMAIN DrawDots(s) = DOMAIN s
    <2>1. /\ XRES \in Nat /\ YRES \in Nat /\ WORD \in Nat /\ XRES < WORD
          /\ DOT_X \in Nat /\ DOT_Y \in Nat /\ BAR \in Int /\ BPP \in Nat
          /\ BPP >= 3 /\ DOT_X <= XRES /\ BAR - DOT_Y <= YRES
      BY <1>2, ScreenAssumption DEF Fits, Ints
    <2>2. (XRES - DOT_X) % WORD = XRES - DOT_X
      BY <2>1
    <2>3. ASSUME NEW d \in Dots PROVE d \in Pixels /\ d[1] \in Int
      <3>1. PICK x \in DOT_X .. ((XRES - DOT_X) % WORD) - 1, y \in DOT_Y .. BAR - DOT_Y - 1 :
              d = <<IF BPP = 0 THEN 0 ELSE x, y>>
        BY <2>3 DEF Dots
      <3>2. d = <<x, y>> /\ x \in 0 .. XRES - 1 /\ y \in 0 .. YRES - 1
        BY <2>1, <2>2, <3>1
      <3>. QED  BY <3>2 DEF Pixels
    <2>4. DotSpill = {}
      <3>1. \A d \in Dots : Behind(d[1]) = {}
        BY <2>1, <2>3, NothingBehind
      <3>. QED  BY <3>1 DEF DotSpill
    <2>5. Dots \subseteq DOMAIN s
      BY <2>3 DEF IsScreen
    <2>. QED  BY <2>4, <2>5 DEF DrawDots
  <1>. QED  BY <1>1, <1>2

----------------------------------------------------------------------------
(* What the display server is sent *)

\* An int is less than half of the values of an unsigned int.
LEMMA IntsFit ==
  ASSUME NEW a \in Ints, NEW b \in Ints
  PROVE  a \in Int /\ b \in Int /\ a + b + 1 < WORD
  BY ScreenAssumption DEF Ints

\* Coordinates and sizes whose far edges fit make a rectangle.
LEMMA RectFits ==
  ASSUME NEW x \in Int, NEW y \in Int, NEW w \in Int, NEW h \in Int, NEW color \in Colours,
         x + w < WORD, y + h < WORD
  PROVE  IsRect(Rect(x, y, w, h, color))
  BY DEF IsRect, Rect

\* The start picture and the status bar are rectangles.
LEMMA StartPicture == IsRect(display_clear("desktop")) /\ IsRect(StatusBar)
  <1>1. BAR \in Int /\ BAR + BAR + 1 < WORD
    BY ScreenAssumption, IntsFit
  <1>2. BAR < WORD
    BY <1>1, ScreenAssumption
  <1>. QED  BY <1>1, <1>2, ScreenAssumption DEF IsRect, display_clear, StatusBar, Rect, Colours

\* The far edges of a border lie one pixel outside of the window, those of its
\* background on those of the window.
LEMMA FrameEdges ==
  ASSUME NEW a \in Int, NEW b \in Int, a + b + 1 < WORD, WORD \in Nat, NEW t \in Int
  PROVE  /\ a - 1 \in Int /\ b + 2 \in Int /\ a + t \in Int /\ b - t \in Int
         /\ (a - 1) + (b + 2) < WORD
         /\ (a + t) + (b - t) < WORD
  OBVIOUS

\* So is all of a window.
LEMMA FrameRects ==
  ASSUME NEW i \in 1 .. Len(Geometry), NEW k \in 1 .. 3
  PROVE  IsRect(Frame(windows[i])[k])
  <1>. DEFINE r == Geometry[i]
  <1>1. r.x \in Ints /\ r.y \in Ints /\ r.w \in Ints /\ r.h \in Ints /\ TITLE \in Ints
    <2>1. r \in [x : Ints, y : Ints, w : Ints, h : Ints]
      BY ScreenAssumption, ElementOfSeq
    <2>. QED  BY <2>1, ScreenAssumption
  <1>2. /\ r.x + r.w + 1 < WORD /\ r.y + r.h + 1 < WORD /\ r.y + TITLE + 1 < WORD
        /\ r.x \in Int /\ r.y \in Int /\ r.w \in Int /\ r.h \in Int /\ TITLE \in Int
    BY <1>1, IntsFit
  <1>3. windows[i].rect = r
    BY DEF windows
  <1>. HIDE DEF r
  <1>. DEFINE edge == IF windows[i].has_focus THEN "focus_border" ELSE "border"
              fill == IF windows[i].has_focus THEN "focus_bg" ELSE "bg"
              border == Rect(r.x - 1, r.y - 1, r.w + 2, r.h + 2, edge)
              title == Rect(r.x, r.y, r.w, TITLE, "title")
              back == Rect(r.x, r.y + TITLE, r.w, r.h - TITLE, fill)
  <1>4. Frame(windows[i]) = <<border, title, back>>
    BY <1>3 DEF Frame
  <1>5. edge \in Colours /\ fill \in Colours /\ "title" \in Colours
    BY DEF Colours
  <1>w. WORD \in Nat
    BY ScreenAssumption
  <1>. HIDE DEF edge, fill
  <1>6. IsRect(border)
    <2>1. /\ r.x - 1 \in Int /\ r.y - 1 \in Int /\ r.w + 2 \in Int /\ r.h + 2 \in Int
          /\ (r.x - 1) + (r.w + 2) < WORD /\ (r.y - 1) + (r.h + 2) < WORD
      BY <1>2, <1>w, FrameEdges
    <2>. QED  BY <1>5, <2>1, RectFits
  <1>7. IsRect(title)
    <2>1. r.x + r.w < WORD /\ r.y + TITLE < WORD
      BY <1>2, <1>w
    <2>. QED  BY <1>2, <1>5, <2>1, RectFits
  <1>8. IsRect(back)
    <2>1. /\ r.y + TITLE \in Int /\ r.h - TITLE \in Int
          /\ (r.y + TITLE) + (r.h - TITLE) < WORD
      BY <1>2, <1>w, FrameEdges
    <2>2. r.x + r.w < WORD
      BY <1>2, <1>w
    <2>. QED  BY <1>2, <1>5, <2>1, <2>2, RectFits
  <1>. HIDE DEF border, title, back
  <1>9. \/ k = 1 /\ Frame(windows[i])[k] = border
        \/ k = 2 /\ Frame(windows[i])[k] = title
        \/ k = 3 /\ Frame(windows[i])[k] = back
    BY <1>4
  <1>. QED  BY <1>6, <1>7, <1>8, <1>9

\* What render_all_windows writes: a first rectangle and three for each window.
LEMMA RenderingRects ==
  /\ Len(Rendering) \in Nat \ {0}
  /\ DOMAIN Rendering = 1 .. Len(Rendering)
  /\ \A k \in DOMAIN Rendering : IsRect(Rendering[k])
  <1>. DEFINE n == Len(Geometry)
  <1>1. n \in Nat /\ Len(windows) = n
    BY ScreenAssumption, LenProperties DEF windows
  <1>2. /\ DOMAIN Rendering = 1 .. 1 + 3 * n
        /\ Len(Rendering) = 1 + 3 * n
    BY <1>1 DEF Rendering
  <1>3. ASSUME NEW k \in 1 .. 1 + 3 * n PROVE IsRect(Rendering[k])
    <2>1. CASE k = 1
      BY <1>1, <2>1, StartPicture DEF Rendering
    <2>2. CASE k # 1
      <3>1. /\ ((k - 2) \div 3) + 1 \in 1 .. n
            /\ ((k - 2) % 3) + 1 \in 1 .. 3
        BY <1>1, <2>2
      <3>2. Rendering[k] = Frame(windows[((k - 2) \div 3) + 1])[((k - 2) % 3) + 1]
        BY <1>1, <2>2 DEF Rendering
      <3>. QED  BY <3>1, <3>2, FrameRects
    <2>. QED  BY <2>1, <2>2
  <1>. QED  BY <1>1, <1>2, <1>3

\* A message is a rectangle or not understood.
LEMMA MessageRects == \A m \in Messages : m = Garbage \/ IsRect(m)
  <1>. SUFFICES ASSUME NEW m \in Messages, m # Garbage PROVE IsRect(m)
    OBVIOUS
  <1>1. CASE m \in {Rendering[k] : k \in DOMAIN Rendering}
    BY <1>1, RenderingRects
  <1>2. CASE m \in Commands
    <2>1. m.x \in Ints /\ m.y \in Ints /\ m.w \in Ints /\ m.h \in Ints /\ WORD \in Nat
      BY <1>2, ScreenAssumption
    <2>2. /\ m.x \in Int /\ m.y \in Int /\ m.w \in Int /\ m.h \in Int
          /\ m.x + m.w + 1 < WORD /\ m.y + m.h + 1 < WORD
      BY <2>1, IntsFit
    <2>3. m.color \in Colours
      BY <1>2 DEF Colours
    <2>. QED  BY <2>1, <2>2, <2>3 DEF IsRect
  <1>. QED  BY <1>1, <1>2 DEF Messages
----------------------------------------------------------------------------
(* Connections *)

\* A connection that is written to, or closed, is one.
LEMMA ConnectionKept ==
  ASSUME NEW conn \in Connection \cup {NoConn}, NEW c \in Clients
  PROVE  /\ \A m \in Messages : /\ Sent(conn, c, m) \in Connection \cup {NoConn}
                                /\ conn \in Connection => Sent(conn, c, m) \in Connection
         /\ Shut(conn, c) \in Connection \cup {NoConn}
         /\ conn \in Connection => Shut(conn, c) \in Connection
  <1>1. CASE IsOf(conn, c)
    <2>1. conn \in Connection
      <3>1. NoConn.open = FALSE
        BY DEF NoConn
      <3>2. conn # NoConn
        BY <1>1, <3>1 DEF IsOf
      <3>. QED  BY <3>2
    <2>2. ASSUME NEW m \in Messages PROVE Sent(conn, c, m) \in Connection
      <3>1. conn.msgs \in Seq(Messages)
        BY <2>1 DEF Connection
      <3>2. Append(conn.msgs, m) \in Seq(Messages)
        BY <3>1, AppendProperties
      <3>. QED  BY <1>1, <2>1, <3>2 DEF Sent, Connection
    <2>3. Shut(conn, c) \in Connection
      <3>1. Shut(conn, c) = [conn EXCEPT !.open = FALSE]
        BY <1>1 DEF Shut
      <3>2. FALSE \in BOOLEAN
        OBVIOUS
      <3>. QED  BY <2>1, <3>1, <3>2, Zenon DEF Connection
    <2>. QED  BY <2>1, <2>2, <2>3
  <1>2. CASE ~IsOf(conn, c)
    BY <1>2 DEF Sent, Shut
  <1>. QED  BY <1>1, <1>2

----------------------------------------------------------------------------
(* The invariant *)

\* The parts of TypeOK: the display server, the wire, the screen and the clients.
ServerType ==
  /\ server \in {"off", "open", "bind", "pidfile", "sleep"}
  /\ sock \in {"none", "listening", "failed"}
  /\ pidfile \in BOOLEAN
WireType ==
  /\ backlog \in Seq(Connection) /\ Len(backlog) <= BACKLOG + 1
  /\ serving \in Connection \cup {NoConn}
  /\ cmd \in Messages \cup {NoCmd}
  /\ link \in [Clients -> {"none", "up", "closed"}]
ScreenType == IsScreen(screen)
ClientType ==
  /\ compositor \in {"off", "connect", "render", "headless", "sleep"}
  /\ next \in 1 .. Len(Rendering) + 1
  /\ app \in [Apps -> {"new", "write", "done"}]
  /\ crashes \in 0 .. MaxCrashes

\* TypeOK is its parts, before and after a step.
LEMMA TypeParts ==
  /\ TypeOK <=> ServerType /\ WireType /\ ScreenType /\ ClientType
  /\ TypeOK' <=> ServerType' /\ WireType' /\ ScreenType' /\ ClientType'
  BY Zenon DEF TypeOK, ServerType, WireType, ScreenType, IsScreen, ClientType

\* Inv holds before anything is started.
LEMMA InvInit == Init => Inv
  <1>. SUFFICES ASSUME Init PROVE Inv
    OBVIOUS
  <1>1. ServerType
    BY Zenon DEF Init, ServerType
  <1>2. WireType
    BY ScreenAssumption, EmptySeq DEF Init, WireType
  <1>3. ScreenType /\ OnScreen
    BY DEF Init, ScreenType, IsScreen, OnScreen, Colours
  <1>4. ClientType
    BY ScreenAssumption, RenderingRects DEF Init, ClientType
  <1>5. PidfileLast
    BY DEF Init, PidfileLast
  <1>. QED  BY <1>1, <1>2, <1>3, <1>4, <1>5, TypeParts DEF Inv

\* A connection that is made fits into the backlog.
LEMMA ConnectedKeeps ==
  ASSUME WireType, NEW c \in Clients, Connected(c), UNCHANGED <<serving, cmd>>
  PROVE  WireType'
  <1>. DEFINE conn == [who |-> c, msgs |-> << >>, open |-> TRUE]
  <1>1. conn \in Connection
    <2>1. << >> \in Seq(Messages) /\ TRUE \in BOOLEAN
      BY EmptySeq
    <2>. QED  BY <2>1, Zenon DEF Connection
  <1>. HIDE DEF conn
  <1>2. backlog' = Append(backlog, conn) /\ Len(backlog) <= BACKLOG
    BY DEF Connected, conn
  <1>3. backlog' \in Seq(Connection) /\ Len(backlog') = Len(backlog) + 1
    BY <1>1, <1>2, AppendProperties DEF WireType
  <1>4. Len(backlog') <= BACKLOG + 1
    BY <1>2, <1>3, ScreenAssumption, LenProperties DEF WireType
  <1>5. link' \in [Clients -> {"none", "up", "closed"}]
    BY DEF Connected, WireType
  <1>. QED  BY <1>3, <1>4, <1>5 DEF WireType

\* Writing to a connection leaves the wire well formed.
LEMMA SendKeeps ==
  ASSUME WireType, NEW c \in Clients, NEW m \in Messages, Send(c, m), UNCHANGED <<cmd, link>>
  PROVE  WireType'
  <1>1. \A i \in DOMAIN backlog : Sent(backlog[i], c, m) \in Connection
    <2>. SUFFICES ASSUME NEW i \in DOMAIN backlog PROVE Sent(backlog[i], c, m) \in Connection
      OBVIOUS
    <2>1. backlog[i] \in Connection
      BY LenProperties DEF WireType
    <2>. QED  BY <2>1, ConnectionKept
  <1>2. backlog' = [i \in DOMAIN backlog |-> Sent(backlog[i], c, m)]
    BY DEF Send
  <1>3. Len(backlog) \in Nat /\ DOMAIN backlog = 1 .. Len(backlog)
    BY LenProperties DEF WireType
  <1>4. backlog' \in Seq(Connection) /\ Len(backlog') = Len(backlog)
    BY <1>1, <1>2, <1>3
  <1>5. serving' \in Connection \cup {NoConn}
    BY ConnectionKept DEF WireType, Send
  <1>. QED  BY <1>4, <1>5 DEF WireType

\* So does closing it.
LEMMA HangupKeeps ==
  ASSUME WireType, NEW c \in Clients, Hangup(c), UNCHANGED cmd
  PROVE  WireType'
  <1>1. \A i \in DOMAIN backlog : Shut(backlog[i], c) \in Connection
    <2>. SUFFICES ASSUME NEW i \in DOMAIN backlog PROVE Shut(backlog[i], c) \in Connection
      OBVIOUS
    <2>1. backlog[i] \in Connection
      BY LenProperties DEF WireType
    <2>. QED  BY <2>1, ConnectionKept
  <1>2. backlog' = [i \in DOMAIN backlog |-> Shut(backlog[i], c)]
    BY DEF Hangup
  <1>3. Len(backlog) \in Nat /\ DOMAIN backlog = 1 .. Len(backlog)
    BY LenProperties DEF WireType
  <1>4. backlog' \in Seq(Connection) /\ Len(backlog') = Len(backlog)
    BY <1>1, <1>2, <1>3
  <1>5. serving' \in Connection \cup {NoConn}
    BY ConnectionKept DEF WireType, Hangup
  <1>6. link' \in [Clients -> {"none", "up", "closed"}]
    BY DEF Hangup, WireType
  <1>. QED  BY <1>4, <1>5, <1>6 DEF WireType

\* The other end of a connection that is closed is known to its client.
LEMMA CutKeeps ==
  ASSUME WireType
  PROVE  Cut(link, serving) \in [Clients -> {"none", "up", "closed"}]
  BY DEF Cut, WireType
\* Every step of the display server keeps Inv.
LEMMA ServerStep == ASSUME Inv, Server PROVE Inv'
  <1>0. ServerType /\ WireType /\ ScreenType /\ ClientType
    BY TypeParts DEF Inv
  <1>1. WireType' /\ ClientType'
    BY <1>0 DEF Server, StartServer, OpenFails, Open, Bind, WritePid, WireType, ClientType, wire
  <1>2. ServerType'
    BY <1>0, Zenon DEF Server, StartServer, OpenFails, Open, Bind, WritePid, ServerType
  <1>3. ScreenType' /\ OnScreen'
    <2>1. CASE Open
      <3>. DEFINE one == Draw(screen, display_clear("desktop"))
                  two == Draw(one, StatusBar)
      <3>1. IsScreen(one) /\ (BPP >= 3 => DOMAIN one = DOMAIN screen)
        BY <1>0, StartPicture, DrawOnScreen DEF ScreenType
      <3>. HIDE DEF one
      <3>2. IsScreen(two) /\ (BPP >= 3 => DOMAIN two = DOMAIN one)
        BY <3>1, StartPicture, DrawOnScreen
      <3>. HIDE DEF two
      <3>3. IsScreen(DrawDots(two)) /\ (Fits => DOMAIN DrawDots(two) = DOMAIN two)
        BY <3>2, DotsOnScreen
      <3>4. screen' = DrawDots(two)
        BY <2>1 DEF Open, one, two
      <3>. QED  BY <3>1, <3>2, <3>3, <3>4 DEF ScreenType, Inv, OnScreen, Fits
    <2>2. CASE ~Open
      BY <1>0, <2>2 DEF Server, StartServer, OpenFails, Bind, WritePid, ScreenType, Inv,
                       OnScreen
    <2>. QED  BY <2>1, <2>2
  <1>4. PidfileLast'
    <2>1. CASE StartServer
      BY <2>1 DEF StartServer, PidfileLast
    <2>2. CASE OpenFails
      BY <2>2 DEF OpenFails, PidfileLast
    <2>3. CASE Open
      BY <2>3 DEF Open, PidfileLast, Inv
    <2>4. CASE Bind
      BY <2>4 DEF Bind, PidfileLast, Inv
    <2>5. CASE WritePid
      BY <2>5 DEF WritePid, PidfileLast, Inv
    <2>. QED  BY <2>1, <2>2, <2>3, <2>4, <2>5 DEF Server
  <1>. QED  BY <1>1, <1>2, <1>3, <1>4, TypeParts DEF Inv

\* Every step of the listener keeps Inv.
LEMMA ListenerStep == ASSUME Inv, Listener PROVE Inv'
  <1>0. ServerType /\ WireType /\ ScreenType /\ ClientType
    BY TypeParts DEF Inv
  <1>1. ServerType' /\ ClientType' /\ PidfileLast'
    BY <1>0 DEF Listener, Accept, Read, Execute, EndOfFile, serverVars, ServerType,
                ClientType, Inv, PidfileLast
  <1>2. ScreenType' /\ OnScreen' /\ WireType'
    <2>1. CASE Accept
      <3>1. backlog \in Seq(Connection) /\ backlog # << >>
        BY <1>0, <2>1 DEF Accept, WireType
      <3>2. /\ Head(backlog) \in Connection
            /\ Tail(backlog) \in Seq(Connection) /\ Len(Tail(backlog)) = Len(backlog) - 1
            /\ Len(backlog) \in Nat
        BY <3>1, HeadTailProperties, LenProperties
      <3>3. backlog' \in Seq(Connection) /\ Len(backlog') <= BACKLOG + 1
        BY <1>0, <2>1, <3>2, ScreenAssumption DEF Accept, WireType
      <3>. QED  BY <1>0, <2>1, <3>2, <3>3 DEF Accept, WireType, ScreenType, Inv, OnScreen
    <2>2. CASE Read
      <3>1. serving \in Connection
        BY <1>0, <2>2 DEF Read, WireType
      <3>2. serving.msgs \in Seq(Messages) /\ serving.msgs # << >>
        BY <2>2, <3>1 DEF Read, Connection
      <3>3. Head(serving.msgs) \in Messages /\ Tail(serving.msgs) \in Seq(Messages)
        BY <3>2, HeadTailProperties
      <3>4. serving' \in Connection
        BY <2>2, <3>1, <3>3 DEF Read, Connection
      <3>. QED  BY <1>0, <2>2, <3>3, <3>4 DEF Read, WireType, ScreenType, Inv, OnScreen
    <2>3. CASE Execute
      <3>1. cmd \in Messages
        BY <1>0, <2>3 DEF Execute, WireType
      <3>2. cmd = Garbage \/ IsRect(cmd)
        BY <3>1, MessageRects
      <3>3. ScreenType' /\ OnScreen'
        <4>1. CASE cmd = Garbage
          BY <1>0, <2>3, <4>1 DEF Execute, Executed, ScreenType, Inv, OnScreen
        <4>2. CASE cmd # Garbage
          <5>1. /\ IsScreen(Draw(screen, cmd))
                /\ BPP >= 3 => DOMAIN Draw(screen, cmd) = DOMAIN screen
            BY <1>0, <3>2, <4>2, DrawOnScreen DEF ScreenType
          <5>2. screen' = Draw(screen, cmd)
            BY <2>3, <4>2 DEF Execute, Executed
          <5>. QED  BY <5>1, <5>2 DEF ScreenType, Inv, OnScreen, Fits
        <4>. QED  BY <4>1, <4>2
      <3>4. link' \in [Clients -> {"none", "up", "closed"}]
        BY <1>0, <2>3, CutKeeps DEF Execute
      <3>. QED  BY <1>0, <2>3, <3>3, <3>4 DEF Execute, WireType
    <2>4. CASE EndOfFile
      BY <1>0, <2>4 DEF EndOfFile, WireType, ScreenType, Inv, OnScreen
    <2>. QED  BY <2>1, <2>2, <2>3, <2>4 DEF Listener
  <1>. QED  BY <1>1, <1>2, TypeParts DEF Inv

\* Every step of the compositor keeps Inv.
LEMMA CompositorStep == ASSUME Inv, Compositor PROVE Inv'
  <1>0. ServerType /\ WireType /\ ScreenType /\ ClientType
    BY TypeParts DEF Inv
  <1>1. ServerType' /\ ScreenType' /\ PidfileLast' /\ OnScreen'
    BY <1>0 DEF Compositor, StartCompositor, Connect, Refused, Render, RenderLost, Settle,
                serverVars, ServerType, ScreenType, Inv, PidfileLast, OnScreen
  <1>2. Len(Rendering) \in Nat \ {0} /\ "compositor" \in Clients
    BY RenderingRects DEF Clients
  <1>3. ClientType'
    BY <1>0, <1>2 DEF Compositor, StartCompositor, Connect, Refused, Render, RenderLost,
                      AtWrite, Settle, ClientType
  <1>4. WireType'
    <2>1. CASE Connect
      BY <1>0, <1>2, <2>1, ConnectedKeeps DEF Connect
    <2>2. CASE Render
      <3>1. next \in DOMAIN Rendering
        BY <1>0, <1>2, <2>2, RenderingRects DEF Render, AtWrite, ClientType
      <3>2. Rendering[next] \in Messages
        BY <3>1 DEF Messages
      <3>. QED  BY <1>0, <1>2, <2>2, <3>2, SendKeeps DEF Render
    <2>3. CASE StartCompositor \/ Refused \/ RenderLost \/ Settle
      BY <1>0, <2>3 DEF StartCompositor, Refused, RenderLost, Settle, wire, WireType
    <2>. QED  BY <2>1, <2>2, <2>3 DEF Compositor
  <1>. QED  BY <1>1, <1>3, <1>4, TypeParts DEF Inv

\* Every step of another program keeps Inv.
LEMMA AppStep ==
  ASSUME Inv, NEW a \in Apps, AppConnect(a) \/ AppWrite(a) \/ AppClose(a)
  PROVE  Inv'
  <1>0. ServerType /\ WireType /\ ScreenType /\ ClientType
    BY TypeParts DEF Inv
  <1>1. ServerType' /\ ScreenType' /\ PidfileLast' /\ OnScreen'
    BY <1>0 DEF AppConnect, AppWrite, AppClose, serverVars, ServerType, ScreenType, Inv,
                PidfileLast, OnScreen
  <1>2. ClientType'
    BY <1>0 DEF AppConnect, AppWrite, AppClose, ClientType
  <1>3. a \in Clients
    BY DEF Clients
  <1>4. WireType'
    <2>1. CASE AppConnect(a)
      BY <1>0, <1>3, <2>1, ConnectedKeeps DEF AppConnect
    <2>2. CASE AppWrite(a)
      <3>1. PICK m \in Commands \cup {Garbage} : Send(a, m)
        BY <2>2 DEF AppWrite
      <3>2. m \in Messages
        BY DEF Messages
      <3>. QED  BY <1>0, <1>3, <2>2, <3>1, <3>2, SendKeeps DEF AppWrite
    <2>3. CASE AppClose(a)
      BY <1>0, <1>3, <2>3, HangupKeeps DEF AppClose
    <2>. QED  BY <2>1, <2>2, <2>3
  <1>. QED  BY <1>1, <1>2, <1>4, TypeParts DEF Inv

\* Every step, a crash included, keeps Inv.
LEMMA InvStep == Inv /\ [Next]_vars => Inv'
  <1>. SUFFICES ASSUME Inv, [Next]_vars PROVE Inv'
    OBVIOUS
  <1>0. ServerType /\ WireType /\ ScreenType /\ ClientType
    BY TypeParts DEF Inv
  <1>1. CASE CrashServer
    <2>1. ServerType'
      BY <1>0, <1>1 DEF CrashServer, ServerType
    <2>2. ScreenType' /\ ClientType' /\ OnScreen'
      BY <1>0, <1>1, ScreenAssumption DEF CrashServer, ScreenType, ClientType, Inv, OnScreen
    <2>3. PidfileLast'
      BY <1>1 DEF CrashServer, PidfileLast
    <2>4. WireType'
      <3>1. link' \in [Clients -> {"none", "up", "closed"}]
        BY <1>0, <1>1 DEF CrashServer, WireType
      <3>2. backlog' \in Seq(Connection) /\ Len(backlog') <= BACKLOG + 1
        BY <1>1, ScreenAssumption, EmptySeq DEF CrashServer
      <3>. QED  BY <1>1, <3>1, <3>2 DEF CrashServer, WireType
    <2>. QED  BY <2>1, <2>2, <2>3, <2>4, TypeParts DEF Inv
  <1>2. CASE CrashCompositor
    <2>1. ServerType' /\ ScreenType' /\ PidfileLast' /\ OnScreen'
      BY <1>0, <1>2 DEF CrashCompositor, serverVars, ServerType, ScreenType, Inv,
                       PidfileLast, OnScreen
    <2>2. ClientType'
      BY <1>0, <1>2, ScreenAssumption DEF CrashCompositor, ClientType
    <2>3. WireType'
      BY <1>0, <1>2, HangupKeeps DEF CrashCompositor, Clients
    <2>. QED  BY <2>1, <2>2, <2>3, TypeParts DEF Inv
  <1>3. CASE UNCHANGED vars
    BY <1>0, <1>3, TypeParts
    DEF vars, serverVars, wire, Inv, PidfileLast, OnScreen, ServerType, WireType, ScreenType,
        ClientType
  <1>. QED
    BY <1>1, <1>2, <1>3, ServerStep, ListenerStep, CompositorStep, AppStep DEF Next, App

\* Inv holds in every reachable state.
LEMMA Invariance == Spec => []Inv
  BY InvInit, InvStep, PTL DEF Spec

----------------------------------------------------------------------------
(* Theorems *)

\* The state has its types, for any resolution and pixel size and whatever is sent:
\* the backlog never grows beyond what listen allows, the compositor never beyond
\* its last command, and every pixel has a colour that somebody asked for.
THEOREM TypeCorrect == Spec => []TypeOK
  <1>1. Inv => TypeOK
    BY DEF Inv
  <1>. QED  BY <1>1, Invariance, PTL

\* Neither display_fill_rect, whatever rectangles and garbage are sent, nor the dots
\* of render_status_bar write outside a screen of three bytes or more to a pixel
\* that is at least DOT_X wide and BAR - DOT_Y high.
THEOREM NothingBeyondTheScreen == Spec => []OnScreen
  <1>1. Inv => OnScreen
    BY DEF Inv
  <1>. QED  BY <1>1, Invariance, PTL

\* The display server's pidfile is a sound sign of readiness: a compositor that a
\* running server with a pidfile refuses was refused for a failed bind or listen.
THEOREM ReadinessIsSound == Spec => HeadlessOnlyWithoutServer
  <1>1. Inv /\ [Next]_vars =>
          [Refused /\ pidfile /\ server # "off" => sock = "failed"]_vars
    BY DEF Inv, TypeOK, PidfileLast, Refused
  <1>. QED  BY <1>1, Invariance, PTL DEF Spec, HeadlessOnlyWithoutServer

\* Clipping in display_fill_rect is exact on every screen with three bytes or more
\* to a pixel and for every rectangle with far edges that are not negative.
THEOREM ClippingIsExact == Spec => ClipIsExact
  <1>. DEFINE Inside(p) ==
                /\ p \in Pixels
                /\ cmd.x <= p[1] /\ p[1] < cmd.x + cmd.w
                /\ cmd.y <= p[2] /\ p[2] < cmd.y + cmd.h
              Clipped ==
                /\ Execute /\ cmd # Garbage /\ BPP >= 3
                /\ cmd.x + cmd.w >= 0 /\ cmd.y + cmd.h >= 0
                => screen' = [p \in DOMAIN screen |->
                                IF Inside(p) THEN cmd.color ELSE screen[p]]
  <1>1. Inv /\ [Next]_vars => [Clipped]_vars
    <2>. SUFFICES ASSUME Inv, Execute, cmd # Garbage, BPP >= 3,
                         cmd.x + cmd.w >= 0, cmd.y + cmd.h >= 0
                  PROVE  screen' = [p \in DOMAIN screen |->
                                      IF Inside(p) THEN cmd.color ELSE screen[p]]
      OBVIOUS
    <2>1. cmd \in Messages /\ Pixels \subseteq DOMAIN screen
      BY DEF Inv, TypeOK, Execute
    <2>2. IsRect(cmd)
      BY <2>1, MessageRects
    <2>3. /\ XRES \in Nat /\ YRES \in Nat /\ WORD \in Nat /\ XRES < WORD /\ YRES < WORD
          /\ cmd.x \in Int /\ cmd.y \in Int /\ cmd.w \in Int /\ cmd.h \in Int
          /\ cmd.x + cmd.w < WORD /\ cmd.y + cmd.h < WORD
      BY <2>2, ScreenAssumption DEF IsRect
    <2>. DEFINE fx == FarEdge(cmd.x + cmd.w, XRES)
                fy == FarEdge(cmd.y + cmd.h, YRES)
    <2>4. /\ fx = IF cmd.x + cmd.w > XRES THEN XRES ELSE cmd.x + cmd.w
          /\ fy = IF cmd.y + cmd.h > YRES THEN YRES ELSE cmd.y + cmd.h
      BY <2>3, FarEdgeCut
    <2>5. Area(cmd) \subseteq Pixels /\ Spill(cmd) = {}
      BY <2>2, AreaOnScreen, NoSpill
    <2>6. ASSUME NEW p \in Pixels PROVE p \in Area(cmd) <=> Inside(p)
      <3>1. p[1] \in 0 .. XRES - 1 /\ p[2] \in 0 .. YRES - 1 /\ p = <<p[1], p[2]>>
        BY DEF Pixels
      <3>2. p \in Area(cmd) <=> /\ p[1] \in NearEdge(cmd.x) .. fx - 1
                                /\ p[2] \in NearEdge(cmd.y) .. fy - 1
        BY <3>1 DEF Area
      <3>. HIDE DEF fx, fy
      <3>3. p[1] \in NearEdge(cmd.x) .. fx - 1 <=> cmd.x <= p[1] /\ p[1] < cmd.x + cmd.w
        BY <2>3, <2>4, <3>1 DEF NearEdge
      <3>4. p[2] \in NearEdge(cmd.y) .. fy - 1 <=> cmd.y <= p[2] /\ p[2] < cmd.y + cmd.h
        BY <2>3, <2>4, <3>1 DEF NearEdge
      <3>. QED  BY <3>2, <3>3, <3>4
    <2>7. \A p : p \in Area(cmd) <=> Inside(p)
      BY <2>5, <2>6
    <2>8. BPP # 0
      BY ScreenAssumption
    <2>9. screen' = [p \in DOMAIN screen \cup Area(cmd) \cup Spill(cmd) |->
                       IF p \in Area(cmd) THEN cmd.color
                       ELSE IF p \in Spill(cmd) THEN "mixed" ELSE screen[p]]
      BY <2>8 DEF Execute, Executed, Draw
    <2>10. DOMAIN screen \cup Area(cmd) \cup Spill(cmd) = DOMAIN screen
      BY <2>1, <2>5
    <2>. HIDE DEF Inside
    <2>. QED  BY <2>5, <2>7, <2>9, <2>10
  <1>. QED  BY <1>1, Invariance, PTL DEF Spec, ClipIsExact
=============================================================================
