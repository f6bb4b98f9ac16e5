----------------------------- MODULE MCDesktop ------------------------------
(* A screen of a few pixels for Desktop, with two windows that overlap, and  *)
(* rectangles that cross each edge of the screen or lie outside it.          *)
EXTENDS Desktop

MCGeometry == << [x |-> 1, y |-> 1, w |-> 2, h |-> 2],
                 [x |-> 2, y |-> 2, w |-> 2, h |-> 3] >>

MCCommands ==
  { Rect(-1, 1, 3, 1, "app"),    \* over the left edge
    Rect(3, -2, 9, 4, "app"),    \* over the top and the right edge
    Rect(1, 3, 0, 9, "app"),     \* empty
    Rect(5, 2, 2, 2, "app"),     \* right of the screen
    Rect(-3, 0, 2, 2, "app") }   \* left of it: the far edge is negative
=============================================================================
