------------------------------ MODULE Viewport ------------------------------
(***************************************************************************)
(* The window of a list in the terminal UI, as the code computes it, and   *)
(* what it is for: of the windows that fit the list and show the cursor,   *)
(* the one nearest to where the window was.  Indices count from 0.         *)
(***************************************************************************)
EXTENDS Integers

Least(a, b) == IF a < b THEN a ELSE b
Greatest(a, b) == IF a > b THEN a ELSE b
Clamp(n, low, high) == IF n < low THEN low ELSE IF n > high THEN high ELSE n

(* viewportOffset *)
ViewportOffset(total, cursor, offset, capacity) ==
  IF total <= 0 THEN 0
  ELSE LET room == Greatest(1, capacity)
           last == Greatest(0, total - room)
           at   == Clamp(cursor, 0, total - 1)
           from == Clamp(offset, 0, last)
           to   == IF at < from THEN at
                   ELSE IF at >= from + room THEN at - room + 1 ELSE from
       IN Clamp(to, 0, last)

-----------------------------------------------------------------------------
(* A window of a nonempty list: it does not run over the end, and the      *)
(* cursor is in it.                                                        *)
Window(total, cursor, capacity, w) ==
  /\ w >= 0 /\ (w = 0 \/ w + capacity <= total)
  /\ w <= cursor /\ cursor < w + capacity

Distance(a, b) == IF a < b THEN b - a ELSE a - b

(* viewportOffset keeps the cursor in a window of the list, and moves the  *)
(* window as little as that allows (model.go:2616).                        *)
LeastMove(total, cursor, offset, capacity) ==
  LET w == ViewportOffset(total, cursor, offset, capacity)
  IN /\ Window(total, cursor, capacity, w)
     /\ \A v \in 0..total : Window(total, cursor, capacity, v)
          => Distance(offset, w) <= Distance(offset, v)
=============================================================================
