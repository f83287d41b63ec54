------------------------------- MODULE Pointer -------------------------------
(***************************************************************************)
(* The way of the pointer from the viewer's window to the host's desktop:  *)
(* the rectangle the picture is drawn into (viewer/main.cpp,               *)
(* calculate_fit_rect), the point of it as a pixel of the remote screen    *)
(* (send_mouse_move_from_point), and that pixel in the units of SendInput  *)
(* (server/main.cpp, inject_mouse_move).  Both axes are computed alike;    *)
(* one of them is given.                                                   *)
(*                                                                         *)
(* The programs compute in double precision and truncate.  The operands    *)
(* are screen sizes, so a quotient that is no integer is never rounded to  *)
(* one; a product of a rounded quotient that should be an integer may fall *)
(* just short of it, and its truncation is then one less.                  *)
(***************************************************************************)
EXTENDS Integers

Clamp(value, low, high) == IF value < low THEN low ELSE IF value > high THEN high ELSE value

\* (num / den) * factor, truncated: the quotient is rounded first.
Truncated(num, den, factor) ==
    LET exact == (num * factor) \div den
    IN  {exact} \cup {t \in {exact - 1} : (num * factor) % den = 0 /\ 0 < num /\ num < den}

\* image * (bounds / image), the side that decides the scale.
Touching(bounds) == {bounds - 1, bounds}

\* How wide a picture is drawn: the smaller scale of the two axes.
FitWidth(boundsWidth, boundsHeight, imageWidth, imageHeight) ==
    IF imageWidth <= 0 \/ imageHeight <= 0 THEN {boundsWidth}
    ELSE IF boundsWidth * imageHeight < boundsHeight * imageWidth
         THEN Touching(boundsWidth)
         ELSE LET drawn == (imageWidth * boundsHeight) \div imageHeight
              IN  {drawn} \cup {d \in {drawn - 1} : (imageWidth * boundsHeight) % imageHeight = 0}

\* A wrong ToRemote: a pointer beside the picture is not brought back to its edge.
ToRemoteUnclamped(local, rect, remote) == Truncated(local, rect - 1, remote - 1)

\* A wrong ToRemote: scaled by the width, where the last pixel is the width less one.
ToRemoteByWidth(local, rect, remote) ==
    Truncated(Clamp(local, 0, rect - 1), rect, remote - 1)

\* A point of the drawn picture, `rect` pixels wide, as a pixel of the remote screen.
ToRemote(local, rect, remote) ==
    Truncated(Clamp(local, 0, rect - 1), rect - 1, remote - 1)

\* The pixel of a screen `width` pixels wide in the units of SendInput.
ToAbsolute(x, width) == (Clamp(x, 0, width - 1) * 65535) \div (width - 1)

\* Windows: where an absolute position falls on a screen `width` pixels wide.
OnScreen(absolute, width) == (absolute * width) \div 65536

Injected(x, width) == OnScreen(ToAbsolute(x, width), width)

------------------------------------------------------------------------------
\* Where the cursor should be, for the pointer at `local`: at most two pixels before
\* the exact place and never after it, and on the desktop's edges when the pointer is
\* on the picture's.
Lands(cursor, local, rect, width) ==
    LET l == Clamp(local, 0, rect - 1)
    IN  /\ cursor * (rect - 1) <= l * (width - 1)
        /\ l * (width - 1) <= (cursor + 2) * (rect - 1)
        /\ l = 0 => cursor = 0
        /\ l = rect - 1 => cursor = width - 1

=============================================================================
