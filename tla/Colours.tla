------------------------------ MODULE Colours ------------------------------
(***************************************************************************)
(* The colours of the picture: the host's conversion of a captured picture *)
(* for the encoder (server/encoder.cpp, bgra_to_nv12) and the viewer's     *)
(* conversion of what the decoder gives (viewer/decoder.cpp,               *)
(* nv12_to_bgra), in the integer arithmetic of the code.  The brightness   *)
(* of every pixel is kept, the colour of each block of two by two.         *)
(*                                                                         *)
(* A shift of a negative number to the right rounds down, like \div.       *)
(***************************************************************************)
EXTENDS Integers

Byte == 0 .. 255
Pixel == [b : Byte, g : Byte, r : Byte]
Block == [1 .. 4 -> Pixel]

ClampByte(v) == IF v < 0 THEN 0 ELSE IF v > 255 THEN 255 ELSE v

\* The host: the plane of brightness, and the plane of the two colour differences.
Y(p) == ClampByte(((66 * p.r + 129 * p.g + 25 * p.b + 128) \div 256) + 16)

Average(w, x, y, z) == (w + x + y + z + 2) \div 4
Mean(k) == [b |-> Average(k[1].b, k[2].b, k[3].b, k[4].b),
            g |-> Average(k[1].g, k[2].g, k[3].g, k[4].g),
            r |-> Average(k[1].r, k[2].r, k[3].r, k[4].r)]

U(p) == ClampByte(((-38 * p.r - 74 * p.g + 112 * p.b + 128) \div 256) + 128)
V(p) == ClampByte(((112 * p.r - 94 * p.g - 18 * p.b + 128) \div 256) + 128)

\* The viewer.
Shown(y, u, v) ==
    LET c == y - 16
        d == u - 128
        e == v - 128
    IN  [b |-> ClampByte((298 * c + 516 * d + 128) \div 256),
         g |-> ClampByte((298 * c - 100 * d - 208 * e + 128) \div 256),
         r |-> ClampByte((298 * c + 409 * e + 128) \div 256)]

\* A pixel of a block, as the viewer shows it when the encoder loses nothing.
Mirrored(block, i) == Shown(Y(block[i]), U(Mean(block)), V(Mean(block)))

Near(x, y, levels) == x - y <= levels /\ y - x <= levels

=============================================================================
