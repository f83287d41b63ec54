---------------------------- MODULE MCInputRelay ----------------------------
(* Instances of InputRelay for TLC. *)
EXTENDS InputRelay

CONSTANTS K, M, L, R

MCLetter == [d \in Device |-> IF d = "keyboard" THEN K ELSE M]

\* A window of 640 by 480, and pictures as wide as the screens they are of.
Scene(inputs, clicks, seen, width, height, places) ==
    [inputs |-> inputs, clicks |-> clicks, shown |-> seen, desktop |-> width, places |-> places,
     bounds |-> <<620, 425>>, image |-> <<width - (width % 2), height>>]

\* A hotkey and its keys; two buttons; the other hotkey and a button; the pointer, over
\* the picture, on its edges and beside it, for a screen larger and one smaller than it.
MCScenes ==
    {Scene({Alt, K}, {"keyboard"}, {TRUE}, 1920, 1080, {100}),
     Scene({L, R}, {"mouse"}, {TRUE}, 1920, 1080, {100, 700}),
     Scene({Alt, M, L}, {"mouse"}, {TRUE}, 1920, 1080, {100}),
     Scene({L}, {"mouse"}, {FALSE}, 1920, 1080, {1, 313, 619}),
     Scene({L}, {"mouse"}, {FALSE}, 401, 300, {-5, 250, 566})}

=============================================================================
