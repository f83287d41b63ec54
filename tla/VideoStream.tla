---------------------------- MODULE VideoStream ----------------------------
(***************************************************************************)
(* What is in one video stream: stream_to_client captures a frame, makes a *)
(* new encoder when the resolution has changed, encodes and sends; the     *)
(* viewer's video thread decodes and shows.                                *)
(*                                                                         *)
(* The two H.264 transforms are Media Foundation's.  The encoder is a queue*)
(* of accepted frames that comes out as access units, in order, with a     *)
(* delay of its choice; its first unit is a keyframe and so is the next    *)
(* after a keyframe is asked for; any of its calls can fail.  A unit that  *)
(* is no keyframe is decoded right only after the unit before it: orphan   *)
(* says that this one has not been sent.                                   *)
(***************************************************************************)
EXTENDS Naturals, Sequences

CONSTANTS Size,    \* the desktop's resolutions
          NoSize,  \* enc_w = 0
          Depth,   \* frames the encoder holds
          Room     \* units the connection holds

ASSUME StreamAssumption ==
    NoSize \notin Size /\ Size # {} /\ Depth \in Nat \ {0} /\ Room \in Nat \ {0}

VARIABLES
    screen,     \* the desktop's resolution now
    loop,       \* where stream_to_client is
    frame,      \* the resolution of the frame it has captured
    encSize,    \* enc_w, enc_h
    firstFrame, \* first_frame
    keyDue,     \* three seconds have passed since last_keyframe
    accepted,   \* the encoder: frames accepted and not yet out
    begun,      \* the encoder: it has accepted a frame
    asked,      \* the encoder: the next frame is to be a keyframe
    units,      \* encode()'s out_units, not yet sent
    head,       \* nothing of this encoder has been sent yet
    lost,       \* a unit of this encoder has been dropped since the last one sent
    wire,       \* units sent and not yet received
    intact,     \* the viewer's decoder holds the picture the next unit builds on
    picture     \* what the viewer shows

host == <<loop, frame, encSize, firstFrame, accepted, begun, asked, units, head, lost>>
viewer == <<intact, picture>>
vars == <<screen, keyDue, host, wire, viewer>>

\* An access unit in the encoder; out of it, where gap says that the one after it has
\* been dropped; and on its way to the viewer.
Unit == [key : BOOLEAN, size : Size]
OutUnit == [key : BOOLEAN, size : Size, gap : BOOLEAN]
SentUnit == [key : BOOLEAN, size : Size, head : BOOLEAN, orphan : BOOLEAN]

StreamTypeOK ==
    /\ screen \in Size /\ loop \in {"acquire", "frame", "send", "over"}
    /\ frame \in Size /\ encSize \in Size \cup {NoSize}
    /\ firstFrame \in BOOLEAN /\ keyDue \in BOOLEAN
    /\ accepted \in Seq(Unit) /\ Len(accepted) <= Depth
    /\ begun \in BOOLEAN /\ asked \in BOOLEAN
    /\ units \in Seq(OutUnit) /\ head \in BOOLEAN /\ lost \in BOOLEAN
    /\ wire \in Seq(SentUnit) /\ Len(wire) <= Room
    /\ intact \in BOOLEAN /\ picture \in {"none", "right", "wrong"}

Init ==
    /\ screen \in Size /\ loop = "acquire" /\ frame = screen /\ encSize = NoSize
    /\ firstFrame = TRUE /\ keyDue = FALSE
    /\ accepted = <<>> /\ begun = FALSE /\ asked = FALSE
    /\ units = <<>> /\ head = TRUE /\ lost = FALSE
    /\ wire = <<>> /\ intact = FALSE /\ picture = "none"

------------------------------------------------------------------------------
(* The desktop and the clock.                                               *)

ScreenResizes ==
    /\ screen' \in Size \ {screen}
    /\ UNCHANGED <<keyDue, host, wire, viewer>>

ThreeSecondsPass ==
    /\ ~keyDue /\ keyDue' = TRUE
    /\ UNCHANGED <<screen, host, wire, viewer>>

------------------------------------------------------------------------------
(* The host: one turn of the loop.                                          *)

\* acquire() returns Frame; Idle changes nothing.
Captured ==
    /\ loop = "acquire" /\ loop' = "frame"
    /\ frame' = screen
    /\ UNCHANGED <<screen, keyDue, encSize, firstFrame, accepted, begun, asked, units,
                   head, lost, wire, viewer>>

\* acquire() returns Lost: the encoder is to be made anew whatever the size.
CaptureLost ==
    /\ loop = "acquire" /\ encSize' = NoSize
    /\ UNCHANGED <<screen, keyDue, loop, frame, firstFrame, accepted, begun, asked,
                   units, head, lost, wire, viewer>>

\* acquire() returns Error, encoder.initialize() fails, or the send does.
Ends ==
    /\ loop # "over" /\ loop' = "over"
    /\ units' = <<>> /\ accepted' = <<>>
    /\ UNCHANGED <<screen, keyDue, frame, encSize, firstFrame, begun, asked, head,
                   lost, wire, viewer>>

\* encoder.initialize(): what the old encoder held is gone.
Rebuild ==
    /\ loop = "frame" /\ frame # encSize
    /\ encSize' = frame /\ firstFrame' = TRUE
    /\ accepted' = <<>> /\ begun' = FALSE /\ asked' = FALSE
    /\ head' = TRUE /\ lost' = FALSE
    /\ UNCHANGED <<screen, keyDue, loop, frame, units, wire, viewer>>

\* A wrong ForceKey: only a new encoder is asked for a keyframe.
ForceFirst == firstFrame

\* force_key
ForceKey == firstFrame \/ keyDue

\* Some of n units, in their order: the i-th of them is the f[i]-th of the n.
Choices(n) ==
    {f \in UNION {[1 .. m -> 1 .. n] : m \in 0 .. n} :
        \A i, j \in DOMAIN f : i < j => f[i] < f[j]}

\* Those units of q, each told whether the one that came next is missing.
Chosen(q, n, f) ==
    [i \in DOMAIN f |->
        [key |-> q[f[i]].key, size |-> q[f[i]].size,
         gap |-> f[i] < n /\ (i + 1 \in DOMAIN f => f[i + 1] # f[i] + 1)]]

\* The units f of the first n are handed over, and the others dropped.
Hands(q, n, f) ==
    /\ units' = Chosen(q, n, f)
    /\ loop' = IF f # <<>> THEN "send" ELSE "acquire"
    /\ lost' = (lost \/ (n > 0 /\ (f # <<>> => f[1] > 1)))

\* A wrong Drained: the request counts as done before encode() is known to work.
DrainedEarly(q, n, ok) ==
    /\ accepted' = SubSeq(q, n + 1, Len(q))
    /\ firstFrame' = IF ForceKey THEN FALSE ELSE firstFrame
    /\ keyDue' = IF ForceKey THEN FALSE ELSE keyDue
    /\ IF ok
         THEN \E f \in Choices(n) : Hands(q, n, f)
         ELSE loop' = "acquire" /\ lost' = (lost \/ n > 0) /\ UNCHANGED units

\* drain_output takes n units out of the encoder, which then needs more input or
\* fails.  A unit whose buffer cannot be made or locked is dropped and nothing is said
\* of it; when drain_output fails, `continue' drops the n units and forgets nothing else.
Drained(q, n, ok) ==
    /\ accepted' = SubSeq(q, n + 1, Len(q))
    /\ IF ok
         THEN \E f \in Choices(n) :
                /\ Hands(q, n, f)
                /\ firstFrame' = IF ForceKey /\ f # <<>> THEN FALSE ELSE firstFrame
                /\ keyDue' = IF ForceKey /\ f # <<>> THEN FALSE ELSE keyDue
         ELSE /\ loop' = "acquire" /\ lost' = (lost \/ n > 0)
              /\ UNCHANGED <<units, firstFrame, keyDue>>

\* ProcessInput takes the frame.
Encode(n, ok) ==
    /\ loop = "frame" /\ frame = encSize /\ Len(accepted) < Depth
    /\ \E gop \in BOOLEAN :
         LET unit == [key |-> gop \/ asked \/ ForceKey \/ ~begun, size |-> frame]
             q == Append(accepted, unit)
         IN  n <= Len(q) /\ Drained(q, n, ok)
    /\ begun' = TRUE /\ asked' = FALSE
    /\ UNCHANGED <<screen, frame, encSize, head, wire, viewer>>

\* MF_E_NOTACCEPTING, so a unit is ready: the encoder is drained, twice, and the
\* frame is dropped.
EncodeNotAccepting(n, ok) ==
    /\ loop = "frame" /\ frame = encSize /\ accepted # <<>>
    /\ n <= Len(accepted) /\ (ok => n > 0) /\ Drained(accepted, n, ok)
    /\ asked' = (asked \/ ForceKey)
    /\ UNCHANGED <<screen, frame, encSize, begun, head, wire, viewer>>

\* No sample, no buffer, or ProcessInput fails.
EncodeFails ==
    /\ loop = "frame" /\ frame = encSize /\ loop' = "acquire"
    /\ asked' = (asked \/ ForceKey)
    /\ UNCHANGED <<screen, keyDue, frame, encSize, firstFrame, accepted, begun, units,
                   head, lost, wire, viewer>>

\* A wrong Send: nothing waits for room.
SendAtOnce ==
    /\ loop = "send"
    /\ wire' = Append(wire, [key |-> Head(units).key, size |-> Head(units).size,
                             head |-> head, orphan |-> lost])
    /\ units' = Tail(units)
    /\ loop' = IF units' = <<>> THEN "acquire" ELSE "send"
    /\ head' = FALSE /\ lost' = Head(units).gap
    /\ UNCHANGED <<screen, keyDue, frame, encSize, firstFrame, accepted, begun, asked,
                   viewer>>

\* The header and the unit, in one send_all.
Send ==
    /\ loop = "send" /\ Len(wire) < Room
    /\ wire' = Append(wire, [key |-> Head(units).key, size |-> Head(units).size,
                             head |-> head, orphan |-> lost])
    /\ units' = Tail(units)
    /\ loop' = IF units' = <<>> THEN "acquire" ELSE "send"
    /\ head' = FALSE /\ lost' = Head(units).gap
    /\ UNCHANGED <<screen, keyDue, frame, encSize, firstFrame, accepted, begun, asked,
                   viewer>>

------------------------------------------------------------------------------
(* The viewer: video_receive_loop and H264Decoder.                          *)

\* decode() takes the unit, after a drain and a second try if it must, and gives
\* the picture, or no picture yet.
Decode ==
    /\ wire # <<>> /\ wire' = Tail(wire)
    /\ intact' = (Head(wire).key \/ (intact /\ ~Head(wire).orphan))
    /\ picture' \in {picture, IF intact' THEN "right" ELSE "wrong"}
    /\ UNCHANGED <<screen, keyDue, host>>

\* decode() fails, g_decodeFails counts it, and the unit is gone.
DecodeFails ==
    /\ wire # <<>> /\ wire' = Tail(wire)
    /\ intact' = FALSE
    /\ UNCHANGED <<screen, keyDue, host, picture>>

------------------------------------------------------------------------------
\* How many units come out of one encode().
Drains == 0 .. Depth

HostStep ==
    \/ Captured \/ CaptureLost \/ Ends \/ Rebuild \/ EncodeFails \/ Send
    \/ \E n \in Drains, ok \in BOOLEAN : Encode(n, ok) \/ EncodeNotAccepting(n, ok)

Next == ScreenResizes \/ ThreeSecondsPass \/ HostStep \/ Decode \/ DecodeFails

Spec == Init /\ [][Next]_vars

------------------------------------------------------------------------------
\* The stream can be decoded from where each encoder starts: the first unit of an
\* encoder to be sent is a keyframe, even when drain_output failed or dropped units
\* before it, and the resolution changes at such a unit only
\* (server/main.cpp:717-746, encoder.cpp:71, 348-369).
StartsWithKey ==
    /\ \A i \in 1 .. Len(wire) : wire[i].head => wire[i].key
    /\ \A i \in 1 .. Len(wire) - 1 : wire[i].size # wire[i + 1].size => wire[i + 1].head

\* The host goes round its loop and the viewer round its own; the clock goes on;
\* encode() of a frame asked to be a keyframe works again and again, and so do the
\* draining of a full encoder and the decoding of keyframes, though each may fail
\* as often.
StreamFairness ==
    /\ WF_vars(Captured) /\ WF_vars(Rebuild) /\ WF_vars(Send)
    /\ WF_vars(Decode \/ DecodeFails) /\ WF_vars(ThreeSecondsPass)
    /\ SF_vars(\E n \in Drains :
            (asked \/ ForceKey) /\ Encode(n, TRUE) /\ accepted' = <<>> /\ Len(units') = n)
    /\ SF_vars(\E n \in Drains : EncodeNotAccepting(n, TRUE))
    /\ SF_vars(Decode /\ Head(wire).key)

FairSpec == Spec /\ StreamFairness

\* "we still force IDRs periodically for recovery / late joiners"
\* (encoder.cpp:214): whatever units were dropped and wherever, the picture comes
\* right again, as long as the stream lasts.
Recovers == []<>(intact \/ loop = "over")

=============================================================================
