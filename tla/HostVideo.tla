----------------------------- MODULE HostVideo -----------------------------
(***************************************************************************)
(* The host program's video side (server/main.cpp): the video thread, which *)
(* accepts one viewer at a time on TCP port 50511 and streams the screen to *)
(* it, and the window thread, which starts and stops the server.  The two   *)
(* share g_serverRunning and, under g_socketMutex, the two sockets; nothing *)
(* waits inside that mutex here, so each critical section is one step.      *)
(*                                                                         *)
(* The frames are counted, not looked at (VideoStream says what is in       *)
(* them); what the capture, the encoder and Media Foundation answer is the  *)
(* environment's choice, and so is when viewers connect, read and leave.    *)
(***************************************************************************)
EXTENDS Naturals

CONSTANTS Conn,     \* video connections a viewer can make
          NoConn,   \* INVALID_SOCKET
          Room,     \* access units the socket buffers of a connection hold
          MaxUnits  \* access units one encode() returns at most

ASSUME VideoAssumption ==
    NoConn \notin Conn /\ Room \in Nat \ {0} /\ MaxUnits \in Nat \ {0}

VARIABLES
    running,   \* g_serverRunning
    listener,  \* g_videoListenSocket
    client,    \* g_videoClientSocket
    vid,       \* where the video thread is
    cur,       \* its local client_socket
    mfReady,   \* its local mf_ready
    capture,   \* what its ScreenDuplicator captures with
    units,     \* access units of this frame it has yet to send
    ui,        \* where the window thread is
    hostEnd,   \* the host's socket of each connection
    viewerEnd, \* the viewer's socket
    wire       \* access units sent and not yet received

sockets == <<listener, client>>
stream == <<mfReady, capture, units>>
channel == <<hostEnd, viewerEnd, wire>>
vars == <<running, sockets, vid, cur, stream, ui, channel>>

Streaming == {"check", "acquire", "reinit", "encode", "send"}

VidPc == Streaming \cup
    {"none", "create", "bind", "media", "loop", "accept", "publish", "start",
     "closeClient", "close", "ended"}

UiPc == {"off", "on", "stopClient", "stopListener", "join"}

VideoTypeOK ==
    /\ running \in BOOLEAN /\ listener \in {"none", "made", "listening"}
    /\ client \in Conn \cup {NoConn}
    /\ vid \in VidPc /\ cur \in Conn \cup {NoConn}
    /\ mfReady \in BOOLEAN /\ capture \in {"none", "dxgi", "gdi"}
    /\ units \in 0 .. MaxUnits /\ ui \in UiPc
    /\ hostEnd \in [Conn -> {"closed", "backlog", "open"}]
    /\ viewerEnd \in [Conn -> {"closed", "open"}]
    /\ wire \in [Conn -> 0 .. Room]

Init ==
    /\ running = FALSE /\ listener = "none" /\ client = NoConn
    /\ vid = "none" /\ cur = NoConn
    /\ mfReady = FALSE /\ capture = "none" /\ units = 0 /\ ui = "off"
    /\ hostEnd = [c \in Conn |-> "closed"]
    /\ viewerEnd = [c \in Conn |-> "closed"]
    /\ wire = [c \in Conn |-> 0]

Vid(from, to) == vid = from /\ vid' = to

HostCloses(S) ==
    /\ hostEnd' = [c \in Conn |-> IF c \in S THEN "closed" ELSE hostEnd[c]]
    /\ UNCHANGED <<viewerEnd, wire>>

Waiting == {c \in Conn : hostEnd[c] = "backlog"}

------------------------------------------------------------------------------
(* The video thread: video_loop.                                            *)

VidCreate ==
    /\ vid = "create"
    /\ \/ vid' = "bind" /\ listener' = "made"
       \/ vid' = "ended" /\ listener' = listener
    /\ UNCHANGED <<running, client, cur, stream, ui, channel>>

VidListen ==
    /\ Vid("bind", "media") /\ listener = "made"
    /\ listener' = "listening"
    /\ UNCHANGED <<running, client, cur, stream, ui, channel>>

VidListenFails ==
    /\ Vid("bind", "ended")
    /\ listener' = "none"
    /\ UNCHANGED <<running, client, cur, stream, ui, channel>>

\* MFStartup, once for all the viewers the thread will serve.
VidMedia ==
    /\ Vid("media", "loop")
    /\ mfReady' \in BOOLEAN
    /\ UNCHANGED <<running, sockets, cur, capture, units, ui, channel>>

VidLoop ==
    /\ Vid("loop", IF running THEN "accept" ELSE "close")
    /\ UNCHANGED <<running, sockets, cur, stream, ui, channel>>

VidAccept(c) ==
    /\ Vid("accept", "publish") /\ listener = "listening"
    /\ hostEnd[c] = "backlog"
    /\ hostEnd' = [hostEnd EXCEPT ![c] = "open"]
    /\ cur' = c
    /\ UNCHANGED <<running, sockets, stream, ui, viewerEnd, wire>>

VidAcceptFails ==
    /\ Vid("accept", IF running THEN "loop" ELSE "close") /\ listener = "none"
    /\ UNCHANGED <<running, sockets, cur, stream, ui, channel>>

VidPublish ==
    /\ Vid("publish", "start")
    /\ client' = cur
    /\ UNCHANGED <<running, listener, cur, stream, ui, channel>>

\* A wrong VidCloseClient: the window thread's stop is left to close it.
VidForgetClient ==
    /\ Vid("closeClient", "loop")
    /\ cur' = NoConn /\ capture' = "none" /\ units' = 0
    /\ UNCHANGED <<running, sockets, mfReady, ui, channel>>

\* stream_to_client has returned, and its capturer and encoder are gone.
VidCloseClient ==
    /\ Vid("closeClient", "loop")
    /\ client' = NoConn /\ HostCloses({client})
    /\ cur' = NoConn /\ capture' = "none" /\ units' = 0
    /\ UNCHANGED <<running, listener, mfReady, ui>>

\* A wrong VidCloseListener: it is left to stop_server, which may be past it.
VidLeaveListener ==
    /\ Vid("close", "ended")
    /\ UNCHANGED <<running, sockets, cur, stream, ui, channel>>

VidCloseListener ==
    /\ Vid("close", "ended")
    /\ listener' = "none" /\ HostCloses(Waiting)
    /\ UNCHANGED <<running, client, cur, stream, ui>>

------------------------------------------------------------------------------
(* The video thread: stream_to_client.                                      *)

\* ScreenDuplicator::initialize(): DXGI, or else GDI, or neither.
Initialized == capture' \in {"dxgi", "gdi", "none"}

VidStart ==
    /\ vid = "start"
    /\ IF mfReady
         THEN Initialized /\ vid' = IF capture' = "none" THEN "closeClient" ELSE "check"
         ELSE vid' = "closeClient" /\ UNCHANGED capture
    /\ UNCHANGED <<running, sockets, cur, mfReady, units, ui, channel>>

VidCheck ==
    /\ Vid("check", IF running THEN "acquire" ELSE "closeClient")
    /\ UNCHANGED <<running, sockets, cur, stream, ui, channel>>

\* acquire() answers Idle: the screen has not changed.
VidIdle ==
    /\ Vid("acquire", "check") /\ capture # "none"
    /\ UNCHANGED <<running, sockets, cur, stream, ui, channel>>

VidFrame ==
    /\ Vid("acquire", "encode") /\ capture # "none"
    /\ UNCHANGED <<running, sockets, cur, stream, ui, channel>>

\* Lost comes from DXGI only, and the capturer is made anew, by DXGI or by GDI;
\* when that fails too, the next acquire() has nothing to capture with.
VidLost ==
    /\ Vid("acquire", "reinit") /\ capture = "dxgi"
    /\ capture' = "none"
    /\ UNCHANGED <<running, sockets, cur, mfReady, units, ui, channel>>

VidReinit ==
    /\ Vid("reinit", "check")
    /\ Initialized
    /\ UNCHANGED <<running, sockets, cur, mfReady, units, ui, channel>>

\* acquire() answers Error.
VidError ==
    /\ Vid("acquire", "closeClient")
    /\ UNCHANGED <<running, sockets, cur, stream, ui, channel>>

\* A new resolution needs a new encoder, and there is none.
VidNoEncoder ==
    /\ Vid("encode", "closeClient")
    /\ UNCHANGED <<running, sockets, cur, stream, ui, channel>>

\* encode() returns n access units, none when it fails or is not ready.
VidEncode(n) ==
    /\ Vid("encode", IF n = 0 THEN "check" ELSE "send")
    /\ units' = n
    /\ UNCHANGED <<running, sockets, cur, mfReady, capture, ui, channel>>

\* A wrong VidSend: nothing waits for room.
VidSendAtOnce ==
    /\ Vid("send", IF units > 1 THEN "send" ELSE "check")
    /\ hostEnd[cur] = "open"
    /\ wire' = IF viewerEnd[cur] = "open" THEN [wire EXCEPT ![cur] = @ + 1] ELSE wire
    /\ units' = units - 1
    /\ UNCHANGED <<running, sockets, cur, mfReady, capture, ui, hostEnd, viewerEnd>>

\* send_all of one access unit, which waits for room in the socket's buffers.
VidSend ==
    /\ Vid("send", IF units > 1 THEN "send" ELSE "check")
    /\ hostEnd[cur] = "open"
    /\ IF viewerEnd[cur] = "open"
         THEN wire[cur] < Room /\ wire' = [wire EXCEPT ![cur] = @ + 1]
         ELSE wire' = wire
    /\ units' = units - 1
    /\ UNCHANGED <<running, sockets, cur, mfReady, capture, ui, hostEnd, viewerEnd>>

\* A wrong VidSendFails: the frame is given up, and not the viewer.
VidSendIgnored ==
    /\ Vid("send", "check")
    /\ hostEnd[cur] # "open" \/ viewerEnd[cur] # "open"
    /\ units' = 0
    /\ UNCHANGED <<running, sockets, cur, mfReady, capture, ui, channel>>

\* The socket is closed, or what is sent finds the other end closed.
VidSendFails ==
    /\ Vid("send", "closeClient")
    /\ hostEnd[cur] # "open" \/ viewerEnd[cur] # "open"
    /\ UNCHANGED <<running, sockets, cur, stream, ui, channel>>

------------------------------------------------------------------------------
(* The window thread: start_server and stop_server.                         *)

UiStart ==
    /\ ui = "off" /\ ui' = "on"
    /\ running' = TRUE /\ vid' = "create"
    /\ UNCHANGED <<sockets, cur, stream, channel>>

UiStop ==
    /\ ui = "on" /\ ui' = "stopClient"
    /\ running' = FALSE
    /\ UNCHANGED <<sockets, vid, cur, stream, channel>>

\* A wrong UiStopClient: the video thread is left to close the client's socket.
UiStopNoClient ==
    /\ ui = "stopClient" /\ ui' = "stopListener"
    /\ UNCHANGED <<running, sockets, vid, cur, stream, channel>>

UiStopClient ==
    /\ ui = "stopClient" /\ ui' = "stopListener"
    /\ client' = NoConn /\ HostCloses({client})
    /\ UNCHANGED <<running, listener, vid, cur, stream>>

UiStopListener ==
    /\ ui = "stopListener" /\ ui' = "join"
    /\ listener' = "none" /\ HostCloses(Waiting)
    /\ UNCHANGED <<running, client, vid, cur, stream>>

UiJoin ==
    /\ ui = "join" /\ ui' = "off"
    /\ Vid("ended", "none")
    /\ UNCHANGED <<running, sockets, cur, stream, channel>>

------------------------------------------------------------------------------
(* The viewers.                                                             *)

host == <<running, sockets, vid, cur, stream, ui>>

\* A socket the video thread still names is not reused for a new connection.
PeerConnects(c) ==
    /\ listener = "listening" /\ c # cur
    /\ hostEnd[c] = "closed" /\ viewerEnd[c] = "closed"
    /\ hostEnd' = [hostEnd EXCEPT ![c] = "backlog"]
    /\ viewerEnd' = [viewerEnd EXCEPT ![c] = "open"]
    /\ UNCHANGED <<host, wire>>

PeerReads(c) ==
    /\ viewerEnd[c] = "open" /\ wire[c] > 0
    /\ wire' = [wire EXCEPT ![c] = @ - 1]
    /\ UNCHANGED <<host, hostEnd, viewerEnd>>

PeerCloses(c) ==
    /\ viewerEnd[c] = "open"
    /\ viewerEnd' = [viewerEnd EXCEPT ![c] = "closed"]
    /\ wire' = [wire EXCEPT ![c] = 0]
    /\ UNCHANGED <<host, hostEnd>>

------------------------------------------------------------------------------
VidStep ==
    \/ VidCreate \/ VidListen \/ VidListenFails \/ VidMedia \/ VidLoop
    \/ \E c \in Conn : VidAccept(c)
    \/ VidAcceptFails \/ VidPublish \/ VidCloseClient \/ VidCloseListener
    \/ VidStart \/ VidCheck \/ VidIdle \/ VidFrame \/ VidLost \/ VidReinit
    \/ VidError \/ VidNoEncoder
    \/ \E n \in 0 .. MaxUnits : VidEncode(n)
    \/ VidSend \/ VidSendFails

UiStep == UiStopClient \/ UiStopListener \/ UiJoin

PeerStep == \E c \in Conn : PeerConnects(c) \/ PeerReads(c) \/ PeerCloses(c)

Next == VidStep \/ UiStep \/ UiStart \/ UiStop \/ PeerStep

Spec == Init /\ [][Next]_vars

------------------------------------------------------------------------------
(* Safety.                                                                  *)

\* No accepted socket leaks, and there is one at most: an open one is the one the
\* thread streams to, and until a stop has closed it the published one, which a
\* stop can close (server/main.cpp:843-850, 909).
StreamOwnsSocket ==
    /\ \A c \in Conn : hostEnd[c] = "open" =>
            /\ c = cur
            /\ vid \in Streaming \cup {"publish", "start", "closeClient"}
            /\ client = c \/ vid = "publish"
    /\ client # NoConn => client = cur /\ hostEnd[client] = "open"

\* Once a stop has returned, and before the first start, the thread is joined,
\* every socket of it is closed and nothing is captured, whatever the thread was
\* doing when the stop closed its sockets (904-922).
OffIsDark ==
    ui = "off" =>
        /\ vid = "none" /\ cur = NoConn /\ capture = "none"
        /\ client = NoConn /\ listener = "none"
        /\ \A c \in Conn : hostEnd[c] = "closed"

------------------------------------------------------------------------------
(* Liveness.                                                                *)

\* The operating system runs both threads.
ThreadFairness == WF_vars(VidStep) /\ WF_vars(UiStep)

FairSpec == Spec /\ ThreadFairness

\* The screen goes on changing, the encoder goes on producing, and what is sent to
\* a viewer that has gone is answered by a reset in the end.
ScreenFairness ==
    /\ SF_vars(VidFrame) /\ SF_vars(\E n \in 1 .. MaxUnits : VidEncode(n))
    /\ SF_vars(VidSendFails)

\* Every viewer reads, and leaves in the end; the backlog passes nobody over.
ViewerFairness ==
    \A c \in Conn : WF_vars(PeerReads(c)) /\ WF_vars(PeerCloses(c)) /\ SF_vars(VidAccept(c))

\* A stop returns, even from a viewer that has stopped reading: its socket is
\* closed under the send that waits for it.
StopReturns == ui = "stopClient" ~> ui = "off"

\* A viewer that waits for its picture gets the thread's attention once the one
\* before has left, if the screen goes on changing and the viewers read and leave:
\* no end of a stream keeps the thread from accept (823-850).
WaitingIsServed ==
    ScreenFairness /\ ViewerFairness =>
        \A c \in Conn : hostEnd[c] = "backlog" ~> hostEnd[c] # "backlog"

=============================================================================
