--------------------------- MODULE ViewerControl ---------------------------
(***************************************************************************)
(* The viewer program's control side (viewer/main.cpp): the window thread, *)
(* which connects, disconnects, toggles the grants and sends input; the    *)
(* connection thread, which owns one control connection from connect() to  *)
(* its epilogue; and the video thread, as far as the other two start it,   *)
(* end it and wait for it.                                                 *)
(*                                                                         *)
(* g_connected, g_connecting and the two grants are separate atomics: one  *)
(* load or store is one step.  g_socketMutex guards the two sockets; a     *)
(* critical section is one step, except the one that sends, which can wait *)
(* for room with the mutex taken.                                          *)
(*                                                                         *)
(* The host is the environment: it accepts, sends any protocol line, reads *)
(* or does not read, and closes.                                           *)
(***************************************************************************)
EXTENDS ControlChannel

CONSTANTS MaxStates, \* WM_CONNECTION_STATE messages that may wait when the user acts
          HostLines  \* lines the host of the environment sends

ASSUME StatesAssumption == MaxStates \in Nat
ASSUME HostLinesAssumption == HostLines \subseteq Line

VARIABLES
    vConnected,  \* g_connected
    vConnecting, \* g_connecting
    vAccess,     \* g_keyboardAccess, g_mouseAccess
    control,     \* g_controlSocket is the connection thread's socket
    link,        \* the connection that socket has made
    videoOpen,   \* g_videoSocket is the video thread's socket
    conn,        \* where the connection thread is
    vPending,    \* whole lines of its local buffer that it has not processed
    vid,         \* where the video thread is
    vui,         \* where the window thread is
    vDev,        \* the device of the hotkey
    vLine,       \* the values it has loaded of the grants
    vOut,        \* the line it is sending
    closing,     \* it is handling WM_CLOSE
    states,      \* WM_CONNECTION_STATE messages not yet handled
    shown        \* whether the window shows the connection (and no Connect button)

vFlags  == <<vConnected, vConnecting, vAccess>>
vSocks  == <<control, link, videoOpen>>
vUiVars == <<vui, vDev, vLine, vOut, closing>>
vWindow == <<states, shown>>
viewer == <<vFlags, vSocks, conn, vPending, vid, vUiVars, vWindow>>
vVars == <<viewer, channel>>

ConnPc == {"none", "publish", "connect", "hello", "recvOk", "fail", "failFlag",
           "setConnected", "clearConnecting", "resetK", "resetM", "postShow",
           "spawn", "check", "recv", "lines", "applyM", "end", "endConnecting",
           "endK", "endM", "closeControl", "closeVideo", "joinVideo", "endPost",
           "ended"}

VidPc == {"none", "publish", "connect", "check", "recv", "close", "ended"}

VuiPc == {"idle", "cConnecting", "cStore", "cJoin", "dConnecting", "toggle",
          "store", "loadK", "loadM", "input", "send", "sending", "dConnected",
          "dClearConnecting", "dK", "dM", "dVideo", "dControl", "dPost",
          "joinConn", "joinVideo", "gone"}

NoLine == [kind |-> "none", grant |-> Blocked, dev |-> NoDevice]

VTypeOK ==
    /\ ChannelTypeOK
    /\ vConnected \in BOOLEAN /\ vConnecting \in BOOLEAN /\ vAccess \in Grant
    /\ control \in BOOLEAN /\ link \in Conn \cup {NoConn} /\ videoOpen \in BOOLEAN
    /\ conn \in ConnPc /\ vPending \in Seq(Line) /\ vid \in VidPc
    /\ vui \in VuiPc /\ vDev \in Device /\ vLine \in Grant
    /\ vOut \in Line \cup {NoLine} /\ closing \in BOOLEAN
    /\ states \in Seq(BOOLEAN) /\ Len(states) <= MaxStates + 4 /\ shown \in BOOLEAN

VInit ==
    /\ ChannelInit
    /\ vConnected = FALSE /\ vConnecting = FALSE /\ vAccess = Blocked
    /\ control = FALSE /\ link = NoConn /\ videoOpen = FALSE
    /\ conn = "none" /\ vPending = <<>> /\ vid = "none"
    /\ vui = "idle" /\ vDev = "keyboard" /\ vLine = Blocked /\ vOut = NoLine
    /\ closing = FALSE /\ states = <<>> /\ shown = FALSE

\* g_socketMutex is free: the window thread is not inside a send.
VLockFree == vui # "sending"

ConnAt(from, to) == conn = from /\ conn' = to
VidAt(from, to) == vid = from /\ vid' = to
Vui(from, to) == vui = from /\ vui' = to

\* close_control_socket_safe and close_video_socket_safe
CloseControl == VLockFree /\ control' = FALSE /\ ViewerCloses({link})
CloseVideo == VLockFree /\ videoOpen' = FALSE

------------------------------------------------------------------------------
(* The connection thread.                                                   *)

\* init_winsock or socket() fails, or the socket is published.
ConnPublish ==
    /\ conn = "publish" /\ VLockFree
    /\ \/ conn' = "connect" /\ control' = TRUE
       \/ conn' = "failFlag" /\ control' = control
    /\ UNCHANGED <<vFlags, link, videoOpen, vPending, vid, vUiVars, vWindow, channel>>

ConnConnect(c) ==
    /\ ConnAt("connect", "hello") /\ control
    /\ Connects(c) /\ link' = c
    /\ UNCHANGED <<vFlags, control, videoOpen, vPending, vid, vUiVars, vWindow>>

\* A bad address, no answer, or the window thread has closed the socket.
ConnConnectFails ==
    /\ ConnAt("connect", "fail")
    /\ UNCHANGED <<vFlags, vSocks, vPending, vid, vUiVars, vWindow, channel>>

ConnHello ==
    /\ ConnAt("hello", "recvOk")
    /\ ViewerSends(link, Hello)
    /\ UNCHANGED <<vFlags, vSocks, vPending, vid, vUiVars, vWindow>>

\* The one recv of the answer: what arrives in the same chunk is lost with it.
ConnAnswered(n) ==
    /\ ConnAt("recvOk", "setConnected")
    /\ ViewerReceives(link, n)
    /\ \E i \in 1 .. n : toViewer[link][i] = Ok
    /\ UNCHANGED <<vFlags, vSocks, vPending, vid, vUiVars, vWindow>>

\* The recv fails, or returns no OK: another line, or only part of one.
ConnNotAnswered ==
    /\ ConnAt("recvOk", "fail")
    /\ ViewerRecvEnds(link) \/ toViewer[link] # <<>>
    /\ UNCHANGED <<vFlags, vSocks, vPending, vid, vUiVars, vWindow, channel>>

\* A wrong ConnFail: it returns without closing the socket.
ConnFailLeak ==
    /\ ConnAt("fail", "failFlag")
    /\ UNCHANGED <<vFlags, vSocks, vPending, vid, vUiVars, vWindow, channel>>

ConnFail ==
    /\ ConnAt("fail", "failFlag")
    /\ CloseControl /\ link' = NoConn
    /\ UNCHANGED <<vFlags, videoOpen, vPending, vid, vUiVars, vWindow>>

\* A wrong ConnFailFlag: the error return forgets g_connecting.
ConnFailForgets ==
    /\ ConnAt("failFlag", "ended")
    /\ UNCHANGED <<vFlags, vSocks, vPending, vid, vUiVars, vWindow, channel>>

ConnFailFlag ==
    /\ ConnAt("failFlag", "ended")
    /\ vConnecting' = FALSE
    /\ UNCHANGED <<vConnected, vAccess, vSocks, vPending, vid, vUiVars, vWindow,
                   channel>>

\* Connected first, then no longer connecting, then the grants.
ConnSetConnected(value, from, to) ==
    /\ ConnAt(from, to)
    /\ vConnected' = value
    /\ UNCHANGED <<vConnecting, vAccess, vSocks, vPending, vid, vUiVars, vWindow,
                   channel>>

ConnClearConnecting(from, to) ==
    /\ ConnAt(from, to)
    /\ vConnecting' = FALSE
    /\ UNCHANGED <<vConnected, vAccess, vSocks, vPending, vid, vUiVars, vWindow,
                   channel>>

ConnReset(d, from, to) ==
    /\ ConnAt(from, to)
    /\ vAccess' = [vAccess EXCEPT ![d] = FALSE]
    /\ UNCHANGED <<vConnected, vConnecting, vSocks, vPending, vid, vUiVars,
                   vWindow, channel>>

\* PostMessage(WM_CONNECTION_STATE), which finds room: the window's queue never fills
\* here, although the code does not look at the result.
ConnPost(value, from, to) ==
    /\ ConnAt(from, to)
    /\ states' = Append(states, value)
    /\ UNCHANGED <<vFlags, vSocks, vPending, vid, vUiVars, shown, channel>>

ConnOpens ==
    \/ ConnSetConnected(TRUE, "setConnected", "clearConnecting")
    \/ ConnClearConnecting("clearConnecting", "resetK")
    \/ ConnReset("keyboard", "resetK", "resetM")
    \/ ConnReset("mouse", "resetM", "postShow")
    \/ ConnPost(TRUE, "postShow", "spawn")

\* The last session's video thread is joined, and the next one starts.
ConnSpawn ==
    /\ ConnAt("spawn", "check")
    /\ vid \in {"none", "ended"} /\ vid' = "publish"
    /\ UNCHANGED <<vFlags, vSocks, vPending, vUiVars, vWindow, channel>>

ConnCheck ==
    /\ ConnAt("check", IF vConnected THEN "recv" ELSE "end")
    /\ UNCHANGED <<vFlags, vSocks, vPending, vid, vUiVars, vWindow, channel>>

ConnReceive(n) ==
    /\ ConnAt("recv", "lines")
    /\ ViewerReceives(link, n)
    /\ vPending' = First(toViewer[link], n)
    /\ UNCHANGED <<vFlags, vSocks, vid, vUiVars, vWindow>>

\* A wrong ConnReceiveEnds: `server_msg < 0` for `server_msg <= 0`.
ConnReceiveSpins ==
    /\ ConnAt("recv", IF viewerEnd[link] = "open" THEN "check" ELSE "end")
    /\ ViewerRecvEnds(link)
    /\ UNCHANGED <<vFlags, vSocks, vPending, vid, vUiVars, vWindow, channel>>

ConnReceiveEnds ==
    /\ ConnAt("recv", "end") /\ ViewerRecvEnds(link)
    /\ UNCHANGED <<vFlags, vSocks, vPending, vid, vUiVars, vWindow, channel>>

ConnLinesDone ==
    /\ ConnAt("lines", "check") /\ vPending = <<>>
    /\ UNCHANGED <<vFlags, vSocks, vPending, vid, vUiVars, vWindow, channel>>

\* Only access lines mean anything to the viewer.
ConnIgnore ==
    /\ conn = "lines" /\ vPending # <<>> /\ Head(vPending).kind # "access"
    /\ vPending' = Tail(vPending)
    /\ UNCHANGED <<vFlags, vSocks, conn, vid, vUiVars, vWindow, channel>>

ConnApplyKeyboard ==
    /\ ConnAt("lines", "applyM")
    /\ vPending # <<>> /\ Head(vPending).kind = "access"
    /\ vAccess' = [vAccess EXCEPT !["keyboard"] = Head(vPending).grant["keyboard"]]
    /\ UNCHANGED <<vConnected, vConnecting, vSocks, vPending, vid, vUiVars, vWindow,
                   channel>>

\* A wrong ConnApplyMouse: it posts WM_CONNECTION_STATE for WM_ACCESS_CHANGED.
ConnApplyAndPost ==
    /\ ConnAt("applyM", "lines")
    /\ vAccess' = [vAccess EXCEPT !["mouse"] = Head(vPending).grant["mouse"]]
    /\ vPending' = Tail(vPending)
    /\ states' = Append(states, TRUE)
    /\ UNCHANGED <<vConnected, vConnecting, vSocks, vid, vUiVars, shown, channel>>

ConnApplyMouse ==
    /\ ConnAt("applyM", "lines")
    /\ vAccess' = [vAccess EXCEPT !["mouse"] = Head(vPending).grant["mouse"]]
    /\ vPending' = Tail(vPending)
    /\ UNCHANGED <<vConnected, vConnecting, vSocks, vid, vUiVars, vWindow, channel>>

\* A wrong epilogue: the thread relies on the window thread's own post.
ConnEndsQuietly ==
    \/ ConnSetConnected(FALSE, "end", "endConnecting")
    \/ ConnClearConnecting("endConnecting", "endK")
    \/ ConnReset("keyboard", "endK", "endM")
    \/ ConnReset("mouse", "endM", "closeControl")
    \/ /\ ConnAt("endPost", "ended")
       /\ UNCHANGED <<vFlags, vSocks, vPending, vid, vUiVars, vWindow, channel>>

\* The epilogue.
ConnEnds ==
    \/ ConnSetConnected(FALSE, "end", "endConnecting")
    \/ ConnClearConnecting("endConnecting", "endK")
    \/ ConnReset("keyboard", "endK", "endM")
    \/ ConnReset("mouse", "endM", "closeControl")
    \/ ConnPost(FALSE, "endPost", "ended")

ConnCloseControl ==
    /\ ConnAt("closeControl", "closeVideo")
    /\ CloseControl /\ link' = NoConn
    /\ UNCHANGED <<vFlags, videoOpen, vPending, vid, vUiVars, vWindow>>

ConnCloseVideo ==
    /\ ConnAt("closeVideo", "joinVideo") /\ CloseVideo
    /\ UNCHANGED <<vFlags, control, link, vPending, vid, vUiVars, vWindow, channel>>

ConnJoinVideo ==
    /\ ConnAt("joinVideo", "endPost")
    /\ vid \in {"none", "ended"} /\ vid' = "none"
    /\ UNCHANGED <<vFlags, vSocks, vPending, vUiVars, vWindow, channel>>

------------------------------------------------------------------------------
(* The video thread.                                                        *)

VidPublish ==
    /\ vid = "publish" /\ VLockFree
    /\ \/ vid' = "connect" /\ videoOpen' = TRUE
       \/ vid' = "ended" /\ videoOpen' = videoOpen
    /\ UNCHANGED <<vFlags, control, link, conn, vPending, vUiVars, vWindow, channel>>

\* connect() and the decoder's initialisation, either of which can fail.
VidConnect ==
    /\ vid = "connect"
    /\ vid' \in IF videoOpen THEN {"check", "close"} ELSE {"close"}
    /\ UNCHANGED <<vFlags, vSocks, conn, vPending, vUiVars, vWindow, channel>>

\* A wrong VidCheck: it trusts its socket and does not look at g_connected.
VidNoCheck ==
    /\ VidAt("check", "recv")
    /\ UNCHANGED <<vFlags, vSocks, conn, vPending, vUiVars, vWindow, channel>>

VidCheck ==
    /\ VidAt("check", IF vConnected THEN "recv" ELSE "close")
    /\ UNCHANGED <<vFlags, vSocks, conn, vPending, vUiVars, vWindow, channel>>

\* A frame arrives and is shown or dropped.
VidFrame ==
    /\ VidAt("recv", "check") /\ videoOpen
    /\ UNCHANGED <<vFlags, vSocks, conn, vPending, vUiVars, vWindow, channel>>

\* The host ends the stream, or the frame's header makes no sense.
VidStreamEnds ==
    /\ VidAt("recv", "close") /\ videoOpen
    /\ UNCHANGED <<vFlags, vSocks, conn, vPending, vUiVars, vWindow, channel>>

\* Another thread has closed the socket: recv fails.
VidAborted ==
    /\ VidAt("recv", "close") /\ ~videoOpen
    /\ UNCHANGED <<vFlags, vSocks, conn, vPending, vUiVars, vWindow, channel>>

VidClose ==
    /\ VidAt("close", "ended") /\ CloseVideo
    /\ UNCHANGED <<vFlags, control, link, conn, vPending, vUiVars, vWindow, channel>>

------------------------------------------------------------------------------
(* The window thread: connect_to_selected_server.                           *)

\* The user acts when the messages posted before have been handled, but for a few.
AtRest == vui = "idle" /\ Len(states) <= MaxStates

\* The Connect button: g_connected is read first, g_connecting second.
UserConnects ==
    /\ AtRest /\ ~shown /\ ~vConnected
    /\ vui' = "cConnecting"
    /\ UNCHANGED <<vFlags, vSocks, conn, vPending, vid, vDev, vLine, vOut, closing,
                   vWindow, channel>>

VuiReadConnecting ==
    /\ Vui("cConnecting", IF vConnecting THEN "idle" ELSE "cStore")
    /\ UNCHANGED <<vFlags, vSocks, conn, vPending, vid, vDev, vLine, vOut, closing,
                   vWindow, channel>>

VuiStoreConnecting ==
    /\ Vui("cStore", "cJoin")
    /\ vConnecting' = TRUE
    /\ UNCHANGED <<vConnected, vAccess, vSocks, conn, vPending, vid, vDev, vLine,
                   vOut, closing, vWindow, channel>>

\* The previous connection thread is joined, and the next one starts.
VuiStartConn ==
    /\ Vui("cJoin", "idle")
    /\ conn \in {"none", "ended"} /\ conn' = "publish"
    /\ UNCHANGED <<vFlags, vSocks, vPending, vid, vDev, vLine, vOut, closing,
                   vWindow, channel>>

------------------------------------------------------------------------------
(* The window thread: the grants and the input.                             *)

\* Alt+K or Alt+M, while g_connected.
UserToggles(d) ==
    /\ AtRest /\ vConnected
    /\ vui' = "toggle" /\ vDev' = d
    /\ UNCHANGED <<vFlags, vSocks, conn, vPending, vid, vLine, vOut, closing,
                   vWindow, channel>>

VuiLoadOld ==
    /\ Vui("toggle", "store")
    /\ vLine' = [vLine EXCEPT ![vDev] = ~vAccess[vDev]]
    /\ UNCHANGED <<vFlags, vSocks, conn, vPending, vid, vDev, vOut, closing,
                   vWindow, channel>>

VuiStoreNew ==
    /\ Vui("store", "loadK")
    /\ vAccess' = [vAccess EXCEPT ![vDev] = vLine[vDev]]
    /\ vDev' = "keyboard"
    /\ UNCHANGED <<vConnected, vConnecting, vSocks, conn, vPending, vid, vLine,
                   vOut, closing, vWindow, channel>>

\* send_access_state
VuiLoadKeyboard ==
    /\ Vui("loadK", "loadM")
    /\ vLine' = [vLine EXCEPT !["keyboard"] = vAccess["keyboard"]]
    /\ UNCHANGED <<vFlags, vSocks, conn, vPending, vid, vDev, vOut, closing,
                   vWindow, channel>>

VuiLoadMouse ==
    /\ Vui("loadM", "send")
    /\ vOut' = AccessLine([vLine EXCEPT !["mouse"] = vAccess["mouse"]])
    /\ vLine' = Blocked
    /\ UNCHANGED <<vFlags, vSocks, conn, vPending, vid, vDev, closing, vWindow,
                   channel>>

\* A key or the mouse: g_connected, then the grant.
UserInputs(d) ==
    /\ AtRest /\ vConnected
    /\ vui' = "input" /\ vDev' = d
    /\ UNCHANGED <<vFlags, vSocks, conn, vPending, vid, vLine, vOut, closing,
                   vWindow, channel>>

VuiCheckGrant ==
    /\ vui = "input"
    /\ IF vAccess[vDev] THEN vui' = "send" /\ vOut' = InputLine(vDev)
                        ELSE vui' = "idle" /\ UNCHANGED vOut
    /\ vDev' = "keyboard"
    /\ UNCHANGED <<vFlags, vSocks, conn, vPending, vid, vLine, closing, vWindow,
                   channel>>

\* send_control_line: nothing is sent when the socket is closed.
AfterSend == IF vOut = Disconnect THEN "dConnected" ELSE "idle"

VuiLockToSend ==
    /\ vui = "send"
    /\ IF control THEN vui' = "sending" /\ UNCHANGED vOut
                  ELSE vui' = AfterSend /\ vOut' = NoLine
    /\ UNCHANGED <<vFlags, vSocks, conn, vPending, vid, vDev, vLine, closing,
                   vWindow, channel>>

\* On a socket that is not connected yet send() fails.
VuiSend ==
    /\ Vui("sending", AfterSend)
    /\ IF link = NoConn THEN UNCHANGED channel ELSE ViewerSends(link, vOut)
    /\ vOut' = NoLine
    /\ UNCHANGED <<vFlags, vSocks, conn, vPending, vid, vDev, vLine, closing,
                   vWindow>>

------------------------------------------------------------------------------
(* The window thread: disconnect_from_server and WM_CLOSE.                  *)

AfterDisconnect == IF closing THEN "joinConn" ELSE "idle"

Disconnects(close) ==
    /\ AtRest
    /\ closing' = close
    /\ IF vConnected THEN vui' = "send" /\ vOut' = Disconnect
                     ELSE vui' = "dConnecting" /\ UNCHANGED vOut
    /\ UNCHANGED <<vFlags, vSocks, conn, vPending, vid, vDev, vLine, vWindow, channel>>

\* Alt+X
UserDisconnects == Disconnects(FALSE)

\* WM_CLOSE
UserCloses == Disconnects(TRUE)

VuiDisconnectGuard ==
    /\ vui = "dConnecting"
    /\ IF vConnecting THEN vui' = "send" /\ vOut' = Disconnect
                      ELSE vui' = AfterDisconnect /\ UNCHANGED vOut
    /\ UNCHANGED <<vFlags, vSocks, conn, vPending, vid, vDev, vLine, closing,
                   vWindow, channel>>

VuiClearConnected ==
    /\ Vui("dConnected", "dClearConnecting")
    /\ vConnected' = FALSE
    /\ UNCHANGED <<vConnecting, vAccess, vSocks, conn, vPending, vid, vDev, vLine,
                   vOut, closing, vWindow, channel>>

VuiClearConnecting ==
    /\ Vui("dClearConnecting", "dK")
    /\ vConnecting' = FALSE
    /\ UNCHANGED <<vConnected, vAccess, vSocks, conn, vPending, vid, vDev, vLine,
                   vOut, closing, vWindow, channel>>

VuiReset(d, from, to) ==
    /\ Vui(from, to)
    /\ vAccess' = [vAccess EXCEPT ![d] = FALSE]
    /\ UNCHANGED <<vConnected, vConnecting, vSocks, conn, vPending, vid, vDev, vLine,
                   vOut, closing, vWindow, channel>>

VuiResets == VuiReset("keyboard", "dK", "dM") \/ VuiReset("mouse", "dM", "dVideo")

VuiCloseVideo ==
    /\ Vui("dVideo", "dControl") /\ CloseVideo
    /\ UNCHANGED <<vFlags, control, link, conn, vPending, vid, vDev, vLine, vOut,
                   closing, vWindow, channel>>

VuiCloseControl ==
    /\ Vui("dControl", "dPost") /\ CloseControl
    /\ UNCHANGED <<vFlags, link, videoOpen, conn, vPending, vid, vDev, vLine, vOut,
                   closing, vWindow>>

VuiPostDisconnected ==
    /\ Vui("dPost", AfterDisconnect)
    /\ states' = Append(states, FALSE)
    /\ UNCHANGED <<vFlags, vSocks, conn, vPending, vid, vDev, vLine, vOut, closing,
                   shown, channel>>

VuiJoinConn ==
    /\ Vui("joinConn", "joinVideo")
    /\ conn \in {"none", "ended"} /\ conn' = "none"
    /\ UNCHANGED <<vFlags, vSocks, vPending, vid, vDev, vLine, vOut, closing,
                   vWindow, channel>>

VuiJoinVideo ==
    /\ Vui("joinVideo", "gone")
    /\ vid \in {"none", "ended"} /\ vid' = "none"
    /\ UNCHANGED <<vFlags, vSocks, conn, vPending, vDev, vLine, vOut, closing,
                   vWindow, channel>>

\* WM_CONNECTION_STATE
VuiShow ==
    /\ vui = "idle" /\ states # <<>>
    /\ shown' = Head(states) /\ states' = Tail(states)
    /\ UNCHANGED <<vFlags, vSocks, conn, vPending, vid, vUiVars, channel>>

------------------------------------------------------------------------------
(* The host of the environment.                                             *)

HostAccepts(c) ==
    /\ hostEnd[c] = "backlog"
    /\ hostEnd' = [hostEnd EXCEPT ![c] = "open"]
    /\ UNCHANGED <<viewer, viewerEnd, toHost, toViewer>>

HostSays(c, line) ==
    /\ hostEnd[c] = "open" /\ viewerEnd[c] = "open"
    /\ HostSends(c, line) /\ UNCHANGED viewer

HostReads(c) == (\E n \in 1 .. Capacity : HostReceives(c, n)) /\ UNCHANGED viewer

\* A stop closes all that waits in the backlog at once.
HostHangsUp(S) ==
    (\A c \in S : hostEnd[c] # "closed") /\ HostCloses(S) /\ UNCHANGED viewer

------------------------------------------------------------------------------
ConnStep ==
    \/ ConnPublish
    \/ \E c \in Conn : ConnConnect(c)
    \/ ConnConnectFails \/ ConnHello
    \/ \E n \in 1 .. Capacity : ConnAnswered(n)
    \/ ConnNotAnswered \/ ConnFail \/ ConnFailFlag \/ ConnOpens \/ ConnSpawn
    \/ ConnCheck
    \/ \E n \in 1 .. Capacity : ConnReceive(n)
    \/ ConnReceiveEnds \/ ConnLinesDone \/ ConnIgnore
    \/ ConnApplyKeyboard \/ ConnApplyMouse
    \/ ConnEnds \/ ConnCloseControl \/ ConnCloseVideo \/ ConnJoinVideo

\* What the video thread does without the host.
VidStep ==
    VidPublish \/ VidConnect \/ VidCheck \/ VidAborted \/ VidClose

StreamStep == VidFrame \/ VidStreamEnds

VuiStep ==
    \/ VuiReadConnecting \/ VuiStoreConnecting \/ VuiStartConn
    \/ VuiLoadOld \/ VuiStoreNew \/ VuiLoadKeyboard \/ VuiLoadMouse
    \/ VuiCheckGrant \/ VuiLockToSend \/ VuiSend
    \/ VuiDisconnectGuard \/ VuiClearConnected \/ VuiClearConnecting \/ VuiResets
    \/ VuiCloseVideo \/ VuiCloseControl \/ VuiPostDisconnected
    \/ VuiJoinConn \/ VuiJoinVideo \/ VuiShow

ViewerUser ==
    \/ UserConnects \/ UserDisconnects \/ UserCloses
    \/ \E d \in Device : UserToggles(d) \/ UserInputs(d)

\* The window is closed and the program has ended.
ViewerGone == vui = "gone" /\ UNCHANGED vVars

ViewerNext == ConnStep \/ VidStep \/ StreamStep \/ VuiStep \/ ViewerUser

HostEnvironment ==
    \/ \E c \in Conn :
        \/ HostAccepts(c) \/ HostReads(c)
        \/ \E line \in HostLines : HostSays(c, line)
    \/ \E S \in (SUBSET Conn) \ {{}} : HostHangsUp(S)

VNext == ViewerNext \/ HostEnvironment \/ ViewerGone

VSpec == VInit /\ [][VNext]_vVars

------------------------------------------------------------------------------
(* Safety.                                                                  *)

\* The pcs from the socket's publication to its closing.
ConnSession == {"connect", "hello", "recvOk", "fail", "setConnected",
                "clearConnecting", "resetK", "resetM", "postShow", "spawn", "check",
                "recv", "lines", "applyM", "end", "endConnecting", "endK", "endM",
                "closeControl"}

\* No socket leaks: an open control connection is the one the connection thread
\* is in, and can still be closed through g_controlSocket, which both threads
\* close (viewer/main.cpp:144-152); the video socket is open only while its
\* thread runs, and no connection thread ends before the video thread it started.
ViewerOwnsSockets ==
    /\ \A c \in Conn : viewerEnd[c] = "open" =>
            c = link /\ control /\ conn \in ConnSession
    /\ control => conn \in ConnSession
    /\ videoOpen => vid \in {"connect", "check", "recv", "close"}
    /\ vid \notin {"none"} => conn \notin {"none", "ended", "publish", "endPost"}

\* A connection thread that is over has left the program disconnected, whatever
\* the window thread did meanwhile: the next Connect is not refused
\* (viewer/main.cpp:644).
EndedIsDisconnected ==
    conn \in {"none", "ended"} => ~vConnected /\ (vui = "idle" => ~vConnecting)

\* The Connect button comes back: once the messages posted to it are handled, the
\* window does not go on showing a connection that is over (both threads post
\* WM_CONNECTION_STATE, viewer/main.cpp:358, 585 and 638, and the last one counts).  A
\* post that a full queue drops is left out.
ConnectComesBack ==
    vui = "idle" /\ states = <<>>
        /\ conn \in {"none", "ended", "publish", "connect", "hello", "recvOk",
                     "fail", "failFlag"}
      => ~shown

------------------------------------------------------------------------------
(* Liveness.                                                                *)

ViewerFairness == WF_vVars(ConnStep) /\ WF_vVars(VidStep) /\ WF_vVars(VuiStep)

\* The host's kernel and threads make room for what the viewer sends.
HostReadFairness ==
    \A c \in Conn : WF_vVars(HostAccepts(c)) /\ WF_vVars(HostReads(c))

FairVSpec == VSpec /\ ViewerFairness /\ HostReadFairness

\* The waits for the video thread (viewer/main.cpp:587-589 and 634-636) end: it
\* has published its socket before it looks at g_connected, and those who wait
\* have cleared g_connected before they close that socket.
VideoJoins == conn \in {"joinVideo", "spawn"} ~> conn \notin {"joinVideo", "spawn"}

\* The window thread's own waits end when the host hangs up: for the connection thread,
\* at a Connect and at the window's close, whatever that thread has come to meanwhile,
\* also a session it went on to open after the window thread had found no socket to
\* close (viewer/main.cpp:337-358, 665-669, 1202-1208).  While that host stays, the
\* code waits for as long, with the window: nothing less is claimed.
JoinsReturn ==
    (\A c \in Conn : WF_vVars(HostHangsUp({c})))
      => (vui \in {"cJoin", "joinConn", "joinVideo"} ~> vui \in {"idle", "gone"})

=============================================================================
