---------------------------- MODULE HostControl ----------------------------
(***************************************************************************)
(* The host program's control side (server/main.cpp): the window thread,   *)
(* which starts and stops the server and toggles the grants, and the       *)
(* control thread, which accepts one viewer at a time, keeps the grants in *)
(* step with it and injects its input.                                     *)
(*                                                                         *)
(* The two threads share the flags g_serverRunning, g_keyboardAccess,      *)
(* g_mouseAccess and g_viewerConnected, which are separate atomics (one    *)
(* load or store is one step here), and the sockets, which g_socketMutex   *)
(* guards.  A critical section is one step, except the one that sends on   *)
(* the socket: send() can wait, and the mutex stays taken meanwhile.       *)
(*                                                                         *)
(* Viewers are the environment: they connect, send any protocol line, read *)
(* or do not read, and close.                                              *)
(***************************************************************************)
EXTENDS ControlChannel

CONSTANTS MaxPosted, \* WM_UPDATE_ACCESS that the window's message queue holds at most
          ViewerLines, \* lines the viewers of the environment send
          Buttons    \* the grant buttons that the user clicks

ASSUME PostedAssumption == MaxPosted \in Nat \ {0}
ASSUME LinesAssumption == ViewerLines \subseteq Line
ASSUME ButtonsAssumption == Buttons \subseteq Device

VARIABLES
    running,   \* g_serverRunning
    access,    \* g_keyboardAccess, g_mouseAccess
    connected, \* g_viewerConnected
    listener,  \* g_controlListenSocket
    client,    \* g_controlClientSocket
    ctl,       \* where the control thread is
    cur,       \* its local client_socket
    pending,   \* whole lines of its local buffer that it has not processed
    ctlLine,   \* the access line it is building
    ui,        \* where the window thread is
    uiDev,     \* the device of the clicked button
    uiLine,    \* the values it has loaded of the grants
    uiConn,    \* the value it has loaded of g_viewerConnected
    posted,    \* WM_UPDATE_ACCESS messages not yet handled
    lost,      \* history: one has been dropped, and no refresh begun since
    caption,   \* the grants the buttons and the label show
    enabled    \* whether the grant buttons accept clicks

flags   == <<running, access, connected>>
sockets == <<listener, client>>
ctlVars == <<ctl, cur, pending, ctlLine>>
uiVars  == <<ui, uiDev, uiLine, uiConn>>
window  == <<posted, lost, caption, enabled>>
vars == <<flags, sockets, ctlVars, uiVars, window, channel>>

CtlPc == {"none", "create", "bind", "loop", "accept", "hello", "publish",
          "resetK", "resetM", "setConn", "announce", "sendOk", "loadK", "loadM",
          "sendState", "sending", "check", "recv", "lines", "applyM",
          "postApply", "inject", "end", "endK", "endM", "endConn", "endCheck",
          "endPost", "close", "ended"}

UiPc == {"idle", "toggle", "store", "loadK", "loadM", "sendState", "sending",
         "refresh", "refreshK", "refreshM", "stopClient", "stopListener",
         "join"}

HostTypeOK ==
    /\ running \in BOOLEAN /\ access \in Grant /\ connected \in BOOLEAN
    /\ listener \in {"none", "made", "listening"}
    /\ client \in Conn \cup {NoConn}
    /\ ctl \in CtlPc /\ cur \in Conn \cup {NoConn}
    /\ pending \in Seq(Line) /\ ctlLine \in Grant
    /\ ui \in UiPc /\ uiDev \in Device /\ uiLine \in Grant /\ uiConn \in BOOLEAN
    /\ posted \in 0 .. MaxPosted /\ lost \in BOOLEAN
    /\ caption \in Grant /\ enabled \in BOOLEAN

TypeOK == ChannelTypeOK /\ HostTypeOK

Init ==
    /\ ChannelInit
    /\ running = FALSE /\ access = Blocked /\ connected = FALSE
    /\ listener = "none" /\ client = NoConn
    /\ ctl = "none" /\ cur = NoConn /\ pending = <<>> /\ ctlLine = Blocked
    /\ ui = "idle" /\ uiDev = "keyboard" /\ uiLine = Blocked /\ uiConn = FALSE
    /\ posted = 0 /\ lost = FALSE /\ caption = Blocked /\ enabled = FALSE

\* g_socketMutex is free: no thread is inside the send of an access line.
LockFree == ctl # "sending" /\ ui # "sending"

Ctl(from, to) == ctl = from /\ ctl' = to
Ui(from, to) == ui = from /\ ui' = to

\* A wrong PostUpdate: nothing drops a message.
PostUnbounded == posted' = posted + 1 /\ UNCHANGED lost

\* PostMessage(WM_UPDATE_ACCESS).  The queue also takes the status posts of the
\* control, video and discovery threads: it can be full of those, and this post
\* be dropped, however few updates are in it, even none.
PostUpdate ==
    \/ posted < MaxPosted /\ posted' = posted + 1 /\ UNCHANGED lost
    \/ lost' = TRUE /\ UNCHANGED posted

------------------------------------------------------------------------------
(* The control thread: control_loop.                                        *)

\* socket(): fails, or the listening socket is published.
CtlCreate ==
    /\ ctl = "create" /\ LockFree
    /\ \/ ctl' = "bind" /\ listener' = "made"
       \/ ctl' = "ended" /\ listener' = listener
    /\ UNCHANGED <<flags, client, cur, pending, ctlLine, uiVars, window, channel>>

\* bind() and listen(), on a socket the window thread may have closed already.
CtlListen ==
    /\ Ctl("bind", "loop") /\ listener = "made"
    /\ listener' = "listening"
    /\ UNCHANGED <<flags, client, cur, pending, ctlLine, uiVars, window, channel>>

CtlListenFails ==
    /\ Ctl("bind", "ended") /\ LockFree
    /\ listener' = "none"
    /\ UNCHANGED <<flags, client, cur, pending, ctlLine, uiVars, window, channel>>

CtlLoop ==
    /\ Ctl("loop", IF running THEN "accept" ELSE "close")
    /\ UNCHANGED <<flags, sockets, cur, pending, ctlLine, uiVars, window, channel>>

CtlAccept(c) ==
    /\ Ctl("accept", "hello") /\ listener = "listening"
    /\ hostEnd[c] = "backlog"
    /\ hostEnd' = [hostEnd EXCEPT ![c] = "open"]
    /\ cur' = c
    /\ UNCHANGED <<flags, sockets, pending, ctlLine, uiVars, window,
                   viewerEnd, toHost, toViewer>>

CtlAcceptFails ==
    /\ Ctl("accept", IF running THEN "loop" ELSE "close") /\ listener = "none"
    /\ UNCHANGED <<flags, sockets, cur, pending, ctlLine, uiVars, window, channel>>

\* The one recv of the hello: the connection is not published yet, so nobody
\* else can close it.  What arrives in the same chunk is lost with it.
CtlHello(n) ==
    /\ Ctl("hello", "publish")
    /\ HostReceives(cur, n)
    /\ \E i \in 1 .. n : toHost[cur][i] = Hello
    /\ UNCHANGED <<flags, sockets, cur, pending, ctlLine, uiVars, window>>

\* A wrong CtlRefuse: it forgets closesocket.
CtlRefuseLeak ==
    /\ Ctl("hello", "loop")
    /\ HostRecvEnds(cur) \/ toHost[cur] # <<>>
    /\ cur' = NoConn
    /\ UNCHANGED <<flags, sockets, pending, ctlLine, uiVars, window, channel>>

\* The recv fails, or returns no hello: another line, or only part of one.
CtlRefuse ==
    /\ Ctl("hello", "loop")
    /\ HostRecvEnds(cur) \/ toHost[cur] # <<>>
    /\ HostCloses({cur}) /\ cur' = NoConn
    /\ UNCHANGED <<flags, sockets, pending, ctlLine, uiVars, window>>

\* After the loop: the listening socket and the connections waiting in it close.
Waiting == {c \in Conn : hostEnd[c] = "backlog"}

\* A wrong CtlCloseListener: left to stop_server, which may have come too early.
CtlLeaveListener ==
    /\ Ctl("close", "ended") /\ LockFree
    /\ UNCHANGED <<flags, sockets, cur, pending, ctlLine, uiVars, window, channel>>

CtlCloseListener ==
    /\ Ctl("close", "ended") /\ LockFree
    /\ listener' = "none" /\ HostCloses(Waiting)
    /\ UNCHANGED <<flags, client, cur, pending, ctlLine, uiVars, window>>

------------------------------------------------------------------------------
(* The control thread: handle_connected_client.                             *)

CtlPublish ==
    /\ Ctl("publish", "resetK") /\ LockFree
    /\ client' = cur
    /\ UNCHANGED <<flags, listener, cur, pending, ctlLine, uiVars, window, channel>>

\* A wrong CtlReset: the grants outlive the session.
CtlKeep(d, from, to) ==
    /\ Ctl(from, to)
    /\ UNCHANGED <<flags, sockets, cur, pending, ctlLine, uiVars, window, channel>>

CtlReset(d, from, to) ==
    /\ Ctl(from, to)
    /\ access' = [access EXCEPT ![d] = FALSE]
    /\ UNCHANGED <<running, connected, sockets, cur, pending, ctlLine, uiVars,
                   window, channel>>

CtlResetKeyboard == CtlReset("keyboard", "resetK", "resetM")
CtlResetMouse == CtlReset("mouse", "resetM", "setConn")

CtlSetConnected ==
    /\ Ctl("setConn", "announce")
    /\ connected' = TRUE
    /\ UNCHANGED <<running, access, sockets, cur, pending, ctlLine, uiVars,
                   window, channel>>

CtlAnnounce ==
    /\ Ctl("announce", "sendOk") /\ PostUpdate
    /\ UNCHANGED <<flags, sockets, cur, pending, ctlLine, uiVars, caption,
                   enabled, channel>>

\* The OK is sent on the local socket, without the mutex.
CtlSendOk ==
    /\ Ctl("sendOk", "loadK")
    /\ HostSends(cur, Ok)
    /\ UNCHANGED <<flags, sockets, cur, pending, ctlLine, uiVars, window>>

\* send_access_state_to_viewer: both grants are loaded before the mutex is taken.
CtlLoad(d, from, to) ==
    /\ Ctl(from, to)
    /\ ctlLine' = [ctlLine EXCEPT ![d] = access[d]]
    /\ UNCHANGED <<flags, sockets, cur, pending, uiVars, window, channel>>

CtlLoadKeyboard == CtlLoad("keyboard", "loadK", "loadM")
CtlLoadMouse == CtlLoad("mouse", "loadM", "sendState")

CtlLockToSend ==
    /\ ctl = "sendState" /\ LockFree
    /\ IF client = NoConn THEN ctl' = "check" /\ ctlLine' = Blocked
                          ELSE ctl' = "sending" /\ UNCHANGED ctlLine
    /\ UNCHANGED <<flags, sockets, cur, pending, uiVars, window, channel>>

CtlSendState ==
    /\ Ctl("sending", "check")
    /\ HostSends(client, AccessLine(ctlLine))
    /\ ctlLine' = Blocked
    /\ UNCHANGED <<flags, sockets, cur, pending, uiVars, window>>

CtlCheck ==
    /\ Ctl("check", IF running THEN "recv" ELSE "end")
    /\ UNCHANGED <<flags, sockets, cur, pending, ctlLine, uiVars, window, channel>>

CtlReceive(n) ==
    /\ Ctl("recv", "lines")
    /\ HostReceives(cur, n)
    /\ pending' = First(toHost[cur], n)
    /\ UNCHANGED <<flags, sockets, cur, ctlLine, uiVars, window>>

\* A wrong CtlReceiveEnds: `received < 0` for `received <= 0`.
CtlReceiveFails ==
    /\ Ctl("recv", "end") /\ hostEnd[cur] # "open"
    /\ UNCHANGED <<flags, sockets, cur, pending, ctlLine, uiVars, window, channel>>

CtlReceiveEnds ==
    /\ Ctl("recv", "end") /\ HostRecvEnds(cur)
    /\ UNCHANGED <<flags, sockets, cur, pending, ctlLine, uiVars, window, channel>>

CtlLinesDone ==
    /\ Ctl("lines", "check") /\ pending = <<>>
    /\ UNCHANGED <<flags, sockets, cur, pending, ctlLine, uiVars, window, channel>>

\* The next line is of this kind.
NextLine(kind) == ctl = "lines" /\ pending # <<>> /\ Head(pending).kind = kind

CtlDisconnect ==
    /\ NextLine("disconnect")
    /\ ctl' = "end" /\ pending' = <<>>
    /\ UNCHANGED <<flags, sockets, cur, ctlLine, uiVars, window, channel>>

\* A line process_control_line does not know.
CtlIgnore ==
    /\ NextLine("hello") \/ NextLine("ok")
    /\ ctl' = ctl /\ pending' = Tail(pending)
    /\ UNCHANGED <<flags, sockets, cur, ctlLine, uiVars, window, channel>>

\* A wrong CtlApplyKeyboard: the order of the two fields is swapped.
CtlApplySwapped ==
    /\ NextLine("access")
    /\ ctl' = "applyM"
    /\ access' = [access EXCEPT !["keyboard"] = Head(pending).grant["mouse"]]
    /\ UNCHANGED <<running, connected, sockets, cur, pending, ctlLine, uiVars,
                   window, channel>>

\* process_control_line of an access line: two stores and a post, and no echo.
CtlApplyKeyboard ==
    /\ NextLine("access")
    /\ ctl' = "applyM"
    /\ access' = [access EXCEPT !["keyboard"] = Head(pending).grant["keyboard"]]
    /\ UNCHANGED <<running, connected, sockets, cur, pending, ctlLine, uiVars,
                   window, channel>>

CtlApplyMouse ==
    /\ Ctl("applyM", "postApply")
    /\ access' = [access EXCEPT !["mouse"] = Head(pending).grant["mouse"]]
    /\ pending' = Tail(pending)
    /\ UNCHANGED <<running, connected, sockets, cur, ctlLine, uiVars, window, channel>>

\* A wrong CtlPostApplied: the window is not told of the viewer's change.
CtlApplySilently ==
    /\ Ctl("postApply", "lines")
    /\ UNCHANGED <<flags, sockets, cur, pending, ctlLine, uiVars, window, channel>>

CtlPostApplied ==
    /\ Ctl("postApply", "lines") /\ PostUpdate
    /\ UNCHANGED <<flags, sockets, cur, pending, ctlLine, uiVars, caption,
                   enabled, channel>>

\* process_control_line of an input line: the grant is loaded, then SendInput.
CtlCheckInput ==
    /\ NextLine("input")
    /\ IF access[Head(pending).dev]
         THEN ctl' = "inject" /\ UNCHANGED pending
         ELSE ctl' = "lines" /\ pending' = Tail(pending)
    /\ UNCHANGED <<flags, sockets, cur, ctlLine, uiVars, window, channel>>

CtlInject ==
    /\ Ctl("inject", "lines")
    /\ pending' = Tail(pending)
    /\ UNCHANGED <<flags, sockets, cur, ctlLine, uiVars, window, channel>>

\* The epilogue, the same after a disconnect line and after the loop.
CloseClient == client' = NoConn /\ HostCloses({client})

CtlEnd ==
    /\ Ctl("end", "endK") /\ LockFree
    /\ CloseClient
    /\ UNCHANGED <<flags, listener, cur, pending, ctlLine, uiVars, window>>

CtlEndKeyboard == CtlReset("keyboard", "endK", "endM")
CtlEndMouse == CtlReset("mouse", "endM", "endConn")

CtlEndConnected ==
    /\ Ctl("endConn", "endCheck")
    /\ connected' = FALSE
    /\ UNCHANGED <<running, access, sockets, cur, pending, ctlLine, uiVars,
                   window, channel>>

\* A wrong CtlEndCheck: it waits for nothing and tells the window nothing.
CtlEndQuietly ==
    /\ Ctl("endCheck", "loop") /\ cur' = NoConn
    /\ UNCHANGED <<flags, sockets, pending, ctlLine, uiVars, window, channel>>

CtlEndCheck ==
    /\ ctl = "endCheck"
    /\ IF running THEN ctl' = "endPost" /\ UNCHANGED cur
                  ELSE ctl' = "loop" /\ cur' = NoConn
    /\ UNCHANGED <<flags, sockets, pending, ctlLine, uiVars, window, channel>>

CtlEndPost ==
    /\ Ctl("endPost", "loop") /\ PostUpdate /\ cur' = NoConn
    /\ UNCHANGED <<flags, sockets, pending, ctlLine, uiVars, caption, enabled,
                   channel>>

------------------------------------------------------------------------------
(* The window thread.                                                       *)

\* start_server: no other thread runs, so it is one step.
UiStart ==
    /\ ui = "idle" /\ ~running
    /\ running' = TRUE /\ access' = Blocked /\ connected' = FALSE
    /\ caption' = Blocked /\ enabled' = FALSE /\ lost' = FALSE
    /\ ctl' = "create"
    /\ UNCHANGED <<sockets, cur, pending, ctlLine, uiVars, posted, channel>>

\* A click on an enabled grant button; g_viewerConnected is checked first.
UiClick(d) ==
    /\ Ui("idle", "toggle") /\ enabled /\ connected
    /\ uiDev' = d
    /\ UNCHANGED <<flags, sockets, ctlVars, uiLine, uiConn, window, channel>>

UiLoadOld ==
    /\ Ui("toggle", "store")
    /\ uiLine' = [uiLine EXCEPT ![uiDev] = ~access[uiDev]]
    /\ UNCHANGED <<flags, sockets, ctlVars, uiDev, uiConn, window, channel>>

UiStoreNew ==
    /\ Ui("store", "loadK")
    /\ access' = [access EXCEPT ![uiDev] = uiLine[uiDev]]
    /\ uiDev' = "keyboard"
    /\ UNCHANGED <<running, connected, sockets, ctlVars, uiLine, uiConn, window,
                   channel>>

UiLoad(d, from, to) ==
    /\ Ui(from, to)
    /\ uiLine' = [uiLine EXCEPT ![d] = access[d]]
    /\ UNCHANGED <<flags, sockets, ctlVars, uiDev, uiConn, window, channel>>

UiLoadKeyboard == UiLoad("keyboard", "loadK", "loadM")
UiLoadMouse == UiLoad("mouse", "loadM", "sendState")

UiLockToSend ==
    /\ ui = "sendState" /\ LockFree
    /\ IF client = NoConn THEN ui' = "refresh" /\ uiLine' = Blocked
                          ELSE ui' = "sending" /\ UNCHANGED uiLine
    /\ UNCHANGED <<flags, sockets, ctlVars, uiDev, uiConn, window, channel>>

UiSendState ==
    /\ Ui("sending", "refresh")
    /\ HostSends(client, AccessLine(uiLine))
    /\ uiLine' = Blocked
    /\ UNCHANGED <<flags, sockets, ctlVars, uiDev, uiConn, window>>

\* WM_UPDATE_ACCESS.
UiUpdate ==
    /\ Ui("idle", "refresh") /\ posted > 0
    /\ posted' = posted - 1
    /\ UNCHANGED <<flags, sockets, ctlVars, uiDev, uiLine, uiConn, lost, caption,
                   enabled, channel>>

\* refresh_access_controls: three loads, then the buttons and the label.
UiRefresh ==
    /\ Ui("refresh", "refreshK")
    /\ uiConn' = connected /\ lost' = FALSE
    /\ UNCHANGED <<flags, sockets, ctlVars, uiDev, uiLine, posted, caption,
                   enabled, channel>>

UiRefreshKeyboard == UiLoad("keyboard", "refreshK", "refreshM")

UiRefreshMouse ==
    /\ Ui("refreshM", "idle")
    /\ caption' = [uiLine EXCEPT !["mouse"] = access["mouse"]]
    /\ enabled' = uiConn
    /\ uiLine' = Blocked /\ uiConn' = FALSE
    /\ UNCHANGED <<flags, sockets, ctlVars, uiDev, posted, lost, channel>>

\* stop_server: the flag first, then the sockets, then the join.
UiStop ==
    /\ Ui("idle", "stopClient") /\ running
    /\ running' = FALSE
    /\ UNCHANGED <<access, connected, sockets, ctlVars, uiDev, uiLine, uiConn,
                   window, channel>>

UiStopClient ==
    /\ Ui("stopClient", "stopListener") /\ LockFree
    /\ CloseClient
    /\ UNCHANGED <<flags, listener, ctlVars, uiDev, uiLine, uiConn, window>>

\* A wrong UiStopListener: it forgets the socket the control thread accepts on.
UiStopWithoutListener ==
    /\ Ui("stopListener", "join") /\ LockFree
    /\ UNCHANGED <<flags, sockets, ctlVars, uiDev, uiLine, uiConn, window, channel>>

UiStopListener ==
    /\ Ui("stopListener", "join") /\ LockFree
    /\ listener' = "none" /\ HostCloses(Waiting)
    /\ UNCHANGED <<flags, client, ctlVars, uiDev, uiLine, uiConn, window>>

\* The join returns, and what follows runs alone.
UiJoin ==
    /\ Ui("join", "idle") /\ ctl = "ended"
    /\ ctl' = "none"
    /\ access' = Blocked /\ connected' = FALSE
    /\ caption' = Blocked /\ enabled' = FALSE /\ lost' = FALSE
    /\ UNCHANGED <<running, sockets, cur, pending, ctlLine, uiDev, uiLine,
                   uiConn, posted, channel>>

------------------------------------------------------------------------------
(* The viewers of the environment.                                          *)

host == <<flags, sockets, ctlVars, uiVars, window>>

\* A socket the control thread still names is not reused for a new connection.
PeerConnects(c) ==
    listener = "listening" /\ c # cur /\ Connects(c) /\ UNCHANGED host

PeerSends(c, line) ==
    /\ viewerEnd[c] = "open" /\ hostEnd[c] # "closed"
    /\ ViewerSends(c, line) /\ UNCHANGED host

PeerReads(c) == (\E n \in 1 .. Capacity : ViewerReceives(c, n)) /\ UNCHANGED host

PeerCloses(c) == viewerEnd[c] = "open" /\ ViewerCloses({c}) /\ UNCHANGED host

------------------------------------------------------------------------------
CtlStep ==
    \/ CtlCreate \/ CtlListen \/ CtlListenFails \/ CtlLoop
    \/ \E c \in Conn : CtlAccept(c)
    \/ CtlAcceptFails
    \/ \E n \in 1 .. Capacity : CtlHello(n)
    \/ CtlRefuse \/ CtlCloseListener
    \/ CtlPublish \/ CtlResetKeyboard \/ CtlResetMouse \/ CtlSetConnected
    \/ CtlAnnounce \/ CtlSendOk \/ CtlLoadKeyboard \/ CtlLoadMouse
    \/ CtlLockToSend \/ CtlSendState \/ CtlCheck
    \/ \E n \in 1 .. Capacity : CtlReceive(n)
    \/ CtlReceiveEnds \/ CtlLinesDone \/ CtlDisconnect \/ CtlIgnore
    \/ CtlApplyKeyboard \/ CtlApplyMouse \/ CtlPostApplied
    \/ CtlCheckInput \/ CtlInject
    \/ CtlEnd \/ CtlEndKeyboard \/ CtlEndMouse \/ CtlEndConnected
    \/ CtlEndCheck \/ CtlEndPost

\* What the window thread does once it has started: everything but the user.
UiStep ==
    \/ UiLoadOld \/ UiStoreNew \/ UiLoadKeyboard \/ UiLoadMouse
    \/ UiLockToSend \/ UiSendState \/ UiUpdate \/ UiRefresh
    \/ UiRefreshKeyboard \/ UiRefreshMouse
    \/ UiStopClient \/ UiStopListener \/ UiJoin

UserStep == UiStart \/ UiStop \/ \E d \in Buttons : UiClick(d)

HostNext == CtlStep \/ UiStep \/ UserStep

PeerNext ==
    \E c \in Conn :
        \/ PeerConnects(c) \/ PeerReads(c) \/ PeerCloses(c)
        \/ \E line \in ViewerLines : PeerSends(c, line)

Next == HostNext \/ PeerNext

Spec == Init /\ [][Next]_vars

------------------------------------------------------------------------------
(* Safety.                                                                  *)

\* Once a stop has returned (and before the first start) nothing of the server
\* is left: the control thread is joined, no socket of it is open, no viewer is
\* served or waits, and no grant is on.  start_server relies on it when it
\* assigns new threads to g_controlThread (main.cpp:894-896), and the close
\* order of stop_server (904-926) must establish it whatever the control thread
\* was doing.
OffIsQuiet ==
    ui = "idle" /\ ~running =>
        /\ ctl = "none" /\ cur = NoConn
        /\ client = NoConn /\ listener = "none"
        /\ access = Blocked /\ ~connected
        /\ \A c \in Conn : hostEnd[c] = "closed"

\* No accepted socket leaks: one that is open belongs to the session the control
\* thread is in, and the published one is that session's and not yet closed,
\* whoever closes it (the epilogue, 557 and 538, or stop_server, 907).
SessionPc == CtlPc \ {"none", "create", "bind", "loop", "accept", "endK", "endM",
                      "endConn", "endCheck", "endPost", "close", "ended"}

SessionOwnsSocket ==
    /\ \A c \in Conn : hostEnd[c] = "open" => c = cur /\ ctl \in SessionPc
    /\ client # NoConn => client = cur /\ hostEnd[client] = "open"

\* A store of the control thread that its next WM_UPDATE_ACCESS has yet to cover.
Unposted == ctl \in {"resetM", "setConn", "announce", "applyM", "postApply",
                     "endM", "endConn", "endCheck", "endPost"}

\* The buttons and the label do not stay wrong: whenever the window thread is
\* between messages with no update to handle, they show the grants, and the
\* buttons accept clicks exactly while a viewer is connected, though
\* refresh_access_controls (188-215) reads three atomics the control thread may be
\* changing.  An update that is dropped (166-168 ignore PostMessage's result) leaves
\* them wrong until the next refresh begins, whatever it was about, and no longer.
CaptionFresh ==
    ui = "idle" /\ posted = 0 /\ ~Unposted /\ ~lost =>
        caption = access /\ enabled = connected

------------------------------------------------------------------------------
(* The inductive invariant behind the safety properties, in named parts.    *)

StopPc == {"stopClient", "stopListener", "join"}
RefreshPc == {"refresh", "refreshK", "refreshM"}
Published == SessionPc \ {"hello", "publish"}

\* g_serverRunning is what tells whether a control thread exists, except while
\* a stop is under way.
ThreadInv ==
    /\ ui \in StopPc => ~running /\ ctl # "none"
    /\ ui \notin StopPc => (running <=> ctl # "none")
    /\ ctl = "none" => ui \in {"idle"} \cup RefreshPc
    /\ ctl = "none" => access = Blocked /\ ~connected

\* Who owns which socket.
SocketInv ==
    /\ ctl \in SessionPc => cur \in Conn
    /\ ctl \in {"none", "create", "bind", "loop", "accept", "close", "ended"} =>
         cur = NoConn
    /\ ctl \in {"hello", "publish"} => hostEnd[cur] = "open"
    /\ ctl \in Published /\ hostEnd[cur] = "open" => client = cur
    /\ client # NoConn => ctl \in Published
    /\ ctl = "sending" \/ ui = "sending" => client # NoConn
    /\ \A c \in Conn : hostEnd[c] = "backlog" => listener = "listening"
    /\ ctl \in {"none", "create", "ended"} => listener = "none"
    /\ ctl = "bind" => listener # "listening"

\* A line the control thread is in the middle of is still in its buffer.
PendingInv == ctl \in {"applyM", "inject"} => pending # <<>>

\* A refresh in progress has loaded current values, or another one will follow, or
\* has been lost.
FreshInv ==
    posted = 0 /\ ~Unposted /\ ~lost =>
        /\ ui = "idle" => caption = access /\ enabled = connected
        /\ ui \in {"refreshK", "refreshM"} => uiConn = connected
        /\ ui = "refreshM" => uiLine["keyboard"] = access["keyboard"]

\* What the gate needs besides: a viewer counts as connected exactly between the
\* two stores, and when a session begins at most one late click has come through
\* the reset, and none is then on its way.
Connected == {"announce", "sendOk", "loadK", "loadM", "sendState", "sending",
              "check", "recv", "lines", "applyM", "postApply", "inject", "end",
              "endK", "endM", "endConn"}

GateInv ==
    /\ connected <=> ctl \in Connected
    /\ connected => cur # NoConn
    /\ ctl = "resetM" /\ ui \in {"toggle", "store"} => ~access["keyboard"]
    /\ ctl = "setConn" =>
         /\ ~(access["keyboard"] /\ access["mouse"])
         /\ ui \in {"toggle", "store"} => ~access["keyboard"] /\ ~access["mouse"]

IInv ==
    /\ TypeOK /\ ThreadInv /\ SocketInv /\ SessionOwnsSocket /\ PendingInv
    /\ FreshInv

------------------------------------------------------------------------------
(* The abstract specification.                                              *)

\* The gate: the host implements GrantGate, which says what the four atomics mean
\* together.  A viewer is connected from the store at main.cpp:506 to the one at
\* 561; "New session always starts with nothing granted" (503) is true but for a
\* click that was checked in the session before and is stored after the reset.
Gate == INSTANCE GrantGate WITH
    power <- IF running THEN "on"
             ELSE IF ui \in StopPc THEN "stopping"
             ELSE "off",
    viewer <- IF connected THEN cur ELSE NoConn,
    grant <- IF connected THEN access ELSE Blocked

ImplementsGate == Gate!Spec

------------------------------------------------------------------------------
(* Liveness.                                                                *)

\* The operating system runs both threads, and the window handles its messages.
ThreadFairness == WF_vars(CtlStep) /\ WF_vars(UiStep)

\* Viewers read what they are sent.
ReadFairness == \A c \in Conn : WF_vars(PeerReads(c))

\* A viewer whose connection the host has open sends its hello, or goes away.
HelloFairness ==
    \A c \in Conn : WF_vars(hostEnd[c] = "open" /\ (PeerSends(c, Hello) \/ PeerCloses(c)))

SilentSpec == Spec /\ ThreadFairness /\ ReadFairness
FairSpec == SilentSpec /\ HelloFairness

\* Every viewer leaves in the end, and the listen backlog is a queue: a viewer in
\* it is not passed over for ever.
LeaveFairness == \A c \in Conn : WF_vars(PeerCloses(c)) /\ SF_vars(CtlAccept(c))

\* Turning the server off (the button, `ltdesk down`) returns.
StopCompletes == ui = "stopClient" ~> ui = "idle"

\* A viewer that connects while another session is served, or while it is being
\* torn down, is served (or dropped by a stop) once the earlier viewer has left:
\* the one control thread always comes back to accept.  A user who never stops
\* clicking could keep it from the mutex.
BacklogServed ==
    LeaveFairness /\ <>[](ui # "toggle") =>
        \A c \in Conn : hostEnd[c] = "backlog" ~> hostEnd[c] # "backlog"

=============================================================================
