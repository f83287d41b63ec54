-------------------------- MODULE AccessSyncProofs --------------------------
(***************************************************************************)
(* Proofs about the host and the viewer together.                          *)
(*                                                                         *)
(* First, each program is what the other's module takes its environment    *)
(* for, so that both modules' invariants hold here (SyncInv): every step   *)
(* of the two together is a step of each module, or changes nothing that   *)
(* the module has.                                                         *)
(*                                                                         *)
(* Then, with users who take turns, one session goes through three phases  *)
(* (TurnInv): Free, before anybody is granted anything; InUse, in which at *)
(* any time at most one access line exists, and it says what its sender    *)
(* holds; and Ending, in which one side has begun to close and each takes  *)
(* back what it holds.  What the two users see at rest follows.            *)
(***************************************************************************)
EXTENDS AccessSync, ControlProofs

\* What is in the socket buffers of an end is gone when that end is closed.
ClosedIsEmpty ==
    \A c \in Conn :
        /\ viewerEnd[c] # "open" => toViewer[c] = <<>>
        /\ hostEnd[c] = "closed" => toHost[c] = <<>>

\* Closing no socket of the host's, or of the viewer's, changes nothing.
LEMMA ClosesNothing ==
    ASSUME ChannelTypeOK, ClosedIsEmpty, NEW S
    PROVE  /\ HostCloses(S) /\ (\A c \in Conn : c \in S => hostEnd[c] = "closed")
                => UNCHANGED channel
           /\ ViewerCloses(S) /\ (\A c \in Conn : c \in S => viewerEnd[c] # "open")
                => UNCHANGED channel
  <1>1. ASSUME HostCloses(S), \A c \in Conn : c \in S => hostEnd[c] = "closed"
        PROVE  UNCHANGED channel
    <2>1. hostEnd' = hostEnd
      BY <1>1 DEF HostCloses, ChannelTypeOK
    <2>2. toHost' = toHost
      BY <1>1 DEF HostCloses, ChannelTypeOK, ClosedIsEmpty
    <2>3. QED
      BY <1>1, <2>1, <2>2 DEF HostCloses, channel
  <1>2. ASSUME ViewerCloses(S), \A c \in Conn : c \in S => viewerEnd[c] # "open"
        PROVE  UNCHANGED channel
    <2>1. viewerEnd' = viewerEnd
      BY <1>2 DEF ViewerCloses, ChannelTypeOK
    <2>2. toViewer' = toViewer
      BY <1>2 DEF ViewerCloses, ChannelTypeOK, ClosedIsEmpty
    <2>3. QED
      BY <1>2, <2>1, <2>2 DEF ViewerCloses, channel
  <1>3. QED
    BY <1>1, <1>2

\* What the host does to the connections is what the viewer's environment may do.
LEMMA HostSteps ==
    ASSUME IInv, ClosedIsEmpty, HostNext, UNCHANGED viewer
    PROVE  HostEnvironment \/ UNCHANGED vVars
  <1>. USE DEF IInv, TypeOK, HostTypeOK
  <1>1. UNCHANGED channel => UNCHANGED vVars
    BY DEF vVars
  <1>2. ASSUME NEW c \in Conn, NEW line \in Line, HostSends(c, line)
        PROVE  HostEnvironment \/ UNCHANGED vVars
    <2>1. CASE hostEnd[c] = "open" /\ viewerEnd[c] = "open"
      BY <1>2, <2>1, TogetherAssumption DEF HostEnvironment, HostSays
    <2>2. CASE ~(hostEnd[c] = "open" /\ viewerEnd[c] = "open")
      BY <1>1, <1>2, <2>2 DEF HostSends, channel
    <2>3. QED
      BY <2>1, <2>2
  <1>3. ASSUME NEW c \in Conn, NEW n \in 1 .. Capacity, HostReceives(c, n)
        PROVE  HostEnvironment \/ UNCHANGED vVars
    BY <1>3 DEF HostEnvironment, HostReads
  <1>4. ASSUME NEW S \in SUBSET Conn, HostCloses(S),
               (\A c \in S : hostEnd[c] # "closed") \/ (\A c \in S : hostEnd[c] = "closed")
        PROVE  HostEnvironment \/ UNCHANGED vVars
    <2>1. CASE S # {} /\ \A c \in S : hostEnd[c] # "closed"
      <3>1. HostHangsUp(S)
        BY <1>4, <2>1 DEF HostHangsUp
      <3>2. S \in (SUBSET Conn) \ {{}}
        BY <2>1
      <3>3. QED
        BY <3>1, <3>2 DEF HostEnvironment
    <2>2. CASE \A c \in S : hostEnd[c] = "closed"
      BY <1>1, <1>4, <2>2, ClosesNothing
    <2>3. QED
      BY <1>4, <2>1, <2>2
  <1>5. CloseClient => HostEnvironment \/ UNCHANGED vVars
    <2>1. CASE client = NoConn
      BY <2>1, <1>1, ClosesNothing, NoConnAssumption DEF CloseClient
    <2>2. CASE client # NoConn
      BY <2>2, <1>4 DEF CloseClient
    <2>3. QED
      BY <2>1, <2>2
  <1>6. HostCloses(Waiting) => HostEnvironment \/ UNCHANGED vVars
    BY <1>4 DEF Waiting
  <1>7. ctl \in SessionPc => cur \in Conn
    BY DEF SocketInv
  <1>8. CASE CtlCreate \/ CtlListen \/ CtlListenFails \/ CtlLoop \/ CtlAcceptFails
             \/ CtlPublish \/ CtlResetKeyboard \/ CtlResetMouse \/ CtlSetConnected \/ CtlAnnounce
             \/ CtlLoadKeyboard \/ CtlLoadMouse \/ CtlLockToSend \/ CtlCheck
    BY <1>8, <1>1 DEF CtlCreate, CtlListen, CtlListenFails, CtlLoop, CtlAcceptFails, CtlPublish,
       CtlResetKeyboard, CtlResetMouse, CtlReset, CtlSetConnected, CtlAnnounce, CtlLoadKeyboard,
       CtlLoadMouse, CtlLoad, CtlLockToSend, CtlCheck
  <1>9. CASE CtlReceiveEnds \/ CtlLinesDone \/ CtlDisconnect \/ CtlIgnore
             \/ CtlApplyKeyboard \/ CtlApplyMouse \/ CtlPostApplied \/ CtlCheckInput \/ CtlInject
             \/ CtlEndKeyboard \/ CtlEndMouse \/ CtlEndConnected \/ CtlEndCheck \/ CtlEndPost
    BY <1>9, <1>1 DEF CtlReceiveEnds, CtlLinesDone, CtlDisconnect, CtlIgnore, CtlApplyKeyboard,
       CtlApplyMouse, CtlPostApplied, CtlCheckInput, CtlInject, CtlEndKeyboard, CtlEndMouse,
       CtlReset, CtlEndConnected, CtlEndCheck, CtlEndPost
  <1>10. ASSUME NEW c \in Conn, CtlAccept(c) PROVE HostEnvironment
    BY <1>10 DEF CtlAccept, HostEnvironment, HostAccepts
  <1>11. ASSUME NEW n \in 1 .. Capacity, CtlHello(n) \/ CtlReceive(n)
         PROVE  HostEnvironment \/ UNCHANGED vVars
    BY <1>11, <1>3, <1>7 DEF CtlHello, CtlReceive, Ctl, SessionPc, CtlPc
  <1>12. CASE CtlRefuse
    <2>1. cur \in Conn /\ HostCloses({cur})
      BY <1>12, <1>7 DEF CtlRefuse, Ctl, SessionPc, CtlPc
    <2>2. QED
      BY <2>1, <1>4
  <1>13. CASE CtlCloseListener \/ UiStopListener
    BY <1>13, <1>6 DEF CtlCloseListener, UiStopListener
  <1>14. CASE CtlSendOk
    BY <1>14, <1>2, <1>7, LineMembers DEF CtlSendOk, Ctl, SessionPc, CtlPc
  <1>15. CASE CtlSendState \/ UiSendState
    <2>1. client \in Conn /\ AccessLine(ctlLine) \in Line /\ AccessLine(uiLine) \in Line
      BY <1>15, LineMembers DEF CtlSendState, UiSendState, Ctl, Ui, SocketInv
    <2>2. QED
      BY <1>2, <1>15, <2>1 DEF CtlSendState, UiSendState
  <1>16. CASE CtlEnd \/ UiStopClient
    BY <1>16, <1>5 DEF CtlEnd, UiStopClient
  <1>17. CASE UiLoadOld \/ UiStoreNew \/ UiLoadKeyboard \/ UiLoadMouse \/ UiLockToSend
              \/ UiUpdate \/ UiRefresh \/ UiRefreshKeyboard \/ UiRefreshMouse \/ UiJoin
    BY <1>17, <1>1 DEF UiLoadOld, UiStoreNew, UiLoadKeyboard, UiLoadMouse, UiLoad, UiLockToSend,
       UiUpdate, UiRefresh, UiRefreshKeyboard, UiRefreshMouse, UiJoin
  <1>18. CASE UserStep
    BY <1>18, <1>1 DEF UserStep, UiStart, UiStop, UiClick
  <1>19. QED
    BY <1>8, <1>9, <1>10, <1>11, <1>12, <1>13, <1>14, <1>15, <1>16, <1>17, <1>18
    DEF HostNext, CtlStep, UiStep

\* What the viewer does to the connections is what the host's environment may do.
LEMMA ViewerSteps ==
    ASSUME VInv, ClosedIsEmpty, ViewerNext, ConnectReaches, UNCHANGED host
    PROVE  PeerNext \/ UNCHANGED vars
  <1>. USE DEF VInv, VTypeOK
  <1>1. UNCHANGED channel => UNCHANGED vars
    BY DEF vars, host
  <1>2. link # NoConn => link \in Conn
    OBVIOUS
  <1>3. ASSUME NEW c \in Conn, NEW line \in Line, ViewerSends(c, line)
        PROVE  PeerNext \/ UNCHANGED vars
    <2>1. CASE viewerEnd[c] = "open" /\ hostEnd[c] # "closed"
      BY <1>3, <2>1, TogetherAssumption DEF PeerNext, PeerSends
    <2>2. CASE ~(viewerEnd[c] = "open" /\ hostEnd[c] # "closed")
      BY <1>1, <1>3, <2>2 DEF ViewerSends, channel
    <2>3. QED
      BY <2>1, <2>2
  <1>4. ASSUME NEW c \in Conn, NEW n \in 1 .. Capacity, ViewerReceives(c, n)
        PROVE  PeerNext
    BY <1>4 DEF PeerNext, PeerReads
  <1>5. CloseControl => PeerNext \/ UNCHANGED vars
    <2>1. CASE link \in Conn /\ viewerEnd[link] = "open"
      BY <2>1 DEF CloseControl, PeerNext, PeerCloses
    <2>2. CASE ~(link \in Conn /\ viewerEnd[link] = "open")
      BY <2>2, <1>1, ClosesNothing DEF CloseControl
    <2>3. QED
      BY <2>1, <2>2
  <1>6. conn \in Linked => link \in Conn
    BY <1>2 DEF OwnInv
  <1>7. CASE ConnPublish \/ ConnConnectFails \/ ConnNotAnswered \/ ConnFailFlag \/ ConnOpens
             \/ ConnSpawn \/ ConnCheck \/ ConnReceiveEnds \/ ConnLinesDone \/ ConnIgnore
             \/ ConnApplyKeyboard \/ ConnApplyMouse \/ ConnEnds \/ ConnCloseVideo
             \/ ConnJoinVideo
    BY <1>7, <1>1 DEF ConnPublish, ConnConnectFails, ConnNotAnswered, ConnFailFlag, ConnOpens,
       ConnSetConnected, ConnClearConnecting, ConnReset, ConnPost, ConnSpawn, ConnCheck,
       ConnReceiveEnds, ConnLinesDone, ConnIgnore, ConnApplyKeyboard, ConnApplyMouse, ConnEnds,
       ConnCloseVideo, ConnJoinVideo
  <1>8. ASSUME NEW c \in Conn, ConnConnect(c) PROVE PeerNext
    <2>1. Connects(c)
      BY <1>8 DEF ConnConnect
    <2>2. hostEnd[c] = "closed" /\ hostEnd'[c] = "backlog"
      BY <2>1 DEF Connects, ChannelTypeOK
    <2>3. listener = "listening" /\ c # cur
      BY <2>2 DEF ConnectReaches
    <2>4. QED
      BY <2>1, <2>3 DEF PeerNext, PeerConnects
  <1>9. CASE ConnHello
    <2>1. ViewerSends(link, Hello) /\ conn = "hello"
      BY <1>9 DEF ConnHello, ConnAt
    <2>2. QED
      BY <2>1, <1>3, <1>6, LineMembers DEF Linked, ConnSession
  <1>10. ASSUME NEW n \in 1 .. Capacity, ConnAnswered(n) \/ ConnReceive(n) PROVE PeerNext
    BY <1>10, <1>4, <1>6 DEF ConnAnswered, ConnReceive, ConnAt, Linked, ConnSession
  <1>11. CASE ConnFail \/ ConnCloseControl \/ VuiCloseControl
    BY <1>11, <1>5 DEF ConnFail, ConnCloseControl, VuiCloseControl
  <1>12. CASE VidStep \/ StreamStep
    BY <1>12, <1>1 DEF VidStep, StreamStep, VidPublish, VidConnect, VidCheck, VidAborted, VidClose,
       VidFrame, VidStreamEnds
  <1>13. CASE VuiReadConnecting \/ VuiStoreConnecting \/ VuiStartConn \/ VuiLoadOld
              \/ VuiStoreNew \/ VuiLoadKeyboard \/ VuiLoadMouse \/ VuiCheckGrant
              \/ VuiLockToSend \/ VuiDisconnectGuard \/ VuiClearConnected
              \/ VuiClearConnecting \/ VuiResets \/ VuiCloseVideo \/ VuiPostDisconnected
              \/ VuiJoinConn \/ VuiJoinVideo \/ VuiShow
    BY <1>13, <1>1 DEF VuiReadConnecting, VuiStoreConnecting, VuiStartConn, VuiLoadOld,
       VuiStoreNew, VuiLoadKeyboard, VuiLoadMouse, VuiCheckGrant, VuiLockToSend,
       VuiDisconnectGuard, VuiClearConnected, VuiClearConnecting, VuiResets, VuiReset,
       VuiCloseVideo, VuiPostDisconnected, VuiJoinConn, VuiJoinVideo, VuiShow
  <1>14. CASE VuiSend
    <2>1. CASE link = NoConn
      BY <1>14, <2>1, <1>1 DEF VuiSend
    <2>2. CASE link # NoConn
      <3>1. vOut \in Line
        BY <1>14 DEF VuiSend, Vui, LineInv
      <3>2. QED
        BY <1>14, <2>2, <3>1, <1>2, <1>3 DEF VuiSend
    <2>3. QED
      BY <2>1, <2>2
  <1>15. CASE ViewerUser
    BY <1>15, <1>1 DEF ViewerUser, UserConnects, UserDisconnects, UserCloses, Disconnects,
       UserToggles, UserInputs
  <1>16. QED
    BY <1>7, <1>8, <1>9, <1>10, <1>11, <1>12, <1>13, <1>14, <1>15
    DEF ViewerNext, ConnStep, VuiStep

\* Neither leaves anything in the buffers of a closed end.
LEMMA ClosedStep ==
    ASSUME ChannelTypeOK, ClosedIsEmpty, HostEnvironment \/ PeerNext
    PROVE  ClosedIsEmpty'
  <1>. USE DEF ChannelTypeOK, ClosedIsEmpty
  <1>1. ASSUME NEW c \in Conn, HostAccepts(c) PROVE ClosedIsEmpty'
    BY <1>1 DEF HostAccepts
  <1>2. ASSUME NEW c \in Conn, HostReads(c) PROVE ClosedIsEmpty'
    BY <1>2 DEF HostReads, HostReceives
  <1>3. ASSUME NEW c \in Conn, NEW line, HostSays(c, line) PROVE ClosedIsEmpty'
    BY <1>3 DEF HostSays, HostSends
  <1>4. ASSUME NEW S, HostHangsUp(S) PROVE ClosedIsEmpty'
    BY <1>4 DEF HostHangsUp, HostCloses
  <1>5. ASSUME NEW c \in Conn, PeerConnects(c) PROVE ClosedIsEmpty'
    BY <1>5 DEF PeerConnects, Connects
  <1>6. ASSUME NEW c \in Conn, PeerReads(c) PROVE ClosedIsEmpty'
    BY <1>6 DEF PeerReads, ViewerReceives
  <1>7. ASSUME NEW c \in Conn, NEW line, PeerSends(c, line) PROVE ClosedIsEmpty'
    BY <1>7 DEF PeerSends, ViewerSends
  <1>8. ASSUME NEW c \in Conn, PeerCloses(c) PROVE ClosedIsEmpty'
    BY <1>8 DEF PeerCloses, ViewerCloses
  <1>9. QED
    BY <1>1, <1>2, <1>3, <1>4, <1>5, <1>6, <1>7, <1>8 DEF HostEnvironment, PeerNext

\* Every step of the two together is a step of each program, or one that it does not see.
LEMMA StepsOfBoth ==
    ASSUME IInv, VInv, ClosedIsEmpty, [SyncNext]_syncVars
    PROVE  [Next]_vars /\ [VNext]_vVars /\ ClosedIsEmpty'
  <1>1. CASE HostNext /\ UNCHANGED viewer
    BY <1>1, HostSteps, ClosedStep DEF Next, VNext, ClosedIsEmpty, vVars, channel, VInv, VTypeOK
  <1>2. CASE ViewerNext /\ ConnectReaches /\ UNCHANGED host
    BY <1>2, ViewerSteps, ClosedStep DEF Next, VNext, ClosedIsEmpty, vars, channel, VInv, VTypeOK
  <1>3. CASE UNCHANGED <<host, viewer, channel>>
    BY <1>3 DEF vars, vVars, host, ClosedIsEmpty, channel
  <1>4. ASSUME ViewerNext, UNCHANGED hostEnd PROVE ConnectReaches
    BY <1>4 DEF ConnectReaches
  <1>5. ASSUME VidStep \/ VuiStep \/ VidStreamEnds \/ UserConnects \/ UserDisconnects
                \/ \E d \in Device : UserToggles(d)
        PROVE  ViewerNext /\ UNCHANGED hostEnd
    <2>1. ViewerNext
      BY <1>5 DEF ViewerNext, StreamStep, ViewerUser
    <2>2. CASE VidStep \/ VidStreamEnds
      BY <2>1, <2>2 DEF VidStep, VidPublish, VidConnect, VidCheck, VidAborted, VidClose,
         VidStreamEnds, channel
    <2>3. CASE VuiStep
      BY <2>1, <2>3 DEF VuiStep, VuiReadConnecting, VuiStoreConnecting, VuiStartConn, VuiLoadOld,
         VuiStoreNew, VuiLoadKeyboard, VuiLoadMouse, VuiCheckGrant, VuiLockToSend, VuiSend,
         ViewerSends, VuiDisconnectGuard, VuiClearConnected, VuiClearConnecting, VuiResets,
         VuiReset, VuiCloseVideo, VuiCloseControl, CloseControl, ViewerCloses,
         VuiPostDisconnected, VuiJoinConn, VuiJoinVideo, VuiShow, channel
    <2>4. CASE UserConnects \/ UserDisconnects \/ \E d \in Device : UserToggles(d)
      BY <2>1, <2>4 DEF UserConnects, UserDisconnects, Disconnects, UserToggles, channel
    <2>5. QED
      BY <1>5, <2>2, <2>3, <2>4
  <1>6. QED
    BY <1>1, <1>2, <1>3, <1>4, <1>5, TogetherAssumption
    DEF SyncNext, syncVars, HostCtl, HostUi, ViewerConn, ViewerVid, ViewerUi, StreamEnds, Users,
        HostStarts, HostStopped, HostClicked, ViewerConnects, ViewerToggles, ViewerLeaves,
        HostNext, UserStep, ViewerNext

------------------------------------------------------------------------------
(* The two programs together: both invariants hold, and each program is what the    *)
(* other's module takes its environment for.                                         *)

SyncInv == IInv /\ GateInv /\ VInv /\ ClosedIsEmpty

LEMMA SyncStep == SyncInv /\ [SyncNext]_syncVars => SyncInv'
  <1>. SUFFICES ASSUME SyncInv, [SyncNext]_syncVars PROVE SyncInv'
    OBVIOUS
  <1>. USE DEF SyncInv
  <1>1. [Next]_vars /\ [VNext]_vVars /\ ClosedIsEmpty'
    BY StepsOfBoth
  <1>2. IInv' /\ VInv'
    BY <1>1, StepInductive, VStep
  <1>3. GateInv'
    BY <1>1, GateStep DEF IInv
  <1>4. QED
    BY <1>1, <1>2, <1>3

LEMMA SyncInitInv == SyncInit => SyncInv
  <1>. SUFFICES ASSUME SyncInit PROVE SyncInv
    OBVIOUS
  <1>. USE DEF SyncInit
  <1>1. IInv /\ VInv
    BY InitInductive, VInitInv
  <1>2. GateInv
    BY DEF Init, GateInv, Connected
  <1>3. ClosedIsEmpty
    BY DEF Init, ChannelInit, ClosedIsEmpty
  <1>4. QED
    BY <1>1, <1>2, <1>3 DEF SyncInv

\* The invariants of the two programs hold in every reachable state of the two together.
THEOREM SyncInductive == SyncSpec => []SyncInv
  BY SyncInitInv, SyncStep, PTL DEF SyncSpec

\* Beside the real viewer the host of server/main.cpp does nothing that it does not do
\* among the viewers HostControl imagines: what the latter's theorems say of it stays true.
THEOREM HostTogether == SyncSpec => Spec
  <1>1. SyncInit => Init
    BY DEF SyncInit
  <1>2. SyncInv /\ [SyncNext]_syncVars => [Next]_vars
    BY StepsOfBoth DEF SyncInv
  <1>3. QED
    BY <1>1, <1>2, SyncInductive, PTL DEF SyncSpec, Spec

\* And beside the real host the viewer of viewer/main.cpp does nothing that it does not
\* do with the host ViewerControl imagines.
THEOREM ViewerTogether == SyncSpec => VSpec
  <1>1. SyncInit => VInit
    BY DEF SyncInit
  <1>2. SyncInv /\ [SyncNext]_syncVars => [VNext]_vVars
    BY StepsOfBoth DEF SyncInv
  <1>3. QED
    BY <1>1, <1>2, SyncInductive, PTL DEF SyncSpec, VSpec

------------------------------------------------------------------------------
(* The grants, when the users take turns.  All lines on their way, received or not, *)
(* and who is at work on a grant, tell one of three phases.                          *)

\* The host's and the viewer's window thread, from a click or hotkey to the end of its send.
Toggling == ui \in {"toggle", "store", "loadK", "loadM", "sendState", "sending"}
Sends == vui \in {"send", "sending"}
Flipping == vui \in {"toggle", "store", "loadK", "loadM"} \/ (Sends /\ vOut # Disconnect)
Quitting == vui \in Leaving \/ (Sends /\ vOut = Disconnect)

\* Lines that grant nothing, and lines that are not about grants.
Calm == {line \in Line : line.grant = Blocked}
Plain == {line \in Line : line.kind # "access"}

\* The lines on their way to the host and to the viewer.
Wire(H, V) == toHost \in [Conn -> Seq(H)] /\ toViewer \in [Conn -> Seq(V)]
OnWay(H, V) == Wire(H, V) /\ pending \in Seq(H) /\ vPending \in Seq(V)

\* Nothing is granted at either end, and no line on its way would change that.
Free ==
    /\ access = Blocked /\ vAccess = Blocked
    /\ ~Toggling /\ ~Flipping /\ OnWay(Plain, Calm)

\* Both loops serve the one connection.
Served ==
    /\ ctl \in {"check", "recv", "lines", "applyM", "postApply"}
    /\ conn \in {"check", "recv", "lines", "applyM"}
    /\ cur = link /\ link # NoConn
    /\ hostEnd[link] = "open" /\ viewerEnd[link] = "open"
    /\ ui \notin StopPc /\ vConnected /\ (vui = "idle" \/ Flipping)
    /\ \A c \in Conn : c # link => toHost[c] \in Seq(Plain)

NoneToHost == pending = <<>> /\ toHost[link] = <<>> /\ ctl # "applyM"
NoneToViewer == vPending = <<>> /\ toViewer[link] = <<>> /\ conn # "applyM"

Agreed == NoneToHost /\ NoneToViewer /\ ~Toggling /\ ~Flipping /\ access = vAccess

\* The host's user has clicked: nothing else goes on, until the line is sent.
HostTells ==
    /\ Toggling /\ ~Flipping /\ NoneToHost /\ NoneToViewer /\ ctl = "recv" /\ conn = "recv"
    /\ ui \in {"toggle", "store"} => access = vAccess
    /\ ui \in {"loadM", "sendState", "sending"} => uiLine["keyboard"] = access["keyboard"]
    /\ ui \in {"sendState", "sending"} => uiLine["mouse"] = access["mouse"]

\* The line is on its way to the viewer, which has applied half of it in applyM.
ViewerHears ==
    /\ ~Toggling /\ ~Flipping /\ NoneToHost
    /\ \/ vPending = <<>> /\ toViewer[link] = <<AccessLine(access)>> /\ conn # "applyM"
       \/ /\ vPending = <<AccessLine(access)>> /\ toViewer[link] = <<>>
          /\ conn \in {"lines", "applyM"}
          /\ conn = "applyM" => vAccess["keyboard"] = access["keyboard"]

\* The same from the viewer's user to the host.
ViewerTells ==
    /\ Flipping /\ ~Toggling /\ NoneToHost /\ NoneToViewer /\ ctl = "recv" /\ conn = "recv"
    /\ ui = "idle" /\ posted = 0
    /\ vui \in {"toggle", "store"} => access = vAccess
    /\ vui = "loadM" => vLine["keyboard"] = vAccess["keyboard"]
    /\ Sends => vOut = AccessLine(vAccess)

HostHears ==
    /\ ~Toggling /\ ~Flipping /\ NoneToViewer
    /\ \/ pending = <<>> /\ toHost[link] = <<AccessLine(vAccess)>> /\ ctl # "applyM"
       \/ /\ pending = <<AccessLine(vAccess)>> /\ toHost[link] = <<>>
          /\ ctl \in {"lines", "applyM"}
          /\ ctl = "applyM" => access["keyboard"] = vAccess["keyboard"]

InUse == Served /\ (Agreed \/ HostTells \/ ViewerHears \/ ViewerTells \/ HostHears)

\* The connection is over for one side, or is about to be.
Cut == link = NoConn \/ hostEnd[link] = "closed" \/ viewerEnd[link] = "closed"
Cutting ==
    /\ ctl \in {"check", "recv", "lines", "postApply", "inject", "end"}
    /\ cur = link /\ link # NoConn /\ hostEnd[link] = "open"
    /\ ui = "stopClient" \/ vui \in {"send", "sending", "dConnected", "dClearConnecting",
                                     "dK", "dM", "dVideo", "dControl"}

\* One user has ended the session, and each side goes back to Blocked.
HostRevokes ==
    \/ access = Blocked
    \/ ctl \in {"check", "recv", "lines", "postApply", "inject", "end", "endK"}
    \/ ctl = "endM" /\ ~access["keyboard"]
ViewerRevokes ==
    \/ vAccess = Blocked
    \/ conn \in {"check", "recv", "lines", "end", "endConnecting", "endK"}
    \/ conn = "endM" /\ ~vAccess["keyboard"]

Ending ==
    /\ ~Toggling /\ ~Flipping /\ OnWay(Plain, Plain)
    /\ ctl # "applyM" /\ conn \in {"ended", "endPost"} \cup (Spawned \ {"applyM"})
    /\ HostRevokes /\ ViewerRevokes
    /\ vui = "idle" \/ Quitting
    /\ Cut \/ Cutting

Phase == ctlLine = Blocked /\ (Free \/ InUse \/ Ending)

\* A thread's buffer is empty when it waits; the users do not type or close the window.
Between ==
    /\ pending # <<>> => ctl \in {"lines", "applyM", "postApply", "inject"}
    /\ vPending # <<>> => conn \in {"lines", "applyM"}
    /\ vui # "input" /\ ~closing

\* A session that stands is the connected one, and the last thing the window is told.
Stands ==
    conn \in {"clearConnecting", "resetK", "resetM", "postShow", "spawn"} \cup Spawned
        /\ link # NoConn /\ viewerEnd[link] = "open"
Opened == conn \in {"spawn", "check", "recv", "lines", "applyM"}

Live ==
    /\ Quitting => conn \in {"none", "ended", "endPost"} \cup Spawned
    /\ vui = "dPost" => ~Stands
    /\ Stands /\ conn \in {"clearConnecting", "resetK", "resetM", "postShow"} => vConnected
    /\ Stands /\ Opened =>
         /\ vConnected \/ vui \in {"dClearConnecting", "dK", "dM", "dVideo", "dControl"}
         /\ Final = TRUE

TurnInv == Between /\ Live /\ Phase

------------------------------------------------------------------------------
(* Lemmas about lines.                                                               *)

LEMMA BlockedFacts ==
    /\ Blocked \in Grant
    /\ \A d \in Device : ~Blocked[d] /\ [Blocked EXCEPT ![d] = FALSE] = Blocked
    /\ \A g \in Grant : g["keyboard"] = FALSE /\ g["mouse"] = FALSE => g = Blocked
  BY DEF Blocked, Grant, Device

LEMMA PlainFacts ==
    /\ Plain \subseteq Calm /\ Calm \subseteq Line
    /\ Ok \in Plain /\ Hello \in Plain /\ Disconnect \in Plain
    /\ \A g \in Grant : AccessLine(g) \in Line /\ AccessLine(g).kind = "access"
                          /\ AccessLine(g).grant = g /\ AccessLine(g) # Disconnect
    /\ AccessLine(Blocked) \in Calm
  BY BlockedFacts
  DEF Plain, Calm, Line, Ok, Hello, Disconnect, AccessLine, InputLine

\* What is on its way keeps its kind when some of it is sent, received or dropped.
LEMMA WireStep ==
    ASSUME NEW H, NEW V, Wire(H, V), NEW c \in Conn
    PROVE  /\ UNCHANGED channel => Wire(H, V)'
           /\ UNCHANGED <<toHost, toViewer>> => Wire(H, V)'
           /\ \A line \in V : HostSends(c, line) => Wire(H, V)'
           /\ \A line \in H : ViewerSends(c, line) => Wire(H, V)'
           /\ \A n : HostReceives(c, n) => Wire(H, V)' /\ First(toHost[c], n) \in Seq(H)
           /\ \A n : ViewerReceives(c, n) => Wire(H, V)' /\ First(toViewer[c], n) \in Seq(V)
  <1>. USE DEF Wire
  <1>1. ASSUME NEW S, NEW q \in Seq(S), NEW n \in 1 .. Len(q)
        PROVE  First(q, n) \in Seq(S) /\ AfterFirst(q, n) \in Seq(S)
    <2>1. First(q, n) \in Seq(S)
      BY SubSeqProperties DEF First
    <2>2. CASE n = Len(q)
      BY <2>1, <2>2, SubSeqEmpty DEF AfterFirst
    <2>3. CASE n # Len(q)
      <3>1. n + 1 \in 1 .. Len(q)
        BY <2>3
      <3>2. QED
        BY <2>1, <3>1, SubSeqProperties DEF AfterFirst
    <2>4. QED
      BY <2>2, <2>3
  <1>2. ASSUME NEW line \in V, HostSends(c, line) PROVE Wire(H, V)'
    <2>1. Append(toViewer[c], line) \in Seq(V)
      BY AppendProperties
    <2>2. QED
      BY <1>2, <2>1 DEF HostSends
  <1>3. ASSUME NEW line \in H, ViewerSends(c, line) PROVE Wire(H, V)'
    <2>1. Append(toHost[c], line) \in Seq(H)
      BY AppendProperties
    <2>2. QED
      BY <1>3, <2>1 DEF ViewerSends
  <1>4. ASSUME NEW n, HostReceives(c, n)
        PROVE  Wire(H, V)' /\ First(toHost[c], n) \in Seq(H)
    <2>1. AfterFirst(toHost[c], n) \in Seq(H) /\ First(toHost[c], n) \in Seq(H)
      BY <1>1, <1>4 DEF HostReceives
    <2>2. QED
      BY <1>4, <2>1 DEF HostReceives
  <1>5. ASSUME NEW n, ViewerReceives(c, n)
        PROVE  Wire(H, V)' /\ First(toViewer[c], n) \in Seq(V)
    <2>1. AfterFirst(toViewer[c], n) \in Seq(V) /\ First(toViewer[c], n) \in Seq(V)
      BY <1>1, <1>5 DEF ViewerReceives
    <2>2. QED
      BY <1>5, <2>1 DEF ViewerReceives
  <1>6. UNCHANGED <<toHost, toViewer>> => Wire(H, V)'
    OBVIOUS
  <1>7. QED
    BY <1>2, <1>3, <1>4, <1>5, <1>6 DEF channel

LEMMA WireCloses ==
    ASSUME NEW H, NEW V, Wire(H, V), NEW S
    PROVE  (HostCloses(S) => Wire(H, V)') /\ (ViewerCloses(S) => Wire(H, V)')
  <1>. USE DEF Wire
  <1>1. ASSUME HostCloses(S) PROVE Wire(H, V)'
    <2>1. toHost' \in [Conn -> Seq(H)]
      BY <1>1 DEF HostCloses
    <2>2. QED
      BY <1>1, <2>1 DEF HostCloses
  <1>2. ASSUME ViewerCloses(S) PROVE Wire(H, V)'
    <2>1. toViewer' \in [Conn -> Seq(V)]
      BY <1>2 DEF ViewerCloses
    <2>2. QED
      BY <1>2, <2>1 DEF ViewerCloses
  <1>3. QED
    BY <1>1, <1>2

\* A step that the users' turns allow.
LEMMA SyncCases ==
    ASSUME SyncNext /\ TakeTurns
    PROVE  \/ (CtlStep \/ UiStep) /\ UNCHANGED <<viewer, left>>
           \/ (ConnStep \/ VidStep \/ VuiStep \/ VidStreamEnds) /\ UNCHANGED <<host, left>>
           \/ /\ BothAtRest
              /\ \/ (UiStart \/ UiStop \/ \E d \in Device : UiClick(d)) /\ UNCHANGED viewer
                 \/ /\ UserConnects \/ UserDisconnects \/ \E d \in Device : UserToggles(d)
                    /\ UNCHANGED host
  BY DEF SyncNext, TakeTurns, HostCtl, HostUi, ViewerConn, ViewerVid, ViewerUi, StreamEnds, Users,
     HostStarts, HostStopped, HostClicked, ViewerConnects, ViewerToggles, ViewerLeaves

\* At rest, with a viewer counted as connected at either end, a session stands.
LEMMA RestFacts ==
    ASSUME SyncInv, Between, Live, BothAtRest
    PROVE  /\ ui = "idle" /\ vui = "idle" /\ posted = 0
           /\ pending = <<>> /\ vPending = <<>>
           /\ connected \/ vConnected \/ Settled =>
                /\ Settled /\ vConnected /\ connected /\ running
           /\ ~Settled => ctl \in {"none", "ended", "accept"} /\ conn \in {"none", "ended"}
  <1>1. Settled \/ (ctl \in {"none", "ended", "accept"} /\ conn \in {"none", "ended"})
    BY DEF BothAtRest, Apart
  <1>2. ctl \in {"none", "ended", "accept"} => ~connected
    BY DEF SyncInv, GateInv, Connected
  <1>3. conn \in {"none", "ended"} => ~vConnected
    BY DEF SyncInv, VInv, FlagInv
  <1>4. Settled => connected
    BY DEF Settled, SyncInv, GateInv, Connected
  <1>5. Settled /\ vui = "idle" => vConnected
    BY DEF Settled, Live, Stands, Opened, Spawned
  <1>6. Settled /\ ui = "idle" => running
    BY DEF Settled, SyncInv, IInv, ThreadInv, StopPc
  <1>7. pending = <<>> /\ vPending = <<>>
    BY <1>1 DEF Between, Settled
  <1>8. QED
    BY <1>1, <1>2, <1>3, <1>4, <1>5, <1>6, <1>7 DEF BothAtRest

LEMMA BetweenStep ==
    ASSUME SyncInv, Between, SyncNext, TakeTurns
    PROVE  Between'
  <1>. USE DEF Between
  <1>1. CASE CtlStep /\ UNCHANGED viewer
    <2>. UNCHANGED <<vPending, conn, vui, closing>>
      BY <1>1 DEF viewer, vUiVars
    <2>1. CASE CtlCreate \/ CtlListen \/ CtlListenFails \/ CtlLoop \/ CtlAcceptFails
               \/ CtlPublish \/ CtlResetKeyboard \/ CtlResetMouse \/ CtlSetConnected \/ CtlAnnounce
               \/ CtlLoadKeyboard \/ CtlLoadMouse \/ CtlLockToSend \/ CtlCheck
      BY <2>1 DEF CtlCreate, CtlListen, CtlListenFails, CtlLoop, CtlAcceptFails, CtlPublish,
         CtlResetKeyboard, CtlResetMouse, CtlReset, CtlSetConnected, CtlAnnounce, CtlLoadKeyboard,
         CtlLoadMouse, CtlLoad, CtlLockToSend, CtlCheck, Ctl
    <2>2. CASE CtlReceiveEnds \/ CtlLinesDone \/ CtlDisconnect \/ CtlIgnore
               \/ CtlApplyKeyboard \/ CtlApplyMouse \/ CtlPostApplied \/ CtlCheckInput \/ CtlInject
               \/ CtlEndKeyboard \/ CtlEndMouse \/ CtlEndConnected \/ CtlEndCheck \/ CtlEndPost
      BY <2>2 DEF CtlReceiveEnds, CtlLinesDone, CtlDisconnect, CtlIgnore, CtlApplyKeyboard,
         CtlApplyMouse, CtlPostApplied, CtlCheckInput, CtlInject, CtlEndKeyboard, CtlEndMouse,
         CtlReset, CtlEndConnected, CtlEndCheck, CtlEndPost, Ctl, NextLine
    <2>3. CASE (\E c \in Conn : CtlAccept(c)) \/ (\E n \in 1 .. Capacity : CtlHello(n))
               \/ (\E n \in 1 .. Capacity : CtlReceive(n)) \/ CtlRefuse \/ CtlCloseListener
               \/ CtlSendOk \/ CtlSendState \/ CtlEnd
      BY <2>3 DEF CtlAccept, CtlHello, CtlReceive, CtlRefuse, CtlCloseListener, CtlSendOk,
         CtlSendState, CtlEnd, Ctl
    <2>4. QED
      BY <1>1, <2>1, <2>2, <2>3 DEF CtlStep
  <1>2. CASE (UiStep \/ UiStart \/ UiStop \/ \E d \in Device : UiClick(d)) /\ UNCHANGED viewer
    <2>1. pending' = pending
      BY <1>2 DEF UiStep, UiLoadOld, UiStoreNew, UiLoadKeyboard, UiLoadMouse, UiLoad, UiLockToSend,
         UiSendState, UiUpdate, UiRefresh, UiRefreshKeyboard, UiRefreshMouse, UiStopClient,
         UiStopListener, UiJoin, UiStart, UiStop, UiClick, ctlVars
    <2>2. ctl' = ctl \/ pending = <<>>
      BY <1>2 DEF UiStep, UiLoadOld, UiStoreNew, UiLoadKeyboard, UiLoadMouse, UiLoad, UiLockToSend,
         UiSendState, UiUpdate, UiRefresh, UiRefreshKeyboard, UiRefreshMouse, UiStopClient,
         UiStopListener, UiJoin, UiStart, UiStop, UiClick, ctlVars, SyncInv, IInv, ThreadInv, StopPc
    <2>3. QED
      BY <1>2, <2>1, <2>2 DEF viewer, vUiVars
  <1>3. CASE (ConnStep \/ VidStep \/ VidStreamEnds) /\ UNCHANGED host
    <2>. UNCHANGED <<pending, ctl>>
      BY <1>3 DEF host, ctlVars
    <2>1. CASE ConnPublish \/ ConnConnectFails \/ ConnNotAnswered \/ ConnFailFlag \/ ConnOpens
               \/ ConnSpawn \/ ConnCheck \/ ConnReceiveEnds \/ ConnEnds \/ ConnCloseVideo
               \/ ConnJoinVideo
      <3>1. vPending' = vPending /\ conn \notin {"lines", "applyM"}
        BY <2>1 DEF ConnPublish, ConnConnectFails, ConnNotAnswered, ConnFailFlag, ConnOpens,
           ConnSetConnected, ConnClearConnecting, ConnReset, ConnPost, ConnSpawn, ConnCheck,
           ConnReceiveEnds, ConnEnds, ConnCloseVideo, ConnJoinVideo, ConnAt
      <3>2. UNCHANGED vUiVars
        BY <2>1 DEF ConnPublish, ConnConnectFails, ConnNotAnswered, ConnFailFlag, ConnOpens,
           ConnSetConnected, ConnClearConnecting, ConnReset, ConnPost, ConnSpawn, ConnCheck,
           ConnReceiveEnds, ConnEnds, ConnCloseVideo, ConnJoinVideo
      <3>3. QED
        BY <3>1, <3>2 DEF vUiVars
    <2>5. CASE ConnLinesDone \/ ConnIgnore \/ ConnApplyKeyboard \/ ConnApplyMouse
      BY <2>5 DEF ConnLinesDone, ConnIgnore, ConnApplyKeyboard, ConnApplyMouse, ConnAt, vUiVars
    <2>2. CASE (\E c \in Conn : ConnConnect(c)) \/ ConnHello \/ ConnFail \/ ConnCloseControl
               \/ (\E n \in 1 .. Capacity : ConnAnswered(n) \/ ConnReceive(n))
      BY <2>2 DEF ConnConnect, ConnHello, ConnFail, ConnCloseControl, ConnAnswered, ConnReceive,
         ConnAt, vUiVars
    <2>3. CASE VidStep \/ VidStreamEnds
      BY <2>3 DEF VidStep, VidPublish, VidConnect, VidCheck, VidAborted, VidClose, VidStreamEnds,
         vUiVars
    <2>4. QED
      BY <1>3, <2>1, <2>2, <2>3, <2>5 DEF ConnStep
  <1>4. CASE (VuiStep \/ UserConnects \/ UserDisconnects \/ \E d \in Device : UserToggles(d))
               /\ UNCHANGED host
    <2>. UNCHANGED <<pending, ctl>>
      BY <1>4 DEF host, ctlVars
    <2>1. vPending' = vPending /\ (conn' = conn \/ conn \in {"none", "ended"})
      BY <1>4 DEF VuiStep, VuiReadConnecting, VuiStoreConnecting, VuiStartConn, VuiLoadOld,
         VuiStoreNew, VuiLoadKeyboard, VuiLoadMouse, VuiCheckGrant, VuiLockToSend, VuiSend,
         VuiDisconnectGuard, VuiClearConnected, VuiClearConnecting, VuiResets,
         VuiReset, VuiCloseVideo, VuiCloseControl, VuiPostDisconnected, VuiJoinConn, VuiJoinVideo,
         VuiShow, UserConnects, UserDisconnects, Disconnects, UserToggles
    <2>2. vui' # "input"
      BY <1>4 DEF VuiStep, VuiReadConnecting, VuiStoreConnecting, VuiStartConn, VuiLoadOld,
         VuiStoreNew, VuiLoadKeyboard, VuiLoadMouse, VuiCheckGrant, VuiLockToSend, VuiSend,
         VuiDisconnectGuard, VuiClearConnected, VuiClearConnecting, VuiResets,
         VuiReset, VuiCloseVideo, VuiCloseControl, VuiPostDisconnected, VuiJoinConn, VuiJoinVideo,
         VuiShow, UserConnects, UserDisconnects, Disconnects, UserToggles, Vui, AfterSend,
         AfterDisconnect, vUiVars
    <2>4. closing' = closing \/ closing' = FALSE
      BY <1>4 DEF VuiStep, VuiReadConnecting, VuiStoreConnecting, VuiStartConn, VuiLoadOld,
         VuiStoreNew, VuiLoadKeyboard, VuiLoadMouse, VuiCheckGrant, VuiLockToSend, VuiSend,
         VuiDisconnectGuard, VuiClearConnected, VuiClearConnecting, VuiResets,
         VuiReset, VuiCloseVideo, VuiCloseControl, VuiPostDisconnected, VuiJoinConn, VuiJoinVideo,
         VuiShow, UserConnects, UserDisconnects, Disconnects, UserToggles, vUiVars
    <2>3. QED
      BY <2>1, <2>2, <2>4
  <1>5. QED
    BY <1>1, <1>2, <1>3, <1>4, SyncCases

\* The host does not touch the viewer's ends.
LEMMA HostLeaves ==
    ASSUME SyncInv, HostNext, UNCHANGED viewer
    PROVE  UNCHANGED viewerEnd
  <1>1. HostEnvironment \/ UNCHANGED vVars
    BY HostSteps DEF SyncInv
  <1>2. QED
    BY <1>1 DEF HostEnvironment, HostAccepts, HostReads, HostReceives, HostSays, HostSends,
       HostHangsUp, HostCloses, vVars, channel

LEMMA LiveStep ==
    ASSUME SyncInv, Between, Live, SyncNext, TakeTurns
    PROVE  Live'
  <1>. USE DEF Live, Stands, Opened, Quitting, Sends, Leaving, Spawned
  <1>0. ChannelTypeOK /\ (link = NoConn \/ link \in Conn) /\ VTypeOK
    BY DEF SyncInv, VInv, VTypeOK
  <1>1. CASE (CtlStep \/ UiStep \/ UiStart \/ UiStop \/ \E d \in Device : UiClick(d))
               /\ UNCHANGED viewer
    <2>1. HostNext
      BY <1>1, TogetherAssumption DEF HostNext, UserStep
    <2>2. UNCHANGED viewerEnd
      BY <1>1, <2>1, HostLeaves
    <2>3. UNCHANGED <<conn, link, vui, vOut, vConnected, states, shown>>
      BY <1>1 DEF viewer, vUiVars, vFlags, vSocks, vWindow
    <2>4. QED
      BY <2>2, <2>3 DEF Final
  <1>2. CASE ConnStep
    <2>0. UNCHANGED <<vui, vOut>>
      BY <1>2 DEF ConnStep, ConnPublish, ConnConnect, ConnConnectFails, ConnHello, ConnAnswered,
         ConnNotAnswered, ConnFail, ConnFailFlag, ConnOpens, ConnSetConnected, ConnClearConnecting,
         ConnReset, ConnPost, ConnSpawn, ConnCheck, ConnReceive, ConnReceiveEnds, ConnLinesDone,
         ConnIgnore, ConnApplyKeyboard, ConnApplyMouse, ConnEnds, ConnCloseControl, ConnCloseVideo,
         ConnJoinVideo, vUiVars
    <2>1. CASE ConnPublish \/ ConnConnectFails \/ ConnNotAnswered \/ ConnFailFlag \/ ConnCloseVideo
               \/ ConnJoinVideo \/ ConnPost(FALSE, "endPost", "ended")
               \/ ConnSetConnected(FALSE, "end", "endConnecting")
               \/ ConnClearConnecting("endConnecting", "endK")
               \/ ConnReset("keyboard", "endK", "endM")
               \/ ConnReset("mouse", "endM", "closeControl")
      BY <2>0, <2>1 DEF ConnPublish, ConnConnectFails, ConnNotAnswered, ConnFailFlag,
         ConnCloseVideo, ConnJoinVideo, ConnPost, ConnSetConnected, ConnClearConnecting, ConnReset,
         ConnAt, channel, vSocks
    <2>2. CASE ConnFail \/ ConnCloseControl
      BY <2>0, <2>2 DEF ConnFail, ConnCloseControl, ConnAt
    <2>3. CASE (\E c \in Conn : ConnConnect(c)) \/ ConnHello
               \/ (\E n \in 1 .. Capacity : ConnAnswered(n))
      BY <2>0, <2>3 DEF ConnConnect, ConnHello, ConnAnswered, ConnAt
    <2>4. CASE ConnSetConnected(TRUE, "setConnected", "clearConnecting")
      BY <2>0, <2>4 DEF ConnSetConnected, ConnAt
    <2>5. CASE \/ ConnClearConnecting("clearConnecting", "resetK")
               \/ ConnReset("keyboard", "resetK", "resetM")
               \/ ConnReset("mouse", "resetM", "postShow")
      BY <2>0, <2>5 DEF ConnClearConnecting, ConnReset, ConnAt, channel, vSocks
    <2>6. CASE ConnPost(TRUE, "postShow", "spawn")
      <3>1. Final' = TRUE
        BY <1>0, <2>6, FinalFacts DEF ConnPost
      <3>2. QED
        BY <2>0, <2>6, <3>1 DEF ConnPost, ConnAt, channel, vSocks, vFlags
    <2>7. CASE ConnSpawn \/ ConnCheck \/ ConnReceiveEnds \/ ConnLinesDone \/ ConnIgnore
               \/ ConnApplyKeyboard \/ ConnApplyMouse
               \/ (\E n \in 1 .. Capacity : ConnReceive(n))
      <3>1. UNCHANGED <<vConnected, link, viewerEnd, states, shown>>
        BY <2>7 DEF ConnSpawn, ConnCheck, ConnReceiveEnds, ConnLinesDone, ConnIgnore,
           ConnApplyKeyboard, ConnApplyMouse, ConnReceive, ViewerReceives, vFlags, vSocks, vWindow,
           channel
      <3>2. Opened /\ conn' \in {"check", "recv", "lines", "applyM", "end"}
        BY <2>7 DEF ConnSpawn, ConnCheck, ConnReceiveEnds, ConnLinesDone, ConnIgnore,
           ConnApplyKeyboard, ConnApplyMouse, ConnReceive, ConnAt
      <3>3. Final' = Final
        BY <3>1 DEF Final
      <3>4. QED
        BY <2>0, <3>1, <3>2, <3>3
    <2>8. QED
      BY <1>2, <2>1, <2>2, <2>3, <2>4, <2>5, <2>6, <2>7 DEF ConnStep, ConnOpens, ConnEnds
  <1>3. CASE VidStep \/ VidStreamEnds
    <2>1. UNCHANGED <<conn, link, vui, vOut, vConnected, states, shown, viewerEnd>>
      BY <1>3 DEF VidStep, VidPublish, VidConnect, VidCheck, VidAborted, VidClose, VidStreamEnds,
         vUiVars, vFlags, vSocks, vWindow, channel
    <2>2. QED
      BY <2>1 DEF Final
  <1>4. CASE VuiStep
    <2>1. CASE VuiReadConnecting \/ VuiStoreConnecting \/ VuiLoadOld \/ VuiStoreNew
               \/ VuiLoadKeyboard \/ VuiLoadMouse \/ VuiCheckGrant
      <3>1. UNCHANGED <<conn, link, vConnected, states, shown, viewerEnd>>
        BY <2>1 DEF VuiReadConnecting, VuiStoreConnecting, VuiLoadOld, VuiStoreNew,
           VuiLoadKeyboard, VuiLoadMouse, VuiCheckGrant, vFlags, vSocks, vWindow, channel
      <3>2. ~Quitting'
        BY <2>1, NotDisconnect DEF VuiReadConnecting, VuiStoreConnecting, VuiLoadOld, VuiStoreNew,
           VuiLoadKeyboard, VuiLoadMouse, VuiCheckGrant, Vui, Between
      <3>3. vui \notin Leaving
        BY <2>1 DEF VuiReadConnecting, VuiStoreConnecting, VuiLoadOld, VuiStoreNew,
           VuiLoadKeyboard, VuiLoadMouse, VuiCheckGrant, Vui
      <3>4. QED
        BY <3>1, <3>2, <3>3 DEF Final
    <2>2. CASE VuiStartConn \/ VuiJoinConn \/ VuiJoinVideo
      BY <2>2 DEF VuiStartConn, VuiJoinConn, VuiJoinVideo, Vui, Between, vFlags, vSocks, vWindow,
         channel, Final
    <2>3. CASE VuiLockToSend \/ VuiSend \/ VuiDisconnectGuard
      <3>1. UNCHANGED <<conn, link, vConnected, states, shown, viewerEnd>>
        BY <2>3 DEF VuiLockToSend, VuiSend, ViewerSends, VuiDisconnectGuard, vFlags, vSocks,
           vWindow, channel
      <3>2. Quitting' => Quitting
        BY <2>3, NotDisconnect DEF VuiLockToSend, VuiSend, VuiDisconnectGuard, Vui, AfterSend,
           AfterDisconnect
      <3>3. vui \in {"send", "sending", "dConnecting"} /\ vui' # "dPost"
        BY <2>3 DEF VuiLockToSend, VuiSend, VuiDisconnectGuard, Vui, AfterSend, AfterDisconnect
      <3>4. QED
        BY <3>1, <3>2, <3>3 DEF Final
    <2>4. CASE VuiClearConnected
      BY <2>4 DEF VuiClearConnected, Vui, vSocks, vWindow, channel, Final
    <2>5. CASE VuiClearConnecting \/ VuiResets \/ VuiCloseVideo
      BY <2>5 DEF VuiClearConnecting, VuiResets, VuiReset, VuiCloseVideo, Vui, vFlags, vSocks,
         vWindow, channel, Final
    <2>6. CASE VuiCloseControl
      <3>1. link \in Conn => viewerEnd'[link] = "closed"
        BY <2>6 DEF VuiCloseControl, CloseControl, ViewerCloses
      <3>2. QED
        BY <1>0, <2>6, <3>1 DEF VuiCloseControl, Vui
    <2>7. CASE VuiPostDisconnected
      BY <2>7 DEF VuiPostDisconnected, Vui, AfterDisconnect, vSocks, channel
    <2>8. CASE VuiShow
      <3>1. Final' = Final
        BY <1>0, <2>8, FinalFacts DEF VuiShow
      <3>2. QED
        BY <2>8, <3>1 DEF VuiShow, vFlags, vSocks, vUiVars, channel
    <2>9. QED
      BY <1>4, <2>1, <2>2, <2>3, <2>4, <2>5, <2>6, <2>7, <2>8 DEF VuiStep
  <1>5. CASE BothAtRest /\ (UserConnects \/ UserDisconnects \/ \E d \in Device : UserToggles(d))
    <2>1. vui = "idle" /\ conn \in {"none", "ended", "recv"}
      BY <1>5 DEF BothAtRest, Apart, Settled
    <2>2. UNCHANGED <<conn, link, vConnected, states, shown, viewerEnd>> /\ vui' # "dPost"
      BY <1>5 DEF UserConnects, UserDisconnects, Disconnects, UserToggles, vFlags, vSocks,
         vWindow, channel
    <2>3. QED
      BY <2>1, <2>2 DEF Final
  <1>6. QED
    BY <1>1, <1>2, <1>3, <1>4, <1>5, SyncCases

\* Facts about who holds which socket, from the invariants of the two programs.
LEMMA Sockets ==
    ASSUME SyncInv
    PROVE  /\ ctl \in SessionPc => cur \in Conn
           /\ ctl \in Published /\ hostEnd[cur] = "open" => client = cur
           /\ ctl = "sending" \/ ui = "sending" => client \in Conn
           /\ client = NoConn \/ client \in Conn
           /\ conn \in Linked => link \in Conn
           /\ link = NoConn \/ link \in Conn
           /\ \A c \in Conn : viewerEnd[c] = "open" => c = link /\ control
           /\ access \in Grant /\ vAccess \in Grant /\ uiLine \in Grant /\ vLine \in Grant
           /\ ctlLine \in Grant /\ uiDev \in Device /\ vDev \in Device
           /\ hostEnd \in [Conn -> {"closed", "backlog", "open"}]
           /\ viewerEnd \in [Conn -> {"closed", "open"}]
           /\ toHost \in [Conn -> Seq(Line)] /\ toViewer \in [Conn -> Seq(Line)]
           /\ pending \in Seq(Line) /\ vPending \in Seq(Line)
  <1>. USE DEF SyncInv
  <1>1. /\ client = NoConn \/ client \in Conn
        /\ access \in Grant /\ uiLine \in Grant /\ ctlLine \in Grant /\ uiDev \in Device
        /\ pending \in Seq(Line) /\ hostEnd \in [Conn -> {"closed", "backlog", "open"}]
        /\ viewerEnd \in [Conn -> {"closed", "open"}]
        /\ toHost \in [Conn -> Seq(Line)] /\ toViewer \in [Conn -> Seq(Line)]
    BY DEF IInv, TypeOK, HostTypeOK, ChannelTypeOK
  <1>2. /\ link = NoConn \/ link \in Conn
        /\ vAccess \in Grant /\ vLine \in Grant /\ vDev \in Device /\ vPending \in Seq(Line)
    BY DEF VInv, VTypeOK
  <1>3. /\ conn \in Linked => link # NoConn
        /\ \A c \in Conn : viewerEnd[c] = "open" => c = link /\ control
    BY DEF VInv, OwnInv, ViewerOwnsSockets
  <1>4. /\ ctl \in SessionPc => cur \in Conn
        /\ ctl \in Published /\ hostEnd[cur] = "open" => client = cur
        /\ ctl = "sending" \/ ui = "sending" => client # NoConn
    BY DEF IInv, SocketInv
  <1>5. QED
    BY <1>1, <1>2, <1>3, <1>4

\* While nothing is granted and nobody is at a grant, only a user at rest changes that.
LEMMA FreeStep ==
    ASSUME SyncInv, Between, Live, ctlLine = Blocked, Free, SyncNext, TakeTurns
    PROVE  Phase'
  <1>. USE DEF Free, OnWay
  <1>0. Wire(Plain, Calm)
    OBVIOUS
  <1>1. CASE CtlStep /\ UNCHANGED viewer
    <2>0. UNCHANGED <<ui, vui, vOut, vAccess, vPending>>
      BY <1>1 DEF CtlStep, viewer, vFlags, vUiVars, uiVars, CtlCreate, CtlListen, CtlListenFails,
         CtlLoop, CtlAccept, CtlAcceptFails, CtlHello, CtlRefuse, CtlCloseListener, CtlPublish,
         CtlResetKeyboard, CtlResetMouse, CtlReset, CtlSetConnected, CtlAnnounce, CtlSendOk,
         CtlLoadKeyboard, CtlLoadMouse, CtlLoad, CtlLockToSend, CtlSendState, CtlCheck, CtlReceive,
         CtlReceiveEnds, CtlLinesDone, CtlDisconnect, CtlIgnore, CtlApplyKeyboard, CtlApplyMouse,
         CtlPostApplied, CtlCheckInput, CtlInject, CtlEnd, CtlEndKeyboard, CtlEndMouse,
         CtlEndConnected, CtlEndCheck, CtlEndPost
    <2>1. ASSUME access' = Blocked, ctlLine' = Blocked, pending' \in Seq(Plain),
                 Wire(Plain, Calm)'
          PROVE  Phase'
      BY <2>0, <2>1 DEF Phase, Toggling, Flipping, Sends
    <2>2. UNCHANGED <<access, ctlLine, pending>> /\ Wire(Plain, Calm)' => Phase'
      BY <2>1
    <2>4. UNCHANGED channel => Wire(Plain, Calm)'
      BY <1>0 DEF channel, Wire
    <2>5. CASE CtlCreate \/ CtlListen \/ CtlListenFails \/ CtlLoop \/ CtlAcceptFails
               \/ CtlPublish \/ CtlSetConnected \/ CtlAnnounce \/ CtlCheck \/ CtlReceiveEnds
               \/ CtlLinesDone \/ CtlPostApplied \/ CtlEndConnected \/ CtlEndCheck \/ CtlEndPost
      BY <2>2, <2>4, <2>5 DEF CtlCreate, CtlListen, CtlListenFails, CtlLoop, CtlAcceptFails,
         CtlPublish, CtlSetConnected, CtlAnnounce, CtlCheck, CtlReceiveEnds, CtlLinesDone,
         CtlPostApplied, CtlEndConnected, CtlEndCheck, CtlEndPost, flags
    <2>6. CASE CtlLockToSend
      BY <2>1, <2>4, <2>6 DEF CtlLockToSend, flags
    <2>7. CASE CtlResetKeyboard \/ CtlResetMouse \/ CtlEndKeyboard \/ CtlEndMouse
      <3>1. access' = Blocked
        BY <2>7, BlockedFacts DEF CtlResetKeyboard, CtlResetMouse, CtlEndKeyboard, CtlEndMouse,
           CtlReset, Device
      <3>2. QED
        BY <2>1, <2>4, <2>7, <3>1 DEF CtlResetKeyboard, CtlResetMouse, CtlEndKeyboard,
           CtlEndMouse, CtlReset
    <2>8. CASE CtlLoadKeyboard \/ CtlLoadMouse
      <3>1. ctlLine' = Blocked
        BY <2>8, BlockedFacts DEF CtlLoadKeyboard, CtlLoadMouse, CtlLoad, Device, Blocked
      <3>2. QED
        BY <2>1, <2>4, <2>8, <3>1 DEF CtlLoadKeyboard, CtlLoadMouse, CtlLoad, flags
    <2>9. CASE CtlApplyKeyboard \/ CtlApplyMouse
      <3>1. pending # <<>>
        BY <2>9 DEF CtlApplyKeyboard, CtlApplyMouse, Ctl, NextLine, SyncInv, IInv, PendingInv
      <3>2. Head(pending).grant = Blocked /\ Tail(pending) \in Seq(Plain)
        BY <3>1, PlainFacts DEF Calm
      <3>3. access' = Blocked
        BY <2>9, <3>2 DEF CtlApplyKeyboard, CtlApplyMouse, Blocked, Device
      <3>4. QED
        BY <2>1, <2>4, <2>9, <3>2, <3>3 DEF CtlApplyKeyboard, CtlApplyMouse
    <2>10. CASE CtlDisconnect \/ CtlIgnore \/ CtlCheckInput \/ CtlInject
      <3>1. pending # <<>>
        BY <2>10 DEF CtlDisconnect, CtlIgnore, CtlCheckInput, CtlInject, Ctl, NextLine, SyncInv,
           IInv, PendingInv
      <3>2. Tail(pending) \in Seq(Plain) /\ <<>> \in Seq(Plain)
        BY <3>1
      <3>3. QED
        BY <2>1, <2>4, <2>10, <3>2 DEF CtlDisconnect, CtlIgnore, CtlCheckInput, CtlInject, flags
    <2>11. ASSUME NEW c \in Conn, CtlAccept(c) PROVE Phase'
      BY <1>0, <2>2, <2>11 DEF CtlAccept, Wire, flags
    <2>12. ASSUME NEW n \in 1 .. Capacity, CtlHello(n) PROVE Phase'
      <3>1. cur \in Conn
        BY <2>12, Sockets DEF CtlHello, Ctl, SessionPc, CtlPc
      <3>2. QED
        BY <1>0, <2>2, <2>12, <3>1, WireStep DEF CtlHello, flags
    <2>13. ASSUME NEW n \in 1 .. Capacity, CtlReceive(n) PROVE Phase'
      <3>1. cur \in Conn
        BY <2>13, Sockets DEF CtlReceive, Ctl, SessionPc, CtlPc
      <3>2. Wire(Plain, Calm)' /\ pending' \in Seq(Plain)
        BY <1>0, <2>13, <3>1, WireStep DEF CtlReceive
      <3>3. QED
        BY <2>1, <2>13, <3>2 DEF CtlReceive, flags
    <2>14. CASE CtlRefuse \/ CtlCloseListener \/ CtlEnd
      BY <1>0, <2>2, <2>14, WireCloses DEF CtlRefuse, CtlCloseListener, CtlEnd, CloseClient, flags
    <2>15. CASE CtlSendOk
      <3>1. cur \in Conn
        BY <2>15, Sockets DEF CtlSendOk, Ctl, SessionPc, CtlPc
      <3>2. QED
        BY <1>0, <2>2, <2>15, <3>1, WireStep, PlainFacts DEF CtlSendOk, flags
    <2>16. CASE CtlSendState
      <3>1. client \in Conn
        BY <2>16, Sockets DEF CtlSendState, Ctl
      <3>2. QED
        BY <1>0, <2>1, <2>16, <3>1, WireStep, PlainFacts DEF CtlSendState, flags
    <2>17. QED
      BY <1>1, <2>5, <2>6, <2>7, <2>8, <2>9, <2>10, <2>11, <2>12, <2>13, <2>14, <2>15, <2>16
      DEF CtlStep
  <1>2. CASE UiStep /\ UNCHANGED viewer
    <2>0. UNCHANGED <<vui, vOut, vAccess, vPending>>
      BY <1>2 DEF viewer, vFlags, vUiVars
    <2>1. CASE UiLoadOld \/ UiStoreNew \/ UiLoadKeyboard \/ UiLoadMouse \/ UiLockToSend
               \/ UiSendState
      BY <2>1 DEF UiLoadOld, UiStoreNew, UiLoadKeyboard, UiLoadMouse, UiLoad, UiLockToSend,
         UiSendState, Ui, Toggling
    <2>2. CASE UiUpdate \/ UiRefresh \/ UiRefreshKeyboard \/ UiRefreshMouse \/ UiJoin
      <3>1. UNCHANGED <<pending, ctlLine, channel>> /\ access' = Blocked
        BY <2>2 DEF UiUpdate, UiRefresh, UiRefreshKeyboard, UiLoad, UiRefreshMouse, UiJoin, flags,
           ctlVars
      <3>2. ~Toggling'
        BY <2>2 DEF UiUpdate, UiRefresh, UiRefreshKeyboard, UiLoad, UiRefreshMouse, UiJoin, Ui,
           Toggling
      <3>3. Wire(Plain, Calm)'
        BY <1>0, <3>1 DEF channel, Wire
      <3>4. QED
        BY <2>0, <3>1, <3>2, <3>3 DEF Phase, Flipping, Sends
    <2>3. CASE UiStopClient \/ UiStopListener
      <3>1. Wire(Plain, Calm)'
        BY <1>0, <2>3, WireCloses DEF UiStopClient, UiStopListener, CloseClient
      <3>2. UNCHANGED <<pending, ctlLine, access>> /\ ~Toggling'
        BY <2>3 DEF UiStopClient, UiStopListener, Ui, Toggling, flags, ctlVars
      <3>3. QED
        BY <2>0, <3>1, <3>2 DEF Phase, Flipping, Sends
    <2>4. QED
      BY <1>2, <2>1, <2>2, <2>3 DEF UiStep
  <1>3. CASE (ConnStep \/ VidStep \/ VidStreamEnds) /\ UNCHANGED host
    <2>0. UNCHANGED <<ui, access, ctlLine, pending>>
      BY <1>3 DEF host, flags, ctlVars, uiVars
    <2>1. ASSUME vAccess' = Blocked, vPending' \in Seq(Calm), UNCHANGED <<vui, vOut>>,
                 Wire(Plain, Calm)'
          PROVE  Phase'
      BY <2>0, <2>1 DEF Phase, Toggling, Flipping, Sends
    <2>2. UNCHANGED channel => Wire(Plain, Calm)'
      BY <1>0 DEF channel, Wire
    <2>3. CASE ConnPublish \/ ConnConnectFails \/ ConnNotAnswered \/ ConnFailFlag
               \/ ConnSetConnected(TRUE, "setConnected", "clearConnecting")
               \/ ConnClearConnecting("clearConnecting", "resetK")
               \/ ConnPost(TRUE, "postShow", "spawn") \/ ConnSpawn \/ ConnCheck \/ ConnReceiveEnds
               \/ ConnLinesDone \/ ConnSetConnected(FALSE, "end", "endConnecting")
               \/ ConnClearConnecting("endConnecting", "endK")
               \/ ConnPost(FALSE, "endPost", "ended") \/ ConnCloseVideo \/ ConnJoinVideo
      BY <2>1, <2>2, <2>3 DEF ConnPublish, ConnConnectFails, ConnNotAnswered, ConnFailFlag,
         ConnSetConnected, ConnClearConnecting, ConnPost, ConnSpawn, ConnCheck, ConnReceiveEnds,
         ConnLinesDone, ConnCloseVideo, ConnJoinVideo, vFlags, vUiVars
    <2>4. CASE VidStep \/ VidStreamEnds
      BY <2>1, <2>2, <2>4 DEF VidStep, VidPublish, VidConnect, VidCheck, VidAborted, VidClose,
         VidStreamEnds, vFlags, vUiVars
    <2>5. CASE ConnReset("keyboard", "resetK", "resetM") \/ ConnReset("mouse", "resetM", "postShow")
               \/ ConnReset("keyboard", "endK", "endM")
               \/ ConnReset("mouse", "endM", "closeControl")
      <3>1. vAccess' = Blocked
        BY <2>5, BlockedFacts DEF ConnReset, Device
      <3>2. QED
        BY <2>1, <2>2, <2>5, <3>1 DEF ConnReset, vUiVars
    <2>6. CASE ConnApplyKeyboard \/ ConnApplyMouse \/ ConnIgnore
      <3>1. vPending # <<>>
        BY <2>6 DEF ConnApplyKeyboard, ConnApplyMouse, ConnIgnore, ConnAt, SyncInv, VInv, LineInv
      <3>2. Head(vPending).grant = Blocked /\ Tail(vPending) \in Seq(Calm)
        BY <3>1 DEF Calm
      <3>3. vAccess' = Blocked
        BY <2>6, <3>2 DEF ConnApplyKeyboard, ConnApplyMouse, ConnIgnore, Blocked, Device, vFlags
      <3>4. QED
        BY <2>1, <2>2, <2>6, <3>2, <3>3 DEF ConnApplyKeyboard, ConnApplyMouse, ConnIgnore, vUiVars
    <2>7. ASSUME NEW c \in Conn, ConnConnect(c) PROVE Phase'
      BY <1>0, <2>1, <2>7 DEF ConnConnect, Connects, Wire, vFlags, vUiVars
    <2>8. CASE ConnHello
      <3>1. link \in Conn
        BY <2>8, Sockets DEF ConnHello, ConnAt, Linked, ConnSession
      <3>2. QED
        BY <1>0, <2>1, <2>8, <3>1, WireStep, PlainFacts DEF ConnHello, vFlags, vUiVars
    <2>9. ASSUME NEW n \in 1 .. Capacity, ConnAnswered(n) PROVE Phase'
      <3>1. link \in Conn
        BY <2>9, Sockets DEF ConnAnswered, ConnAt, Linked, ConnSession
      <3>2. QED
        BY <1>0, <2>1, <2>9, <3>1, WireStep DEF ConnAnswered, vFlags, vUiVars
    <2>10. ASSUME NEW n \in 1 .. Capacity, ConnReceive(n) PROVE Phase'
      <3>1. link \in Conn
        BY <2>10, Sockets DEF ConnReceive, ConnAt, Linked, ConnSession
      <3>2. Wire(Plain, Calm)' /\ vPending' \in Seq(Calm)
        BY <1>0, <2>10, <3>1, WireStep DEF ConnReceive
      <3>3. QED
        BY <2>1, <2>10, <3>2 DEF ConnReceive, vFlags, vUiVars
    <2>11. CASE ConnFail \/ ConnCloseControl
      BY <1>0, <2>1, <2>11, WireCloses DEF ConnFail, ConnCloseControl, CloseControl, vFlags, vUiVars
    <2>12. QED
      BY <1>3, <2>3, <2>4, <2>5, <2>6, <2>7, <2>8, <2>9, <2>10, <2>11
      DEF ConnStep, ConnOpens, ConnEnds
  <1>4. CASE VuiStep /\ UNCHANGED host
    <2>0. UNCHANGED <<ui, access, ctlLine, pending>>
      BY <1>4 DEF host, flags, ctlVars, uiVars
    <2>1. ASSUME vAccess' = Blocked, UNCHANGED vPending, ~Flipping', Wire(Plain, Calm)'
          PROVE  Phase'
      BY <2>0, <2>1 DEF Phase, Toggling
    <2>2. UNCHANGED channel => Wire(Plain, Calm)'
      BY <1>0 DEF channel, Wire
    <2>3. CASE VuiLoadOld \/ VuiStoreNew \/ VuiLoadKeyboard \/ VuiLoadMouse \/ VuiCheckGrant
      BY <2>3 DEF VuiLoadOld, VuiStoreNew, VuiLoadKeyboard, VuiLoadMouse, VuiCheckGrant, Vui,
         Flipping, Between
    <2>4. CASE VuiReadConnecting \/ VuiStoreConnecting \/ VuiStartConn \/ VuiLockToSend
               \/ VuiDisconnectGuard \/ VuiClearConnected \/ VuiClearConnecting \/ VuiCloseVideo
               \/ VuiPostDisconnected \/ VuiJoinConn \/ VuiJoinVideo \/ VuiShow
      <3>1. ~Flipping'
        BY <2>4 DEF VuiReadConnecting, VuiStoreConnecting, VuiStartConn, VuiLockToSend,
           VuiDisconnectGuard, VuiClearConnected, VuiClearConnecting, VuiCloseVideo,
           VuiPostDisconnected, VuiJoinConn, VuiJoinVideo, VuiShow, Vui, Flipping, Sends,
           AfterSend, AfterDisconnect, vUiVars
      <3>2. UNCHANGED <<vAccess, vPending, channel>>
        BY <2>4 DEF VuiReadConnecting, VuiStoreConnecting, VuiStartConn, VuiLockToSend,
           VuiDisconnectGuard, VuiClearConnected, VuiClearConnecting, VuiCloseVideo,
           VuiPostDisconnected, VuiJoinConn, VuiJoinVideo, VuiShow, vFlags
      <3>3. QED
        BY <2>1, <2>2, <3>1, <3>2
    <2>5. CASE VuiResets
      <3>1. vAccess' = Blocked
        BY <2>5, BlockedFacts DEF VuiResets, VuiReset, Device
      <3>2. ~Flipping'
        BY <2>5 DEF VuiResets, VuiReset, Vui, Flipping, Sends
      <3>3. QED
        BY <2>1, <2>2, <2>5, <3>1, <3>2 DEF VuiResets, VuiReset
    <2>6. CASE VuiSend
      <3>1. vOut = Disconnect
        BY <2>6 DEF VuiSend, Vui, Flipping, Sends
      <3>2. Wire(Plain, Calm)'
        BY <1>0, <2>2, <2>6, <3>1, WireStep, PlainFacts, Sockets DEF VuiSend
      <3>3. ~Flipping'
        BY <2>6 DEF VuiSend, Vui, AfterSend, Flipping, Sends
      <3>4. QED
        BY <2>1, <2>6, <3>2, <3>3 DEF VuiSend, vFlags
    <2>7. CASE VuiCloseControl
      <3>1. ~Flipping'
        BY <2>7 DEF VuiCloseControl, Vui, Flipping, Sends
      <3>2. QED
        BY <1>0, <2>1, <2>7, <3>1, WireCloses DEF VuiCloseControl, CloseControl, vFlags
    <2>8. QED
      BY <1>4, <2>3, <2>4, <2>5, <2>6, <2>7 DEF VuiStep
  <1>5. CASE BothAtRest /\ (UiStart \/ UiStop) /\ UNCHANGED viewer
    <2>1. UNCHANGED <<vui, vOut, vAccess, vPending>>
      BY <1>5 DEF viewer, vFlags, vUiVars
    <2>2. access' = Blocked /\ UNCHANGED <<ctlLine, pending, channel>> /\ ~Toggling'
      BY <1>5 DEF UiStart, UiStop, Ui, Toggling, flags, ctlVars, uiVars
    <2>3. Wire(Plain, Calm)'
      BY <1>0, <2>2 DEF channel, Wire
    <2>4. QED
      BY <2>1, <2>2, <2>3 DEF Phase, Flipping, Sends
  <1>6. CASE BothAtRest /\ (UserConnects \/ UserDisconnects) /\ UNCHANGED host
    <2>1. UNCHANGED <<ui, access, ctlLine, pending>>
      BY <1>6 DEF host, flags, ctlVars, uiVars
    <2>2. UNCHANGED <<vAccess, vPending, channel>> /\ ~Flipping'
      BY <1>6 DEF UserConnects, UserDisconnects, Disconnects, Flipping, Sends, vFlags, vUiVars
    <2>3. Wire(Plain, Calm)'
      BY <1>0, <2>2 DEF channel, Wire
    <2>4. QED
      BY <2>1, <2>2, <2>3 DEF Phase, Toggling
  <1>7. ASSUME NEW d \in Device, BothAtRest,
               \/ UiClick(d) /\ UNCHANGED viewer
               \/ UserToggles(d) /\ UNCHANGED host
        PROVE  Phase'
    <2>1. connected \/ vConnected
      BY <1>7 DEF UiClick, UserToggles
    <2>2. /\ Settled /\ vConnected /\ running /\ pending = <<>> /\ vPending = <<>>
          /\ ui = "idle" /\ vui = "idle" /\ posted = 0
      BY <1>7, <2>1, RestFacts
    <2>3. /\ UNCHANGED <<access, vAccess, ctlLine, pending, vPending, channel, ctl, conn, cur, link,
                        vConnected>>
          /\ posted' = 0
      BY <1>7, <2>2 DEF UiClick, UserToggles, viewer, host, flags, sockets, ctlVars, uiVars, window,
         vFlags, vSocks, vUiVars, vWindow
    <2>4. UNCHANGED <<toHost, toViewer, hostEnd, viewerEnd>>
      BY <2>3 DEF channel
    <2>5. \/ ui' = "toggle" /\ vui' = "idle"
          \/ ui' = "idle" /\ vui' = "toggle"
      BY <1>7, <2>2 DEF UiClick, Ui, UserToggles, viewer, host, uiVars, vUiVars
    <2>6. Served'
      <3>1. \A c \in Conn : toHost[c] \in Seq(Plain)
        BY <1>0 DEF Wire
      <3>2. QED
        BY <2>2, <2>3, <2>4, <2>5, <3>1 DEF Served, Settled, Flipping, StopPc
    <2>7. (NoneToHost /\ NoneToViewer)'
      BY <2>2, <2>3, <2>4 DEF NoneToHost, NoneToViewer, Settled
    <2>8. (HostTells \/ ViewerTells)'
      BY <2>2, <2>3, <2>5, <2>7 DEF HostTells, ViewerTells, Toggling, Flipping, Sends, Settled
    <2>9. QED
      BY <2>3, <2>6, <2>8 DEF Phase, InUse
  <1>8. QED
    BY <1>1, <1>2, <1>3, <1>4, <1>5, <1>6, <1>7, SyncCases

\* A single line in a buffer.
LEMMA OneLine ==
    ASSUME NEW S, NEW line \in S
    PROVE  /\ <<line>> # <<>> /\ <<line>> \in Seq(S) /\ Len(<<line>>) = 1
           /\ Head(<<line>>) = line /\ Tail(<<line>>) = <<>>
           /\ Append(<<>>, line) = <<line>>
           /\ \A n \in 1 .. 1 : First(<<line>>, n) = <<line>> /\ AfterFirst(<<line>>, n) = <<>>
  <1>1. First(<<line>>, 1) = <<line>>
    <2>1. <<line>> \in Seq(S) /\ Len(<<line>>) = 1
      OBVIOUS
    <2>2. SubSeq(<<line>>, 1, 1) = <<line>>
      BY <2>1, SubSeqFull
    <2>3. QED
      BY <2>2 DEF First
  <1>2. AfterFirst(<<line>>, 1) = <<>>
    BY SubSeqEmpty DEF AfterFirst
  <1>3. \A n \in 1 .. 1 : n = 1
    OBVIOUS
  <1>4. QED
    BY <1>1, <1>2, <1>3

\* What the invariants say of a session in use.
LEMMA ServedFacts ==
    ASSUME SyncInv, Served
    PROVE  /\ link \in Conn /\ client = link /\ control /\ running
           /\ AccessLine(access) \in Line /\ AccessLine(vAccess) \in Line
           /\ AccessLine(access).kind = "access" /\ AccessLine(vAccess).kind = "access"
           /\ AccessLine(access).grant = access /\ AccessLine(vAccess).grant = vAccess
           /\ \A c \in Conn : c # link => toViewer[c] = <<>>
  <1>1. link \in Conn /\ control
    BY Sockets DEF Served
  <1>2. client = link
    BY Sockets DEF Served, Published, SessionPc, CtlPc
  <1>3. running
    BY DEF Served, SyncInv, IInv, ThreadInv
  <1>4. \A c \in Conn : c # link => toViewer[c] = <<>>
    BY Sockets DEF SyncInv, ClosedIsEmpty
  <1>5. QED
    BY <1>1, <1>2, <1>3, <1>4, Sockets, PlainFacts

\* The host's control thread, in a session in use.
LEMMA CtlInUse ==
    ASSUME SyncInv, InUse, ctlLine = Blocked, CtlStep, UNCHANGED viewer
    PROVE  Phase'
  <1>0. Served /\ ctl \in {"check", "recv", "lines", "applyM", "postApply"}
    BY DEF InUse, Served
  <1>1. UNCHANGED <<vAccess, link, conn, vPending, vConnected, vui, vOut, vLine>>
    BY DEF viewer, vFlags, vSocks, vUiVars
  <1>2. /\ pending = <<>> \/ (pending = <<AccessLine(vAccess)>> /\ ctl \in {"lines", "applyM"}
                               /\ HostHears)
        /\ pending = <<>> => ctl # "applyM"
    BY DEF InUse, Agreed, HostTells, ViewerHears, ViewerTells, HostHears, NoneToHost
  <1>3. CASE \/ CtlCreate \/ CtlListen \/ CtlListenFails \/ CtlLoop \/ CtlAcceptFails
             \/ (\E c \in Conn : CtlAccept(c)) \/ (\E n \in 1 .. Capacity : CtlHello(n))
             \/ CtlRefuse \/ CtlCloseListener \/ CtlPublish \/ CtlResetKeyboard \/ CtlResetMouse
             \/ CtlSetConnected \/ CtlAnnounce \/ CtlSendOk \/ CtlLoadKeyboard \/ CtlLoadMouse
             \/ CtlLockToSend \/ CtlSendState \/ CtlInject \/ CtlEnd \/ CtlEndKeyboard
             \/ CtlEndMouse \/ CtlEndConnected \/ CtlEndCheck \/ CtlEndPost
    BY <1>0, <1>3 DEF CtlCreate, CtlListen, CtlListenFails, CtlLoop, CtlAcceptFails, CtlAccept,
       CtlHello, CtlRefuse, CtlCloseListener, CtlPublish, CtlResetKeyboard, CtlResetMouse, CtlReset,
       CtlSetConnected, CtlAnnounce, CtlSendOk, CtlLoadKeyboard, CtlLoadMouse, CtlLoad,
       CtlLockToSend, CtlSendState, CtlInject, CtlEnd, CtlEndKeyboard, CtlEndMouse,
       CtlEndConnected, CtlEndCheck, CtlEndPost, Ctl
  <1>4. CASE CtlReceiveEnds
    BY <1>0, <1>4 DEF CtlReceiveEnds, HostRecvEnds, Served
  <1>5. CASE CtlDisconnect \/ CtlIgnore \/ CtlCheckInput
    <2>1. pending # <<>> /\ Head(pending).kind # "access"
      BY <1>5 DEF CtlDisconnect, CtlIgnore, CtlCheckInput, NextLine
    <2>2. QED
      BY <1>0, <1>2, <2>1, ServedFacts, OneLine
  <1>6. CASE CtlCheck \/ CtlLinesDone \/ CtlPostApplied
    <2>1. /\ UNCHANGED <<access, ctlLine, pending, cur, channel, ui, uiLine>>
          /\ ctl' \in {"recv", "check", "lines"} /\ ctl # "recv"
      BY <1>6, <1>0, ServedFacts DEF CtlCheck, CtlLinesDone, CtlPostApplied, Ctl, flags, uiVars
    <2>2. pending = <<>>
      BY <1>6, <1>2 DEF CtlCheck, CtlLinesDone, CtlPostApplied, Ctl
    <2>3. UNCHANGED <<toHost, toViewer, hostEnd, viewerEnd>>
      BY <2>1 DEF channel
    <2>4. Served'
      BY <1>0, <1>1, <2>1, <2>3 DEF Served, Flipping, Sends
    <2>5. Agreed => Agreed'
      BY <1>1, <2>1, <2>2, <2>3
      DEF Agreed, NoneToHost, NoneToViewer, Toggling, Flipping, Sends
    <2>6. ViewerHears => ViewerHears'
      BY <1>1, <2>1, <2>2, <2>3 DEF ViewerHears, NoneToHost, Toggling, Flipping, Sends
    <2>7. HostHears => HostHears'
      BY <1>1, <2>1, <2>2, <2>3 DEF HostHears, NoneToViewer, Toggling, Flipping, Sends
    <2>8. ~HostTells /\ ~ViewerTells
      BY <2>1 DEF HostTells, ViewerTells
    <2>9. QED
      BY <2>1, <2>4, <2>5, <2>6, <2>7, <2>8 DEF InUse, Phase
  <1>7. ASSUME NEW n \in 1 .. Capacity, CtlReceive(n) PROVE Phase'
    <2>1. /\ ctl = "recv" /\ ctl' = "lines" /\ n \in 1 .. Len(toHost[link])
          /\ toHost' = [toHost EXCEPT ![link] = AfterFirst(@, n)]
          /\ pending' = First(toHost[link], n)
          /\ UNCHANGED <<access, ctlLine, cur, ui, uiLine, hostEnd, viewerEnd, toViewer>>
      BY <1>0, <1>7 DEF CtlReceive, Ctl, HostReceives, flags, uiVars, Served
    <2>2. toHost[link] # <<>>
      BY <2>1, ServedFacts, <1>0
    <2>3. HostHears /\ toHost[link] = <<AccessLine(vAccess)>>
      BY <2>2, <2>1 DEF InUse, Agreed, HostTells, ViewerHears, ViewerTells, HostHears, NoneToHost
    <2>4. n \in 1 .. 1
      BY <1>0, <2>1, <2>3, ServedFacts, OneLine
    <2>5. pending' = <<AccessLine(vAccess)>> /\ toHost'[link] = <<>>
      BY <1>0, <2>1, <2>3, <2>4, ServedFacts, OneLine, Sockets
    <2>6. Served'
      BY <1>0, <1>1, <2>1, Sockets DEF Served, Flipping, Sends
    <2>7. HostHears'
      BY <1>1, <2>1, <2>3, <2>5 DEF HostHears, NoneToViewer, Toggling, Flipping, Sends
    <2>8. QED
      BY <2>1, <2>6, <2>7 DEF InUse, Phase
  <1>8. CASE CtlApplyKeyboard \/ CtlApplyMouse
    <2>1. pending = <<AccessLine(vAccess)>> /\ HostHears
      BY <1>2, <1>8 DEF CtlApplyKeyboard, CtlApplyMouse, Ctl, NextLine
    <2>2. Head(pending).grant = vAccess /\ Tail(pending) = <<>> /\ pending # <<>>
      BY <1>0, <2>1, ServedFacts, OneLine
    <2>3. /\ UNCHANGED <<ctlLine, cur, channel, ui, uiLine>>
          /\ ctl' \in {"applyM", "postApply"}
      BY <1>8 DEF CtlApplyKeyboard, CtlApplyMouse, Ctl, uiVars
    <2>4. UNCHANGED <<toHost, toViewer, hostEnd, viewerEnd>>
      BY <2>3 DEF channel
    <2>5. Served'
      BY <1>0, <1>1, <2>3, <2>4 DEF Served, Flipping, Sends
    <2>6. CASE CtlApplyKeyboard
      <3>1. /\ access'["keyboard"] = vAccess["keyboard"] /\ pending' = pending /\ ctl' = "applyM"
        BY <2>6, <2>2, Sockets DEF CtlApplyKeyboard, Grant, Device
      <3>2. HostHears'
        BY <1>1, <2>1, <2>2, <2>3, <2>4, <3>1
        DEF HostHears, NoneToViewer, Toggling, Flipping, Sends
      <3>3. QED
        BY <2>3, <2>5, <3>2 DEF InUse, Phase
    <2>7. CASE CtlApplyMouse
      <3>1. ctl = "applyM" /\ access["keyboard"] = vAccess["keyboard"] /\ toHost[link] = <<>>
        BY <2>1, <2>2, <2>7 DEF CtlApplyMouse, Ctl, HostHears
      <3>2. access' = [access EXCEPT !["mouse"] = vAccess["mouse"]] /\ pending' = <<>>
            /\ ctl' = "postApply"
        BY <2>2, <2>7 DEF CtlApplyMouse, Ctl
      <3>3. access' = vAccess
        BY <3>1, <3>2, Sockets DEF Grant, Device
      <3>4. Agreed'
        BY <1>1, <2>1, <2>3, <2>4, <3>1, <3>2, <3>3
        DEF HostHears, Agreed, NoneToHost, NoneToViewer, Toggling, Flipping, Sends
      <3>5. QED
        BY <2>3, <2>5, <3>4 DEF InUse, Phase
    <2>8. QED
      BY <1>8, <2>6, <2>7
  <1>9. QED
    BY <1>3, <1>4, <1>5, <1>6, <1>7, <1>8 DEF CtlStep

\* The host's window thread, in a session in use.
LEMMA UiInUse ==
    ASSUME SyncInv, InUse, ctlLine = Blocked, UiStep, UNCHANGED viewer
    PROVE  Phase'
  <1>0. Served /\ ui \notin StopPc
    BY DEF InUse, Served
  <1>1. UNCHANGED <<vAccess, link, conn, vPending, vConnected, vui, vOut, vLine>>
    BY DEF viewer, vFlags, vSocks, vUiVars
  <1>2. CASE UiStopClient \/ UiStopListener \/ UiJoin
    BY <1>0, <1>2 DEF UiStopClient, UiStopListener, UiJoin, Ui, StopPc
  <1>3. CASE UiUpdate \/ UiRefresh \/ UiRefreshKeyboard \/ UiRefreshMouse
    <2>1. /\ UNCHANGED <<access, ctlLine, pending, cur, ctl, channel>>
          /\ ui' \in {"refresh", "refreshK", "refreshM", "idle"}
          /\ ui \in {"idle", "refresh", "refreshK", "refreshM"}
      BY <1>3 DEF UiUpdate, UiRefresh, UiRefreshKeyboard, UiLoad, UiRefreshMouse, Ui, flags, ctlVars
    <2>2. UNCHANGED <<toHost, toViewer, hostEnd, viewerEnd>>
      BY <2>1 DEF channel
    <2>3. Served'
      BY <1>0, <1>1, <2>1, <2>2 DEF Served, Flipping, Sends, StopPc
    <2>4. ~HostTells
      BY <2>1 DEF HostTells, Toggling
    <2>5. ~ViewerTells
      BY <1>3 DEF ViewerTells, UiUpdate, UiRefresh, UiRefreshKeyboard, UiLoad, UiRefreshMouse, Ui
    <2>6. Agreed => Agreed'
      BY <1>1, <2>1, <2>2 DEF Agreed, NoneToHost, NoneToViewer, Toggling, Flipping, Sends
    <2>7. ViewerHears => ViewerHears'
      BY <1>1, <2>1, <2>2 DEF ViewerHears, NoneToHost, Toggling, Flipping, Sends
    <2>8. HostHears => HostHears'
      BY <1>1, <2>1, <2>2 DEF HostHears, NoneToViewer, Toggling, Flipping, Sends
    <2>9. QED
      BY <2>1, <2>3, <2>4, <2>5, <2>6, <2>7, <2>8 DEF InUse, Phase
  <1>4. CASE UiLoadOld \/ UiStoreNew \/ UiLoadKeyboard \/ UiLoadMouse \/ UiLockToSend
             \/ UiSendState
    <2>1. HostTells
      BY <1>4 DEF UiLoadOld, UiStoreNew, UiLoadKeyboard, UiLoadMouse, UiLoad, UiLockToSend,
         UiSendState, Ui, InUse, Agreed, ViewerHears, ViewerTells, HostHears, Toggling
    <2>2. UNCHANGED <<ctlLine, pending, cur, ctl, hostEnd, viewerEnd, toHost>>
      BY <1>4 DEF UiLoadOld, UiStoreNew, UiLoadKeyboard, UiLoadMouse, UiLoad, UiLockToSend,
         UiSendState, HostSends, ctlVars, channel
    <2>3. ui' \in {"store", "loadK", "loadM", "sendState", "sending", "refresh"}
      BY <1>4 DEF UiLoadOld, UiStoreNew, UiLoadKeyboard, UiLoadMouse, UiLoad, UiLockToSend,
         UiSendState, Ui
    <2>4. Served'
      BY <1>0, <1>1, <2>2, <2>3 DEF Served, Flipping, Sends, StopPc
    <2>5. ASSUME toViewer' = toViewer,
                 ui' \in {"store", "loadK", "loadM", "sendState", "sending"},
                 ui' = "store" => access' = access /\ ui = "toggle",
                 ui' \in {"loadM", "sendState", "sending"} =>
                     uiLine'["keyboard"] = access'["keyboard"],
                 ui' \in {"sendState", "sending"} => uiLine'["mouse"] = access'["mouse"]
          PROVE  Phase'
      <3>1. HostTells'
        BY <1>1, <2>1, <2>2, <2>5
        DEF HostTells, NoneToHost, NoneToViewer, Toggling, Flipping, Sends
      <3>2. QED
        BY <2>2, <2>4, <3>1 DEF InUse, Phase
    <2>6. CASE UiLoadOld
      BY <2>5, <2>6 DEF UiLoadOld, Ui, flags, channel
    <2>7. CASE UiStoreNew
      BY <2>5, <2>7 DEF UiStoreNew, Ui, channel
    <2>8. CASE UiLoadKeyboard
      BY <2>5, <2>8, Sockets DEF UiLoadKeyboard, UiLoad, Ui, flags, channel, Grant, Device
    <2>9. CASE UiLoadMouse
      BY <2>1, <2>5, <2>9, Sockets
      DEF UiLoadMouse, UiLoad, Ui, flags, channel, Grant, Device, HostTells
    <2>10. CASE UiLockToSend
      <3>1. client # NoConn
        BY <1>0, ServedFacts DEF Served
      <3>2. QED
        BY <2>1, <2>5, <2>10, <3>1 DEF UiLockToSend, flags, channel, HostTells
    <2>11. CASE UiSendState
      <3>1. uiLine = access
        <4>1. uiLine["keyboard"] = access["keyboard"] /\ uiLine["mouse"] = access["mouse"]
          BY <2>1, <2>11 DEF UiSendState, Ui, HostTells
        <4>2. /\ uiLine \in [{"keyboard", "mouse"} -> BOOLEAN]
              /\ access \in [{"keyboard", "mouse"} -> BOOLEAN]
          BY Sockets DEF Grant, Device
        <4>3. QED
          BY <4>1, <4>2
      <3>2. toViewer' = [toViewer EXCEPT ![link] = Append(@, AccessLine(access))]
        BY <1>0, <2>11, <3>1, ServedFacts DEF UiSendState, HostSends, Served
      <3>3. toViewer'[link] = <<AccessLine(access)>>
        BY <1>0, <2>1, <3>2, ServedFacts, OneLine, Sockets DEF HostTells, NoneToViewer
      <3>4. ui' = "refresh" /\ access' = access
        BY <2>11 DEF UiSendState, Ui, flags
      <3>5. ViewerHears'
        BY <1>1, <2>1, <2>2, <3>3, <3>4
        DEF HostTells, ViewerHears, NoneToHost, NoneToViewer, Toggling, Flipping, Sends
      <3>6. QED
        BY <2>2, <2>4, <3>5 DEF InUse, Phase
    <2>12. QED
      BY <1>4, <2>6, <2>7, <2>8, <2>9, <2>10, <2>11
  <1>5. QED
    BY <1>2, <1>3, <1>4 DEF UiStep


\* The viewer's connection and video threads, in a session in use.
LEMMA ConnInUse ==
    ASSUME SyncInv, InUse, ctlLine = Blocked, ConnStep \/ VidStep \/ VidStreamEnds, UNCHANGED host
    PROVE  Phase'
  <1>0. Served /\ conn \in {"check", "recv", "lines", "applyM"} /\ vConnected
    BY DEF InUse, Served
  <1>1. UNCHANGED <<access, ctlLine, ctl, cur, pending, ui, uiLine, posted>>
    BY DEF host, flags, ctlVars, uiVars, window
  <1>2. /\ \/ vPending = <<>>
           \/ vPending = <<AccessLine(access)>> /\ conn \in {"lines", "applyM"} /\ ViewerHears
        /\ vPending = <<>> => conn # "applyM"
    BY DEF InUse, Agreed, HostTells, ViewerHears, ViewerTells, HostHears, NoneToViewer
  <1>3. CASE ConnPublish \/ (\E c \in Conn : ConnConnect(c)) \/ ConnConnectFails \/ ConnHello
             \/ (\E n \in 1 .. Capacity : ConnAnswered(n)) \/ ConnNotAnswered \/ ConnFail
             \/ ConnFailFlag \/ ConnOpens \/ ConnSpawn \/ ConnEnds \/ ConnCloseControl
             \/ ConnCloseVideo \/ ConnJoinVideo
    BY <1>0, <1>3 DEF ConnPublish, ConnConnect, ConnConnectFails, ConnHello, ConnAnswered,
       ConnNotAnswered, ConnFail, ConnFailFlag, ConnOpens, ConnSetConnected, ConnClearConnecting,
       ConnReset, ConnPost, ConnSpawn, ConnEnds, ConnCloseControl, ConnCloseVideo, ConnJoinVideo,
       ConnAt
  <1>4. CASE ConnReceiveEnds
    BY <1>0, <1>4 DEF ConnReceiveEnds, ViewerRecvEnds, Served
  <1>5. CASE ConnIgnore
    <2>1. vPending # <<>> /\ Head(vPending).kind # "access"
      BY <1>5 DEF ConnIgnore
    <2>2. QED
      BY <1>0, <1>2, <2>1, ServedFacts, OneLine
  <1>6. CASE ConnCheck \/ ConnLinesDone \/ VidStep \/ VidStreamEnds
    <2>1. UNCHANGED <<vAccess, vConnected, link, vPending, channel, vui, vLine, vOut>>
      BY <1>6 DEF ConnCheck, ConnLinesDone, VidStep, VidPublish, VidConnect, VidCheck, VidAborted,
         VidClose, VidStreamEnds, vFlags, vSocks, vUiVars
    <2>2. \/ conn' = conn
          \/ conn' \in {"recv", "check"} /\ conn \in {"check", "lines"} /\ vPending = <<>>
      BY <1>6, <1>0, <1>2 DEF ConnCheck, ConnLinesDone, ConnAt, VidStep, VidPublish, VidConnect,
         VidCheck, VidAborted, VidClose, VidStreamEnds
    <2>3. UNCHANGED <<toHost, toViewer, hostEnd, viewerEnd>>
      BY <2>1 DEF channel
    <2>4. Served'
      BY <1>0, <1>1, <2>1, <2>2, <2>3 DEF Served, Flipping, Sends
    <2>5. Agreed => Agreed'
      BY <1>1, <2>1, <2>2, <2>3
      DEF Agreed, NoneToHost, NoneToViewer, Toggling, Flipping, Sends
    <2>6. ViewerHears => ViewerHears'
      BY <1>1, <2>1, <2>2, <2>3, OneLine DEF ViewerHears, NoneToHost, Toggling, Flipping, Sends
    <2>7. HostHears => HostHears'
      BY <1>1, <2>1, <2>2, <2>3 DEF HostHears, NoneToViewer, Toggling, Flipping, Sends
    <2>8. HostTells => HostTells'
      BY <1>1, <2>1, <2>2, <2>3
      DEF HostTells, NoneToHost, NoneToViewer, Toggling, Flipping, Sends
    <2>9. ViewerTells => ViewerTells'
      BY <1>1, <2>1, <2>2, <2>3
      DEF ViewerTells, NoneToHost, NoneToViewer, Toggling, Flipping, Sends
    <2>10. QED
      BY <1>1, <2>4, <2>5, <2>6, <2>7, <2>8, <2>9 DEF InUse, Phase
  <1>7. ASSUME NEW n \in 1 .. Capacity, ConnReceive(n) PROVE Phase'
    <2>1. /\ conn = "recv" /\ conn' = "lines" /\ n \in 1 .. Len(toViewer[link])
          /\ toViewer' = [toViewer EXCEPT ![link] = AfterFirst(@, n)]
          /\ vPending' = First(toViewer[link], n)
          /\ UNCHANGED <<vAccess, vConnected, link, vui, vLine, vOut, hostEnd, viewerEnd, toHost>>
      BY <1>7 DEF ConnReceive, ConnAt, ViewerReceives, vFlags, vSocks, vUiVars
    <2>2. toViewer[link] # <<>>
      BY <2>1
    <2>3. ViewerHears /\ toViewer[link] = <<AccessLine(access)>>
      BY <2>2, <2>1
      DEF InUse, Agreed, HostTells, ViewerHears, ViewerTells, HostHears, NoneToViewer
    <2>4. n \in 1 .. 1
      BY <1>0, <2>1, <2>3, ServedFacts, OneLine
    <2>5. vPending' = <<AccessLine(access)>> /\ toViewer'[link] = <<>>
      BY <1>0, <2>1, <2>3, <2>4, ServedFacts, OneLine, Sockets
    <2>6. Served'
      BY <1>0, <1>1, <2>1 DEF Served, Flipping, Sends
    <2>7. ViewerHears'
      BY <1>1, <2>1, <2>3, <2>5 DEF ViewerHears, NoneToHost, Toggling, Flipping, Sends
    <2>8. QED
      BY <1>1, <2>6, <2>7 DEF InUse, Phase
  <1>8. CASE ConnApplyKeyboard \/ ConnApplyMouse
    <2>1. vPending = <<AccessLine(access)>> /\ ViewerHears
      BY <1>2, <1>8 DEF ConnApplyKeyboard, ConnApplyMouse, ConnAt
    <2>2. Head(vPending).grant = access /\ Tail(vPending) = <<>> /\ vPending # <<>>
      BY <1>0, <2>1, ServedFacts, OneLine
    <2>3. /\ UNCHANGED <<vConnected, link, channel, vui, vLine, vOut>>
          /\ conn' \in {"applyM", "lines"}
      BY <1>8 DEF ConnApplyKeyboard, ConnApplyMouse, ConnAt, vSocks, vUiVars
    <2>4. UNCHANGED <<toHost, toViewer, hostEnd, viewerEnd>>
      BY <2>3 DEF channel
    <2>5. Served'
      BY <1>0, <1>1, <2>3, <2>4 DEF Served, Flipping, Sends
    <2>6. CASE ConnApplyKeyboard
      <3>1. /\ vAccess'["keyboard"] = access["keyboard"] /\ vPending' = vPending
            /\ conn' = "applyM"
        BY <2>6, <2>2, Sockets DEF ConnApplyKeyboard, ConnAt, Grant, Device
      <3>2. ViewerHears'
        BY <1>1, <2>1, <2>2, <2>3, <2>4, <3>1
        DEF ViewerHears, NoneToHost, Toggling, Flipping, Sends
      <3>3. QED
        BY <1>1, <2>5, <3>2 DEF InUse, Phase
    <2>7. CASE ConnApplyMouse
      <3>1. conn = "applyM" /\ vAccess["keyboard"] = access["keyboard"] /\ toViewer[link] = <<>>
        BY <2>1, <2>2, <2>7 DEF ConnApplyMouse, ConnAt, ViewerHears
      <3>2. /\ vAccess' = [vAccess EXCEPT !["mouse"] = access["mouse"]] /\ vPending' = <<>>
            /\ conn' = "lines"
        BY <2>2, <2>7 DEF ConnApplyMouse, ConnAt
      <3>3. vAccess' = access
        BY <3>1, <3>2, Sockets DEF Grant, Device
      <3>4. Agreed'
        BY <1>1, <2>1, <2>3, <2>4, <3>1, <3>2, <3>3
        DEF ViewerHears, Agreed, NoneToHost, NoneToViewer, Toggling, Flipping, Sends
      <3>5. QED
        BY <1>1, <2>5, <3>4 DEF InUse, Phase
    <2>8. QED
      BY <1>8, <2>6, <2>7
  <1>9. QED
    BY <1>3, <1>4, <1>5, <1>6, <1>7, <1>8 DEF ConnStep

\* The viewer's window thread, in a session in use.
LEMMA VuiInUse ==
    ASSUME SyncInv, Between, InUse, ctlLine = Blocked, VuiStep, UNCHANGED host
    PROVE  Phase'
  <1>0. Served /\ (vui = "idle" \/ Flipping)
    BY DEF InUse, Served
  <1>1. UNCHANGED <<access, ctlLine, ctl, cur, pending, ui, uiLine, posted>>
    BY DEF host, flags, ctlVars, uiVars, window
  <1>2. CASE VuiReadConnecting \/ VuiStoreConnecting \/ VuiStartConn \/ VuiCheckGrant
             \/ VuiDisconnectGuard \/ VuiClearConnected \/ VuiClearConnecting \/ VuiResets
             \/ VuiCloseVideo \/ VuiCloseControl \/ VuiPostDisconnected \/ VuiJoinConn
             \/ VuiJoinVideo
    BY <1>0, <1>2 DEF VuiReadConnecting, VuiStoreConnecting, VuiStartConn, VuiCheckGrant,
       VuiDisconnectGuard, VuiClearConnected, VuiClearConnecting, VuiResets, VuiReset,
       VuiCloseVideo, VuiCloseControl, VuiPostDisconnected, VuiJoinConn, VuiJoinVideo, Vui,
       Flipping, Sends
  <1>3. CASE VuiShow
    <2>1. /\ UNCHANGED <<vAccess, vConnected, link, conn, vPending, vui, vLine, vOut>>
          /\ UNCHANGED <<toHost, toViewer, hostEnd, viewerEnd>>
      BY <1>3 DEF VuiShow, vFlags, vSocks, vUiVars, channel
    <2>2. Served'
      BY <1>0, <1>1, <2>1 DEF Served, Flipping, Sends
    <2>3. (Agreed => Agreed') /\ (ViewerHears => ViewerHears') /\ (HostHears => HostHears')
      BY <1>1, <2>1
      DEF Agreed, ViewerHears, HostHears, NoneToHost, NoneToViewer, Toggling, Flipping, Sends
    <2>4. (HostTells => HostTells') /\ (ViewerTells => ViewerTells')
      BY <1>1, <2>1
      DEF HostTells, ViewerTells, NoneToHost, NoneToViewer, Toggling, Flipping, Sends
    <2>5. QED
      BY <1>1, <2>2, <2>3, <2>4 DEF InUse, Phase
  <1>4. CASE VuiLoadOld \/ VuiStoreNew \/ VuiLoadKeyboard \/ VuiLoadMouse \/ VuiLockToSend
             \/ VuiSend
    <2>1. Flipping /\ ViewerTells
      BY <1>0, <1>4 DEF VuiLoadOld, VuiStoreNew, VuiLoadKeyboard, VuiLoadMouse, VuiLockToSend,
         VuiSend, Vui, InUse, Agreed, HostTells, ViewerHears, HostHears
    <2>2. UNCHANGED <<vConnected, link, conn, vPending, hostEnd, viewerEnd, toViewer>>
      BY <1>4 DEF VuiLoadOld, VuiStoreNew, VuiLoadKeyboard, VuiLoadMouse, VuiLockToSend, VuiSend,
         ViewerSends, vFlags, vSocks, channel
    <2>3. ASSUME toHost' = toHost, Flipping',
                 vui' \in {"toggle", "store"} => vAccess' = vAccess /\ vui = "toggle",
                 vui' = "loadM" => vLine'["keyboard"] = vAccess'["keyboard"],
                 vui' \in {"send", "sending"} => vOut' = AccessLine(vAccess')
          PROVE  Phase'
      <3>1. Served'
        BY <1>0, <1>1, <2>2, <2>3 DEF Served
      <3>2. ViewerTells'
        BY <1>1, <2>1, <2>2, <2>3
        DEF ViewerTells, NoneToHost, NoneToViewer, Toggling, Sends
      <3>3. QED
        BY <1>1, <3>1, <3>2 DEF InUse, Phase
    <2>4. CASE VuiLoadOld \/ VuiStoreNew
      BY <2>3, <2>4 DEF VuiLoadOld, VuiStoreNew, Vui, vFlags, channel, Flipping
    <2>5. CASE VuiLoadKeyboard
      BY <2>3, <2>5, Sockets DEF VuiLoadKeyboard, Vui, vFlags, channel, Flipping, Grant, Device
    <2>6. CASE VuiLoadMouse
      <3>1. vLine["keyboard"] = vAccess["keyboard"]
        BY <2>1, <2>6 DEF VuiLoadMouse, Vui, ViewerTells
      <3>2. [vLine EXCEPT !["mouse"] = vAccess["mouse"]] = vAccess
        <4>1. vLine \in [{"keyboard", "mouse"} -> BOOLEAN]
              /\ vAccess \in [{"keyboard", "mouse"} -> BOOLEAN]
          BY Sockets DEF Grant, Device
        <4>2. QED
          BY <3>1, <4>1
      <3>3. vOut' = AccessLine(vAccess) /\ vAccess' = vAccess /\ vui' = "send" /\ toHost' = toHost
        BY <2>6, <3>2 DEF VuiLoadMouse, Vui, vFlags, channel
      <3>4. Flipping'
        BY <1>0, <3>3, ServedFacts, PlainFacts, Sockets DEF Flipping, Sends
      <3>5. QED
        BY <2>3, <3>3, <3>4
    <2>7. CASE VuiLockToSend
      <3>1. control
        BY <1>0, ServedFacts
      <3>2. vui = "send" /\ vui' = "sending" /\ UNCHANGED <<vOut, vAccess, toHost>>
        BY <2>7, <3>1 DEF VuiLockToSend, vFlags, channel
      <3>3. vOut = AccessLine(vAccess)
        BY <2>1, <3>2 DEF ViewerTells, Sends
      <3>4. Flipping'
        BY <2>1, <3>2 DEF Flipping, Sends
      <3>5. QED
        BY <2>3, <3>2, <3>3, <3>4
    <2>8. CASE VuiSend
      <3>1. vOut = AccessLine(vAccess) /\ vOut # Disconnect
        BY <2>1, <2>8 DEF VuiSend, Vui, ViewerTells, Flipping, Sends
      <3>2. vui' = "idle" /\ vAccess' = vAccess
        BY <2>8, <3>1 DEF VuiSend, Vui, AfterSend, vFlags
      <3>3. toHost' = [toHost EXCEPT ![link] = Append(@, AccessLine(vAccess))]
        BY <1>0, <2>8, <3>1 DEF VuiSend, ViewerSends, Served
      <3>4. toHost'[link] = <<AccessLine(vAccess)>>
        BY <1>0, <2>1, <3>3, ServedFacts, OneLine, Sockets DEF ViewerTells, NoneToHost
      <3>5. \A c \in Conn : c # link => toHost'[c] = toHost[c]
        BY <1>0, <3>3, ServedFacts, Sockets
      <3>6. Served'
        BY <1>0, <1>1, <2>2, <3>2, <3>5 DEF Served
      <3>7. HostHears'
        BY <1>1, <2>1, <2>2, <3>2, <3>4
        DEF ViewerTells, HostHears, NoneToHost, NoneToViewer, Toggling, Flipping, Sends
      <3>8. QED
        BY <1>1, <3>6, <3>7 DEF InUse, Phase
    <2>9. QED
      BY <1>4, <2>4, <2>5, <2>6, <2>7, <2>8
  <1>5. QED
    BY <1>2, <1>3, <1>4 DEF VuiStep

\* A session in use and at rest is agreed on.
LEMMA RestInUse ==
    ASSUME InUse, ui = "idle", vui = "idle", Settled \/ Apart
    PROVE  Settled /\ Agreed
  <1>1. Settled
    BY DEF InUse, Served, Apart
  <1>2. Agreed
    BY <1>1, OneLine
    DEF InUse, Agreed, HostTells, ViewerHears, ViewerTells, HostHears, NoneToHost, NoneToViewer,
        Toggling, Flipping, Sends, Settled
  <1>3. QED
    BY <1>1, <1>2

\* The users, at rest in a session in use: a click or a hotkey, or the end of it.
LEMMA UsersInUse ==
    ASSUME SyncInv, Between, Live, InUse, ctlLine = Blocked, BothAtRest,
           \/ (UiStart \/ UiStop \/ \E d \in Device : UiClick(d)) /\ UNCHANGED viewer
           \/ /\ UserConnects \/ UserDisconnects \/ \E d \in Device : UserToggles(d)
              /\ UNCHANGED host
    PROVE  Phase'
  <1>1. /\ Settled /\ Agreed /\ vConnected /\ running /\ pending = <<>> /\ vPending = <<>>
        /\ ui = "idle" /\ vui = "idle" /\ posted = 0
    BY RestFacts, RestInUse DEF BothAtRest
  <1>2. Served
    BY DEF InUse
  <1>3. UNCHANGED <<access, vAccess, ctlLine, pending, vPending, channel, ctl, conn, cur, link,
                    vConnected>> /\ posted' = 0
    BY <1>1 DEF UiStart, UiStop, UiClick, UserConnects, UserDisconnects, Disconnects, UserToggles,
       viewer, host, flags, sockets, ctlVars, uiVars, window, vFlags, vSocks, vUiVars, vWindow
  <1>4. UNCHANGED <<toHost, toViewer, hostEnd, viewerEnd>>
    BY <1>3 DEF channel
  <1>5. CASE \/ (\E d \in Device : UiClick(d)) /\ UNCHANGED viewer
             \/ (\E d \in Device : UserToggles(d)) /\ UNCHANGED host
    <2>1. \/ ui' = "toggle" /\ vui' = "idle"
          \/ ui' = "idle" /\ vui' = "toggle"
      BY <1>1, <1>5 DEF UiClick, Ui, UserToggles, viewer, host, uiVars, vUiVars
    <2>2. Served'
      BY <1>2, <1>3, <1>4, <2>1 DEF Served, Flipping, StopPc
    <2>3. (NoneToHost /\ NoneToViewer)'
      BY <1>1, <1>3, <1>4 DEF Agreed, NoneToHost, NoneToViewer
    <2>4. (HostTells \/ ViewerTells)'
      BY <1>1, <1>3, <2>1, <2>3
      DEF HostTells, ViewerTells, Agreed, Toggling, Flipping, Sends, Settled
    <2>5. QED
      BY <1>3, <2>2, <2>4 DEF Phase, InUse
  <1>6. CASE (UiStop /\ UNCHANGED viewer) \/ (UserDisconnects /\ UNCHANGED host)
    <2>1. \/ ui' = "stopClient" /\ vui' = "idle"
          \/ ui' = "idle" /\ vui' = "send" /\ vOut' = Disconnect
      BY <1>1, <1>6 DEF UiStop, Ui, UserDisconnects, Disconnects, viewer, host, uiVars, vUiVars
    <2>2. OnWay(Plain, Plain)'
      <3>1. toHost' \in [Conn -> Seq(Plain)]
        <4>1. \A c \in Conn : toHost[c] \in Seq(Plain)
          BY <1>1, <1>2, EmptySeq DEF Served, Settled
        <4>2. QED
          BY <1>4, <4>1, Sockets
      <3>2. toViewer' \in [Conn -> Seq(Plain)]
        <4>1. \A c \in Conn : toViewer[c] = <<>>
          BY <1>1, <1>2, ServedFacts DEF Settled
        <4>2. QED
          BY <1>4, <4>1, Sockets, EmptySeq
      <3>3. QED
        BY <1>1, <1>3, <3>1, <3>2, EmptySeq DEF OnWay, Wire
    <2>3. Ending'
      BY <1>1, <1>3, <1>4, <2>1, <2>2
      DEF Ending, Settled, Toggling, Flipping, Sends, Quitting, HostRevokes, ViewerRevokes, Cut,
          Cutting, Spawned
    <2>4. QED
      BY <1>1, <1>3, <2>3 DEF Phase
  <1>7. CASE UiStart \/ UserConnects
    BY <1>1, <1>7 DEF UiStart, UserConnects
  <1>8. QED
    BY <1>5, <1>6, <1>7

\* At rest after the end of a session nothing is granted.
LEMMA RestEnding ==
    ASSUME Ending, ui = "idle", vui = "idle"
    PROVE  ~Settled /\ (Apart => Free)
  <1>1. Cut
    BY DEF Ending, Cutting
  <1>2. ~Settled
    BY <1>1 DEF Settled, Cut
  <1>3. ASSUME Apart PROVE Free
    <2>1. access = Blocked /\ vAccess = Blocked
      BY <1>3 DEF Apart, Ending, HostRevokes, ViewerRevokes
    <2>2. OnWay(Plain, Calm)
      <3>1. \A q \in Seq(Plain) : q \in Seq(Calm)
        BY PlainFacts, SeqMonotonic
      <3>2. QED
        BY <3>1 DEF Ending, OnWay, Wire
    <2>3. QED
      BY <2>1, <2>2 DEF Ending, Free
  <1>4. QED
    BY <1>2, <1>3

\* The host's control thread, after the end of a session.
LEMMA CtlEnding ==
    ASSUME SyncInv, Ending, ctlLine = Blocked, CtlStep, UNCHANGED viewer
    PROVE  Phase'
  <1>0. Wire(Plain, Plain) /\ pending \in Seq(Plain) /\ ctl # "applyM"
    BY DEF Ending, OnWay
  <1>1. UNCHANGED <<vAccess, link, conn, vPending, vConnected, vui, vOut, vLine>>
    BY DEF viewer, vFlags, vSocks, vUiVars
  <1>2. ~Toggling /\ ui' = ui
    BY DEF Ending, CtlStep, uiVars, CtlCreate, CtlListen, CtlListenFails,
       CtlLoop, CtlAccept, CtlAcceptFails, CtlHello, CtlRefuse, CtlCloseListener, CtlPublish,
       CtlResetKeyboard, CtlResetMouse, CtlReset, CtlSetConnected, CtlAnnounce, CtlSendOk,
       CtlLoadKeyboard, CtlLoadMouse, CtlLoad, CtlLockToSend, CtlSendState, CtlCheck, CtlReceive,
       CtlReceiveEnds, CtlLinesDone, CtlDisconnect, CtlIgnore, CtlApplyKeyboard, CtlApplyMouse,
       CtlPostApplied, CtlCheckInput, CtlInject, CtlEnd, CtlEndKeyboard, CtlEndMouse,
       CtlEndConnected, CtlEndCheck, CtlEndPost
  <1>3. UNCHANGED viewerEnd
    BY HostLeaves, TogetherAssumption DEF HostNext
  <1>4. ASSUME ctlLine' = Blocked, Wire(Plain, Plain)', pending' \in Seq(Plain), ctl' # "applyM",
               HostRevokes', (Cut \/ Cutting)'
        PROVE  Phase'
    <2>1. Ending'
      BY <1>1, <1>2, <1>4
      DEF Ending, OnWay, Toggling, Flipping, Sends, Quitting, ViewerRevokes
    <2>2. QED
      BY <1>4, <2>1 DEF Phase
  <1>5. UNCHANGED hostEnd /\ cur' = cur /\ Cut => Cut'
    BY <1>1, <1>3 DEF Cut
  <1>6. UNCHANGED hostEnd /\ cur' = cur /\ Cutting
          /\ ctl' \in {"check", "recv", "lines", "postApply", "inject", "end"} => Cutting'
    BY <1>1, <1>2 DEF Cutting
  <1>7. Cut \/ Cutting
    BY DEF Ending
  <1>8. UNCHANGED channel => Wire(Plain, Plain)' /\ UNCHANGED hostEnd
    BY <1>0 DEF channel, Wire
  <1>9. CASE CtlCreate \/ CtlListen \/ CtlListenFails \/ CtlLoop \/ CtlAcceptFails
             \/ CtlPublish \/ CtlResetKeyboard \/ CtlResetMouse \/ CtlSetConnected \/ CtlAnnounce
             \/ CtlLoadKeyboard \/ CtlLoadMouse \/ CtlLockToSend
    <2>1. Cut /\ access = Blocked
      BY <1>7, <1>9 DEF CtlCreate, CtlListen, CtlListenFails, CtlLoop, CtlAcceptFails, CtlPublish,
         CtlResetKeyboard, CtlResetMouse, CtlReset, CtlSetConnected, CtlAnnounce, CtlLoadKeyboard,
         CtlLoadMouse, CtlLoad, CtlLockToSend, Ctl, Cutting, Ending, HostRevokes
    <2>2. access' = Blocked /\ ctlLine' = Blocked
      BY <1>9, <2>1, BlockedFacts DEF CtlCreate, CtlListen, CtlListenFails, CtlLoop,
         CtlAcceptFails, CtlPublish, CtlResetKeyboard, CtlResetMouse, CtlReset, CtlSetConnected,
         CtlAnnounce, CtlLoadKeyboard, CtlLoadMouse, CtlLoad, CtlLockToSend, flags, Device, Blocked
    <2>3. UNCHANGED <<channel, pending, cur>> /\ ctl' # "applyM"
      BY <1>9 DEF CtlCreate, CtlListen, CtlListenFails, CtlLoop,
         CtlAcceptFails, CtlPublish, CtlResetKeyboard, CtlResetMouse, CtlReset, CtlSetConnected,
         CtlAnnounce, CtlLoadKeyboard, CtlLoadMouse, CtlLoad, CtlLockToSend, Ctl
    <2>4. QED
      BY <1>0, <1>4, <1>5, <1>8, <2>1, <2>2, <2>3 DEF HostRevokes
  <1>10. CASE CtlCheck \/ CtlReceiveEnds \/ CtlLinesDone \/ CtlPostApplied
    <2>1. /\ UNCHANGED <<channel, pending, cur, access, ctlLine>>
          /\ ctl' \in {"check", "recv", "lines", "end"}
      BY <1>10 DEF CtlCheck, CtlReceiveEnds, CtlLinesDone, CtlPostApplied, Ctl, flags
    <2>2. QED
      BY <1>0, <1>4, <1>5, <1>6, <1>7, <1>8, <2>1 DEF HostRevokes
  <1>11. CASE CtlDisconnect \/ CtlIgnore \/ CtlCheckInput \/ CtlInject
    <2>1. pending # <<>>
      BY <1>11 DEF CtlDisconnect, CtlIgnore, CtlCheckInput, CtlInject, Ctl, NextLine, SyncInv,
         IInv, PendingInv
    <2>2. Tail(pending) \in Seq(Plain) /\ <<>> \in Seq(Plain)
      BY <1>0, <2>1
    <2>3. /\ UNCHANGED <<channel, cur, access, ctlLine>> /\ pending' \in Seq(Plain)
          /\ ctl' \in {"lines", "inject", "end"}
      BY <1>0, <1>11, <2>2 DEF CtlDisconnect, CtlIgnore, CtlCheckInput, CtlInject, Ctl, NextLine,
         flags
    <2>4. QED
      BY <1>0, <1>4, <1>5, <1>6, <1>7, <1>8, <2>3 DEF HostRevokes
  <1>12. CASE CtlApplyKeyboard \/ CtlApplyMouse
    <2>1. pending # <<>> /\ Head(pending).kind = "access"
      BY <1>0, <1>12 DEF CtlApplyKeyboard, CtlApplyMouse, Ctl, NextLine
    <2>2. QED
      BY <1>0, <2>1 DEF Plain
  <1>13. CASE CtlEndKeyboard \/ CtlEndMouse \/ CtlEndConnected \/ CtlEndCheck \/ CtlEndPost
    <2>1. Cut
      BY <1>7, <1>13 DEF CtlEndKeyboard, CtlEndMouse, CtlReset, CtlEndConnected, CtlEndCheck,
         CtlEndPost, Ctl, Cutting
    <2>2. UNCHANGED <<channel, pending, ctlLine>> /\ ctl' # "applyM"
      BY <1>13 DEF CtlEndKeyboard, CtlEndMouse, CtlReset, CtlEndConnected, CtlEndCheck,
         CtlEndPost, Ctl
    <2>3. HostRevokes'
      <3>1. CASE CtlEndKeyboard
        BY <3>1, Sockets DEF CtlEndKeyboard, CtlReset, Ctl, HostRevokes, Grant, Device
      <3>2. CASE CtlEndMouse
        <4>1. ctl = "endM" /\ access' = [access EXCEPT !["mouse"] = FALSE]
          BY <3>2 DEF CtlEndMouse, CtlReset, Ctl
        <4>2. ~access["keyboard"]
          BY <4>1, BlockedFacts DEF Ending, HostRevokes, Device
        <4>3. access' = Blocked
          BY <4>1, <4>2, Sockets, BlockedFacts DEF Grant, Device
        <4>4. QED
          BY <4>3 DEF HostRevokes
      <3>3. CASE CtlEndConnected \/ CtlEndCheck \/ CtlEndPost
        BY <3>3 DEF CtlEndConnected, CtlEndCheck, CtlEndPost, Ctl, Ending, HostRevokes, flags
      <3>4. QED
        BY <1>13, <3>1, <3>2, <3>3
    <2>4. Cut'
      BY <1>1, <2>1, <2>2 DEF Cut, channel
    <2>5. QED
      BY <1>0, <1>4, <1>8, <2>2, <2>3, <2>4
  <1>14. ASSUME NEW c \in Conn, CtlAccept(c) PROVE Phase'
    <2>1. Cut /\ access = Blocked
      BY <1>7, <1>14 DEF CtlAccept, Ctl, Cutting, Ending, HostRevokes
    <2>2. /\ UNCHANGED <<access, ctlLine, pending, toHost, toViewer>> /\ ctl' = "hello"
          /\ hostEnd[c] = "backlog" /\ hostEnd' = [hostEnd EXCEPT ![c] = "open"]
      BY <1>14 DEF CtlAccept, Ctl, flags
    <2>3. Cut'
      BY <1>1, <1>3, <2>1, <2>2, Sockets DEF Cut
    <2>4. QED
      BY <1>0, <1>4, <2>1, <2>2, <2>3 DEF HostRevokes, Wire
  <1>15. ASSUME NEW n \in 1 .. Capacity, CtlHello(n) \/ CtlReceive(n) PROVE Phase'
    <2>1. cur \in Conn
      BY <1>15, Sockets DEF CtlHello, CtlReceive, Ctl, SessionPc, CtlPc
    <2>2. HostReceives(cur, n) /\ UNCHANGED <<access, ctlLine, cur>>
      BY <1>15 DEF CtlHello, CtlReceive, flags
    <2>3. UNCHANGED hostEnd
      BY <2>2 DEF HostReceives
    <2>4. Wire(Plain, Plain)' /\ pending' \in Seq(Plain)
      BY <1>0, <1>15, <2>1, <2>2, WireStep DEF CtlHello, CtlReceive
    <2>5. \/ ctl = "hello" /\ ctl' = "publish"
          \/ ctl = "recv" /\ ctl' = "lines"
      BY <1>15 DEF CtlHello, CtlReceive, Ctl
    <2>6. HostRevokes'
      BY <2>2, <2>5 DEF Ending, HostRevokes
    <2>7. (Cut \/ Cutting)'
      BY <1>5, <1>6, <1>7, <2>2, <2>3, <2>5 DEF Cutting
    <2>8. QED
      BY <1>4, <2>2, <2>4, <2>5, <2>6, <2>7
  <1>16. CASE CtlRefuse \/ CtlCloseListener
    <2>1. Cut /\ access = Blocked
      BY <1>7, <1>16 DEF CtlRefuse, CtlCloseListener, Ctl, Cutting, Ending, HostRevokes
    <2>2. UNCHANGED <<access, ctlLine, pending>> /\ ctl' # "applyM"
      BY <1>16 DEF CtlRefuse, CtlCloseListener, Ctl, flags
    <2>3. Wire(Plain, Plain)'
      BY <1>0, <1>16, WireCloses DEF CtlRefuse, CtlCloseListener
    <2>4. Cut'
      BY <1>1, <1>3, <1>16, <2>1, Sockets DEF Cut, CtlRefuse, CtlCloseListener, HostCloses
    <2>5. QED
      BY <1>0, <1>4, <2>1, <2>2, <2>3, <2>4 DEF HostRevokes
  <1>17. CASE CtlEnd
    <2>1. UNCHANGED <<access, ctlLine, pending>> /\ ctl = "end" /\ ctl' = "endK"
      BY <1>17 DEF CtlEnd, Ctl, flags
    <2>2. HostCloses({client})
      BY <1>17 DEF CtlEnd, CloseClient
    <2>3. Wire(Plain, Plain)'
      BY <1>0, <2>2, WireCloses
    <2>4. Cutting => client = link /\ link \in Conn
      BY <2>1, Sockets DEF Cutting, Published, SessionPc, CtlPc
    <2>5. Cut'
      BY <1>1, <1>3, <1>7, <2>2, <2>4, Sockets DEF Cut, HostCloses
    <2>6. QED
      BY <1>0, <1>4, <2>1, <2>3, <2>5 DEF HostRevokes
  <1>18. CASE CtlSendOk \/ CtlSendState
    <2>1. Cut /\ access = Blocked /\ ctl' \in {"loadK", "check"}
      BY <1>7, <1>18 DEF CtlSendOk, CtlSendState, Ctl, Cutting, Ending, HostRevokes
    <2>2. UNCHANGED <<access, pending, cur, hostEnd>> /\ ctlLine' = Blocked
      BY <1>18 DEF CtlSendOk, CtlSendState, HostSends, flags
    <2>3. Cut'
      BY <1>5, <2>1, <2>2
    <2>4. CASE CtlSendOk
      <3>1. cur \in Conn
        BY <2>4, Sockets DEF CtlSendOk, Ctl, SessionPc, CtlPc
      <3>2. Wire(Plain, Plain)'
        BY <1>0, <2>4, <3>1, WireStep, PlainFacts DEF CtlSendOk
      <3>3. QED
        BY <1>0, <1>4, <2>1, <2>2, <2>3, <3>2 DEF HostRevokes
    <2>5. CASE CtlSendState
      <3>1. client \in Conn /\ HostSends(client, AccessLine(ctlLine))
        BY <2>5, Sockets DEF CtlSendState, Ctl
      <3>2. ~(hostEnd[client] = "open" /\ viewerEnd[client] = "open")
        BY <2>1, <3>1, Sockets, NoConnAssumption DEF Cut
      <3>3. UNCHANGED channel
        BY <3>1, <3>2 DEF HostSends, channel
      <3>4. QED
        BY <1>0, <1>4, <1>8, <2>1, <2>2, <2>3, <3>3 DEF HostRevokes
    <2>6. QED
      BY <1>18, <2>4, <2>5
  <1>19. QED
    BY <1>9, <1>10, <1>11, <1>12, <1>13, <1>14, <1>15, <1>16, <1>17, <1>18 DEF CtlStep

\* The host's window thread, after the end of a session.
LEMMA UiEnding ==
    ASSUME SyncInv, Ending, ctlLine = Blocked, UiStep, UNCHANGED viewer
    PROVE  Phase'
  <1>0. Wire(Plain, Plain) /\ pending \in Seq(Plain) /\ ctl # "applyM" /\ ~Toggling
    BY DEF Ending, OnWay
  <1>1. UNCHANGED <<vAccess, link, conn, vPending, vConnected, vui, vOut, vLine>>
    BY DEF viewer, vFlags, vSocks, vUiVars
  <1>2. UNCHANGED viewerEnd
    BY HostLeaves, TogetherAssumption DEF HostNext
  <1>3. Cut \/ Cutting
    BY DEF Ending
  <1>4. ASSUME UNCHANGED <<ctlLine, pending>>, Wire(Plain, Plain)', ctl' # "applyM", ~Toggling',
               HostRevokes', (Cut \/ Cutting)'
        PROVE  Phase'
    <2>1. Ending'
      BY <1>0, <1>1, <1>4
      DEF Ending, OnWay, Flipping, Sends, Quitting, ViewerRevokes
    <2>2. QED
      BY <1>4, <2>1 DEF Phase
  <1>5. CASE UiLoadOld \/ UiStoreNew \/ UiLoadKeyboard \/ UiLoadMouse \/ UiLockToSend
             \/ UiSendState
    BY <1>0, <1>5 DEF UiLoadOld, UiStoreNew, UiLoadKeyboard, UiLoadMouse, UiLoad, UiLockToSend,
       UiSendState, Ui, Toggling
  <1>6. CASE UiUpdate \/ UiRefresh \/ UiRefreshKeyboard \/ UiRefreshMouse
    <2>1. UNCHANGED <<ctlLine, pending, ctl, cur, access, channel>>
      BY <1>6 DEF UiUpdate, UiRefresh, UiRefreshKeyboard, UiLoad, UiRefreshMouse, flags, ctlVars
    <2>2. ui # "stopClient" /\ ~Toggling'
      BY <1>6 DEF UiUpdate, UiRefresh, UiRefreshKeyboard, UiLoad, UiRefreshMouse, Ui, Toggling
    <2>3. UNCHANGED <<hostEnd, viewerEnd, toHost, toViewer>>
      BY <2>1 DEF channel
    <2>4. (Cut \/ Cutting)'
      BY <1>1, <1>3, <2>1, <2>2, <2>3 DEF Cut, Cutting
    <2>5. HostRevokes' /\ Wire(Plain, Plain)'
      BY <1>0, <2>1, <2>3 DEF Ending, HostRevokes, Wire
    <2>6. QED
      BY <1>0, <1>4, <2>1, <2>2, <2>4, <2>5
  <1>7. CASE UiStopClient
    <2>1. UNCHANGED <<ctlLine, pending, ctl, cur, access>> /\ ~Toggling' /\ HostCloses({client})
      BY <1>7 DEF UiStopClient, Ui, Toggling, CloseClient, flags, ctlVars
    <2>2. Cutting => client = link /\ link \in Conn
      BY Sockets DEF Cutting, Published, SessionPc, CtlPc
    <2>3. Cut'
      BY <1>1, <1>2, <1>3, <2>1, <2>2, Sockets DEF Cut, HostCloses
    <2>4. HostRevokes' /\ Wire(Plain, Plain)'
      BY <1>0, <2>1, WireCloses DEF Ending, HostRevokes
    <2>5. QED
      BY <1>0, <1>4, <2>1, <2>3, <2>4
  <1>8. CASE UiStopListener
    <2>1. /\ UNCHANGED <<ctlLine, pending, ctl, cur, access>> /\ ~Toggling'
          /\ HostCloses(Waiting) /\ ui # "stopClient"
      BY <1>8 DEF UiStopListener, Ui, Toggling, flags, ctlVars
    <2>2. \A c \in Conn : hostEnd[c] # "backlog" => hostEnd'[c] = hostEnd[c]
      BY <2>1, Sockets DEF HostCloses, Waiting
    <2>3. \A c \in Conn : hostEnd[c] = "closed" => hostEnd'[c] = "closed"
      BY <2>2
    <2>4. (Cut \/ Cutting)'
      BY <1>1, <1>2, <1>3, <2>1, <2>2, <2>3, Sockets DEF Cut, Cutting
    <2>5. HostRevokes' /\ Wire(Plain, Plain)'
      BY <1>0, <2>1, WireCloses DEF Ending, HostRevokes
    <2>6. QED
      BY <1>0, <1>4, <2>1, <2>4, <2>5
  <1>9. CASE UiJoin
    <2>1. /\ UNCHANGED <<ctlLine, pending, channel>> /\ ctl = "ended" /\ ctl' = "none"
          /\ access' = Blocked /\ ~Toggling'
      BY <1>9 DEF UiJoin, Ui, Toggling
    <2>2. Cut'
      BY <1>1, <1>3, <2>1 DEF Cut, Cutting, channel
    <2>3. HostRevokes' /\ Wire(Plain, Plain)'
      BY <1>0, <2>1 DEF HostRevokes, Wire, channel
    <2>4. QED
      BY <1>4, <2>1, <2>2, <2>3
  <1>10. QED
    BY <1>5, <1>6, <1>7, <1>8, <1>9 DEF UiStep

\* The viewer's connection and video threads, after the end of a session.
LEMMA ConnEnding ==
    ASSUME SyncInv, Ending, ctlLine = Blocked, ConnStep \/ VidStep \/ VidStreamEnds,
           UNCHANGED host
    PROVE  Phase'
  <1>0. /\ Wire(Plain, Plain) /\ vPending \in Seq(Plain)
        /\ conn \in {"ended", "endPost", "check", "recv", "lines", "end", "endConnecting", "endK",
                     "endM", "closeControl", "closeVideo", "joinVideo"}
    BY DEF Ending, OnWay, Spawned
  <1>1. UNCHANGED <<access, ctlLine, ctl, cur, pending, ui, uiLine, posted>>
    BY DEF host, flags, ctlVars, uiVars, window
  <1>2. UNCHANGED <<vui, vOut>>
    BY DEF ConnStep, ConnPublish, ConnConnect, ConnConnectFails, ConnHello, ConnAnswered,
       ConnNotAnswered, ConnFail, ConnFailFlag, ConnOpens, ConnSetConnected, ConnClearConnecting,
       ConnReset, ConnPost, ConnSpawn, ConnCheck, ConnReceive, ConnReceiveEnds, ConnLinesDone,
       ConnIgnore, ConnApplyKeyboard, ConnApplyMouse, ConnEnds, ConnCloseControl, ConnCloseVideo,
       ConnJoinVideo, VidStep, VidPublish, VidConnect, VidCheck, VidAborted, VidClose,
       VidStreamEnds, vUiVars
  <1>3. Cut \/ Cutting
    BY DEF Ending
  <1>4. ASSUME Wire(Plain, Plain)', vPending' \in Seq(Plain),
               conn' \in {"ended", "endPost"} \cup (Spawned \ {"applyM"}),
               ViewerRevokes', (Cut \/ Cutting)'
        PROVE  Phase'
    <2>1. Ending'
      BY <1>1, <1>2, <1>4
      DEF Ending, OnWay, Toggling, Flipping, Sends, Quitting, HostRevokes
    <2>2. QED
      BY <1>1, <2>1 DEF Phase
  <1>5. UNCHANGED <<link, hostEnd, viewerEnd>> => (Cut \/ Cutting)'
    BY <1>1, <1>2, <1>3 DEF Cut, Cutting
  <1>6. UNCHANGED channel => Wire(Plain, Plain)' /\ UNCHANGED <<hostEnd, viewerEnd>>
    BY <1>0 DEF channel, Wire
  <1>7. CASE ConnPublish \/ (\E c \in Conn : ConnConnect(c)) \/ ConnConnectFails \/ ConnHello
             \/ (\E n \in 1 .. Capacity : ConnAnswered(n)) \/ ConnNotAnswered \/ ConnFail
             \/ ConnFailFlag \/ ConnOpens \/ ConnSpawn \/ ConnApplyMouse
    BY <1>0, <1>7 DEF ConnPublish, ConnConnect, ConnConnectFails, ConnHello, ConnAnswered,
       ConnNotAnswered, ConnFail, ConnFailFlag, ConnOpens, ConnSetConnected, ConnClearConnecting,
       ConnReset, ConnPost, ConnSpawn, ConnApplyMouse, ConnAt
  <1>8. CASE ConnCheck \/ ConnReceiveEnds \/ ConnLinesDone
    <2>1. UNCHANGED <<vAccess, link, vPending, channel>> /\ conn' \in {"recv", "check", "end"}
      BY <1>8 DEF ConnCheck, ConnReceiveEnds, ConnLinesDone, ConnAt, vFlags, vSocks
    <2>2. QED
      BY <1>0, <1>4, <1>5, <1>6, <2>1 DEF ViewerRevokes, Spawned
  <1>9. CASE VidStep \/ VidStreamEnds
    <2>1. UNCHANGED <<vAccess, link, conn, vPending, channel>>
      BY <1>9 DEF VidStep, VidPublish, VidConnect, VidCheck, VidAborted, VidClose, VidStreamEnds,
         vFlags, vSocks
    <2>2. QED
      BY <1>0, <1>4, <1>5, <1>6, <2>1 DEF Ending, ViewerRevokes
  <1>10. ASSUME NEW n \in 1 .. Capacity, ConnReceive(n) PROVE Phase'
    <2>1. link \in Conn
      BY <1>10, Sockets DEF ConnReceive, ConnAt, Linked, ConnSession
    <2>2. /\ UNCHANGED <<vAccess, link, hostEnd, viewerEnd>> /\ conn' = "lines"
          /\ ViewerReceives(link, n) /\ vPending' = First(toViewer[link], n)
      BY <1>10 DEF ConnReceive, ConnAt, ViewerReceives, vFlags, vSocks
    <2>3. Wire(Plain, Plain)' /\ vPending' \in Seq(Plain)
      BY <1>0, <2>1, <2>2, WireStep
    <2>4. QED
      BY <1>4, <1>5, <2>2, <2>3 DEF ViewerRevokes, Spawned
  <1>11. CASE ConnApplyKeyboard
    <2>1. vPending # <<>> /\ Head(vPending).kind = "access"
      BY <1>11 DEF ConnApplyKeyboard
    <2>2. QED
      BY <1>0, <2>1 DEF Plain
  <1>12. CASE ConnIgnore
    <2>1. /\ UNCHANGED <<vAccess, link, channel>> /\ conn = "lines" /\ conn' = "lines"
          /\ vPending' \in Seq(Plain)
      BY <1>0, <1>12 DEF ConnIgnore, vFlags, vSocks
    <2>2. QED
      BY <1>0, <1>4, <1>5, <1>6, <2>1 DEF ViewerRevokes, Spawned
  <1>13. CASE ConnEnds
    <2>1. UNCHANGED <<link, vPending, channel>>
      BY <1>13 DEF ConnEnds, ConnSetConnected, ConnClearConnecting, ConnReset, ConnPost, vSocks
    <2>2. CASE ConnSetConnected(FALSE, "end", "endConnecting")
               \/ ConnClearConnecting("endConnecting", "endK")
      <3>1. conn' \in {"endConnecting", "endK"}
        BY <2>2 DEF ConnSetConnected, ConnClearConnecting, ConnAt
      <3>2. QED
        BY <1>0, <1>4, <1>5, <1>6, <2>1, <3>1 DEF ViewerRevokes, Spawned
    <2>3. CASE ConnReset("keyboard", "endK", "endM")
      <3>1. conn' = "endM" /\ ~vAccess'["keyboard"]
        BY <2>3, Sockets DEF ConnReset, ConnAt, Grant, Device
      <3>2. QED
        BY <1>0, <1>4, <1>5, <1>6, <2>1, <3>1 DEF ViewerRevokes, Spawned
    <2>4. CASE ConnReset("mouse", "endM", "closeControl")
      <3>1. /\ conn = "endM" /\ conn' = "closeControl"
            /\ vAccess' = [vAccess EXCEPT !["mouse"] = FALSE]
        BY <2>4 DEF ConnReset, ConnAt
      <3>2. ~vAccess["keyboard"]
        BY <3>1, BlockedFacts DEF Ending, ViewerRevokes, Device
      <3>3. vAccess' = Blocked
        BY <3>1, <3>2, Sockets, BlockedFacts DEF Grant, Device
      <3>4. QED
        BY <1>0, <1>4, <1>5, <1>6, <2>1, <3>1, <3>3 DEF ViewerRevokes, Spawned
    <2>5. CASE ConnPost(FALSE, "endPost", "ended")
      <3>1. conn = "endPost" /\ conn' = "ended" /\ vAccess' = vAccess
        BY <2>5 DEF ConnPost, ConnAt, vFlags
      <3>2. QED
        BY <1>0, <1>4, <1>5, <1>6, <2>1, <3>1 DEF Ending, ViewerRevokes
    <2>6. QED
      BY <1>13, <2>2, <2>3, <2>4, <2>5 DEF ConnEnds
  <1>14. CASE ConnCloseControl
    <2>1. /\ UNCHANGED <<vAccess, vPending>> /\ conn = "closeControl" /\ conn' = "closeVideo"
          /\ link' = NoConn /\ ViewerCloses({link})
      BY <1>14 DEF ConnCloseControl, ConnAt, CloseControl, vFlags
    <2>2. Wire(Plain, Plain)'
      BY <1>0, <2>1, WireCloses
    <2>3. QED
      BY <1>0, <1>4, <2>1, <2>2 DEF Ending, ViewerRevokes, Spawned, Cut
  <1>15. CASE ConnCloseVideo \/ ConnJoinVideo
    <2>1. /\ UNCHANGED <<vAccess, link, vPending, channel>>
          /\ conn \in {"closeVideo", "joinVideo"} /\ conn' \in {"joinVideo", "endPost"}
      BY <1>15 DEF ConnCloseVideo, ConnJoinVideo, ConnAt, vFlags, vSocks
    <2>2. QED
      BY <1>0, <1>4, <1>5, <1>6, <2>1 DEF Ending, ViewerRevokes, Spawned
  <1>16. QED
    BY <1>7, <1>8, <1>9, <1>10, <1>11, <1>12, <1>13, <1>14, <1>15 DEF ConnStep

\* The viewer's window thread, after the end of a session.
LEMMA VuiEnding ==
    ASSUME SyncInv, Between, Ending, ctlLine = Blocked, VuiStep, UNCHANGED host
    PROVE  Phase'
  <1>0. /\ Wire(Plain, Plain) /\ vPending \in Seq(Plain) /\ ~closing
        /\ vui = "idle" \/ vui \in Leaving \/ (vui \in {"send", "sending"} /\ vOut = Disconnect)
    BY DEF Ending, OnWay, Between, Quitting, Sends
  <1>1. UNCHANGED <<access, ctlLine, ctl, cur, pending, ui, uiLine, posted>>
    BY DEF host, flags, ctlVars, uiVars, window
  <1>2. Cut \/ Cutting
    BY DEF Ending
  <1>3. ASSUME Wire(Plain, Plain)', UNCHANGED <<vPending, conn>>, (vui = "idle" \/ Quitting)',
               ~Flipping', vAccess' = vAccess \/ vAccess' = [vAccess EXCEPT !["keyboard"] = FALSE]
                            \/ vAccess' = [vAccess EXCEPT !["mouse"] = FALSE],
               (Cut \/ Cutting)'
        PROVE  Phase'
    <2>1. vAccess = Blocked => vAccess' = Blocked
      BY <1>3, BlockedFacts DEF Device
    <2>2. ~vAccess["keyboard"] => ~vAccess'["keyboard"]
      BY <1>3, Sockets DEF Grant, Device
    <2>3. ViewerRevokes'
      BY <1>3, <2>1, <2>2 DEF Ending, ViewerRevokes
    <2>4. Ending'
      BY <1>0, <1>1, <1>3, <2>3 DEF Ending, OnWay, Toggling, HostRevokes
    <2>5. QED
      BY <1>1, <2>4 DEF Phase
  <1>4. UNCHANGED channel => Wire(Plain, Plain)' /\ UNCHANGED <<hostEnd, viewerEnd>>
    BY <1>0 DEF channel, Wire
  <1>5. CASE VuiReadConnecting \/ VuiStoreConnecting \/ VuiStartConn \/ VuiLoadOld
             \/ VuiStoreNew \/ VuiLoadKeyboard \/ VuiLoadMouse \/ VuiCheckGrant \/ VuiJoinConn
             \/ VuiJoinVideo
    BY <1>0, <1>5 DEF VuiReadConnecting, VuiStoreConnecting, VuiStartConn, VuiLoadOld,
       VuiStoreNew, VuiLoadKeyboard, VuiLoadMouse, VuiCheckGrant, VuiJoinConn, VuiJoinVideo, Vui,
       Leaving
  <1>6. CASE VuiShow
    <2>1. UNCHANGED <<vAccess, link, conn, vPending, vui, vOut, channel>>
      BY <1>6 DEF VuiShow, vFlags, vSocks, vUiVars
    <2>2. (Cut \/ Cutting)'
      BY <1>1, <1>2, <1>4, <2>1 DEF Cut, Cutting
    <2>3. (vui = "idle" \/ Quitting)' /\ ~Flipping'
      BY <2>1 DEF Ending, Quitting, Flipping, Sends
    <2>4. QED
      BY <1>3, <1>4, <2>1, <2>2, <2>3
  <1>7. CASE VuiLockToSend \/ VuiSend
    <2>1. UNCHANGED <<vAccess, link, conn, vPending, hostEnd, viewerEnd>>
      BY <1>7 DEF VuiLockToSend, VuiSend, ViewerSends, vFlags, vSocks, channel
    <2>2. vOut = Disconnect
      BY <1>0, <1>7 DEF VuiLockToSend, VuiSend, Vui, Leaving
    <2>3. vui' = "dConnected" \/ (vui' = "sending" /\ vOut' = Disconnect)
      BY <1>7, <2>2 DEF VuiLockToSend, VuiSend, Vui, AfterSend
    <2>4. Wire(Plain, Plain)'
      <3>1. CASE UNCHANGED channel
        BY <1>4, <3>1
      <3>2. CASE VuiSend /\ link # NoConn
        BY <1>0, <2>2, <3>2, WireStep, PlainFacts, Sockets DEF VuiSend
      <3>3. QED
        BY <1>7, <3>1, <3>2 DEF VuiLockToSend, VuiSend
    <2>5. (Cut \/ Cutting)'
      BY <1>1, <1>2, <2>1, <2>3 DEF Cut, Cutting
    <2>6. (vui = "idle" \/ Quitting)' /\ ~Flipping'
      BY <2>3 DEF Quitting, Flipping, Sends, Leaving
    <2>7. QED
      BY <1>3, <2>1, <2>4, <2>5, <2>6
  <1>8. CASE VuiDisconnectGuard \/ VuiClearConnected \/ VuiClearConnecting \/ VuiCloseVideo
             \/ VuiPostDisconnected
    <2>1. UNCHANGED <<vAccess, link, conn, vPending, channel>>
      BY <1>8 DEF VuiDisconnectGuard, VuiClearConnected, VuiClearConnecting, VuiCloseVideo,
         VuiPostDisconnected, vFlags, vSocks
    <2>2. \/ /\ vui = "dConnecting"
             /\ vui' = "idle" \/ (vui' = "send" /\ vOut' = Disconnect)
          \/ vui \in {"dConnected", "dClearConnecting", "dVideo"}
             /\ vui' \in {"dClearConnecting", "dK", "dControl"}
          \/ vui = "dPost" /\ vui' = "idle"
      BY <1>0, <1>8 DEF VuiDisconnectGuard, VuiClearConnected, VuiClearConnecting, VuiCloseVideo,
         VuiPostDisconnected, Vui, AfterDisconnect
    <2>3. (Cut \/ Cutting)'
      BY <1>1, <1>2, <1>4, <2>1, <2>2 DEF Cut, Cutting
    <2>4. (vui = "idle" \/ Quitting)' /\ ~Flipping'
      BY <2>2 DEF Quitting, Flipping, Sends, Leaving
    <2>5. QED
      BY <1>3, <1>4, <2>1, <2>3, <2>4
  <1>9. CASE VuiResets
    <2>1. /\ UNCHANGED <<link, conn, vPending, channel>> /\ vui' \in {"dM", "dVideo"}
          /\ \/ vAccess' = [vAccess EXCEPT !["keyboard"] = FALSE]
             \/ vAccess' = [vAccess EXCEPT !["mouse"] = FALSE]
      BY <1>9 DEF VuiResets, VuiReset, Vui, vSocks
    <2>2. (Cut \/ Cutting)'
      BY <1>1, <1>2, <1>4, <2>1 DEF Cut, Cutting
    <2>3. (vui = "idle" \/ Quitting)' /\ ~Flipping'
      BY <2>1 DEF Quitting, Flipping, Sends, Leaving
    <2>4. QED
      BY <1>3, <1>4, <2>1, <2>2, <2>3
  <1>10. CASE VuiCloseControl
    <2>1. /\ UNCHANGED <<vAccess, link, conn, vPending, hostEnd>> /\ vui' = "dPost"
          /\ ViewerCloses({link})
      BY <1>10 DEF VuiCloseControl, Vui, CloseControl, ViewerCloses, vFlags
    <2>2. Cut'
      BY <2>1, Sockets DEF Cut, ViewerCloses
    <2>3. Wire(Plain, Plain)'
      BY <1>0, <2>1, WireCloses
    <2>4. (vui = "idle" \/ Quitting)' /\ ~Flipping'
      BY <2>1 DEF Quitting, Flipping, Sends, Leaving
    <2>5. QED
      BY <1>3, <2>1, <2>2, <2>3, <2>4
  <1>11. QED
    BY <1>5, <1>6, <1>7, <1>8, <1>9, <1>10 DEF VuiStep

LEMMA PhaseStep ==
    ASSUME SyncInv, TurnInv, SyncNext, TakeTurns
    PROVE  Phase'
  <1>. USE DEF TurnInv
  <1>0. ctlLine = Blocked
    BY DEF Phase
  <1>1. CASE Free
    BY <1>0, <1>1, FreeStep
  <1>2. CASE InUse
    BY <1>0, <1>2, CtlInUse, UiInUse, ConnInUse, VuiInUse, UsersInUse, SyncCases
  <1>3. CASE Ending
    <2>1. CASE BothAtRest
      BY <1>0, <1>3, <2>1, RestEnding, FreeStep DEF BothAtRest
    <2>2. CASE ~BothAtRest
      BY <1>0, <1>3, <2>2, CtlEnding, UiEnding, ConnEnding, VuiEnding, SyncCases
    <2>3. QED
      BY <2>1, <2>2
  <1>4. QED
    BY <1>1, <1>2, <1>3 DEF Phase

LEMMA TurnStep == SyncInv /\ TurnInv /\ [SyncNext /\ TakeTurns]_syncVars => TurnInv'
  <1>1. ASSUME SyncInv, TurnInv, SyncNext, TakeTurns PROVE TurnInv'
    BY <1>1, BetweenStep, LiveStep, PhaseStep DEF TurnInv
  <1>2. ASSUME TurnInv, UNCHANGED syncVars PROVE TurnInv'
    <2>1. UNCHANGED <<ctl, cur, pending, ctlLine, access, ui, uiLine, posted, conn, link, vPending,
                      vAccess, vConnected, vui, vOut, vLine, closing, states, shown,
                      hostEnd, viewerEnd, toHost, toViewer>>
      BY <1>2 DEF syncVars, host, flags, ctlVars, uiVars, window, viewer, vFlags, vSocks, vUiVars,
         vWindow, channel
    <2>2. Between' /\ Live'
      BY <1>2, <2>1 DEF TurnInv, Between, Live, Quitting, Sends, Stands, Opened, Final
    <2>3. Phase'
      BY <1>2, <2>1
      DEF TurnInv, Phase, Free, InUse, Ending, Served, Agreed, HostTells, ViewerHears, ViewerTells,
          HostHears, NoneToHost, NoneToViewer, OnWay, Wire, Cut, Cutting, HostRevokes,
          ViewerRevokes, Toggling, Flipping, Quitting, Sends
    <2>4. QED
      BY <2>2, <2>3 DEF TurnInv
  <1>3. QED
    BY <1>1, <1>2

LEMMA TurnInit == SyncInit => TurnInv
  <1>. SUFFICES ASSUME SyncInit PROVE TurnInv
    OBVIOUS
  <1>. USE DEF SyncInit, Init, VInit
  <1>1. Between /\ Live
    BY DEF Between, Live, Quitting, Sends, Leaving, Stands, Opened, Spawned
  <1>2. OnWay(Plain, Calm)
    BY EmptySeq DEF OnWay, Wire, ChannelInit
  <1>3. Phase
    BY <1>2 DEF Phase, Free, Toggling, Flipping, Sends
  <1>4. QED
    BY <1>1, <1>3 DEF TurnInv

------------------------------------------------------------------------------
(* What the two users see.                                                           *)

LEMMA TurnSync == TurnSpec => SyncSpec
  <1>1. [SyncNext /\ TakeTurns]_syncVars => [SyncNext]_syncVars
    OBVIOUS
  <1>2. QED
    BY <1>1, PTL DEF TurnSpec, SyncSpec

\* While the users take turns, the session goes through the phases.
THEOREM TurnInductive == TurnSpec => [](SyncInv /\ TurnInv)
  BY TurnInit, TurnStep, TurnSync, SyncInductive, PTL DEF TurnSpec

\* The two programs hold the same grants when all that was sent has been received,
\* and none when there is no session (server/main.cpp:503 and 557-562,
\* viewer/main.cpp:551 and 620-632).
LEMMA PhaseInSync == SyncInv /\ TurnInv => InSync
  <1>. SUFFICES ASSUME SyncInv, TurnInv, ui = "idle", vui = "idle"
                PROVE  /\ Settled => access = vAccess
                       /\ Apart => access = Blocked /\ vAccess = Blocked
    BY DEF InSync
  <1>1. CASE Free
    BY <1>1 DEF Free
  <1>2. CASE InUse
    BY <1>2, RestInUse DEF Agreed, InUse, Served, Apart
  <1>3. CASE Ending
    BY <1>3, RestEnding DEF Free
  <1>4. QED
    BY <1>1, <1>2, <1>3 DEF TurnInv, Phase

THEOREM GrantsInSync == TurnSpec => []InSync
  BY TurnInductive, PhaseInSync, PTL

\* And both windows show it, the host's unless an update of it was dropped.
LEMMA PhaseAgrees == SyncInv /\ TurnInv => WindowsAgree
  <1>. SUFFICES ASSUME SyncInv, TurnInv, BothAtRest
                PROVE  /\ ~lost => caption = vAccess /\ enabled = shown
                       /\ shown <=> Settled
    BY DEF WindowsAgree
  <1>1. /\ ui = "idle" /\ vui = "idle" /\ posted = 0 /\ states = <<>>
        /\ Settled \/ Apart
    BY DEF BothAtRest
  <1>2. /\ Settled <=> connected
        /\ ~Settled => ctl \in {"none", "ended", "accept"} /\ conn \in {"none", "ended"}
    BY RestFacts DEF TurnInv
  <1>3. access = vAccess
    BY <1>1, PhaseInSync DEF InSync
  <1>4. ~lost => caption = access /\ enabled = connected
    BY <1>1, <1>2 DEF SyncInv, IInv, FreshInv, Unposted, Settled
  <1>5. Settled => shown = TRUE
    BY <1>1 DEF Settled, TurnInv, Live, Stands, Opened, Spawned, Final
  <1>6. ~Settled => shown = FALSE
    BY <1>1, <1>2 DEF SyncInv, VInv, ShowInv, Final, Spawned
  <1>7. enabled \in BOOLEAN /\ shown \in BOOLEAN
    BY DEF SyncInv, IInv, TypeOK, HostTypeOK, VInv, VTypeOK
  <1>8. ASSUME ~lost PROVE caption = vAccess /\ enabled = shown
    <2>1. connected \in BOOLEAN
      BY DEF SyncInv, IInv, TypeOK, HostTypeOK
    <2>2. connected = shown
      BY <1>2, <1>5, <1>6, <1>7, <2>1
    <2>3. QED
      BY <1>3, <1>4, <1>8, <2>2
  <1>9. QED
    BY <1>5, <1>6, <1>7, <1>8

THEOREM WindowsInSync == TurnSpec => []WindowsAgree
  BY TurnInductive, PhaseAgrees, PTL

=============================================================================
