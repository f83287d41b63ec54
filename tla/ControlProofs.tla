--------------------------- MODULE ControlProofs ---------------------------
(***************************************************************************)
(* Proofs about the control connections (ControlChannel) and the two       *)
(* programs that use them (HostControl, ViewerControl), for every set of   *)
(* connections, every capacity of the channel and of the message queues,   *)
(* and every set of lines that the other side sends.                       *)
(*                                                                         *)
(* The host's IInv is inductive.  Its parts are preserved one lemma each,  *)
(* and each lemma has one step per action of HostControl.  Types need      *)
(* SocketInv (a thread that sends has a socket) and PendingInv (a line     *)
(* being applied is there); the sockets need ThreadInv (a start finds      *)
(* nothing left open); FreshInv needs ThreadInv (a session that ends       *)
(* without posting ends in a stop, which refreshes the window itself).     *)
(* HostControl implements GrantGate: every step of it is one of            *)
(* GrantGate's under Gate, or leaves what GrantGate sees.                  *)
(*                                                                         *)
(* The viewer's threads share four flags and two sockets with no common    *)
(* lock, so each part of VInv says at which points of which thread a flag  *)
(* may be up, a socket open or a message still to come.                    *)
(***************************************************************************)
EXTENDS HostControl, ViewerControl, SequenceTheorems, TLAPS

(* ---------------------------- the connections ------------------------- *)

\* What a recv returns, and what it leaves in the socket, are lines.
LEMMA SubSeqOfLines ==
    ASSUME NEW q \in Seq(Line), NEW n \in 1 .. Len(q)
    PROVE  First(q, n) \in Seq(Line) /\ AfterFirst(q, n) \in Seq(Line)
  <1>1. First(q, n) \in Seq(Line)
    BY SubSeqProperties DEF First
  <1>2. AfterFirst(q, n) \in Seq(Line)
    <2>1. CASE n = Len(q)
      BY <2>1, SubSeqEmpty DEF AfterFirst
    <2>2. CASE n # Len(q)
      <3>1. n + 1 \in 1 .. Len(q)
        BY <2>2
      <3>. QED
        BY <3>1, SubSeqProperties DEF AfterFirst
    <2>. QED
      BY <2>1, <2>2
  <1>. QED
    BY <1>1, <1>2

\* Connecting, sending and receiving keep the channel well typed.
LEMMA ChannelTypes ==
    ASSUME ChannelTypeOK, NEW c \in Conn
    PROVE  /\ Connects(c) => ChannelTypeOK'
           /\ \A line \in Line : HostSends(c, line) => ChannelTypeOK'
           /\ \A line \in Line : ViewerSends(c, line) => ChannelTypeOK'
           /\ \A n : HostReceives(c, n) => ChannelTypeOK'
           /\ \A n : ViewerReceives(c, n) => ChannelTypeOK'
  <1>. USE DEF ChannelTypeOK
  <1>1. Connects(c) => ChannelTypeOK'
    BY DEF Connects
  <1>2. ASSUME NEW line \in Line, HostSends(c, line) PROVE ChannelTypeOK'
    <2>1. Append(toViewer[c], line) \in Seq(Line)
      BY AppendProperties
    <2>. QED
      BY <1>2, <2>1 DEF HostSends
  <1>3. ASSUME NEW line \in Line, ViewerSends(c, line) PROVE ChannelTypeOK'
    <2>1. Append(toHost[c], line) \in Seq(Line)
      BY AppendProperties
    <2>. QED
      BY <1>3, <2>1 DEF ViewerSends
  <1>4. ASSUME NEW n, HostReceives(c, n) PROVE ChannelTypeOK'
    <2>1. AfterFirst(toHost[c], n) \in Seq(Line)
      BY <1>4, SubSeqOfLines DEF HostReceives
    <2>. QED
      BY <1>4, <2>1 DEF HostReceives
  <1>5. ASSUME NEW n, ViewerReceives(c, n) PROVE ChannelTypeOK'
    <2>1. AfterFirst(toViewer[c], n) \in Seq(Line)
      BY <1>5, SubSeqOfLines DEF ViewerReceives
    <2>. QED
      BY <1>5, <2>1 DEF ViewerReceives
  <1>. QED
    BY <1>1, <1>2, <1>3, <1>4, <1>5

\* So does closing any set of sockets.
LEMMA CloseTypes ==
    ASSUME ChannelTypeOK, NEW S
    PROVE  /\ HostCloses(S) => ChannelTypeOK'
           /\ ViewerCloses(S) => ChannelTypeOK'
  <1>. USE DEF ChannelTypeOK
  <1>1. ASSUME HostCloses(S) PROVE ChannelTypeOK'
    <2>1. hostEnd' \in [Conn -> {"closed", "backlog", "open"}]
      BY <1>1 DEF HostCloses
    <2>2. toHost' \in [Conn -> Seq(Line)]
      BY <1>1 DEF HostCloses
    <2>. QED
      BY <1>1, <2>1, <2>2 DEF HostCloses
  <1>2. ASSUME ViewerCloses(S) PROVE ChannelTypeOK'
    <2>1. viewerEnd' \in [Conn -> {"closed", "open"}]
      BY <1>2 DEF ViewerCloses
    <2>2. toViewer' \in [Conn -> Seq(Line)]
      BY <1>2 DEF ViewerCloses
    <2>. QED
      BY <1>2, <2>1, <2>2 DEF ViewerCloses
  <1>. QED
    BY <1>1, <1>2

LEMMA BlockedType == Blocked \in Grant
  BY DEF Blocked, Grant

\* Every line carries a grant, and the lines the host sends are lines.
LEMMA LineFields ==
    ASSUME NEW line \in Line
    PROVE  line.grant \in Grant
  <1>. USE DEF Hello, Ok, Disconnect, AccessLine, InputLine
  <1>1. CASE line \in {Hello, Ok, Disconnect}
    BY <1>1, BlockedType
  <1>2. ASSUME NEW g \in Grant, line = AccessLine(g) PROVE line.grant \in Grant
    BY <1>2
  <1>3. ASSUME NEW d \in Device, line = InputLine(d) PROVE line.grant \in Grant
    BY <1>3, BlockedType
  <1>. QED
    BY <1>1, <1>2, <1>3 DEF Line

LEMMA LineMembers ==
    /\ Ok \in Line /\ Hello \in Line
    /\ \A g \in Grant : AccessLine(g) \in Line
  BY DEF Line

(* ------------------------------- the host ----------------------------- *)
(* Each part of IInv is preserved by every step.                            *)

\* The channel stays well typed: a thread that sends or receives has a socket.
LEMMA ChannelTypeStep ==
    ASSUME TypeOK, SocketInv, [Next]_vars
    PROVE  ChannelTypeOK'
  <1>. USE DEF TypeOK, HostTypeOK, ChannelTypeOK, SocketInv, SessionPc, Published, CtlPc
  <1>1. CASE CtlCreate
      BY <1>1 DEF CtlCreate, LockFree, flags, uiVars, window, channel
  <1>2. CASE CtlListen
      BY <1>2 DEF CtlListen, Ctl, flags, uiVars, window, channel
  <1>3. CASE CtlListenFails
      BY <1>3 DEF CtlListenFails, Ctl, LockFree, flags, uiVars, window,
         channel
  <1>4. CASE CtlLoop
      BY <1>4 DEF CtlLoop, Ctl, flags, sockets, uiVars, window, channel
  <1>5. ASSUME NEW c \in Conn, CtlAccept(c) PROVE ChannelTypeOK'
      BY <1>5 DEF CtlAccept, Ctl, flags, sockets, uiVars, window
  <1>6. CASE CtlAcceptFails
      BY <1>6 DEF CtlAcceptFails, Ctl, flags, sockets, uiVars, window,
         channel
  <1>7. ASSUME NEW n \in 1 .. Capacity, CtlHello(n) PROVE ChannelTypeOK'
      BY <1>7, ChannelTypes DEF CtlHello, Ctl, flags, sockets, uiVars, window
  <1>8. CASE CtlRefuse
      BY <1>8, CloseTypes DEF CtlRefuse, Ctl, HostRecvEnds, flags, sockets,
         uiVars, window
  <1>9. CASE CtlCloseListener
      BY <1>9, CloseTypes DEF CtlCloseListener, Ctl, LockFree, Waiting,
         flags, uiVars, window
  <1>10. CASE CtlPublish
      BY <1>10 DEF CtlPublish, Ctl, LockFree, flags, uiVars, window, channel
  <1>11. CASE CtlResetKeyboard
      BY <1>11 DEF CtlResetKeyboard, CtlReset, Ctl, sockets, uiVars, window,
         channel
  <1>12. CASE CtlResetMouse
      BY <1>12 DEF CtlResetMouse, CtlReset, Ctl, sockets, uiVars, window,
         channel
  <1>13. CASE CtlSetConnected
      BY <1>13 DEF CtlSetConnected, Ctl, sockets, uiVars, window, channel
  <1>14. CASE CtlAnnounce
      BY <1>14 DEF CtlAnnounce, Ctl, PostUpdate, flags, sockets, uiVars,
         channel
  <1>15. CASE CtlSendOk
      BY <1>15, ChannelTypes, LineMembers DEF CtlSendOk, Ctl, flags, sockets,
         uiVars, window
  <1>16. CASE CtlLoadKeyboard
      BY <1>16 DEF CtlLoadKeyboard, CtlLoad, Ctl, flags, sockets, uiVars,
         window, channel
  <1>17. CASE CtlLoadMouse
      BY <1>17 DEF CtlLoadMouse, CtlLoad, Ctl, flags, sockets, uiVars,
         window, channel
  <1>18. CASE CtlLockToSend
      BY <1>18 DEF CtlLockToSend, LockFree, flags, sockets, uiVars, window,
         channel
  <1>19. CASE CtlSendState
      BY <1>19, ChannelTypes, LineMembers DEF CtlSendState, Ctl, flags,
         sockets, uiVars, window
  <1>20. CASE CtlCheck
      BY <1>20 DEF CtlCheck, Ctl, flags, sockets, uiVars, window, channel
  <1>21. ASSUME NEW n \in 1 .. Capacity, CtlReceive(n) PROVE ChannelTypeOK'
      BY <1>21, ChannelTypes DEF CtlReceive, Ctl, First, flags, sockets,
         uiVars, window
  <1>22. CASE CtlReceiveEnds
      BY <1>22 DEF CtlReceiveEnds, Ctl, HostRecvEnds, flags, sockets, uiVars,
         window, channel
  <1>23. CASE CtlLinesDone
      BY <1>23 DEF CtlLinesDone, Ctl, flags, sockets, uiVars, window, channel
  <1>24. CASE CtlDisconnect
      BY <1>24 DEF CtlDisconnect, NextLine, flags, sockets, uiVars, window,
         channel
  <1>25. CASE CtlIgnore
      BY <1>25 DEF CtlIgnore, NextLine, flags, sockets, uiVars, window,
         channel
  <1>26. CASE CtlApplyKeyboard
      BY <1>26 DEF CtlApplyKeyboard, NextLine, sockets, uiVars, window,
         channel
  <1>27. CASE CtlApplyMouse
      BY <1>27 DEF CtlApplyMouse, Ctl, sockets, uiVars, window, channel
  <1>28. CASE CtlPostApplied
      BY <1>28 DEF CtlPostApplied, Ctl, PostUpdate, flags, sockets, uiVars,
         channel
  <1>29. CASE CtlCheckInput
      BY <1>29 DEF CtlCheckInput, NextLine, flags, sockets, uiVars, window,
         channel
  <1>30. CASE CtlInject
      BY <1>30 DEF CtlInject, Ctl, flags, sockets, uiVars, window, channel
  <1>31. CASE CtlEnd
      BY <1>31, CloseTypes DEF CtlEnd, Ctl, LockFree, CloseClient, flags,
         uiVars, window
  <1>32. CASE CtlEndKeyboard
      BY <1>32 DEF CtlEndKeyboard, CtlReset, Ctl, sockets, uiVars, window,
         channel
  <1>33. CASE CtlEndMouse
      BY <1>33 DEF CtlEndMouse, CtlReset, Ctl, sockets, uiVars, window,
         channel
  <1>34. CASE CtlEndConnected
      BY <1>34 DEF CtlEndConnected, Ctl, sockets, uiVars, window, channel
  <1>35. CASE CtlEndCheck
      BY <1>35 DEF CtlEndCheck, flags, sockets, uiVars, window, channel
  <1>36. CASE CtlEndPost
      BY <1>36 DEF CtlEndPost, Ctl, PostUpdate, flags, sockets, uiVars,
         channel
  <1>37. CASE UiLoadOld
      BY <1>37 DEF UiLoadOld, Ui, flags, sockets, ctlVars, window, channel
  <1>38. CASE UiStoreNew
      BY <1>38 DEF UiStoreNew, Ui, sockets, ctlVars, window, channel
  <1>39. CASE UiLoadKeyboard
      BY <1>39 DEF UiLoadKeyboard, UiLoad, Ui, flags, sockets, ctlVars,
         window, channel
  <1>40. CASE UiLoadMouse
      BY <1>40 DEF UiLoadMouse, UiLoad, Ui, flags, sockets, ctlVars, window,
         channel
  <1>41. CASE UiLockToSend
      BY <1>41 DEF UiLockToSend, LockFree, flags, sockets, ctlVars, window,
         channel
  <1>42. CASE UiSendState
      BY <1>42, ChannelTypes, LineMembers DEF UiSendState, Ui, flags,
         sockets, ctlVars, window
  <1>43. CASE UiUpdate
      BY <1>43 DEF UiUpdate, Ui, flags, sockets, ctlVars, channel
  <1>44. CASE UiRefresh
      BY <1>44 DEF UiRefresh, Ui, flags, sockets, ctlVars, window, channel
  <1>45. CASE UiRefreshKeyboard
      BY <1>45 DEF UiRefreshKeyboard, UiLoad, Ui, flags, sockets, ctlVars,
         window, channel
  <1>46. CASE UiRefreshMouse
      BY <1>46 DEF UiRefreshMouse, Ui, flags, sockets, ctlVars, channel
  <1>47. CASE UiStopClient
      BY <1>47, CloseTypes DEF UiStopClient, Ui, LockFree, CloseClient,
         flags, ctlVars, window
  <1>48. CASE UiStopListener
      BY <1>48, CloseTypes DEF UiStopListener, Ui, LockFree, Waiting, flags,
         ctlVars, window
  <1>49. CASE UiJoin
      BY <1>49 DEF UiJoin, Ui, sockets, channel
  <1>50. CASE UiStart
      BY <1>50 DEF UiStart, sockets, uiVars, channel
  <1>51. CASE UiStop
      BY <1>51 DEF UiStop, Ui, sockets, ctlVars, window, channel
  <1>52. ASSUME NEW d \in Device, UiClick(d) PROVE ChannelTypeOK'
      BY <1>52 DEF UiClick, Ui, flags, sockets, ctlVars, window, channel
  <1>53. ASSUME NEW c \in Conn, PeerConnects(c) PROVE ChannelTypeOK'
      BY <1>53, ChannelTypes DEF PeerConnects, host, flags, sockets, ctlVars,
         uiVars, window
  <1>54. ASSUME NEW c \in Conn, PeerReads(c) PROVE ChannelTypeOK'
      BY <1>54, ChannelTypes DEF PeerReads, host, flags, sockets, ctlVars,
         uiVars, window
  <1>55. ASSUME NEW c \in Conn, PeerCloses(c) PROVE ChannelTypeOK'
      BY <1>55, CloseTypes DEF PeerCloses, host, flags, sockets, ctlVars,
         uiVars, window
  <1>56. ASSUME NEW c \in Conn, NEW line \in ViewerLines, PeerSends(c, line)
     PROVE ChannelTypeOK'
      BY <1>56, ChannelTypes, LinesAssumption DEF PeerSends, host, flags,
         sockets, ctlVars, uiVars, window
  <1>57. CASE UNCHANGED vars
      BY <1>57 DEF vars, flags, sockets, ctlVars, uiVars, window, channel
  <1>. QED
      BY <1>1, <1>2, <1>3, <1>4, <1>5, <1>6, <1>7, <1>8, <1>9, <1>10, <1>11,
         <1>12, <1>13, <1>14, <1>15, <1>16, <1>17, <1>18, <1>19, <1>20,
         <1>21, <1>22, <1>23, <1>24, <1>25, <1>26, <1>27, <1>28, <1>29,
         <1>30, <1>31, <1>32, <1>33, <1>34, <1>35, <1>36, <1>37, <1>38,
         <1>39, <1>40, <1>41, <1>42, <1>43, <1>44, <1>45, <1>46, <1>47,
         <1>48, <1>49, <1>50, <1>51, <1>52, <1>53, <1>54, <1>55, <1>56, <1>57,
         ButtonsAssumption DEF Next, HostNext, CtlStep, UiStep, UserStep, PeerNext

\* A post leaves at most MaxPosted updates in the queue, whether it is dropped or not.
LEMMA PostTypes ==
    ASSUME posted \in 0 .. MaxPosted, lost \in BOOLEAN, PostUpdate
    PROVE  posted' \in 0 .. MaxPosted /\ lost' \in BOOLEAN
  <1>1. CASE posted < MaxPosted /\ posted' = posted + 1 /\ UNCHANGED lost
    BY <1>1, PostedAssumption
  <1>2. CASE lost' = TRUE /\ UNCHANGED posted
    BY <1>2
  <1>. QED
    BY <1>1, <1>2 DEF PostUpdate

\* The host's own variables stay well typed.
LEMMA HostTypeStep ==
    ASSUME TypeOK, SocketInv, PendingInv, [Next]_vars
    PROVE  HostTypeOK'
  <1>. USE DEF TypeOK, HostTypeOK
  <1>1. CASE CtlCreate
      BY <1>1 DEF CtlPc, CtlCreate, LockFree, flags, uiVars, window, channel
  <1>2. CASE CtlListen
      BY <1>2 DEF CtlPc, CtlListen, Ctl, flags, uiVars, window, channel
  <1>3. CASE CtlListenFails
      BY <1>3 DEF CtlPc, CtlListenFails, Ctl, LockFree, flags, uiVars, window,
         channel
  <1>4. CASE CtlLoop
      BY <1>4 DEF CtlPc, CtlLoop, Ctl, flags, sockets, uiVars, window, channel
  <1>5. ASSUME NEW c \in Conn, CtlAccept(c) PROVE HostTypeOK'
      BY <1>5 DEF CtlPc, CtlAccept, Ctl, flags, sockets, uiVars, window
  <1>6. CASE CtlAcceptFails
      BY <1>6 DEF CtlPc, CtlAcceptFails, Ctl, flags, sockets, uiVars, window,
         channel
  <1>7. ASSUME NEW n \in 1 .. Capacity, CtlHello(n) PROVE HostTypeOK'
      BY <1>7 DEF CtlPc, CtlHello, Ctl, HostReceives, flags, sockets, uiVars, window
  <1>8. CASE CtlRefuse
      BY <1>8 DEF CtlPc, CtlRefuse, Ctl, HostRecvEnds, HostCloses, flags, sockets,
         uiVars, window
  <1>9. CASE CtlCloseListener
      BY <1>9 DEF CtlPc, CtlCloseListener, Ctl, LockFree, HostCloses, Waiting,
         flags, uiVars, window
  <1>10. CASE CtlPublish
      BY <1>10 DEF CtlPc, CtlPublish, Ctl, LockFree, flags, uiVars, window, channel
  <1>11. CASE CtlResetKeyboard
      BY <1>11 DEF CtlPc, CtlResetKeyboard, CtlReset, Ctl, Grant, Device, sockets,
         uiVars, window, channel
  <1>12. CASE CtlResetMouse
      BY <1>12 DEF CtlPc, CtlResetMouse, CtlReset, Ctl, Grant, Device, sockets,
         uiVars, window, channel
  <1>13. CASE CtlSetConnected
      BY <1>13 DEF CtlPc, CtlSetConnected, Ctl, sockets, uiVars, window, channel
  <1>14. CASE CtlAnnounce
      BY <1>14, PostTypes DEF CtlPc, CtlAnnounce, Ctl, flags,
         sockets, uiVars, channel
  <1>15. CASE CtlSendOk
      BY <1>15 DEF CtlPc, CtlSendOk, Ctl, HostSends, HostCanSend, flags, sockets,
         uiVars, window
  <1>16. CASE CtlLoadKeyboard
      BY <1>16 DEF CtlPc, CtlLoadKeyboard, CtlLoad, Ctl, Grant, Device, flags,
         sockets, uiVars, window, channel
  <1>17. CASE CtlLoadMouse
      BY <1>17 DEF CtlPc, CtlLoadMouse, CtlLoad, Ctl, Grant, Device, flags, sockets,
         uiVars, window, channel
  <1>18. CASE CtlLockToSend
      BY <1>18, BlockedType DEF CtlPc, CtlLockToSend, LockFree, flags, sockets,
         uiVars, window, channel
  <1>19. CASE CtlSendState
      BY <1>19, BlockedType DEF CtlPc, CtlSendState, Ctl, HostSends, HostCanSend,
         flags, sockets, uiVars, window
  <1>20. CASE CtlCheck
      BY <1>20 DEF CtlPc, CtlCheck, Ctl, flags, sockets, uiVars, window, channel
  <1>21. ASSUME NEW n \in 1 .. Capacity, CtlReceive(n) PROVE HostTypeOK'
    <2>1. toHost[cur] \in Seq(Line)
      BY <1>21 DEF CtlReceive, Ctl, SocketInv, SessionPc, ChannelTypeOK
    <2>2. pending' \in Seq(Line)
      BY <1>21, <2>1, SubSeqOfLines DEF CtlReceive, HostReceives
    <2>. QED
      BY <1>21, <2>2 DEF CtlPc, CtlReceive, Ctl, flags, sockets, uiVars, window
  <1>22. CASE CtlReceiveEnds
      BY <1>22 DEF CtlPc, CtlReceiveEnds, Ctl, HostRecvEnds, flags, sockets, uiVars,
         window, channel
  <1>23. CASE CtlLinesDone
      BY <1>23 DEF CtlPc, CtlLinesDone, Ctl, flags, sockets, uiVars, window, channel
  <1>24. CASE CtlDisconnect
      BY <1>24 DEF CtlPc, CtlDisconnect, NextLine, flags, sockets, uiVars, window,
         channel
  <1>25. CASE CtlIgnore
      BY <1>25, HeadTailProperties DEF CtlPc, CtlIgnore, NextLine, flags, sockets,
         uiVars, window, channel
  <1>26. CASE CtlApplyKeyboard
      BY <1>26, HeadTailProperties, LineFields DEF CtlPc, CtlApplyKeyboard,
         NextLine, Grant, Device, sockets, uiVars, window, channel
  <1>27. CASE CtlApplyMouse
      BY <1>27, HeadTailProperties, LineFields DEF PendingInv, CtlPc, CtlApplyMouse, Ctl, Grant,
         Device, sockets, uiVars, window, channel
  <1>28. CASE CtlPostApplied
      BY <1>28, PostTypes DEF CtlPc, CtlPostApplied, Ctl, flags,
         sockets, uiVars, channel
  <1>29. CASE CtlCheckInput
    <2>1. pending' \in Seq(Line)
      BY <1>29, HeadTailProperties DEF CtlCheckInput, NextLine
    <2>2. ctl' \in CtlPc
      BY <1>29 DEF CtlPc, CtlCheckInput, NextLine
    <2>. QED
      BY <1>29, <2>1, <2>2 DEF CtlCheckInput, flags, sockets, uiVars, window
  <1>30. CASE CtlInject
      BY <1>30, HeadTailProperties DEF PendingInv, CtlPc, CtlInject, Ctl, flags, sockets,
         uiVars, window, channel
  <1>31. CASE CtlEnd
      BY <1>31 DEF CtlPc, CtlEnd, Ctl, LockFree, CloseClient, HostCloses, flags,
         uiVars, window
  <1>32. CASE CtlEndKeyboard
      BY <1>32 DEF CtlPc, CtlEndKeyboard, CtlReset, Ctl, Grant, Device, sockets,
         uiVars, window, channel
  <1>33. CASE CtlEndMouse
      BY <1>33 DEF CtlPc, CtlEndMouse, CtlReset, Ctl, Grant, Device, sockets,
         uiVars, window, channel
  <1>34. CASE CtlEndConnected
      BY <1>34 DEF CtlPc, CtlEndConnected, Ctl, sockets, uiVars, window, channel
  <1>35. CASE CtlEndCheck
      BY <1>35 DEF CtlPc, CtlEndCheck, flags, sockets, uiVars, window, channel
  <1>36. CASE CtlEndPost
      BY <1>36, PostTypes DEF CtlPc, CtlEndPost, Ctl, flags,
         sockets, uiVars, channel
  <1>37. CASE UiLoadOld
      BY <1>37 DEF UiPc, UiLoadOld, Ui, Grant, Device, flags, sockets, ctlVars,
         window, channel
  <1>38. CASE UiStoreNew
      BY <1>38 DEF UiPc, UiStoreNew, Ui, Grant, Device, sockets, ctlVars, window,
         channel
  <1>39. CASE UiLoadKeyboard
      BY <1>39 DEF UiPc, UiLoadKeyboard, UiLoad, Ui, Grant, Device, flags, sockets,
         ctlVars, window, channel
  <1>40. CASE UiLoadMouse
      BY <1>40 DEF UiPc, UiLoadMouse, UiLoad, Ui, Grant, Device, flags, sockets,
         ctlVars, window, channel
  <1>41. CASE UiLockToSend
      BY <1>41, BlockedType DEF UiPc, UiLockToSend, LockFree, flags, sockets,
         ctlVars, window, channel
  <1>42. CASE UiSendState
      BY <1>42, BlockedType DEF UiPc, UiSendState, Ui, HostSends, HostCanSend,
         flags, sockets, ctlVars, window
  <1>43. CASE UiUpdate
      BY <1>43, PostedAssumption DEF UiPc, UiUpdate, Ui, flags, sockets, ctlVars,
         channel
  <1>44. CASE UiRefresh
      BY <1>44 DEF UiPc, UiRefresh, Ui, flags, sockets, ctlVars, window, channel
  <1>45. CASE UiRefreshKeyboard
      BY <1>45 DEF UiPc, UiRefreshKeyboard, UiLoad, Ui, Grant, Device, flags,
         sockets, ctlVars, window, channel
  <1>46. CASE UiRefreshMouse
    <2>1. caption' \in Grant
      BY <1>46 DEF UiRefreshMouse, Grant, Device
    <2>2. enabled' \in BOOLEAN /\ lost' \in BOOLEAN
      BY <1>46 DEF UiRefreshMouse
    <2>. QED
      BY <1>46, <2>1, <2>2, BlockedType DEF UiPc, UiRefreshMouse, Ui, flags, sockets, ctlVars
  <1>47. CASE UiStopClient
      BY <1>47 DEF UiPc, UiStopClient, Ui, LockFree, CloseClient, HostCloses,
         flags, ctlVars, window
  <1>48. CASE UiStopListener
      BY <1>48 DEF UiPc, UiStopListener, Ui, LockFree, HostCloses, Waiting, flags,
         ctlVars, window
  <1>49. CASE UiJoin
      BY <1>49, BlockedType DEF CtlPc, UiPc, UiJoin, Ui, sockets, channel
  <1>50. CASE UiStart
      BY <1>50, BlockedType DEF CtlPc, UiPc, UiStart, Grant, Device, sockets, uiVars,
         channel
  <1>51. CASE UiStop
      BY <1>51 DEF UiPc, UiStop, Ui, sockets, ctlVars, window, channel
  <1>52. ASSUME NEW d \in Device, UiClick(d) PROVE HostTypeOK'
      BY <1>52 DEF UiPc, UiClick, Ui, flags, sockets, ctlVars, window, channel
  <1>53. ASSUME NEW c \in Conn, PeerConnects(c) PROVE HostTypeOK'
      BY <1>53 DEF PeerConnects, host, flags, sockets, ctlVars, uiVars,
         window
  <1>54. ASSUME NEW c \in Conn, PeerReads(c) PROVE HostTypeOK'
      BY <1>54 DEF PeerReads, host, flags, sockets, ctlVars, uiVars, window
  <1>55. ASSUME NEW c \in Conn, PeerCloses(c) PROVE HostTypeOK'
      BY <1>55 DEF PeerCloses, host, flags, sockets, ctlVars, uiVars, window
  <1>56. ASSUME NEW c \in Conn, NEW line \in ViewerLines, PeerSends(c, line)
     PROVE HostTypeOK'
      BY <1>56 DEF PeerSends, host, flags, sockets, ctlVars, uiVars, window
  <1>57. CASE UNCHANGED vars
      BY <1>57 DEF vars, flags, sockets, ctlVars, uiVars, window, channel
  <1>. QED
      BY <1>1, <1>2, <1>3, <1>4, <1>5, <1>6, <1>7, <1>8, <1>9, <1>10, <1>11,
         <1>12, <1>13, <1>14, <1>15, <1>16, <1>17, <1>18, <1>19, <1>20,
         <1>21, <1>22, <1>23, <1>24, <1>25, <1>26, <1>27, <1>28, <1>29,
         <1>30, <1>31, <1>32, <1>33, <1>34, <1>35, <1>36, <1>37, <1>38,
         <1>39, <1>40, <1>41, <1>42, <1>43, <1>44, <1>45, <1>46, <1>47,
         <1>48, <1>49, <1>50, <1>51, <1>52, <1>53, <1>54, <1>55, <1>56, <1>57,
         ButtonsAssumption DEF Next, HostNext, CtlStep, UiStep, UserStep, PeerNext

\* g_serverRunning and the control thread's existence agree outside a stop.
LEMMA ThreadStep ==
    ASSUME TypeOK, ThreadInv, [Next]_vars
    PROVE  ThreadInv'
  <1>. USE DEF ThreadInv, StopPc, RefreshPc, TypeOK, HostTypeOK, CtlPc, UiPc, Blocked, Grant
  <1>1. CASE CtlCreate
      BY <1>1 DEF CtlCreate, LockFree, flags, uiVars, window, channel
  <1>2. CASE CtlListen
      BY <1>2 DEF CtlListen, Ctl, flags, uiVars, window, channel
  <1>3. CASE CtlListenFails
      BY <1>3 DEF CtlListenFails, Ctl, LockFree, flags, uiVars, window,
         channel
  <1>4. CASE CtlLoop
      BY <1>4 DEF CtlLoop, Ctl, flags, sockets, uiVars, window, channel
  <1>5. ASSUME NEW c \in Conn, CtlAccept(c) PROVE ThreadInv'
      BY <1>5 DEF CtlAccept, Ctl, flags, sockets, uiVars, window
  <1>6. CASE CtlAcceptFails
      BY <1>6 DEF CtlAcceptFails, Ctl, flags, sockets, uiVars, window,
         channel
  <1>7. ASSUME NEW n \in 1 .. Capacity, CtlHello(n) PROVE ThreadInv'
      BY <1>7 DEF CtlHello, Ctl, HostReceives, AfterFirst, flags, sockets,
         uiVars, window
  <1>8. CASE CtlRefuse
      BY <1>8 DEF CtlRefuse, Ctl, HostRecvEnds, HostCloses, flags, sockets,
         uiVars, window
  <1>9. CASE CtlCloseListener
      BY <1>9 DEF CtlCloseListener, Ctl, LockFree, HostCloses, Waiting,
         flags, uiVars, window
  <1>10. CASE CtlPublish
      BY <1>10 DEF CtlPublish, Ctl, LockFree, flags, uiVars, window, channel
  <1>11. CASE CtlResetKeyboard
      BY <1>11 DEF CtlResetKeyboard, CtlReset, Ctl, sockets, uiVars, window,
         channel
  <1>12. CASE CtlResetMouse
      BY <1>12 DEF CtlResetMouse, CtlReset, Ctl, sockets, uiVars, window,
         channel
  <1>13. CASE CtlSetConnected
      BY <1>13 DEF CtlSetConnected, Ctl, sockets, uiVars, window, channel
  <1>14. CASE CtlAnnounce
      BY <1>14 DEF CtlAnnounce, Ctl, PostUpdate, flags, sockets, uiVars,
         channel
  <1>15. CASE CtlSendOk
      BY <1>15 DEF CtlSendOk, Ctl, HostSends, HostCanSend, flags, sockets,
         uiVars, window
  <1>16. CASE CtlLoadKeyboard
      BY <1>16 DEF CtlLoadKeyboard, CtlLoad, Ctl, flags, sockets, uiVars,
         window, channel
  <1>17. CASE CtlLoadMouse
      BY <1>17 DEF CtlLoadMouse, CtlLoad, Ctl, flags, sockets, uiVars,
         window, channel
  <1>18. CASE CtlLockToSend
      BY <1>18 DEF CtlLockToSend, LockFree, flags, sockets, uiVars, window,
         channel
  <1>19. CASE CtlSendState
      BY <1>19 DEF CtlSendState, Ctl, HostSends, HostCanSend, flags, sockets,
         uiVars, window
  <1>20. CASE CtlCheck
      BY <1>20 DEF CtlCheck, Ctl, flags, sockets, uiVars, window, channel
  <1>21. ASSUME NEW n \in 1 .. Capacity, CtlReceive(n) PROVE ThreadInv'
      BY <1>21 DEF CtlReceive, Ctl, HostReceives, AfterFirst, First, flags,
         sockets, uiVars, window
  <1>22. CASE CtlReceiveEnds
      BY <1>22 DEF CtlReceiveEnds, Ctl, HostRecvEnds, flags, sockets, uiVars,
         window, channel
  <1>23. CASE CtlLinesDone
      BY <1>23 DEF CtlLinesDone, Ctl, flags, sockets, uiVars, window, channel
  <1>24. CASE CtlDisconnect
      BY <1>24 DEF CtlDisconnect, NextLine, flags, sockets, uiVars, window,
         channel
  <1>25. CASE CtlIgnore
      BY <1>25 DEF CtlIgnore, NextLine, flags, sockets, uiVars, window,
         channel
  <1>26. CASE CtlApplyKeyboard
      BY <1>26 DEF CtlApplyKeyboard, NextLine, sockets, uiVars, window,
         channel
  <1>27. CASE CtlApplyMouse
      BY <1>27 DEF CtlApplyMouse, Ctl, sockets, uiVars, window, channel
  <1>28. CASE CtlPostApplied
      BY <1>28 DEF CtlPostApplied, Ctl, PostUpdate, flags, sockets, uiVars,
         channel
  <1>29. CASE CtlCheckInput
      BY <1>29 DEF CtlCheckInput, NextLine, flags, sockets, uiVars, window,
         channel
  <1>30. CASE CtlInject
      BY <1>30 DEF CtlInject, Ctl, flags, sockets, uiVars, window, channel
  <1>31. CASE CtlEnd
      BY <1>31 DEF CtlEnd, Ctl, LockFree, CloseClient, HostCloses, flags,
         uiVars, window
  <1>32. CASE CtlEndKeyboard
      BY <1>32 DEF CtlEndKeyboard, CtlReset, Ctl, sockets, uiVars, window,
         channel
  <1>33. CASE CtlEndMouse
      BY <1>33 DEF CtlEndMouse, CtlReset, Ctl, sockets, uiVars, window,
         channel
  <1>34. CASE CtlEndConnected
      BY <1>34 DEF CtlEndConnected, Ctl, sockets, uiVars, window, channel
  <1>35. CASE CtlEndCheck
      BY <1>35 DEF CtlEndCheck, flags, sockets, uiVars, window, channel
  <1>36. CASE CtlEndPost
      BY <1>36 DEF CtlEndPost, Ctl, PostUpdate, flags, sockets, uiVars,
         channel
  <1>37. CASE UiLoadOld
      BY <1>37 DEF UiLoadOld, Ui, flags, sockets, ctlVars, window, channel
  <1>38. CASE UiStoreNew
      BY <1>38 DEF UiStoreNew, Ui, sockets, ctlVars, window, channel
  <1>39. CASE UiLoadKeyboard
      BY <1>39 DEF UiLoadKeyboard, UiLoad, Ui, flags, sockets, ctlVars,
         window, channel
  <1>40. CASE UiLoadMouse
      BY <1>40 DEF UiLoadMouse, UiLoad, Ui, flags, sockets, ctlVars, window,
         channel
  <1>41. CASE UiLockToSend
      BY <1>41 DEF UiLockToSend, LockFree, flags, sockets, ctlVars, window,
         channel
  <1>42. CASE UiSendState
      BY <1>42 DEF UiSendState, Ui, HostSends, HostCanSend, flags, sockets,
         ctlVars, window
  <1>43. CASE UiUpdate
      BY <1>43 DEF UiUpdate, Ui, flags, sockets, ctlVars, channel
  <1>44. CASE UiRefresh
      BY <1>44 DEF UiRefresh, Ui, flags, sockets, ctlVars, window, channel
  <1>45. CASE UiRefreshKeyboard
      BY <1>45 DEF UiRefreshKeyboard, UiLoad, Ui, flags, sockets, ctlVars,
         window, channel
  <1>46. CASE UiRefreshMouse
      BY <1>46 DEF UiRefreshMouse, Ui, flags, sockets, ctlVars, channel
  <1>47. CASE UiStopClient
      BY <1>47 DEF UiStopClient, Ui, LockFree, CloseClient, HostCloses,
         flags, ctlVars, window
  <1>48. CASE UiStopListener
      BY <1>48 DEF UiStopListener, Ui, LockFree, HostCloses, Waiting, flags,
         ctlVars, window
  <1>49. CASE UiJoin
      BY <1>49 DEF UiJoin, Ui, sockets, channel
  <1>50. CASE UiStart
      BY <1>50 DEF UiStart, sockets, uiVars, channel
  <1>51. CASE UiStop
      BY <1>51 DEF UiStop, Ui, sockets, ctlVars, window, channel
  <1>52. ASSUME NEW d \in Device, UiClick(d) PROVE ThreadInv'
      BY <1>52 DEF UiClick, Ui, flags, sockets, ctlVars, window, channel
  <1>53. ASSUME NEW c \in Conn, PeerConnects(c) PROVE ThreadInv'
      BY <1>53 DEF PeerConnects, Connects, host, flags, sockets, ctlVars,
         uiVars, window
  <1>54. ASSUME NEW c \in Conn, PeerReads(c) PROVE ThreadInv'
      BY <1>54 DEF PeerReads, ViewerReceives, AfterFirst, host, flags,
         sockets, ctlVars, uiVars, window
  <1>55. ASSUME NEW c \in Conn, PeerCloses(c) PROVE ThreadInv'
      BY <1>55 DEF PeerCloses, ViewerCloses, host, flags, sockets, ctlVars,
         uiVars, window
  <1>56. ASSUME NEW c \in Conn, NEW line \in ViewerLines, PeerSends(c, line)
     PROVE ThreadInv'
      BY <1>56 DEF PeerSends, ViewerSends, host, flags, sockets, ctlVars,
         uiVars, window
  <1>57. CASE UNCHANGED vars
      BY <1>57 DEF vars, flags, sockets, ctlVars, uiVars, window, channel
  <1>. QED
      BY <1>1, <1>2, <1>3, <1>4, <1>5, <1>6, <1>7, <1>8, <1>9, <1>10, <1>11,
         <1>12, <1>13, <1>14, <1>15, <1>16, <1>17, <1>18, <1>19, <1>20,
         <1>21, <1>22, <1>23, <1>24, <1>25, <1>26, <1>27, <1>28, <1>29,
         <1>30, <1>31, <1>32, <1>33, <1>34, <1>35, <1>36, <1>37, <1>38,
         <1>39, <1>40, <1>41, <1>42, <1>43, <1>44, <1>45, <1>46, <1>47,
         <1>48, <1>49, <1>50, <1>51, <1>52, <1>53, <1>54, <1>55, <1>56, <1>57,
         ButtonsAssumption DEF Next, HostNext, CtlStep, UiStep, UserStep, PeerNext

\* A line stays in the buffer until the thread is done with it.
LEMMA PendingStep ==
    ASSUME TypeOK, PendingInv, [Next]_vars
    PROVE  PendingInv'
  <1>. USE DEF PendingInv, TypeOK, HostTypeOK, CtlPc
  <1>1. CASE CtlCreate
      BY <1>1 DEF CtlCreate, LockFree, flags, uiVars, window, channel
  <1>2. CASE CtlListen
      BY <1>2 DEF CtlListen, Ctl, flags, uiVars, window, channel
  <1>3. CASE CtlListenFails
      BY <1>3 DEF CtlListenFails, Ctl, LockFree, flags, uiVars, window,
         channel
  <1>4. CASE CtlLoop
      BY <1>4 DEF CtlLoop, Ctl, flags, sockets, uiVars, window, channel
  <1>5. ASSUME NEW c \in Conn, CtlAccept(c) PROVE PendingInv'
      BY <1>5 DEF CtlAccept, Ctl, flags, sockets, uiVars, window
  <1>6. CASE CtlAcceptFails
      BY <1>6 DEF CtlAcceptFails, Ctl, flags, sockets, uiVars, window,
         channel
  <1>7. ASSUME NEW n \in 1 .. Capacity, CtlHello(n) PROVE PendingInv'
      BY <1>7 DEF CtlHello, Ctl, HostReceives, AfterFirst, flags, sockets,
         uiVars, window
  <1>8. CASE CtlRefuse
      BY <1>8 DEF CtlRefuse, Ctl, HostRecvEnds, HostCloses, flags, sockets,
         uiVars, window
  <1>9. CASE CtlCloseListener
      BY <1>9 DEF CtlCloseListener, Ctl, LockFree, HostCloses, Waiting,
         flags, uiVars, window
  <1>10. CASE CtlPublish
      BY <1>10 DEF CtlPublish, Ctl, LockFree, flags, uiVars, window, channel
  <1>11. CASE CtlResetKeyboard
      BY <1>11 DEF CtlResetKeyboard, CtlReset, Ctl, sockets, uiVars, window,
         channel
  <1>12. CASE CtlResetMouse
      BY <1>12 DEF CtlResetMouse, CtlReset, Ctl, sockets, uiVars, window,
         channel
  <1>13. CASE CtlSetConnected
      BY <1>13 DEF CtlSetConnected, Ctl, sockets, uiVars, window, channel
  <1>14. CASE CtlAnnounce
      BY <1>14 DEF CtlAnnounce, Ctl, PostUpdate, flags, sockets, uiVars,
         channel
  <1>15. CASE CtlSendOk
      BY <1>15 DEF CtlSendOk, Ctl, HostSends, HostCanSend, flags, sockets,
         uiVars, window
  <1>16. CASE CtlLoadKeyboard
      BY <1>16 DEF CtlLoadKeyboard, CtlLoad, Ctl, flags, sockets, uiVars,
         window, channel
  <1>17. CASE CtlLoadMouse
      BY <1>17 DEF CtlLoadMouse, CtlLoad, Ctl, flags, sockets, uiVars,
         window, channel
  <1>18. CASE CtlLockToSend
      BY <1>18 DEF CtlLockToSend, LockFree, flags, sockets, uiVars, window,
         channel
  <1>19. CASE CtlSendState
      BY <1>19 DEF CtlSendState, Ctl, HostSends, HostCanSend, flags, sockets,
         uiVars, window
  <1>20. CASE CtlCheck
      BY <1>20 DEF CtlCheck, Ctl, flags, sockets, uiVars, window, channel
  <1>21. ASSUME NEW n \in 1 .. Capacity, CtlReceive(n) PROVE PendingInv'
      BY <1>21 DEF CtlReceive, Ctl, HostReceives, AfterFirst, First, flags,
         sockets, uiVars, window
  <1>22. CASE CtlReceiveEnds
      BY <1>22 DEF CtlReceiveEnds, Ctl, HostRecvEnds, flags, sockets, uiVars,
         window, channel
  <1>23. CASE CtlLinesDone
      BY <1>23 DEF CtlLinesDone, Ctl, flags, sockets, uiVars, window, channel
  <1>24. CASE CtlDisconnect
      BY <1>24 DEF CtlDisconnect, NextLine, flags, sockets, uiVars, window,
         channel
  <1>25. CASE CtlIgnore
      BY <1>25 DEF CtlIgnore, NextLine, flags, sockets, uiVars, window,
         channel
  <1>26. CASE CtlApplyKeyboard
      BY <1>26 DEF CtlApplyKeyboard, NextLine, sockets, uiVars, window,
         channel
  <1>27. CASE CtlApplyMouse
      BY <1>27 DEF CtlApplyMouse, Ctl, sockets, uiVars, window, channel
  <1>28. CASE CtlPostApplied
      BY <1>28 DEF CtlPostApplied, Ctl, PostUpdate, flags, sockets, uiVars,
         channel
  <1>29. CASE CtlCheckInput
      BY <1>29 DEF CtlCheckInput, NextLine, flags, sockets, uiVars, window,
         channel
  <1>30. CASE CtlInject
      BY <1>30 DEF CtlInject, Ctl, flags, sockets, uiVars, window, channel
  <1>31. CASE CtlEnd
      BY <1>31 DEF CtlEnd, Ctl, LockFree, CloseClient, HostCloses, flags,
         uiVars, window
  <1>32. CASE CtlEndKeyboard
      BY <1>32 DEF CtlEndKeyboard, CtlReset, Ctl, sockets, uiVars, window,
         channel
  <1>33. CASE CtlEndMouse
      BY <1>33 DEF CtlEndMouse, CtlReset, Ctl, sockets, uiVars, window,
         channel
  <1>34. CASE CtlEndConnected
      BY <1>34 DEF CtlEndConnected, Ctl, sockets, uiVars, window, channel
  <1>35. CASE CtlEndCheck
      BY <1>35 DEF CtlEndCheck, flags, sockets, uiVars, window, channel
  <1>36. CASE CtlEndPost
      BY <1>36 DEF CtlEndPost, Ctl, PostUpdate, flags, sockets, uiVars,
         channel
  <1>37. CASE UiLoadOld
      BY <1>37 DEF UiLoadOld, Ui, flags, sockets, ctlVars, window, channel
  <1>38. CASE UiStoreNew
      BY <1>38 DEF UiStoreNew, Ui, sockets, ctlVars, window, channel
  <1>39. CASE UiLoadKeyboard
      BY <1>39 DEF UiLoadKeyboard, UiLoad, Ui, flags, sockets, ctlVars,
         window, channel
  <1>40. CASE UiLoadMouse
      BY <1>40 DEF UiLoadMouse, UiLoad, Ui, flags, sockets, ctlVars, window,
         channel
  <1>41. CASE UiLockToSend
      BY <1>41 DEF UiLockToSend, LockFree, flags, sockets, ctlVars, window,
         channel
  <1>42. CASE UiSendState
      BY <1>42 DEF UiSendState, Ui, HostSends, HostCanSend, flags, sockets,
         ctlVars, window
  <1>43. CASE UiUpdate
      BY <1>43 DEF UiUpdate, Ui, flags, sockets, ctlVars, channel
  <1>44. CASE UiRefresh
      BY <1>44 DEF UiRefresh, Ui, flags, sockets, ctlVars, window, channel
  <1>45. CASE UiRefreshKeyboard
      BY <1>45 DEF UiRefreshKeyboard, UiLoad, Ui, flags, sockets, ctlVars,
         window, channel
  <1>46. CASE UiRefreshMouse
      BY <1>46 DEF UiRefreshMouse, Ui, flags, sockets, ctlVars, channel
  <1>47. CASE UiStopClient
      BY <1>47 DEF UiStopClient, Ui, LockFree, CloseClient, HostCloses,
         flags, ctlVars, window
  <1>48. CASE UiStopListener
      BY <1>48 DEF UiStopListener, Ui, LockFree, HostCloses, Waiting, flags,
         ctlVars, window
  <1>49. CASE UiJoin
      BY <1>49 DEF UiJoin, Ui, sockets, channel
  <1>50. CASE UiStart
      BY <1>50 DEF UiStart, sockets, uiVars, channel
  <1>51. CASE UiStop
      BY <1>51 DEF UiStop, Ui, sockets, ctlVars, window, channel
  <1>52. ASSUME NEW d \in Device, UiClick(d) PROVE PendingInv'
      BY <1>52 DEF UiClick, Ui, flags, sockets, ctlVars, window, channel
  <1>53. ASSUME NEW c \in Conn, PeerConnects(c) PROVE PendingInv'
      BY <1>53 DEF PeerConnects, Connects, host, flags, sockets, ctlVars,
         uiVars, window
  <1>54. ASSUME NEW c \in Conn, PeerReads(c) PROVE PendingInv'
      BY <1>54 DEF PeerReads, ViewerReceives, AfterFirst, host, flags,
         sockets, ctlVars, uiVars, window
  <1>55. ASSUME NEW c \in Conn, PeerCloses(c) PROVE PendingInv'
      BY <1>55 DEF PeerCloses, ViewerCloses, host, flags, sockets, ctlVars,
         uiVars, window
  <1>56. ASSUME NEW c \in Conn, NEW line \in ViewerLines, PeerSends(c, line)
     PROVE PendingInv'
      BY <1>56 DEF PeerSends, ViewerSends, host, flags, sockets, ctlVars,
         uiVars, window
  <1>57. CASE UNCHANGED vars
      BY <1>57 DEF vars, flags, sockets, ctlVars, uiVars, window, channel
  <1>. QED
      BY <1>1, <1>2, <1>3, <1>4, <1>5, <1>6, <1>7, <1>8, <1>9, <1>10, <1>11,
         <1>12, <1>13, <1>14, <1>15, <1>16, <1>17, <1>18, <1>19, <1>20,
         <1>21, <1>22, <1>23, <1>24, <1>25, <1>26, <1>27, <1>28, <1>29,
         <1>30, <1>31, <1>32, <1>33, <1>34, <1>35, <1>36, <1>37, <1>38,
         <1>39, <1>40, <1>41, <1>42, <1>43, <1>44, <1>45, <1>46, <1>47,
         <1>48, <1>49, <1>50, <1>51, <1>52, <1>53, <1>54, <1>55, <1>56, <1>57,
         ButtonsAssumption DEF Next, HostNext, CtlStep, UiStep, UserStep, PeerNext

\* Every socket has the owner SocketInv and SessionOwnsSocket say.
LEMMA SocketStep ==
    ASSUME TypeOK, ThreadInv, SocketInv, SessionOwnsSocket, [Next]_vars
    PROVE  SocketInv' /\ SessionOwnsSocket'
  <1>. USE NoConnAssumption DEF SocketInv, ThreadInv, StopPc, SessionOwnsSocket, SessionPc, Published, TypeOK, HostTypeOK, ChannelTypeOK, CtlPc, UiPc
  <1>1. CASE CtlCreate
      BY <1>1 DEF CtlCreate, LockFree, flags, uiVars, window, channel
  <1>2. CASE CtlListen
      BY <1>2 DEF CtlListen, Ctl, flags, uiVars, window, channel
  <1>3. CASE CtlListenFails
      BY <1>3 DEF CtlListenFails, Ctl, LockFree, flags, uiVars, window,
         channel
  <1>4. CASE CtlLoop
      BY <1>4 DEF CtlLoop, Ctl, flags, sockets, uiVars, window, channel
  <1>5. ASSUME NEW c \in Conn, CtlAccept(c) PROVE SocketInv' /\
     SessionOwnsSocket'
      BY <1>5 DEF CtlAccept, Ctl, flags, sockets, uiVars, window
  <1>6. CASE CtlAcceptFails
      BY <1>6 DEF CtlAcceptFails, Ctl, flags, sockets, uiVars, window,
         channel
  <1>7. ASSUME NEW n \in 1 .. Capacity, CtlHello(n) PROVE SocketInv' /\
     SessionOwnsSocket'
      BY <1>7 DEF CtlHello, Ctl, HostReceives, AfterFirst, flags, sockets,
         uiVars, window
  <1>8. CASE CtlRefuse
      BY <1>8 DEF CtlRefuse, Ctl, HostRecvEnds, HostCloses, flags, sockets,
         uiVars, window
  <1>9. CASE CtlCloseListener
      BY <1>9 DEF CtlCloseListener, Ctl, LockFree, HostCloses, Waiting,
         flags, uiVars, window
  <1>10. CASE CtlPublish
      BY <1>10 DEF CtlPublish, Ctl, LockFree, flags, uiVars, window, channel
  <1>11. CASE CtlResetKeyboard
      BY <1>11 DEF CtlResetKeyboard, CtlReset, Ctl, sockets, uiVars, window,
         channel
  <1>12. CASE CtlResetMouse
      BY <1>12 DEF CtlResetMouse, CtlReset, Ctl, sockets, uiVars, window,
         channel
  <1>13. CASE CtlSetConnected
      BY <1>13 DEF CtlSetConnected, Ctl, sockets, uiVars, window, channel
  <1>14. CASE CtlAnnounce
      BY <1>14 DEF CtlAnnounce, Ctl, PostUpdate, flags, sockets, uiVars,
         channel
  <1>15. CASE CtlSendOk
      BY <1>15 DEF CtlSendOk, Ctl, HostSends, HostCanSend, flags, sockets,
         uiVars, window
  <1>16. CASE CtlLoadKeyboard
      BY <1>16 DEF CtlLoadKeyboard, CtlLoad, Ctl, flags, sockets, uiVars,
         window, channel
  <1>17. CASE CtlLoadMouse
      BY <1>17 DEF CtlLoadMouse, CtlLoad, Ctl, flags, sockets, uiVars,
         window, channel
  <1>18. CASE CtlLockToSend
      BY <1>18 DEF CtlLockToSend, LockFree, flags, sockets, uiVars, window,
         channel
  <1>19. CASE CtlSendState
      BY <1>19 DEF CtlSendState, Ctl, HostSends, HostCanSend, flags, sockets,
         uiVars, window
  <1>20. CASE CtlCheck
      BY <1>20 DEF CtlCheck, Ctl, flags, sockets, uiVars, window, channel
  <1>21. ASSUME NEW n \in 1 .. Capacity, CtlReceive(n) PROVE SocketInv' /\
     SessionOwnsSocket'
      BY <1>21 DEF CtlReceive, Ctl, HostReceives, AfterFirst, First, flags,
         sockets, uiVars, window
  <1>22. CASE CtlReceiveEnds
      BY <1>22 DEF CtlReceiveEnds, Ctl, HostRecvEnds, flags, sockets, uiVars,
         window, channel
  <1>23. CASE CtlLinesDone
      BY <1>23 DEF CtlLinesDone, Ctl, flags, sockets, uiVars, window, channel
  <1>24. CASE CtlDisconnect
      BY <1>24 DEF CtlDisconnect, NextLine, flags, sockets, uiVars, window,
         channel
  <1>25. CASE CtlIgnore
      BY <1>25 DEF CtlIgnore, NextLine, flags, sockets, uiVars, window,
         channel
  <1>26. CASE CtlApplyKeyboard
      BY <1>26 DEF CtlApplyKeyboard, NextLine, sockets, uiVars, window,
         channel
  <1>27. CASE CtlApplyMouse
      BY <1>27 DEF CtlApplyMouse, Ctl, sockets, uiVars, window, channel
  <1>28. CASE CtlPostApplied
      BY <1>28 DEF CtlPostApplied, Ctl, PostUpdate, flags, sockets, uiVars,
         channel
  <1>29. CASE CtlCheckInput
      BY <1>29 DEF CtlCheckInput, NextLine, flags, sockets, uiVars, window,
         channel
  <1>30. CASE CtlInject
      BY <1>30 DEF CtlInject, Ctl, flags, sockets, uiVars, window, channel
  <1>31. CASE CtlEnd
      BY <1>31 DEF CtlEnd, Ctl, LockFree, CloseClient, HostCloses, flags,
         uiVars, window
  <1>32. CASE CtlEndKeyboard
      BY <1>32 DEF CtlEndKeyboard, CtlReset, Ctl, sockets, uiVars, window,
         channel
  <1>33. CASE CtlEndMouse
      BY <1>33 DEF CtlEndMouse, CtlReset, Ctl, sockets, uiVars, window,
         channel
  <1>34. CASE CtlEndConnected
      BY <1>34 DEF CtlEndConnected, Ctl, sockets, uiVars, window, channel
  <1>35. CASE CtlEndCheck
      BY <1>35 DEF CtlEndCheck, flags, sockets, uiVars, window, channel
  <1>36. CASE CtlEndPost
      BY <1>36 DEF CtlEndPost, Ctl, PostUpdate, flags, sockets, uiVars,
         channel
  <1>37. CASE UiLoadOld
      BY <1>37 DEF UiLoadOld, Ui, flags, sockets, ctlVars, window, channel
  <1>38. CASE UiStoreNew
      BY <1>38 DEF UiStoreNew, Ui, sockets, ctlVars, window, channel
  <1>39. CASE UiLoadKeyboard
      BY <1>39 DEF UiLoadKeyboard, UiLoad, Ui, flags, sockets, ctlVars,
         window, channel
  <1>40. CASE UiLoadMouse
      BY <1>40 DEF UiLoadMouse, UiLoad, Ui, flags, sockets, ctlVars, window,
         channel
  <1>41. CASE UiLockToSend
      BY <1>41 DEF UiLockToSend, LockFree, flags, sockets, ctlVars, window,
         channel
  <1>42. CASE UiSendState
      BY <1>42 DEF UiSendState, Ui, HostSends, HostCanSend, flags, sockets,
         ctlVars, window
  <1>43. CASE UiUpdate
      BY <1>43 DEF UiUpdate, Ui, flags, sockets, ctlVars, channel
  <1>44. CASE UiRefresh
      BY <1>44 DEF UiRefresh, Ui, flags, sockets, ctlVars, window, channel
  <1>45. CASE UiRefreshKeyboard
      BY <1>45 DEF UiRefreshKeyboard, UiLoad, Ui, flags, sockets, ctlVars,
         window, channel
  <1>46. CASE UiRefreshMouse
      BY <1>46 DEF UiRefreshMouse, Ui, flags, sockets, ctlVars, channel
  <1>47. CASE UiStopClient
      BY <1>47 DEF UiStopClient, Ui, LockFree, CloseClient, HostCloses,
         flags, ctlVars, window
  <1>48. CASE UiStopListener
      BY <1>48 DEF UiStopListener, Ui, LockFree, HostCloses, Waiting, flags,
         ctlVars, window
  <1>49. CASE UiJoin
      BY <1>49 DEF UiJoin, Ui, sockets, channel
  <1>50. CASE UiStart
      BY <1>50 DEF UiStart, sockets, uiVars, channel
  <1>51. CASE UiStop
      BY <1>51 DEF UiStop, Ui, sockets, ctlVars, window, channel
  <1>52. ASSUME NEW d \in Device, UiClick(d) PROVE SocketInv' /\
     SessionOwnsSocket'
      BY <1>52 DEF UiClick, Ui, flags, sockets, ctlVars, window, channel
  <1>53. ASSUME NEW c \in Conn, PeerConnects(c) PROVE SocketInv' /\
     SessionOwnsSocket'
      BY <1>53 DEF PeerConnects, Connects, host, flags, sockets, ctlVars,
         uiVars, window
  <1>54. ASSUME NEW c \in Conn, PeerReads(c) PROVE SocketInv' /\
     SessionOwnsSocket'
      BY <1>54 DEF PeerReads, ViewerReceives, AfterFirst, host, flags,
         sockets, ctlVars, uiVars, window
  <1>55. ASSUME NEW c \in Conn, PeerCloses(c) PROVE SocketInv' /\
     SessionOwnsSocket'
      BY <1>55 DEF PeerCloses, ViewerCloses, host, flags, sockets, ctlVars,
         uiVars, window
  <1>56. ASSUME NEW c \in Conn, NEW line \in ViewerLines, PeerSends(c, line)
     PROVE SocketInv' /\ SessionOwnsSocket'
      BY <1>56 DEF PeerSends, ViewerSends, host, flags, sockets, ctlVars,
         uiVars, window
  <1>57. CASE UNCHANGED vars
      BY <1>57 DEF vars, flags, sockets, ctlVars, uiVars, window, channel
  <1>. QED
      BY <1>1, <1>2, <1>3, <1>4, <1>5, <1>6, <1>7, <1>8, <1>9, <1>10, <1>11,
         <1>12, <1>13, <1>14, <1>15, <1>16, <1>17, <1>18, <1>19, <1>20,
         <1>21, <1>22, <1>23, <1>24, <1>25, <1>26, <1>27, <1>28, <1>29,
         <1>30, <1>31, <1>32, <1>33, <1>34, <1>35, <1>36, <1>37, <1>38,
         <1>39, <1>40, <1>41, <1>42, <1>43, <1>44, <1>45, <1>46, <1>47,
         <1>48, <1>49, <1>50, <1>51, <1>52, <1>53, <1>54, <1>55, <1>56, <1>57,
         ButtonsAssumption DEF Next, HostNext, CtlStep, UiStep, UserStep, PeerNext

\* No store of the control thread is forgotten by the window.
LEMMA FreshStep ==
    ASSUME TypeOK, ThreadInv, SocketInv, PendingInv, FreshInv, [Next]_vars
    PROVE  FreshInv'
  <1>. USE DEF FreshInv, ThreadInv, Unposted, StopPc, RefreshPc, TypeOK, HostTypeOK, CtlPc, UiPc, Blocked, Grant, Device
  <1>1. CASE CtlCreate
      BY <1>1 DEF CtlCreate, LockFree, flags, uiVars, window, channel
  <1>2. CASE CtlListen
      BY <1>2 DEF CtlListen, Ctl, flags, uiVars, window, channel
  <1>3. CASE CtlListenFails
      BY <1>3 DEF CtlListenFails, Ctl, LockFree, flags, uiVars, window,
         channel
  <1>4. CASE CtlLoop
      BY <1>4 DEF CtlLoop, Ctl, flags, sockets, uiVars, window, channel
  <1>5. ASSUME NEW c \in Conn, CtlAccept(c) PROVE FreshInv'
      BY <1>5 DEF CtlAccept, Ctl, flags, sockets, uiVars, window
  <1>6. CASE CtlAcceptFails
      BY <1>6 DEF CtlAcceptFails, Ctl, flags, sockets, uiVars, window,
         channel
  <1>7. ASSUME NEW n \in 1 .. Capacity, CtlHello(n) PROVE FreshInv'
      BY <1>7 DEF CtlHello, Ctl, HostReceives, AfterFirst, flags, sockets,
         uiVars, window
  <1>8. CASE CtlRefuse
      BY <1>8 DEF CtlRefuse, Ctl, HostRecvEnds, HostCloses, flags, sockets,
         uiVars, window
  <1>9. CASE CtlCloseListener
      BY <1>9 DEF CtlCloseListener, Ctl, LockFree, HostCloses, Waiting,
         flags, uiVars, window
  <1>10. CASE CtlPublish
      BY <1>10 DEF CtlPublish, Ctl, LockFree, flags, uiVars, window, channel
  <1>11. CASE CtlResetKeyboard
      BY <1>11 DEF CtlResetKeyboard, CtlReset, Ctl, sockets, uiVars, window,
         channel
  <1>12. CASE CtlResetMouse
      BY <1>12 DEF CtlResetMouse, CtlReset, Ctl, sockets, uiVars, window,
         channel
  <1>13. CASE CtlSetConnected
      BY <1>13 DEF CtlSetConnected, Ctl, sockets, uiVars, window, channel
  <1>14. CASE CtlAnnounce
      BY <1>14, PostedAssumption DEF CtlAnnounce, Ctl, PostUpdate, flags,
         sockets, uiVars, channel
  <1>15. CASE CtlSendOk
      BY <1>15 DEF CtlSendOk, Ctl, HostSends, HostCanSend, flags, sockets,
         uiVars, window
  <1>16. CASE CtlLoadKeyboard
      BY <1>16 DEF CtlLoadKeyboard, CtlLoad, Ctl, flags, sockets, uiVars,
         window, channel
  <1>17. CASE CtlLoadMouse
      BY <1>17 DEF CtlLoadMouse, CtlLoad, Ctl, flags, sockets, uiVars,
         window, channel
  <1>18. CASE CtlLockToSend
      BY <1>18 DEF CtlLockToSend, LockFree, flags, sockets, uiVars, window,
         channel
  <1>19. CASE CtlSendState
      BY <1>19 DEF CtlSendState, Ctl, HostSends, HostCanSend, flags, sockets,
         uiVars, window
  <1>20. CASE CtlCheck
      BY <1>20 DEF CtlCheck, Ctl, flags, sockets, uiVars, window, channel
  <1>21. ASSUME NEW n \in 1 .. Capacity, CtlReceive(n) PROVE FreshInv'
      BY <1>21 DEF CtlReceive, Ctl, HostReceives, AfterFirst, First, flags,
         sockets, uiVars, window
  <1>22. CASE CtlReceiveEnds
      BY <1>22 DEF CtlReceiveEnds, Ctl, HostRecvEnds, flags, sockets, uiVars,
         window, channel
  <1>23. CASE CtlLinesDone
      BY <1>23 DEF CtlLinesDone, Ctl, flags, sockets, uiVars, window, channel
  <1>24. CASE CtlDisconnect
      BY <1>24 DEF CtlDisconnect, NextLine, flags, sockets, uiVars, window,
         channel
  <1>25. CASE CtlIgnore
      BY <1>25 DEF CtlIgnore, NextLine, flags, sockets, uiVars, window,
         channel
  <1>26. CASE CtlApplyKeyboard
      BY <1>26 DEF CtlApplyKeyboard, NextLine, sockets, uiVars, window,
         channel
  <1>27. CASE CtlApplyMouse
      BY <1>27 DEF CtlApplyMouse, Ctl, sockets, uiVars, window, channel
  <1>28. CASE CtlPostApplied
      BY <1>28, PostedAssumption DEF CtlPostApplied, Ctl, PostUpdate, flags,
         sockets, uiVars, channel
  <1>29. CASE CtlCheckInput
      BY <1>29 DEF CtlCheckInput, NextLine, flags, sockets, uiVars, window,
         channel
  <1>30. CASE CtlInject
      BY <1>30 DEF CtlInject, Ctl, flags, sockets, uiVars, window, channel
  <1>31. CASE CtlEnd
      BY <1>31 DEF CtlEnd, Ctl, LockFree, CloseClient, HostCloses, flags,
         uiVars, window
  <1>32. CASE CtlEndKeyboard
      BY <1>32 DEF CtlEndKeyboard, CtlReset, Ctl, sockets, uiVars, window,
         channel
  <1>33. CASE CtlEndMouse
      BY <1>33 DEF CtlEndMouse, CtlReset, Ctl, sockets, uiVars, window,
         channel
  <1>34. CASE CtlEndConnected
      BY <1>34 DEF CtlEndConnected, Ctl, sockets, uiVars, window, channel
  <1>35. CASE CtlEndCheck
      BY <1>35 DEF CtlEndCheck, flags, sockets, uiVars, window, channel
  <1>36. CASE CtlEndPost
      BY <1>36, PostedAssumption DEF CtlEndPost, Ctl, PostUpdate, flags,
         sockets, uiVars, channel
  <1>37. CASE UiLoadOld
      BY <1>37 DEF UiLoadOld, Ui, flags, sockets, ctlVars, window, channel
  <1>38. CASE UiStoreNew
      BY <1>38 DEF UiStoreNew, Ui, sockets, ctlVars, window, channel
  <1>39. CASE UiLoadKeyboard
      BY <1>39 DEF UiLoadKeyboard, UiLoad, Ui, flags, sockets, ctlVars,
         window, channel
  <1>40. CASE UiLoadMouse
      BY <1>40 DEF UiLoadMouse, UiLoad, Ui, flags, sockets, ctlVars, window,
         channel
  <1>41. CASE UiLockToSend
      BY <1>41 DEF UiLockToSend, LockFree, flags, sockets, ctlVars, window,
         channel
  <1>42. CASE UiSendState
      BY <1>42 DEF UiSendState, Ui, HostSends, HostCanSend, flags, sockets,
         ctlVars, window
  <1>43. CASE UiUpdate
      BY <1>43 DEF UiUpdate, Ui, flags, sockets, ctlVars, channel
  <1>44. CASE UiRefresh
      BY <1>44 DEF UiRefresh, Ui, flags, sockets, ctlVars, window, channel
  <1>45. CASE UiRefreshKeyboard
      BY <1>45 DEF UiRefreshKeyboard, UiLoad, Ui, flags, sockets, ctlVars,
         window, channel
  <1>46. CASE UiRefreshMouse
      BY <1>46 DEF UiRefreshMouse, Ui, flags, sockets, ctlVars, channel
  <1>47. CASE UiStopClient
      BY <1>47 DEF UiStopClient, Ui, LockFree, CloseClient, HostCloses,
         flags, ctlVars, window
  <1>48. CASE UiStopListener
      BY <1>48 DEF UiStopListener, Ui, LockFree, HostCloses, Waiting, flags,
         ctlVars, window
  <1>49. CASE UiJoin
      BY <1>49 DEF UiJoin, Ui, sockets, channel
  <1>50. CASE UiStart
      BY <1>50 DEF UiStart, sockets, uiVars, channel
  <1>51. CASE UiStop
      BY <1>51 DEF UiStop, Ui, sockets, ctlVars, window, channel
  <1>52. ASSUME NEW d \in Device, UiClick(d) PROVE FreshInv'
      BY <1>52 DEF UiClick, Ui, flags, sockets, ctlVars, window, channel
  <1>53. ASSUME NEW c \in Conn, PeerConnects(c) PROVE FreshInv'
      BY <1>53 DEF PeerConnects, Connects, host, flags, sockets, ctlVars,
         uiVars, window
  <1>54. ASSUME NEW c \in Conn, PeerReads(c) PROVE FreshInv'
      BY <1>54 DEF PeerReads, ViewerReceives, AfterFirst, host, flags,
         sockets, ctlVars, uiVars, window
  <1>55. ASSUME NEW c \in Conn, PeerCloses(c) PROVE FreshInv'
      BY <1>55 DEF PeerCloses, ViewerCloses, host, flags, sockets, ctlVars,
         uiVars, window
  <1>56. ASSUME NEW c \in Conn, NEW line \in ViewerLines, PeerSends(c, line)
     PROVE FreshInv'
      BY <1>56 DEF PeerSends, ViewerSends, host, flags, sockets, ctlVars,
         uiVars, window
  <1>57. CASE UNCHANGED vars
      BY <1>57 DEF vars, flags, sockets, ctlVars, uiVars, window, channel
  <1>. QED
      BY <1>1, <1>2, <1>3, <1>4, <1>5, <1>6, <1>7, <1>8, <1>9, <1>10, <1>11,
         <1>12, <1>13, <1>14, <1>15, <1>16, <1>17, <1>18, <1>19, <1>20,
         <1>21, <1>22, <1>23, <1>24, <1>25, <1>26, <1>27, <1>28, <1>29,
         <1>30, <1>31, <1>32, <1>33, <1>34, <1>35, <1>36, <1>37, <1>38,
         <1>39, <1>40, <1>41, <1>42, <1>43, <1>44, <1>45, <1>46, <1>47,
         <1>48, <1>49, <1>50, <1>51, <1>52, <1>53, <1>54, <1>55, <1>56, <1>57,
         ButtonsAssumption DEF Next, HostNext, CtlStep, UiStep, UserStep, PeerNext

------------------------------------------------------------------------------
(* The theorems.                                                            *)

LEMMA InitInductive == Init => IInv
  <1>. SUFFICES ASSUME Init PROVE IInv
    OBVIOUS
  <1>1. TypeOK
    <2>1. ChannelTypeOK
      BY DEF Init, ChannelInit, ChannelTypeOK
    <2>2. <<>> \in Seq(Line) /\ 0 \in 0 .. MaxPosted
      BY PostedAssumption
    <2>3. HostTypeOK
      BY <2>2, BlockedType DEF Init, HostTypeOK, CtlPc, UiPc, Device
    <2>. QED
      BY <2>1, <2>3 DEF TypeOK
  <1>2. ThreadInv /\ PendingInv
    BY DEF Init, ThreadInv, PendingInv, StopPc, RefreshPc
  <1>3. SocketInv /\ SessionOwnsSocket
    BY DEF Init, ChannelInit, SocketInv, SessionOwnsSocket, SessionPc, Published
  <1>4. FreshInv
    BY DEF Init, FreshInv, Unposted
  <1>. QED
    BY <1>1, <1>2, <1>3, <1>4 DEF IInv

LEMMA StepInductive == IInv /\ [Next]_vars => IInv'
  <1>. SUFFICES ASSUME IInv, [Next]_vars PROVE IInv'
    OBVIOUS
  <1>1. TypeOK'
    BY ChannelTypeStep, HostTypeStep DEF IInv, TypeOK
  <1>2. ThreadInv' /\ PendingInv'
    BY ThreadStep, PendingStep DEF IInv
  <1>3. SocketInv' /\ SessionOwnsSocket'
    BY SocketStep DEF IInv
  <1>4. FreshInv'
    BY FreshStep DEF IInv
  <1>. QED
    BY <1>1, <1>2, <1>3, <1>4 DEF IInv

\* The inductive invariant holds in every reachable state of server/main.cpp's
\* two control threads.
THEOREM Inductive == Spec => []IInv
  <1>. QED
    BY InitInductive, StepInductive, PTL DEF Spec

\* Every variable keeps its type: in particular no thread sends on a socket that
\* is not there and the message queue never overflows.
THEOREM TypeCorrect == Spec => []TypeOK
  <1>1. IInv => TypeOK
    BY DEF IInv
  <1>. QED
    BY <1>1, Inductive, PTL

\* After a stop nothing of the server is left, whatever the control thread was
\* doing when it came.
THEOREM StopLeavesNothing == Spec => []OffIsQuiet
  <1>1. IInv => OffIsQuiet
    <2>. SUFFICES ASSUME IInv, ui = "idle", ~running PROVE
             /\ ctl = "none" /\ cur = NoConn
             /\ client = NoConn /\ listener = "none"
             /\ access = Blocked /\ ~connected
             /\ \A c \in Conn : hostEnd[c] = "closed"
      BY DEF OffIsQuiet
    <2>1. ctl = "none" /\ access = Blocked /\ ~connected
      BY DEF IInv, ThreadInv, StopPc
    <2>2. cur = NoConn /\ client = NoConn /\ listener = "none"
      BY <2>1 DEF IInv, SocketInv, SessionPc, Published
    <2>3. \A c \in Conn : hostEnd[c] = "closed"
      BY <2>1, <2>2 DEF IInv, SocketInv, SessionOwnsSocket, SessionPc, TypeOK,
         ChannelTypeOK
    <2>. QED
      BY <2>1, <2>2, <2>3
  <1>. QED
    BY <1>1, Inductive, PTL

\* No accepted socket leaks, and the published socket is the session's own.
THEOREM SocketsOwned == Spec => []SessionOwnsSocket
  <1>1. IInv => SessionOwnsSocket
    BY DEF IInv
  <1>. QED
    BY <1>1, Inductive, PTL

\* A window at rest with no update to handle shows the grants as they are.
THEOREM WindowShowsGrants == Spec => []CaptionFresh
  <1>1. IInv => CaptionFresh
    BY DEF IInv, FreshInv, CaptionFresh
  <1>. QED
    BY <1>1, Inductive, PTL

------------------------------------------------------------------------------
(* The host's control side implements GrantGate.                            *)

\* GateInv is inductive together with ThreadInv.
LEMMA GateStep ==
    ASSUME TypeOK, ThreadInv, SocketInv, GateInv, [Next]_vars
    PROVE  GateInv'
  <1>. USE DEF GateInv, Connected, ThreadInv, StopPc, RefreshPc,
               TypeOK, HostTypeOK, CtlPc, UiPc, Grant, Device
  <1>1. CASE CtlCreate
      BY <1>1 DEF CtlCreate, LockFree, flags, uiVars, window, channel
  <1>2. CASE CtlListen
      BY <1>2 DEF CtlListen, Ctl, flags, uiVars, window, channel
  <1>3. CASE CtlListenFails
      BY <1>3 DEF CtlListenFails, Ctl, LockFree, flags, uiVars, window,
         channel
  <1>4. CASE CtlLoop
      BY <1>4 DEF CtlLoop, Ctl, flags, sockets, uiVars, window, channel
  <1>5. ASSUME NEW c \in Conn, CtlAccept(c) PROVE GateInv'
      BY <1>5, NoConnAssumption DEF CtlAccept, Ctl, flags, sockets, uiVars, window
  <1>6. CASE CtlAcceptFails
      BY <1>6 DEF CtlAcceptFails, Ctl, flags, sockets, uiVars, window,
         channel
  <1>7. ASSUME NEW n \in 1 .. Capacity, CtlHello(n) PROVE GateInv'
      BY <1>7 DEF CtlHello, Ctl, HostReceives, AfterFirst, flags, sockets,
         uiVars, window
  <1>8. CASE CtlRefuse
      BY <1>8 DEF CtlRefuse, Ctl, HostRecvEnds, HostCloses, flags, sockets,
         uiVars, window
  <1>9. CASE CtlCloseListener
      BY <1>9 DEF CtlCloseListener, Ctl, LockFree, HostCloses, Waiting,
         flags, uiVars, window
  <1>10. CASE CtlPublish
      BY <1>10 DEF CtlPublish, Ctl, LockFree, flags, uiVars, window, channel
  <1>11. CASE CtlResetKeyboard
      BY <1>11 DEF CtlResetKeyboard, CtlReset, Ctl, sockets, uiVars, window,
         channel
  <1>12. CASE CtlResetMouse
      BY <1>12 DEF CtlResetMouse, CtlReset, Ctl, sockets, uiVars, window,
         channel
  <1>13. CASE CtlSetConnected
      BY <1>13, NoConnAssumption DEF SocketInv, SessionPc, CtlSetConnected, Ctl, sockets, uiVars, window, channel
  <1>14. CASE CtlAnnounce
      BY <1>14 DEF CtlAnnounce, Ctl, PostUpdate, flags, sockets, uiVars,
         channel
  <1>15. CASE CtlSendOk
      BY <1>15 DEF CtlSendOk, Ctl, HostSends, HostCanSend, flags, sockets,
         uiVars, window
  <1>16. CASE CtlLoadKeyboard
      BY <1>16 DEF CtlLoadKeyboard, CtlLoad, Ctl, flags, sockets, uiVars,
         window, channel
  <1>17. CASE CtlLoadMouse
      BY <1>17 DEF CtlLoadMouse, CtlLoad, Ctl, flags, sockets, uiVars,
         window, channel
  <1>18. CASE CtlLockToSend
      BY <1>18 DEF CtlLockToSend, LockFree, flags, sockets, uiVars, window,
         channel
  <1>19. CASE CtlSendState
      BY <1>19 DEF CtlSendState, Ctl, HostSends, HostCanSend, flags, sockets,
         uiVars, window
  <1>20. CASE CtlCheck
      BY <1>20 DEF CtlCheck, Ctl, flags, sockets, uiVars, window, channel
  <1>21. ASSUME NEW n \in 1 .. Capacity, CtlReceive(n) PROVE GateInv'
      BY <1>21 DEF CtlReceive, Ctl, HostReceives, AfterFirst, First, flags,
         sockets, uiVars, window
  <1>22. CASE CtlReceiveEnds
      BY <1>22 DEF CtlReceiveEnds, Ctl, HostRecvEnds, flags, sockets, uiVars,
         window, channel
  <1>23. CASE CtlLinesDone
      BY <1>23 DEF CtlLinesDone, Ctl, flags, sockets, uiVars, window, channel
  <1>24. CASE CtlDisconnect
      BY <1>24 DEF CtlDisconnect, NextLine, flags, sockets, uiVars, window,
         channel
  <1>25. CASE CtlIgnore
      BY <1>25 DEF CtlIgnore, NextLine, flags, sockets, uiVars, window,
         channel
  <1>26. CASE CtlApplyKeyboard
      BY <1>26 DEF CtlApplyKeyboard, NextLine, sockets, uiVars, window,
         channel
  <1>27. CASE CtlApplyMouse
      BY <1>27 DEF CtlApplyMouse, Ctl, sockets, uiVars, window, channel
  <1>28. CASE CtlPostApplied
      BY <1>28 DEF CtlPostApplied, Ctl, PostUpdate, flags, sockets, uiVars,
         channel
  <1>29. CASE CtlCheckInput
      BY <1>29 DEF CtlCheckInput, NextLine, flags, sockets, uiVars, window,
         channel
  <1>30. CASE CtlInject
      BY <1>30 DEF CtlInject, Ctl, flags, sockets, uiVars, window, channel
  <1>31. CASE CtlEnd
      BY <1>31 DEF CtlEnd, Ctl, flags, uiVars
  <1>32. CASE CtlEndKeyboard
      BY <1>32 DEF CtlEndKeyboard, CtlReset, Ctl, sockets, uiVars, window,
         channel
  <1>33. CASE CtlEndMouse
      BY <1>33 DEF CtlEndMouse, CtlReset, Ctl, sockets, uiVars, window,
         channel
  <1>34. CASE CtlEndConnected
      BY <1>34 DEF CtlEndConnected, Ctl, sockets, uiVars, window, channel
  <1>35. CASE CtlEndCheck
      BY <1>35 DEF CtlEndCheck, flags, sockets, uiVars, window, channel
  <1>36. CASE CtlEndPost
      BY <1>36 DEF CtlEndPost, Ctl, PostUpdate, flags, sockets, uiVars,
         channel
  <1>37. CASE UiLoadOld
      BY <1>37 DEF UiLoadOld, Ui, flags, sockets, ctlVars, window, channel
  <1>38. CASE UiStoreNew
      BY <1>38 DEF UiStoreNew, Ui, sockets, ctlVars, window, channel
  <1>39. CASE UiLoadKeyboard
      BY <1>39 DEF UiLoadKeyboard, UiLoad, Ui, flags, sockets, ctlVars,
         window, channel
  <1>40. CASE UiLoadMouse
      BY <1>40 DEF UiLoadMouse, UiLoad, Ui, flags, sockets, ctlVars, window,
         channel
  <1>41. CASE UiLockToSend
      BY <1>41 DEF UiLockToSend, LockFree, flags, sockets, ctlVars, window,
         channel
  <1>42. CASE UiSendState
      BY <1>42 DEF UiSendState, Ui, HostSends, HostCanSend, flags, sockets,
         ctlVars, window
  <1>43. CASE UiUpdate
      BY <1>43 DEF UiUpdate, Ui, flags, sockets, ctlVars, channel
  <1>44. CASE UiRefresh
      BY <1>44 DEF UiRefresh, Ui, flags, sockets, ctlVars, window, channel
  <1>45. CASE UiRefreshKeyboard
      BY <1>45 DEF UiRefreshKeyboard, UiLoad, Ui, flags, sockets, ctlVars,
         window, channel
  <1>46. CASE UiRefreshMouse
      BY <1>46 DEF UiRefreshMouse, Ui, flags, sockets, ctlVars, channel
  <1>47. CASE UiStopClient
      BY <1>47 DEF UiStopClient, Ui, LockFree, CloseClient, HostCloses,
         flags, ctlVars, window
  <1>48. CASE UiStopListener
      BY <1>48 DEF UiStopListener, Ui, LockFree, HostCloses, Waiting, flags,
         ctlVars, window
  <1>49. CASE UiJoin
      BY <1>49 DEF UiJoin, Ui, sockets, channel
  <1>50. CASE UiStart
      BY <1>50 DEF UiStart, sockets, uiVars, channel
  <1>51. CASE UiStop
      BY <1>51 DEF UiStop, Ui, sockets, ctlVars, window, channel
  <1>52. ASSUME NEW d \in Device, UiClick(d) PROVE GateInv'
      BY <1>52 DEF UiClick, Ui, flags, sockets, ctlVars, window, channel
  <1>53. ASSUME NEW c \in Conn, PeerConnects(c) PROVE GateInv'
      BY <1>53 DEF PeerConnects, Connects, host, flags, sockets, ctlVars,
         uiVars, window
  <1>54. ASSUME NEW c \in Conn, PeerReads(c) PROVE GateInv'
      BY <1>54 DEF PeerReads, ViewerReceives, AfterFirst, host, flags,
         sockets, ctlVars, uiVars, window
  <1>55. ASSUME NEW c \in Conn, PeerCloses(c) PROVE GateInv'
      BY <1>55 DEF PeerCloses, ViewerCloses, host, flags, sockets, ctlVars,
         uiVars, window
  <1>56. ASSUME NEW c \in Conn, NEW line \in ViewerLines, PeerSends(c, line)
     PROVE GateInv'
      BY <1>56 DEF PeerSends, ViewerSends, host, flags, sockets, ctlVars,
         uiVars, window
  <1>57. CASE UNCHANGED vars
      BY <1>57 DEF vars, flags, sockets, ctlVars, uiVars, window, channel
  <1>. QED
      BY <1>1, <1>2, <1>3, <1>4, <1>5, <1>6, <1>7, <1>8, <1>9, <1>10, <1>11,
         <1>12, <1>13, <1>14, <1>15, <1>16, <1>17, <1>18, <1>19, <1>20,
         <1>21, <1>22, <1>23, <1>24, <1>25, <1>26, <1>27, <1>28, <1>29,
         <1>30, <1>31, <1>32, <1>33, <1>34, <1>35, <1>36, <1>37, <1>38,
         <1>39, <1>40, <1>41, <1>42, <1>43, <1>44, <1>45, <1>46, <1>47,
         <1>48, <1>49, <1>50, <1>51, <1>52, <1>53, <1>54, <1>55, <1>56, <1>57,
         ButtonsAssumption DEF Next, HostNext, CtlStep, UiStep, UserStep, PeerNext



------------------------------------------------------------------------------
(* Every step of the host is a step of the gate, or leaves it alone.        *)

\* What the gate can see of a step that leaves it alone.
Unseen ==
    /\ running' = running /\ connected' = connected
    /\ connected => access' = access /\ cur' = cur
    /\ ui' \in StopPc <=> ui \in StopPc

LEMMA UnseenStutters ==
    ASSUME Unseen
    PROVE  UNCHANGED Gate!vars
  BY DEF Unseen, Gate!vars

\* The grants of the line being processed.
LEMMA HeadGrant ==
    ASSUME TypeOK, pending # <<>>
    PROVE  /\ Head(pending).grant["keyboard"] \in BOOLEAN
           /\ Head(pending).grant["mouse"] \in BOOLEAN
  <1>1. Head(pending) \in Line
    BY DEF TypeOK, HostTypeOK
  <1>2. Head(pending).grant \in Grant
    BY <1>1, LineFields
  <1>. QED
    BY <1>2 DEF Grant, Device

\* Every step of the two threads and of the viewers.
LEMMA GateSimulates ==
    ASSUME TypeOK, ThreadInv, SocketInv, PendingInv, GateInv, [Next]_vars
    PROVE  [Gate!Next]_Gate!vars
  <1>. USE DEF GateInv, Connected, ThreadInv, TypeOK, HostTypeOK
  <1>1. ASSUME CtlCreate PROVE Unseen
      BY <1>1 DEF Unseen, StopPc, CtlCreate, LockFree, flags, uiVars, window,
         channel
  <1>2. ASSUME CtlListen PROVE Unseen
      BY <1>2 DEF Unseen, StopPc, CtlListen, Ctl, flags, uiVars, window,
         channel
  <1>3. ASSUME CtlListenFails PROVE Unseen
      BY <1>3 DEF Unseen, StopPc, CtlListenFails, Ctl, LockFree, flags, uiVars,
         window, channel
  <1>4. ASSUME CtlLoop PROVE Unseen
      BY <1>4 DEF Unseen, StopPc, CtlLoop, Ctl, flags, sockets, uiVars, window,
         channel
  <1>5. ASSUME NEW c \in Conn, CtlAccept(c) PROVE Unseen
      BY <1>5 DEF Unseen, StopPc, CtlAccept, Ctl, flags, sockets, uiVars,
         window
  <1>6. ASSUME CtlAcceptFails PROVE Unseen
      BY <1>6 DEF Unseen, StopPc, CtlAcceptFails, Ctl, flags, sockets, uiVars,
         window, channel
  <1>7. ASSUME NEW n \in 1 .. Capacity, CtlHello(n) PROVE Unseen
      BY <1>7 DEF Unseen, StopPc, CtlHello, Ctl, HostReceives, AfterFirst,
         flags, sockets, uiVars, window
  <1>8. ASSUME CtlRefuse PROVE Unseen
      BY <1>8 DEF Unseen, StopPc, CtlRefuse, Ctl, HostRecvEnds, HostCloses,
         flags, sockets, uiVars, window
  <1>9. ASSUME CtlCloseListener PROVE Unseen
      BY <1>9 DEF Unseen, StopPc, CtlCloseListener, Ctl, LockFree, HostCloses,
         Waiting, flags, uiVars, window
  <1>10. ASSUME CtlPublish PROVE Unseen
      BY <1>10 DEF Unseen, StopPc, CtlPublish, Ctl, LockFree, flags, uiVars,
         window, channel
  <1>11. ASSUME CtlResetKeyboard PROVE Unseen
      BY <1>11 DEF Unseen, StopPc, CtlResetKeyboard, CtlReset, Ctl, sockets,
         uiVars, window, channel
  <1>12. ASSUME CtlResetMouse PROVE Unseen
      BY <1>12 DEF Unseen, StopPc, CtlResetMouse, CtlReset, Ctl, sockets,
         uiVars, window, channel
  <1>13. ASSUME CtlSetConnected PROVE Gate!Next
    <2>1. /\ ~connected /\ connected' /\ cur' = cur /\ access' = access
          /\ running' = running /\ ui' = ui /\ ctl = "setConn"
      BY <1>13 DEF CtlSetConnected, Ctl, uiVars
    <2>2. cur \in Conn
      BY <2>1 DEF SocketInv, SessionPc, CtlPc
    <2>3. running \/ ui \in StopPc
      BY <2>1
    <2>4. access \in {g \in Gate!Grant : Gate!AtMostOne(g)}
      BY <2>1 DEF Gate!Grant, Gate!Device, Gate!AtMostOne, Grant, Device
    <2>5. Gate!Begin(cur)
      BY <2>1, <2>3, <2>4 DEF Gate!Begin
    <2>. QED
      BY <2>2, <2>5 DEF Gate!Next
  <1>14. ASSUME CtlAnnounce PROVE Unseen
      BY <1>14 DEF Unseen, StopPc, CtlAnnounce, Ctl, PostUpdate, flags,
         sockets, uiVars, channel
  <1>15. ASSUME CtlSendOk PROVE Unseen
      BY <1>15 DEF Unseen, StopPc, CtlSendOk, Ctl, HostSends, HostCanSend,
         flags, sockets, uiVars, window
  <1>16. ASSUME CtlLoadKeyboard PROVE Unseen
      BY <1>16 DEF Unseen, StopPc, CtlLoadKeyboard, CtlLoad, Ctl, flags,
         sockets, uiVars, window, channel
  <1>17. ASSUME CtlLoadMouse PROVE Unseen
      BY <1>17 DEF Unseen, StopPc, CtlLoadMouse, CtlLoad, Ctl, flags, sockets,
         uiVars, window, channel
  <1>18. ASSUME CtlLockToSend PROVE Unseen
      BY <1>18 DEF Unseen, StopPc, CtlLockToSend, LockFree, flags, sockets,
         uiVars, window, channel
  <1>19. ASSUME CtlSendState PROVE Unseen
      BY <1>19 DEF Unseen, StopPc, CtlSendState, Ctl, HostSends, HostCanSend,
         flags, sockets, uiVars, window
  <1>20. ASSUME CtlCheck PROVE Unseen
      BY <1>20 DEF Unseen, StopPc, CtlCheck, Ctl, flags, sockets, uiVars,
         window, channel
  <1>21. ASSUME NEW n \in 1 .. Capacity, CtlReceive(n) PROVE Unseen
      BY <1>21 DEF Unseen, StopPc, CtlReceive, Ctl, HostReceives, AfterFirst,
         First, flags, sockets, uiVars, window
  <1>22. ASSUME CtlReceiveEnds PROVE Unseen
      BY <1>22 DEF Unseen, StopPc, CtlReceiveEnds, Ctl, HostRecvEnds, flags,
         sockets, uiVars, window, channel
  <1>23. ASSUME CtlLinesDone PROVE Unseen
      BY <1>23 DEF Unseen, StopPc, CtlLinesDone, Ctl, flags, sockets, uiVars,
         window, channel
  <1>24. ASSUME CtlDisconnect PROVE Unseen
      BY <1>24 DEF Unseen, StopPc, CtlDisconnect, NextLine, flags, sockets,
         uiVars, window, channel
  <1>25. ASSUME CtlIgnore PROVE Unseen
      BY <1>25 DEF Unseen, StopPc, CtlIgnore, NextLine, flags, sockets, uiVars,
         window, channel
  <1>26. ASSUME CtlApplyKeyboard PROVE Gate!Next
    <2>1. /\ connected /\ connected' /\ cur' = cur /\ running' = running /\ ui' = ui
          /\ access' = [access EXCEPT !["keyboard"] = Head(pending).grant["keyboard"]]
      BY <1>26 DEF CtlApplyKeyboard, NextLine, uiVars
    <2>2. Head(pending).grant["keyboard"] \in BOOLEAN
      BY <1>26, HeadGrant DEF Grant, CtlApplyKeyboard, NextLine, uiVars
    <2>3. Gate!Set("keyboard", Head(pending).grant["keyboard"])
      BY <2>1 DEF Gate!Set
    <2>. QED
      BY <2>2, <2>3 DEF Gate!Next, Gate!Device
  <1>27. ASSUME CtlApplyMouse PROVE Gate!Next
    <2>1. /\ connected /\ connected' /\ cur' = cur /\ running' = running /\ ui' = ui
          /\ access' = [access EXCEPT !["mouse"] = Head(pending).grant["mouse"]]
      BY <1>27 DEF CtlApplyMouse, Ctl, uiVars
    <2>2. Head(pending).grant["mouse"] \in BOOLEAN
      BY <1>27, HeadGrant DEF PendingInv, Grant, CtlApplyMouse, Ctl, uiVars
    <2>3. Gate!Set("mouse", Head(pending).grant["mouse"])
      BY <2>1 DEF Gate!Set
    <2>. QED
      BY <2>2, <2>3 DEF Gate!Next, Gate!Device
  <1>28. ASSUME CtlPostApplied PROVE Unseen
      BY <1>28 DEF Unseen, StopPc, CtlPostApplied, Ctl, PostUpdate, flags,
         sockets, uiVars, channel
  <1>29. ASSUME CtlCheckInput PROVE Unseen
      BY <1>29 DEF Unseen, StopPc, CtlCheckInput, NextLine, flags, sockets,
         uiVars, window, channel
  <1>30. ASSUME CtlInject PROVE Unseen
      BY <1>30 DEF Unseen, StopPc, CtlInject, Ctl, flags, sockets, uiVars,
         window, channel
  <1>31. ASSUME CtlEnd PROVE Unseen
      BY <1>31 DEF Unseen, StopPc, CtlEnd, Ctl, flags, uiVars
  <1>32. ASSUME CtlEndKeyboard PROVE Gate!Next
    <2>1. /\ connected /\ connected' /\ cur' = cur /\ running' = running /\ ui' = ui
          /\ access' = [access EXCEPT !["keyboard"] = FALSE]
      BY <1>32 DEF CtlEndKeyboard, CtlReset, Ctl, uiVars
    <2>2. FALSE \in BOOLEAN
      BY <1>32 DEF Grant
    <2>3. Gate!Set("keyboard", FALSE)
      BY <2>1 DEF Gate!Set
    <2>. QED
      BY <2>2, <2>3 DEF Gate!Next, Gate!Device
  <1>33. ASSUME CtlEndMouse PROVE Gate!Next
    <2>1. /\ connected /\ connected' /\ cur' = cur /\ running' = running /\ ui' = ui
          /\ access' = [access EXCEPT !["mouse"] = FALSE]
      BY <1>33 DEF CtlEndMouse, CtlReset, Ctl, uiVars
    <2>2. FALSE \in BOOLEAN
      BY <1>33 DEF Grant
    <2>3. Gate!Set("mouse", FALSE)
      BY <2>1 DEF Gate!Set
    <2>. QED
      BY <2>2, <2>3 DEF Gate!Next, Gate!Device
  <1>34. ASSUME CtlEndConnected PROVE Gate!Next
    <2>1. /\ connected /\ ~connected' /\ running' = running /\ ui' = ui
      BY <1>34 DEF CtlEndConnected, Ctl, uiVars
    <2>2. Gate!End
      BY <2>1 DEF Gate!End, Gate!Blocked, Blocked, Gate!Device, Device
    <2>. QED
      BY <2>2 DEF Gate!Next
  <1>35. ASSUME CtlEndCheck PROVE Unseen
      BY <1>35 DEF Unseen, StopPc, CtlEndCheck, flags, sockets, uiVars, window,
         channel
  <1>36. ASSUME CtlEndPost PROVE Unseen
      BY <1>36 DEF Unseen, StopPc, CtlEndPost, Ctl, PostUpdate, flags, sockets,
         uiVars, channel
  <1>37. ASSUME UiLoadOld PROVE Unseen
      BY <1>37 DEF Unseen, StopPc, UiLoadOld, Ui, flags, sockets, ctlVars,
         window, channel
  <1>38. ASSUME UiStoreNew PROVE Gate!Next \/ Unseen
    <2>1. /\ connected' = connected /\ cur' = cur /\ running' = running
          /\ ui \notin StopPc /\ ui' \notin StopPc
          /\ access' = [access EXCEPT ![uiDev] = uiLine[uiDev]]
      BY <1>38 DEF UiStoreNew, Ui, ctlVars, StopPc
    <2>2. CASE ~connected
      BY <2>1, <2>2 DEF Unseen
    <2>3. CASE connected
      <3>1. uiDev \in Device /\ uiLine[uiDev] \in BOOLEAN
        BY DEF Grant
      <3>2. Gate!Set(uiDev, uiLine[uiDev])
        BY <2>1, <2>3 DEF Gate!Set
      <3>. QED
        BY <3>1, <3>2 DEF Gate!Next, Gate!Device, Device
    <2>. QED
      BY <2>2, <2>3
  <1>39. ASSUME UiLoadKeyboard PROVE Unseen
      BY <1>39 DEF Unseen, StopPc, UiLoadKeyboard, UiLoad, Ui, flags, sockets,
         ctlVars, window, channel
  <1>40. ASSUME UiLoadMouse PROVE Unseen
      BY <1>40 DEF Unseen, StopPc, UiLoadMouse, UiLoad, Ui, flags, sockets,
         ctlVars, window, channel
  <1>41. ASSUME UiLockToSend PROVE Unseen
      BY <1>41 DEF Unseen, StopPc, UiLockToSend, LockFree, flags, sockets,
         ctlVars, window, channel
  <1>42. ASSUME UiSendState PROVE Unseen
      BY <1>42 DEF Unseen, StopPc, UiSendState, Ui, HostSends, HostCanSend,
         flags, sockets, ctlVars, window
  <1>43. ASSUME UiUpdate PROVE Unseen
      BY <1>43 DEF Unseen, StopPc, UiUpdate, Ui, flags, sockets, ctlVars,
         channel
  <1>44. ASSUME UiRefresh PROVE Unseen
      BY <1>44 DEF Unseen, StopPc, UiRefresh, Ui, flags, sockets, ctlVars,
         window, channel
  <1>45. ASSUME UiRefreshKeyboard PROVE Unseen
      BY <1>45 DEF Unseen, StopPc, UiRefreshKeyboard, UiLoad, Ui, flags,
         sockets, ctlVars, window, channel
  <1>46. ASSUME UiRefreshMouse PROVE Unseen
      BY <1>46 DEF Unseen, StopPc, UiRefreshMouse, Ui, flags, sockets, ctlVars,
         channel
  <1>47. ASSUME UiStopClient PROVE Unseen
      BY <1>47 DEF Unseen, StopPc, UiStopClient, Ui, LockFree, CloseClient,
         HostCloses, flags, ctlVars, window
  <1>48. ASSUME UiStopListener PROVE Unseen
      BY <1>48 DEF Unseen, StopPc, UiStopListener, Ui, LockFree, HostCloses,
         Waiting, flags, ctlVars, window
  <1>49. ASSUME UiJoin PROVE Gate!Next
    <2>1. /\ ~running /\ ~running' /\ ~connected /\ ~connected'
          /\ ui \in StopPc /\ ui' \notin StopPc
      BY <1>49 DEF UiJoin, Ui, StopPc
    <2>2. Gate!Stopped
      BY <2>1 DEF Gate!Stopped
    <2>. QED
      BY <2>2 DEF Gate!Next
  <1>50. ASSUME UiStart PROVE Gate!Next
    <2>1. /\ ~running /\ running' /\ ~connected /\ ~connected' /\ ui \notin StopPc
      BY <1>50 DEF UiStart, StopPc, RefreshPc
    <2>2. Gate!TurnOn
      BY <2>1 DEF Gate!TurnOn
    <2>. QED
      BY <2>2 DEF Gate!Next
  <1>51. ASSUME UiStop PROVE Gate!Next
    <2>1. /\ running /\ ~running' /\ ui' \in StopPc
          /\ connected' = connected /\ access' = access /\ cur' = cur
      BY <1>51 DEF UiStop, Ui, StopPc, ctlVars
    <2>2. Gate!TurnOff
      BY <2>1 DEF Gate!TurnOff
    <2>. QED
      BY <2>2 DEF Gate!Next
  <1>52. ASSUME NEW d \in Device, UiClick(d) PROVE Unseen
      BY <1>52 DEF Unseen, StopPc, UiClick, Ui, flags, sockets, ctlVars,
         window, channel
  <1>53. ASSUME NEW c \in Conn, PeerConnects(c) PROVE Unseen
      BY <1>53 DEF Unseen, StopPc, PeerConnects, Connects, host, flags,
         sockets, ctlVars, uiVars, window
  <1>54. ASSUME NEW c \in Conn, PeerReads(c) PROVE Unseen
      BY <1>54 DEF Unseen, StopPc, PeerReads, ViewerReceives, AfterFirst, host,
         flags, sockets, ctlVars, uiVars, window
  <1>55. ASSUME NEW c \in Conn, PeerCloses(c) PROVE Unseen
      BY <1>55 DEF Unseen, StopPc, PeerCloses, ViewerCloses, host, flags,
         sockets, ctlVars, uiVars, window
  <1>56. ASSUME NEW c \in Conn, NEW line \in ViewerLines, PeerSends(c, line)
     PROVE Unseen
      BY <1>56 DEF Unseen, StopPc, PeerSends, ViewerSends, host, flags,
         sockets, ctlVars, uiVars, window
  <1>57. ASSUME UNCHANGED vars PROVE Unseen
      BY <1>57 DEF Unseen, StopPc, vars, flags, sockets, ctlVars, uiVars,
         window, channel
  <1>. QED
      BY <1>1, <1>2, <1>3, <1>4, <1>5, <1>6, <1>7, <1>8, <1>9, <1>10, <1>11,
         <1>12, <1>13, <1>14, <1>15, <1>16, <1>17, <1>18, <1>19, <1>20,
         <1>21, <1>22, <1>23, <1>24, <1>25, <1>26, <1>27, <1>28, <1>29,
         <1>30, <1>31, <1>32, <1>33, <1>34, <1>35, <1>36, <1>37, <1>38,
         <1>39, <1>40, <1>41, <1>42, <1>43, <1>44, <1>45, <1>46, <1>47,
         <1>48, <1>49, <1>50, <1>51, <1>52, <1>53, <1>54, <1>55, <1>56, <1>57,
         ButtonsAssumption, UnseenStutters
         DEF Next, HostNext, CtlStep, UiStep, UserStep, PeerNext

\* GateInv holds in every reachable state.
LEMMA GateInductive == Spec => []GateInv
  <1>1. Init => GateInv
    BY DEF Init, GateInv, Connected
  <1>2. IInv /\ GateInv /\ [Next]_vars => GateInv'
    BY GateStep DEF IInv
  <1>. QED
    BY <1>1, <1>2, Inductive, PTL DEF Spec

\* The four atomics of server/main.cpp:59-62, taken together, behave as the gate
\* promises: sessions one after the other, none begun or granted while the server
\* is off, and each begun with nothing granted but for one late click.
THEOREM HostImplementsGate == Spec => ImplementsGate
  <1>1. Init => Gate!Init
    BY DEF Init, Gate!Init, StopPc, Blocked, Gate!Blocked, Device, Gate!Device
  <1>2. IInv /\ GateInv /\ [Next]_vars => [Gate!Next]_Gate!vars
    BY GateSimulates DEF IInv
  <1>. QED
    BY <1>1, <1>2, Inductive, GateInductive, PTL DEF Spec, ImplementsGate, Gate!Spec

(* ------------------------------ the viewer ---------------------------- *)

\* The points at which a connection has been made, and the video thread started.
Linked == ConnSession \ {"connect", "fail"}
Spawned == {"check", "recv", "lines", "applyM", "end", "endConnecting", "endK", "endM",
            "closeControl", "closeVideo", "joinVideo"}

\* The sockets, and the connection of the connection thread.
OwnInv ==
    /\ ViewerOwnsSockets
    /\ conn \in Linked => link # NoConn
    /\ link # NoConn => conn \in ConnSession \ {"connect"}
    /\ vid # "none" => conn \in Spawned

\* Where the two flags may be up.
FlagInv ==
    /\ vConnected =>
          conn \in {"clearConnecting", "resetK", "resetM", "postShow", "spawn", "check",
                   "recv", "lines", "applyM", "end"}
    /\ vConnecting =>
          \/ vui = "cJoin"
          \/ conn \in {"publish", "connect", "hello", "recvOk", "fail", "failFlag",
                      "setConnected", "clearConnecting"}

\* The lines: one is there to be sent, and one to be applied.
LineInv ==
    /\ vui \in {"send", "sending"} => vOut \in Line
    /\ conn = "applyM" => vPending # <<>>

\* What the window will show when it has handled what has been posted to it.
Final == IF states = <<>> THEN shown ELSE states[Len(states)]

ShowInv == Final # FALSE => conn \in {"spawn", "endPost"} \cup Spawned

\* What each thread still has to post before the window is told apart again.
ConnPosts ==
    CASE conn \in {"none", "ended", "fail", "failFlag"} -> 0
      [] conn \in {"publish", "connect", "hello", "recvOk", "setConnected",
                  "clearConnecting", "resetK", "resetM", "postShow"} -> 2
      [] OTHER -> 1

Connecting == {"cConnecting", "cStore", "cJoin"}
Leaving == {"dConnecting", "dConnected", "dClearConnecting", "dK", "dM", "dVideo", "dControl",
            "dPost"}

\* The messages of the window, and those that are still to come.
PostInv ==
    /\ Len(states) + ConnPosts <= MaxStates + 4
    /\ vui \in Connecting => Len(states) + ConnPosts <= MaxStates + 2
    /\ vui \in Leaving \/ (vui \in {"send", "sending"} /\ vOut = Disconnect) =>
          Len(states) + ConnPosts <= MaxStates + 2

------------------------------------------------------------------------------
\* The queue of the window, when a message is posted to it and when one is taken.
LEMMA FinalFacts ==
    ASSUME VTypeOK
    PROVE  /\ Len(states) \in Nat /\ MaxStates \in Nat
           /\ \A v \in BOOLEAN :
                 states' = Append(states, v) => Final' = v /\ Len(states') = Len(states) + 1
           /\ states # <<>> /\ states' = Tail(states) =>
                 /\ shown' = Head(states) => Final' = Final
                 /\ Len(states') = Len(states) - 1
  <1>1. states \in Seq(BOOLEAN) /\ MaxStates \in Nat
    BY StatesAssumption DEF VTypeOK
  <1>2. Len(states) \in Nat
    BY <1>1
  <1>3. ASSUME NEW v \in BOOLEAN, states' = Append(states, v)
        PROVE  Final' = v /\ Len(states') = Len(states) + 1
    <2>1. /\ Len(states') = Len(states) + 1 /\ states'[Len(states) + 1] = v
          /\ states' \in Seq(BOOLEAN)
      BY <1>1, <1>3, AppendProperties
    <2>2. states' # <<>>
      BY <1>2, <2>1, EmptySeq
    <2>. QED
      BY <2>1, <2>2, Zenon DEF Final
  <1>4. ASSUME states # <<>>, states' = Tail(states)
        PROVE  /\ shown' = Head(states) => Final' = Final
               /\ Len(states') = Len(states) - 1
    <2>1. /\ Len(states) \in Nat \ {0} /\ Len(states') = Len(states) - 1
          /\ \A i \in 1 .. Len(states) - 1 : states'[i] = states[i + 1]
          /\ Head(states) = states[1] /\ states' \in Seq(BOOLEAN)
      BY <1>1, <1>4
    <2>2. CASE Len(states) = 1
      <3>1. states' = <<>>
        BY <2>1, <2>2, EmptySeq
      <3>. QED
        BY <1>4, <2>1, <2>2, <3>1, Zenon DEF Final
    <2>3. CASE Len(states) # 1
      <3>1. Len(states') \in 1 .. Len(states) - 1 /\ Len(states') + 1 = Len(states)
        BY <2>1, <2>3
      <3>2. states' # <<>> /\ states'[Len(states')] = states[Len(states)]
        BY <2>1, <3>1, EmptySeq
      <3>. QED
        BY <1>4, <2>1, <3>2, Zenon DEF Final
    <2>. QED
      BY <2>2, <2>3
  <1>. QED
    BY <1>1, <1>2, <1>3, <1>4

LEMMA NotDisconnect ==
    /\ NoLine # Disconnect
    /\ \A g : AccessLine(g) # Disconnect
    /\ \A d : InputLine(d) # Disconnect
  BY DEF NoLine, Disconnect, AccessLine, InputLine

\* Only the thread that has opened a socket, or waits for it to be closed, is near it.
LEMMA OwnStep ==
    ASSUME VTypeOK, OwnInv, [VNext]_vVars
    PROVE  OwnInv'
  <1>. USE DEF OwnInv, ViewerOwnsSockets, Linked, Spawned, ConnSession
  <1>0. viewerEnd \in [Conn -> {"closed", "open"}]
    BY DEF VTypeOK, ChannelTypeOK
  <1>1. CASE ConnPublish
    BY <1>1 DEF ConnPublish, VLockFree, vFlags, vSocks, vUiVars, vWindow, viewer, channel
  <1>2. ASSUME NEW c \in Conn, ConnConnect(c) PROVE OwnInv'
    BY <1>2, NoConnAssumption, <1>0 DEF ConnConnect, ConnAt, Connects, vFlags, vSocks, vUiVars,
         vWindow, viewer, channel
  <1>3. CASE ConnConnectFails
    BY <1>3 DEF ConnConnectFails, ConnAt, vFlags, vSocks, vUiVars, vWindow, viewer, channel
  <1>4. CASE ConnHello
    BY <1>4 DEF ConnHello, ConnAt, ViewerSends, vFlags, vSocks, vUiVars, vWindow, viewer,
         channel
  <1>5. ASSUME NEW n \in 1 .. Capacity, ConnAnswered(n) PROVE OwnInv'
    BY <1>5 DEF ConnAnswered, ConnAt, ViewerReceives, vFlags, vSocks, vUiVars, vWindow, viewer,
         channel
  <1>6. CASE ConnNotAnswered
    BY <1>6 DEF ConnNotAnswered, ConnAt, vFlags, vSocks, vUiVars, vWindow, viewer, channel
  <1>7. CASE ConnFail
    BY <1>7 DEF ConnFail, ConnAt, CloseControl, VLockFree, ViewerCloses, vFlags, vSocks,
         vUiVars, vWindow, viewer, channel
  <1>8. CASE ConnFailFlag
    BY <1>8 DEF ConnFailFlag, ConnAt, vFlags, vSocks, vUiVars, vWindow, viewer, channel
  <1>9. CASE ConnSetConnected(TRUE, "setConnected", "clearConnecting")
    BY <1>9 DEF ConnSetConnected, ConnAt, vFlags, vSocks, vUiVars, vWindow, viewer, channel
  <1>10. CASE ConnClearConnecting("clearConnecting", "resetK")
    BY <1>10 DEF ConnClearConnecting, ConnAt, vFlags, vSocks, vUiVars, vWindow, viewer, channel
  <1>11. CASE ConnReset("keyboard", "resetK", "resetM")
    BY <1>11 DEF ConnReset, ConnAt, vFlags, vSocks, vUiVars, vWindow, viewer, channel
  <1>12. CASE ConnReset("mouse", "resetM", "postShow")
    BY <1>12 DEF ConnReset, ConnAt, vFlags, vSocks, vUiVars, vWindow, viewer, channel
  <1>13. CASE ConnPost(TRUE, "postShow", "spawn")
    BY <1>13 DEF ConnPost, ConnAt, vFlags, vSocks, vUiVars, vWindow, viewer, channel
  <1>14. CASE ConnSpawn
    BY <1>14 DEF ConnSpawn, ConnAt, vFlags, vSocks, vUiVars, vWindow, viewer, channel
  <1>15. CASE ConnCheck
    BY <1>15 DEF ConnCheck, ConnAt, vFlags, vSocks, vUiVars, vWindow, viewer, channel
  <1>16. ASSUME NEW n \in 1 .. Capacity, ConnReceive(n) PROVE OwnInv'
    BY <1>16 DEF ConnReceive, ConnAt, ViewerReceives, vFlags, vSocks, vUiVars, vWindow, viewer,
         channel
  <1>17. CASE ConnReceiveEnds
    BY <1>17 DEF ConnReceiveEnds, ConnAt, vFlags, vSocks, vUiVars, vWindow, viewer, channel
  <1>18. CASE ConnLinesDone
    BY <1>18 DEF ConnLinesDone, ConnAt, vFlags, vSocks, vUiVars, vWindow, viewer, channel
  <1>19. CASE ConnIgnore
    BY <1>19 DEF ConnIgnore, vFlags, vSocks, vUiVars, vWindow, viewer, channel
  <1>20. CASE ConnApplyKeyboard
    BY <1>20 DEF ConnApplyKeyboard, ConnAt, vFlags, vSocks, vUiVars, vWindow, viewer, channel
  <1>21. CASE ConnApplyMouse
    BY <1>21 DEF ConnApplyMouse, ConnAt, vFlags, vSocks, vUiVars, vWindow, viewer, channel
  <1>22. CASE ConnSetConnected(FALSE, "end", "endConnecting")
    BY <1>22 DEF ConnSetConnected, ConnAt, vFlags, vSocks, vUiVars, vWindow, viewer, channel
  <1>23. CASE ConnClearConnecting("endConnecting", "endK")
    BY <1>23 DEF ConnClearConnecting, ConnAt, vFlags, vSocks, vUiVars, vWindow, viewer, channel
  <1>24. CASE ConnReset("keyboard", "endK", "endM")
    BY <1>24 DEF ConnReset, ConnAt, vFlags, vSocks, vUiVars, vWindow, viewer, channel
  <1>25. CASE ConnReset("mouse", "endM", "closeControl")
    BY <1>25 DEF ConnReset, ConnAt, vFlags, vSocks, vUiVars, vWindow, viewer, channel
  <1>26. CASE ConnPost(FALSE, "endPost", "ended")
    BY <1>26 DEF ConnPost, ConnAt, vFlags, vSocks, vUiVars, vWindow, viewer, channel
  <1>27. CASE ConnCloseControl
    BY <1>27 DEF ConnCloseControl, ConnAt, CloseControl, VLockFree, ViewerCloses, vFlags,
         vSocks, vUiVars, vWindow, viewer, channel
  <1>28. CASE ConnCloseVideo
    BY <1>28 DEF ConnCloseVideo, ConnAt, CloseVideo, VLockFree, vFlags, vSocks, vUiVars,
         vWindow, viewer, channel
  <1>29. CASE ConnJoinVideo
    BY <1>29 DEF ConnJoinVideo, ConnAt, vFlags, vSocks, vUiVars, vWindow, viewer, channel
  <1>30. CASE VidPublish
    BY <1>30 DEF VidPublish, VLockFree, vFlags, vSocks, vUiVars, vWindow, viewer, channel
  <1>31. CASE VidConnect
    BY <1>31 DEF VidConnect, vFlags, vSocks, vUiVars, vWindow, viewer, channel
  <1>32. CASE VidCheck
    BY <1>32 DEF VidCheck, VidAt, vFlags, vSocks, vUiVars, vWindow, viewer, channel
  <1>33. CASE VidFrame
    BY <1>33 DEF VidFrame, VidAt, vFlags, vSocks, vUiVars, vWindow, viewer, channel
  <1>34. CASE VidStreamEnds
    BY <1>34 DEF VidStreamEnds, VidAt, vFlags, vSocks, vUiVars, vWindow, viewer, channel
  <1>35. CASE VidAborted
    BY <1>35 DEF VidAborted, VidAt, vFlags, vSocks, vUiVars, vWindow, viewer, channel
  <1>36. CASE VidClose
    BY <1>36 DEF VidClose, VidAt, CloseVideo, VLockFree, vFlags, vSocks, vUiVars, vWindow,
         viewer, channel
  <1>37. CASE VuiReadConnecting
    BY <1>37 DEF VuiReadConnecting, Vui, vFlags, vSocks, vUiVars, vWindow, viewer, channel
  <1>38. CASE VuiStoreConnecting
    BY <1>38 DEF VuiStoreConnecting, Vui, vFlags, vSocks, vUiVars, vWindow, viewer, channel
  <1>39. CASE VuiStartConn
    BY <1>39 DEF VuiStartConn, Vui, vFlags, vSocks, vUiVars, vWindow, viewer, channel
  <1>40. CASE VuiLoadOld
    BY <1>40 DEF VuiLoadOld, Vui, vFlags, vSocks, vUiVars, vWindow, viewer, channel
  <1>41. CASE VuiStoreNew
    BY <1>41 DEF VuiStoreNew, Vui, vFlags, vSocks, vUiVars, vWindow, viewer, channel
  <1>42. CASE VuiLoadKeyboard
    BY <1>42 DEF VuiLoadKeyboard, Vui, vFlags, vSocks, vUiVars, vWindow, viewer, channel
  <1>43. CASE VuiLoadMouse
    BY <1>43 DEF VuiLoadMouse, Vui, vFlags, vSocks, vUiVars, vWindow, viewer, channel
  <1>44. CASE VuiCheckGrant
    BY <1>44 DEF VuiCheckGrant, vFlags, vSocks, vUiVars, vWindow, viewer, channel
  <1>45. CASE VuiLockToSend
    BY <1>45 DEF VuiLockToSend, AfterSend, vFlags, vSocks, vUiVars, vWindow, viewer, channel
  <1>46. CASE VuiSend
    BY <1>46 DEF VuiSend, Vui, AfterSend, ViewerSends, vFlags, vSocks, vUiVars, vWindow, viewer,
         channel
  <1>47. CASE VuiDisconnectGuard
    BY <1>47 DEF VuiDisconnectGuard, AfterDisconnect, vFlags, vSocks, vUiVars, vWindow, viewer,
         channel
  <1>48. CASE VuiClearConnected
    BY <1>48 DEF VuiClearConnected, Vui, vFlags, vSocks, vUiVars, vWindow, viewer, channel
  <1>49. CASE VuiClearConnecting
    BY <1>49 DEF VuiClearConnecting, Vui, vFlags, vSocks, vUiVars, vWindow, viewer, channel
  <1>50. CASE VuiReset("keyboard", "dK", "dM")
    BY <1>50 DEF VuiReset, Vui, vFlags, vSocks, vUiVars, vWindow, viewer, channel
  <1>51. CASE VuiReset("mouse", "dM", "dVideo")
    BY <1>51 DEF VuiReset, Vui, vFlags, vSocks, vUiVars, vWindow, viewer, channel
  <1>52. CASE VuiCloseVideo
    BY <1>52 DEF VuiCloseVideo, Vui, CloseVideo, VLockFree, vFlags, vSocks, vUiVars, vWindow,
         viewer, channel
  <1>53. CASE VuiCloseControl
    BY <1>53 DEF VuiCloseControl, Vui, CloseControl, VLockFree, ViewerCloses, vFlags, vSocks,
         vUiVars, vWindow, viewer, channel
  <1>54. CASE VuiPostDisconnected
    BY <1>54 DEF VuiPostDisconnected, Vui, AfterDisconnect, vFlags, vSocks, vUiVars, vWindow,
         viewer, channel
  <1>55. CASE VuiJoinConn
    BY <1>55 DEF VuiJoinConn, Vui, vFlags, vSocks, vUiVars, vWindow, viewer, channel
  <1>56. CASE VuiJoinVideo
    BY <1>56 DEF VuiJoinVideo, Vui, vFlags, vSocks, vUiVars, vWindow, viewer, channel
  <1>57. CASE VuiShow
    BY <1>57 DEF VuiShow, vFlags, vSocks, vUiVars, vWindow, viewer, channel
  <1>58. CASE UserConnects
    BY <1>58 DEF UserConnects, AtRest, vFlags, vSocks, vUiVars, vWindow, viewer, channel
  <1>59. CASE Disconnects(FALSE)
    BY <1>59 DEF Disconnects, AtRest, vFlags, vSocks, vUiVars, vWindow, viewer, channel
  <1>60. CASE Disconnects(TRUE)
    BY <1>60 DEF Disconnects, AtRest, vFlags, vSocks, vUiVars, vWindow, viewer, channel
  <1>61. ASSUME NEW d \in Device, UserToggles(d) PROVE OwnInv'
    BY <1>61 DEF UserToggles, AtRest, vFlags, vSocks, vUiVars, vWindow, viewer, channel
  <1>62. ASSUME NEW d \in Device, UserInputs(d) PROVE OwnInv'
    BY <1>62 DEF UserInputs, AtRest, vFlags, vSocks, vUiVars, vWindow, viewer, channel
  <1>63. ASSUME NEW c \in Conn, HostAccepts(c) PROVE OwnInv'
    BY <1>63 DEF HostAccepts, vFlags, vSocks, vUiVars, vWindow, viewer, channel
  <1>64. ASSUME NEW c \in Conn, HostReads(c) PROVE OwnInv'
    BY <1>64 DEF HostReads, HostReceives, vFlags, vSocks, vUiVars, vWindow, viewer, channel
  <1>65. ASSUME NEW S \in (SUBSET Conn) \ {{}}, HostHangsUp(S) PROVE OwnInv'
    BY <1>65 DEF HostHangsUp, HostCloses, vFlags, vSocks, vUiVars, vWindow, viewer, channel
  <1>66. ASSUME NEW c \in Conn, NEW line \in HostLines, HostSays(c, line) PROVE OwnInv'
    BY <1>66 DEF HostSays, HostSends, vFlags, vSocks, vUiVars, vWindow, viewer, channel
  <1>67. CASE UNCHANGED vVars
    BY <1>67 DEF vVars, vFlags, vSocks, vUiVars, vWindow, viewer, channel
  <1>. QED
    BY <1>1, <1>2, <1>3, <1>4, <1>5, <1>6, <1>7, <1>8, <1>9, <1>10, <1>11, <1>12, <1>13, <1>14,
       <1>15, <1>16, <1>17, <1>18, <1>19, <1>20, <1>21, <1>22, <1>23, <1>24, <1>25, <1>26,
       <1>27, <1>28, <1>29, <1>30, <1>31, <1>32, <1>33, <1>34, <1>35, <1>36, <1>37, <1>38,
       <1>39, <1>40, <1>41, <1>42, <1>43, <1>44, <1>45, <1>46, <1>47, <1>48, <1>49, <1>50,
       <1>51, <1>52, <1>53, <1>54, <1>55, <1>56, <1>57, <1>58, <1>59, <1>60, <1>61, <1>62,
       <1>63, <1>64, <1>65, <1>66, <1>67 DEF VNext, ViewerNext, ConnStep, ConnOpens, ConnEnds, VidStep, StreamStep, VuiStep, VuiResets,
         ViewerUser, UserDisconnects, UserCloses, HostEnvironment, ViewerGone

\* A flag is raised at one point, and cleared before its thread is over.
LEMMA VFlagStep ==
    ASSUME VTypeOK, FlagInv, [VNext]_vVars
    PROVE  FlagInv'
  <1>. USE DEF FlagInv
  <1>1. CASE ConnPublish
    BY <1>1 DEF ConnPublish, VLockFree, vFlags, vSocks, vUiVars, vWindow, viewer, channel
  <1>2. ASSUME NEW c \in Conn, ConnConnect(c) PROVE FlagInv'
    BY <1>2 DEF ConnConnect, ConnAt, Connects, vFlags, vSocks, vUiVars, vWindow, viewer, channel
  <1>3. CASE ConnConnectFails
    BY <1>3 DEF ConnConnectFails, ConnAt, vFlags, vSocks, vUiVars, vWindow, viewer, channel
  <1>4. CASE ConnHello
    BY <1>4 DEF ConnHello, ConnAt, ViewerSends, vFlags, vSocks, vUiVars, vWindow, viewer,
         channel
  <1>5. ASSUME NEW n \in 1 .. Capacity, ConnAnswered(n) PROVE FlagInv'
    BY <1>5 DEF ConnAnswered, ConnAt, ViewerReceives, vFlags, vSocks, vUiVars, vWindow, viewer,
         channel
  <1>6. CASE ConnNotAnswered
    BY <1>6 DEF ConnNotAnswered, ConnAt, vFlags, vSocks, vUiVars, vWindow, viewer, channel
  <1>7. CASE ConnFail
    BY <1>7 DEF ConnFail, ConnAt, CloseControl, VLockFree, ViewerCloses, vFlags, vSocks,
         vUiVars, vWindow, viewer, channel
  <1>8. CASE ConnFailFlag
    BY <1>8 DEF ConnFailFlag, ConnAt, vFlags, vSocks, vUiVars, vWindow, viewer, channel
  <1>9. CASE ConnSetConnected(TRUE, "setConnected", "clearConnecting")
    BY <1>9 DEF ConnSetConnected, ConnAt, vFlags, vSocks, vUiVars, vWindow, viewer, channel
  <1>10. CASE ConnClearConnecting("clearConnecting", "resetK")
    BY <1>10 DEF ConnClearConnecting, ConnAt, vFlags, vSocks, vUiVars, vWindow, viewer, channel
  <1>11. CASE ConnReset("keyboard", "resetK", "resetM")
    BY <1>11 DEF ConnReset, ConnAt, vFlags, vSocks, vUiVars, vWindow, viewer, channel
  <1>12. CASE ConnReset("mouse", "resetM", "postShow")
    BY <1>12 DEF ConnReset, ConnAt, vFlags, vSocks, vUiVars, vWindow, viewer, channel
  <1>13. CASE ConnPost(TRUE, "postShow", "spawn")
    BY <1>13 DEF ConnPost, ConnAt, vFlags, vSocks, vUiVars, vWindow, viewer, channel
  <1>14. CASE ConnSpawn
    BY <1>14 DEF ConnSpawn, ConnAt, vFlags, vSocks, vUiVars, vWindow, viewer, channel
  <1>15. CASE ConnCheck
    BY <1>15 DEF ConnCheck, ConnAt, vFlags, vSocks, vUiVars, vWindow, viewer, channel
  <1>16. ASSUME NEW n \in 1 .. Capacity, ConnReceive(n) PROVE FlagInv'
    BY <1>16 DEF ConnReceive, ConnAt, ViewerReceives, vFlags, vSocks, vUiVars, vWindow, viewer,
         channel
  <1>17. CASE ConnReceiveEnds
    BY <1>17 DEF ConnReceiveEnds, ConnAt, vFlags, vSocks, vUiVars, vWindow, viewer, channel
  <1>18. CASE ConnLinesDone
    BY <1>18 DEF ConnLinesDone, ConnAt, vFlags, vSocks, vUiVars, vWindow, viewer, channel
  <1>19. CASE ConnIgnore
    BY <1>19 DEF ConnIgnore, vFlags, vSocks, vUiVars, vWindow, viewer, channel
  <1>20. CASE ConnApplyKeyboard
    BY <1>20 DEF ConnApplyKeyboard, ConnAt, vFlags, vSocks, vUiVars, vWindow, viewer, channel
  <1>21. CASE ConnApplyMouse
    BY <1>21 DEF ConnApplyMouse, ConnAt, vFlags, vSocks, vUiVars, vWindow, viewer, channel
  <1>22. CASE ConnSetConnected(FALSE, "end", "endConnecting")
    BY <1>22 DEF ConnSetConnected, ConnAt, vFlags, vSocks, vUiVars, vWindow, viewer, channel
  <1>23. CASE ConnClearConnecting("endConnecting", "endK")
    BY <1>23 DEF ConnClearConnecting, ConnAt, vFlags, vSocks, vUiVars, vWindow, viewer, channel
  <1>24. CASE ConnReset("keyboard", "endK", "endM")
    BY <1>24 DEF ConnReset, ConnAt, vFlags, vSocks, vUiVars, vWindow, viewer, channel
  <1>25. CASE ConnReset("mouse", "endM", "closeControl")
    BY <1>25 DEF ConnReset, ConnAt, vFlags, vSocks, vUiVars, vWindow, viewer, channel
  <1>26. CASE ConnPost(FALSE, "endPost", "ended")
    BY <1>26 DEF ConnPost, ConnAt, vFlags, vSocks, vUiVars, vWindow, viewer, channel
  <1>27. CASE ConnCloseControl
    BY <1>27 DEF ConnCloseControl, ConnAt, CloseControl, VLockFree, ViewerCloses, vFlags,
         vSocks, vUiVars, vWindow, viewer, channel
  <1>28. CASE ConnCloseVideo
    BY <1>28 DEF ConnCloseVideo, ConnAt, CloseVideo, VLockFree, vFlags, vSocks, vUiVars,
         vWindow, viewer, channel
  <1>29. CASE ConnJoinVideo
    BY <1>29 DEF ConnJoinVideo, ConnAt, vFlags, vSocks, vUiVars, vWindow, viewer, channel
  <1>30. CASE VidPublish
    BY <1>30 DEF VidPublish, VLockFree, vFlags, vSocks, vUiVars, vWindow, viewer, channel
  <1>31. CASE VidConnect
    BY <1>31 DEF VidConnect, vFlags, vSocks, vUiVars, vWindow, viewer, channel
  <1>32. CASE VidCheck
    BY <1>32 DEF VidCheck, VidAt, vFlags, vSocks, vUiVars, vWindow, viewer, channel
  <1>33. CASE VidFrame
    BY <1>33 DEF VidFrame, VidAt, vFlags, vSocks, vUiVars, vWindow, viewer, channel
  <1>34. CASE VidStreamEnds
    BY <1>34 DEF VidStreamEnds, VidAt, vFlags, vSocks, vUiVars, vWindow, viewer, channel
  <1>35. CASE VidAborted
    BY <1>35 DEF VidAborted, VidAt, vFlags, vSocks, vUiVars, vWindow, viewer, channel
  <1>36. CASE VidClose
    BY <1>36 DEF VidClose, VidAt, CloseVideo, VLockFree, vFlags, vSocks, vUiVars, vWindow,
         viewer, channel
  <1>37. CASE VuiReadConnecting
    BY <1>37 DEF VuiReadConnecting, Vui, vFlags, vSocks, vUiVars, vWindow, viewer, channel
  <1>38. CASE VuiStoreConnecting
    BY <1>38 DEF VuiStoreConnecting, Vui, vFlags, vSocks, vUiVars, vWindow, viewer, channel
  <1>39. CASE VuiStartConn
    BY <1>39 DEF VuiStartConn, Vui, vFlags, vSocks, vUiVars, vWindow, viewer, channel
  <1>40. CASE VuiLoadOld
    BY <1>40 DEF VuiLoadOld, Vui, vFlags, vSocks, vUiVars, vWindow, viewer, channel
  <1>41. CASE VuiStoreNew
    BY <1>41 DEF VuiStoreNew, Vui, vFlags, vSocks, vUiVars, vWindow, viewer, channel
  <1>42. CASE VuiLoadKeyboard
    BY <1>42 DEF VuiLoadKeyboard, Vui, vFlags, vSocks, vUiVars, vWindow, viewer, channel
  <1>43. CASE VuiLoadMouse
    BY <1>43 DEF VuiLoadMouse, Vui, vFlags, vSocks, vUiVars, vWindow, viewer, channel
  <1>44. CASE VuiCheckGrant
    BY <1>44 DEF VuiCheckGrant, vFlags, vSocks, vUiVars, vWindow, viewer, channel
  <1>45. CASE VuiLockToSend
    BY <1>45 DEF VuiLockToSend, AfterSend, vFlags, vSocks, vUiVars, vWindow, viewer, channel
  <1>46. CASE VuiSend
    BY <1>46 DEF VuiSend, Vui, AfterSend, ViewerSends, vFlags, vSocks, vUiVars, vWindow, viewer,
         channel
  <1>47. CASE VuiDisconnectGuard
    BY <1>47 DEF VuiDisconnectGuard, AfterDisconnect, vFlags, vSocks, vUiVars, vWindow, viewer,
         channel
  <1>48. CASE VuiClearConnected
    BY <1>48 DEF VuiClearConnected, Vui, vFlags, vSocks, vUiVars, vWindow, viewer, channel
  <1>49. CASE VuiClearConnecting
    BY <1>49 DEF VuiClearConnecting, Vui, vFlags, vSocks, vUiVars, vWindow, viewer, channel
  <1>50. CASE VuiReset("keyboard", "dK", "dM")
    BY <1>50 DEF VuiReset, Vui, vFlags, vSocks, vUiVars, vWindow, viewer, channel
  <1>51. CASE VuiReset("mouse", "dM", "dVideo")
    BY <1>51 DEF VuiReset, Vui, vFlags, vSocks, vUiVars, vWindow, viewer, channel
  <1>52. CASE VuiCloseVideo
    BY <1>52 DEF VuiCloseVideo, Vui, CloseVideo, VLockFree, vFlags, vSocks, vUiVars, vWindow,
         viewer, channel
  <1>53. CASE VuiCloseControl
    BY <1>53 DEF VuiCloseControl, Vui, CloseControl, VLockFree, ViewerCloses, vFlags, vSocks,
         vUiVars, vWindow, viewer, channel
  <1>54. CASE VuiPostDisconnected
    BY <1>54 DEF VuiPostDisconnected, Vui, AfterDisconnect, vFlags, vSocks, vUiVars, vWindow,
         viewer, channel
  <1>55. CASE VuiJoinConn
    BY <1>55 DEF VuiJoinConn, Vui, vFlags, vSocks, vUiVars, vWindow, viewer, channel
  <1>56. CASE VuiJoinVideo
    BY <1>56 DEF VuiJoinVideo, Vui, vFlags, vSocks, vUiVars, vWindow, viewer, channel
  <1>57. CASE VuiShow
    BY <1>57 DEF VuiShow, vFlags, vSocks, vUiVars, vWindow, viewer, channel
  <1>58. CASE UserConnects
    BY <1>58 DEF UserConnects, AtRest, vFlags, vSocks, vUiVars, vWindow, viewer, channel
  <1>59. CASE Disconnects(FALSE)
    BY <1>59 DEF Disconnects, AtRest, vFlags, vSocks, vUiVars, vWindow, viewer, channel
  <1>60. CASE Disconnects(TRUE)
    BY <1>60 DEF Disconnects, AtRest, vFlags, vSocks, vUiVars, vWindow, viewer, channel
  <1>61. ASSUME NEW d \in Device, UserToggles(d) PROVE FlagInv'
    BY <1>61 DEF UserToggles, AtRest, vFlags, vSocks, vUiVars, vWindow, viewer, channel
  <1>62. ASSUME NEW d \in Device, UserInputs(d) PROVE FlagInv'
    BY <1>62 DEF UserInputs, AtRest, vFlags, vSocks, vUiVars, vWindow, viewer, channel
  <1>63. ASSUME NEW c \in Conn, HostAccepts(c) PROVE FlagInv'
    BY <1>63 DEF HostAccepts, vFlags, vSocks, vUiVars, vWindow, viewer, channel
  <1>64. ASSUME NEW c \in Conn, HostReads(c) PROVE FlagInv'
    BY <1>64 DEF HostReads, HostReceives, vFlags, vSocks, vUiVars, vWindow, viewer, channel
  <1>65. ASSUME NEW S \in (SUBSET Conn) \ {{}}, HostHangsUp(S) PROVE FlagInv'
    BY <1>65 DEF HostHangsUp, HostCloses, vFlags, vSocks, vUiVars, vWindow, viewer, channel
  <1>66. ASSUME NEW c \in Conn, NEW line \in HostLines, HostSays(c, line) PROVE FlagInv'
    BY <1>66 DEF HostSays, HostSends, vFlags, vSocks, vUiVars, vWindow, viewer, channel
  <1>67. CASE UNCHANGED vVars
    BY <1>67 DEF vVars, vFlags, vSocks, vUiVars, vWindow, viewer, channel
  <1>. QED
    BY <1>1, <1>2, <1>3, <1>4, <1>5, <1>6, <1>7, <1>8, <1>9, <1>10, <1>11, <1>12, <1>13, <1>14,
       <1>15, <1>16, <1>17, <1>18, <1>19, <1>20, <1>21, <1>22, <1>23, <1>24, <1>25, <1>26,
       <1>27, <1>28, <1>29, <1>30, <1>31, <1>32, <1>33, <1>34, <1>35, <1>36, <1>37, <1>38,
       <1>39, <1>40, <1>41, <1>42, <1>43, <1>44, <1>45, <1>46, <1>47, <1>48, <1>49, <1>50,
       <1>51, <1>52, <1>53, <1>54, <1>55, <1>56, <1>57, <1>58, <1>59, <1>60, <1>61, <1>62,
       <1>63, <1>64, <1>65, <1>66, <1>67 DEF VNext, ViewerNext, ConnStep, ConnOpens, ConnEnds, VidStep, StreamStep, VuiStep, VuiResets,
         ViewerUser, UserDisconnects, UserCloses, HostEnvironment, ViewerGone

\* The last message to be handled says that a connection is there only while it is.
LEMMA ShowStep ==
    ASSUME VTypeOK, ShowInv, [VNext]_vVars
    PROVE  ShowInv'
  <1>. USE DEF ShowInv, Spawned
  <1>1. CASE ConnPublish
    BY <1>1 DEF ConnPublish, VLockFree, vFlags, vSocks, vUiVars, vWindow, viewer, channel, Final
  <1>2. ASSUME NEW c \in Conn, ConnConnect(c) PROVE ShowInv'
    BY <1>2 DEF ConnConnect, ConnAt, Connects, vFlags, vSocks, vUiVars, vWindow, viewer,
         channel, Final
  <1>3. CASE ConnConnectFails
    BY <1>3 DEF ConnConnectFails, ConnAt, vFlags, vSocks, vUiVars, vWindow, viewer, channel,
         Final
  <1>4. CASE ConnHello
    BY <1>4 DEF ConnHello, ConnAt, ViewerSends, vFlags, vSocks, vUiVars, vWindow, viewer,
         channel, Final
  <1>5. ASSUME NEW n \in 1 .. Capacity, ConnAnswered(n) PROVE ShowInv'
    BY <1>5 DEF ConnAnswered, ConnAt, ViewerReceives, vFlags, vSocks, vUiVars, vWindow, viewer,
         channel, Final
  <1>6. CASE ConnNotAnswered
    BY <1>6 DEF ConnNotAnswered, ConnAt, vFlags, vSocks, vUiVars, vWindow, viewer, channel,
         Final
  <1>7. CASE ConnFail
    BY <1>7 DEF ConnFail, ConnAt, CloseControl, VLockFree, ViewerCloses, vFlags, vSocks,
         vUiVars, vWindow, viewer, channel, Final
  <1>8. CASE ConnFailFlag
    BY <1>8 DEF ConnFailFlag, ConnAt, vFlags, vSocks, vUiVars, vWindow, viewer, channel, Final
  <1>9. CASE ConnSetConnected(TRUE, "setConnected", "clearConnecting")
    BY <1>9 DEF ConnSetConnected, ConnAt, vFlags, vSocks, vUiVars, vWindow, viewer, channel,
         Final
  <1>10. CASE ConnClearConnecting("clearConnecting", "resetK")
    BY <1>10 DEF ConnClearConnecting, ConnAt, vFlags, vSocks, vUiVars, vWindow, viewer, channel,
         Final
  <1>11. CASE ConnReset("keyboard", "resetK", "resetM")
    BY <1>11 DEF ConnReset, ConnAt, vFlags, vSocks, vUiVars, vWindow, viewer, channel, Final
  <1>12. CASE ConnReset("mouse", "resetM", "postShow")
    BY <1>12 DEF ConnReset, ConnAt, vFlags, vSocks, vUiVars, vWindow, viewer, channel, Final
  <1>13. CASE ConnPost(TRUE, "postShow", "spawn")
    BY <1>13, FinalFacts DEF ConnPost, ConnAt, VuiPostDisconnected, Vui, vVars, viewer
  <1>14. CASE ConnSpawn
    BY <1>14 DEF ConnSpawn, ConnAt, vFlags, vSocks, vUiVars, vWindow, viewer, channel, Final
  <1>15. CASE ConnCheck
    BY <1>15 DEF ConnCheck, ConnAt, vFlags, vSocks, vUiVars, vWindow, viewer, channel, Final
  <1>16. ASSUME NEW n \in 1 .. Capacity, ConnReceive(n) PROVE ShowInv'
    BY <1>16 DEF ConnReceive, ConnAt, ViewerReceives, vFlags, vSocks, vUiVars, vWindow, viewer,
         channel, Final
  <1>17. CASE ConnReceiveEnds
    BY <1>17 DEF ConnReceiveEnds, ConnAt, vFlags, vSocks, vUiVars, vWindow, viewer, channel,
         Final
  <1>18. CASE ConnLinesDone
    BY <1>18 DEF ConnLinesDone, ConnAt, vFlags, vSocks, vUiVars, vWindow, viewer, channel, Final
  <1>19. CASE ConnIgnore
    BY <1>19 DEF ConnIgnore, vFlags, vSocks, vUiVars, vWindow, viewer, channel, Final
  <1>20. CASE ConnApplyKeyboard
    BY <1>20 DEF ConnApplyKeyboard, ConnAt, vFlags, vSocks, vUiVars, vWindow, viewer, channel,
         Final
  <1>21. CASE ConnApplyMouse
    BY <1>21 DEF ConnApplyMouse, ConnAt, vFlags, vSocks, vUiVars, vWindow, viewer, channel,
         Final
  <1>22. CASE ConnSetConnected(FALSE, "end", "endConnecting")
    BY <1>22 DEF ConnSetConnected, ConnAt, vFlags, vSocks, vUiVars, vWindow, viewer, channel,
         Final
  <1>23. CASE ConnClearConnecting("endConnecting", "endK")
    BY <1>23 DEF ConnClearConnecting, ConnAt, vFlags, vSocks, vUiVars, vWindow, viewer, channel,
         Final
  <1>24. CASE ConnReset("keyboard", "endK", "endM")
    BY <1>24 DEF ConnReset, ConnAt, vFlags, vSocks, vUiVars, vWindow, viewer, channel, Final
  <1>25. CASE ConnReset("mouse", "endM", "closeControl")
    BY <1>25 DEF ConnReset, ConnAt, vFlags, vSocks, vUiVars, vWindow, viewer, channel, Final
  <1>26. CASE ConnPost(FALSE, "endPost", "ended")
    BY <1>26, FinalFacts DEF ConnPost, ConnAt, VuiPostDisconnected, Vui, vVars, viewer
  <1>27. CASE ConnCloseControl
    BY <1>27 DEF ConnCloseControl, ConnAt, CloseControl, VLockFree, ViewerCloses, vFlags,
         vSocks, vUiVars, vWindow, viewer, channel, Final
  <1>28. CASE ConnCloseVideo
    BY <1>28 DEF ConnCloseVideo, ConnAt, CloseVideo, VLockFree, vFlags, vSocks, vUiVars,
         vWindow, viewer, channel, Final
  <1>29. CASE ConnJoinVideo
    BY <1>29 DEF ConnJoinVideo, ConnAt, vFlags, vSocks, vUiVars, vWindow, viewer, channel, Final
  <1>30. CASE VidPublish
    BY <1>30 DEF VidPublish, VLockFree, vFlags, vSocks, vUiVars, vWindow, viewer, channel, Final
  <1>31. CASE VidConnect
    BY <1>31 DEF VidConnect, vFlags, vSocks, vUiVars, vWindow, viewer, channel, Final
  <1>32. CASE VidCheck
    BY <1>32 DEF VidCheck, VidAt, vFlags, vSocks, vUiVars, vWindow, viewer, channel, Final
  <1>33. CASE VidFrame
    BY <1>33 DEF VidFrame, VidAt, vFlags, vSocks, vUiVars, vWindow, viewer, channel, Final
  <1>34. CASE VidStreamEnds
    BY <1>34 DEF VidStreamEnds, VidAt, vFlags, vSocks, vUiVars, vWindow, viewer, channel, Final
  <1>35. CASE VidAborted
    BY <1>35 DEF VidAborted, VidAt, vFlags, vSocks, vUiVars, vWindow, viewer, channel, Final
  <1>36. CASE VidClose
    BY <1>36 DEF VidClose, VidAt, CloseVideo, VLockFree, vFlags, vSocks, vUiVars, vWindow,
         viewer, channel, Final
  <1>37. CASE VuiReadConnecting
    BY <1>37 DEF VuiReadConnecting, Vui, vFlags, vSocks, vUiVars, vWindow, viewer, channel,
         Final
  <1>38. CASE VuiStoreConnecting
    BY <1>38 DEF VuiStoreConnecting, Vui, vFlags, vSocks, vUiVars, vWindow, viewer, channel,
         Final
  <1>39. CASE VuiStartConn
    BY <1>39 DEF VuiStartConn, Vui, vFlags, vSocks, vUiVars, vWindow, viewer, channel, Final
  <1>40. CASE VuiLoadOld
    BY <1>40 DEF VuiLoadOld, Vui, vFlags, vSocks, vUiVars, vWindow, viewer, channel, Final
  <1>41. CASE VuiStoreNew
    BY <1>41 DEF VuiStoreNew, Vui, vFlags, vSocks, vUiVars, vWindow, viewer, channel, Final
  <1>42. CASE VuiLoadKeyboard
    BY <1>42 DEF VuiLoadKeyboard, Vui, vFlags, vSocks, vUiVars, vWindow, viewer, channel, Final
  <1>43. CASE VuiLoadMouse
    BY <1>43 DEF VuiLoadMouse, Vui, vFlags, vSocks, vUiVars, vWindow, viewer, channel, Final
  <1>44. CASE VuiCheckGrant
    BY <1>44 DEF VuiCheckGrant, vFlags, vSocks, vUiVars, vWindow, viewer, channel, Final
  <1>45. CASE VuiLockToSend
    BY <1>45 DEF VuiLockToSend, AfterSend, vFlags, vSocks, vUiVars, vWindow, viewer, channel,
         Final
  <1>46. CASE VuiSend
    BY <1>46 DEF VuiSend, Vui, AfterSend, ViewerSends, vFlags, vSocks, vUiVars, vWindow, viewer,
         channel, Final
  <1>47. CASE VuiDisconnectGuard
    BY <1>47 DEF VuiDisconnectGuard, AfterDisconnect, vFlags, vSocks, vUiVars, vWindow, viewer,
         channel, Final
  <1>48. CASE VuiClearConnected
    BY <1>48 DEF VuiClearConnected, Vui, vFlags, vSocks, vUiVars, vWindow, viewer, channel,
         Final
  <1>49. CASE VuiClearConnecting
    BY <1>49 DEF VuiClearConnecting, Vui, vFlags, vSocks, vUiVars, vWindow, viewer, channel,
         Final
  <1>50. CASE VuiReset("keyboard", "dK", "dM")
    BY <1>50 DEF VuiReset, Vui, vFlags, vSocks, vUiVars, vWindow, viewer, channel, Final
  <1>51. CASE VuiReset("mouse", "dM", "dVideo")
    BY <1>51 DEF VuiReset, Vui, vFlags, vSocks, vUiVars, vWindow, viewer, channel, Final
  <1>52. CASE VuiCloseVideo
    BY <1>52 DEF VuiCloseVideo, Vui, CloseVideo, VLockFree, vFlags, vSocks, vUiVars, vWindow,
         viewer, channel, Final
  <1>53. CASE VuiCloseControl
    BY <1>53 DEF VuiCloseControl, Vui, CloseControl, VLockFree, ViewerCloses, vFlags, vSocks,
         vUiVars, vWindow, viewer, channel, Final
  <1>54. CASE VuiPostDisconnected
    BY <1>54, FinalFacts DEF ConnPost, ConnAt, VuiPostDisconnected, Vui, vVars, viewer
  <1>55. CASE VuiJoinConn
    BY <1>55 DEF VuiJoinConn, Vui, vFlags, vSocks, vUiVars, vWindow, viewer, channel, Final
  <1>56. CASE VuiJoinVideo
    BY <1>56 DEF VuiJoinVideo, Vui, vFlags, vSocks, vUiVars, vWindow, viewer, channel, Final
  <1>57. CASE VuiShow
    <2>1. Final' = Final /\ UNCHANGED conn
      BY <1>57, FinalFacts DEF VuiShow
    <2>. QED
      BY <2>1
  <1>58. CASE UserConnects
    BY <1>58 DEF UserConnects, AtRest, vFlags, vSocks, vUiVars, vWindow, viewer, channel, Final
  <1>59. CASE Disconnects(FALSE)
    BY <1>59 DEF Disconnects, AtRest, vFlags, vSocks, vUiVars, vWindow, viewer, channel, Final
  <1>60. CASE Disconnects(TRUE)
    BY <1>60 DEF Disconnects, AtRest, vFlags, vSocks, vUiVars, vWindow, viewer, channel, Final
  <1>61. ASSUME NEW d \in Device, UserToggles(d) PROVE ShowInv'
    BY <1>61 DEF UserToggles, AtRest, vFlags, vSocks, vUiVars, vWindow, viewer, channel, Final
  <1>62. ASSUME NEW d \in Device, UserInputs(d) PROVE ShowInv'
    BY <1>62 DEF UserInputs, AtRest, vFlags, vSocks, vUiVars, vWindow, viewer, channel, Final
  <1>63. ASSUME NEW c \in Conn, HostAccepts(c) PROVE ShowInv'
    BY <1>63 DEF HostAccepts, vFlags, vSocks, vUiVars, vWindow, viewer, channel, Final
  <1>64. ASSUME NEW c \in Conn, HostReads(c) PROVE ShowInv'
    BY <1>64 DEF HostReads, HostReceives, vFlags, vSocks, vUiVars, vWindow, viewer, channel,
         Final
  <1>65. ASSUME NEW S \in (SUBSET Conn) \ {{}}, HostHangsUp(S) PROVE ShowInv'
    BY <1>65 DEF HostHangsUp, HostCloses, vFlags, vSocks, vUiVars, vWindow, viewer, channel,
         Final
  <1>66. ASSUME NEW c \in Conn, NEW line \in HostLines, HostSays(c, line) PROVE ShowInv'
    BY <1>66 DEF HostSays, HostSends, vFlags, vSocks, vUiVars, vWindow, viewer, channel, Final
  <1>67. CASE UNCHANGED vVars
    BY <1>67 DEF vVars, vFlags, vSocks, vUiVars, vWindow, viewer, channel, Final
  <1>. QED
    BY <1>1, <1>2, <1>3, <1>4, <1>5, <1>6, <1>7, <1>8, <1>9, <1>10, <1>11, <1>12, <1>13, <1>14,
       <1>15, <1>16, <1>17, <1>18, <1>19, <1>20, <1>21, <1>22, <1>23, <1>24, <1>25, <1>26,
       <1>27, <1>28, <1>29, <1>30, <1>31, <1>32, <1>33, <1>34, <1>35, <1>36, <1>37, <1>38,
       <1>39, <1>40, <1>41, <1>42, <1>43, <1>44, <1>45, <1>46, <1>47, <1>48, <1>49, <1>50,
       <1>51, <1>52, <1>53, <1>54, <1>55, <1>56, <1>57, <1>58, <1>59, <1>60, <1>61, <1>62,
       <1>63, <1>64, <1>65, <1>66, <1>67 DEF VNext, ViewerNext, ConnStep, ConnOpens, ConnEnds, VidStep, StreamStep, VuiStep, VuiResets,
         ViewerUser, UserDisconnects, UserCloses, HostEnvironment, ViewerGone

\* Each thread posts a bounded number of messages before the user can act again.
LEMMA PostStep ==
    ASSUME VTypeOK, PostInv, [VNext]_vVars
    PROVE  PostInv'
  <1>. USE DEF PostInv, ConnPosts, Connecting, Leaving
  <1>0. conn \in ConnPc /\ vui \in VuiPc /\ Len(states) \in Nat /\ MaxStates \in Nat
    BY FinalFacts DEF VTypeOK
  <1>1. CASE ConnPublish
    BY <1>1, <1>0 DEF ConnPublish, VLockFree, vFlags, vSocks, vUiVars, vWindow, viewer, channel
  <1>2. ASSUME NEW c \in Conn, ConnConnect(c) PROVE PostInv'
    BY <1>2, <1>0 DEF ConnConnect, ConnAt, Connects, vFlags, vSocks, vUiVars, vWindow, viewer,
         channel
  <1>3. CASE ConnConnectFails
    BY <1>3, <1>0 DEF ConnConnectFails, ConnAt, vFlags, vSocks, vUiVars, vWindow, viewer,
         channel
  <1>4. CASE ConnHello
    BY <1>4, <1>0 DEF ConnHello, ConnAt, ViewerSends, vFlags, vSocks, vUiVars, vWindow, viewer,
         channel
  <1>5. ASSUME NEW n \in 1 .. Capacity, ConnAnswered(n) PROVE PostInv'
    BY <1>5, <1>0 DEF ConnAnswered, ConnAt, ViewerReceives, vFlags, vSocks, vUiVars, vWindow,
         viewer, channel
  <1>6. CASE ConnNotAnswered
    BY <1>6, <1>0 DEF ConnNotAnswered, ConnAt, vFlags, vSocks, vUiVars, vWindow, viewer, channel
  <1>7. CASE ConnFail
    BY <1>7, <1>0 DEF ConnFail, ConnAt, CloseControl, VLockFree, ViewerCloses, vFlags, vSocks,
         vUiVars, vWindow, viewer, channel
  <1>8. CASE ConnFailFlag
    BY <1>8, <1>0 DEF ConnFailFlag, ConnAt, vFlags, vSocks, vUiVars, vWindow, viewer, channel
  <1>9. CASE ConnSetConnected(TRUE, "setConnected", "clearConnecting")
    BY <1>9, <1>0 DEF ConnSetConnected, ConnAt, vFlags, vSocks, vUiVars, vWindow, viewer,
         channel
  <1>10. CASE ConnClearConnecting("clearConnecting", "resetK")
    BY <1>10, <1>0 DEF ConnClearConnecting, ConnAt, vFlags, vSocks, vUiVars, vWindow, viewer,
         channel
  <1>11. CASE ConnReset("keyboard", "resetK", "resetM")
    BY <1>11, <1>0 DEF ConnReset, ConnAt, vFlags, vSocks, vUiVars, vWindow, viewer, channel
  <1>12. CASE ConnReset("mouse", "resetM", "postShow")
    BY <1>12, <1>0 DEF ConnReset, ConnAt, vFlags, vSocks, vUiVars, vWindow, viewer, channel
  <1>13. CASE ConnPost(TRUE, "postShow", "spawn")
    BY <1>13, <1>0, FinalFacts DEF ConnPost, ConnAt, vFlags, vSocks, vUiVars, vWindow, viewer,
         channel
  <1>14. CASE ConnSpawn
    BY <1>14, <1>0 DEF ConnSpawn, ConnAt, vFlags, vSocks, vUiVars, vWindow, viewer, channel
  <1>15. CASE ConnCheck
    BY <1>15, <1>0 DEF ConnCheck, ConnAt, vFlags, vSocks, vUiVars, vWindow, viewer, channel
  <1>16. ASSUME NEW n \in 1 .. Capacity, ConnReceive(n) PROVE PostInv'
    BY <1>16, <1>0 DEF ConnReceive, ConnAt, ViewerReceives, vFlags, vSocks, vUiVars, vWindow,
         viewer, channel
  <1>17. CASE ConnReceiveEnds
    BY <1>17, <1>0 DEF ConnReceiveEnds, ConnAt, vFlags, vSocks, vUiVars, vWindow, viewer,
         channel
  <1>18. CASE ConnLinesDone
    BY <1>18, <1>0 DEF ConnLinesDone, ConnAt, vFlags, vSocks, vUiVars, vWindow, viewer, channel
  <1>19. CASE ConnIgnore
    BY <1>19, <1>0 DEF ConnIgnore, vFlags, vSocks, vUiVars, vWindow, viewer, channel
  <1>20. CASE ConnApplyKeyboard
    BY <1>20, <1>0 DEF ConnApplyKeyboard, ConnAt, vFlags, vSocks, vUiVars, vWindow, viewer,
         channel
  <1>21. CASE ConnApplyMouse
    BY <1>21, <1>0 DEF ConnApplyMouse, ConnAt, vFlags, vSocks, vUiVars, vWindow, viewer, channel
  <1>22. CASE ConnSetConnected(FALSE, "end", "endConnecting")
    BY <1>22, <1>0 DEF ConnSetConnected, ConnAt, vFlags, vSocks, vUiVars, vWindow, viewer,
         channel
  <1>23. CASE ConnClearConnecting("endConnecting", "endK")
    BY <1>23, <1>0 DEF ConnClearConnecting, ConnAt, vFlags, vSocks, vUiVars, vWindow, viewer,
         channel
  <1>24. CASE ConnReset("keyboard", "endK", "endM")
    BY <1>24, <1>0 DEF ConnReset, ConnAt, vFlags, vSocks, vUiVars, vWindow, viewer, channel
  <1>25. CASE ConnReset("mouse", "endM", "closeControl")
    BY <1>25, <1>0 DEF ConnReset, ConnAt, vFlags, vSocks, vUiVars, vWindow, viewer, channel
  <1>26. CASE ConnPost(FALSE, "endPost", "ended")
    BY <1>26, <1>0, FinalFacts DEF ConnPost, ConnAt, vFlags, vSocks, vUiVars, vWindow, viewer,
         channel
  <1>27. CASE ConnCloseControl
    BY <1>27, <1>0 DEF ConnCloseControl, ConnAt, CloseControl, VLockFree, ViewerCloses, vFlags,
         vSocks, vUiVars, vWindow, viewer, channel
  <1>28. CASE ConnCloseVideo
    BY <1>28, <1>0 DEF ConnCloseVideo, ConnAt, CloseVideo, VLockFree, vFlags, vSocks, vUiVars,
         vWindow, viewer, channel
  <1>29. CASE ConnJoinVideo
    BY <1>29, <1>0 DEF ConnJoinVideo, ConnAt, vFlags, vSocks, vUiVars, vWindow, viewer, channel
  <1>30. CASE VidPublish
    BY <1>30, <1>0 DEF VidPublish, VLockFree, vFlags, vSocks, vUiVars, vWindow, viewer, channel
  <1>31. CASE VidConnect
    BY <1>31, <1>0 DEF VidConnect, vFlags, vSocks, vUiVars, vWindow, viewer, channel
  <1>32. CASE VidCheck
    BY <1>32, <1>0 DEF VidCheck, VidAt, vFlags, vSocks, vUiVars, vWindow, viewer, channel
  <1>33. CASE VidFrame
    BY <1>33, <1>0 DEF VidFrame, VidAt, vFlags, vSocks, vUiVars, vWindow, viewer, channel
  <1>34. CASE VidStreamEnds
    BY <1>34, <1>0 DEF VidStreamEnds, VidAt, vFlags, vSocks, vUiVars, vWindow, viewer, channel
  <1>35. CASE VidAborted
    BY <1>35, <1>0 DEF VidAborted, VidAt, vFlags, vSocks, vUiVars, vWindow, viewer, channel
  <1>36. CASE VidClose
    BY <1>36, <1>0 DEF VidClose, VidAt, CloseVideo, VLockFree, vFlags, vSocks, vUiVars, vWindow,
         viewer, channel
  <1>37. CASE VuiReadConnecting
    BY <1>37, <1>0 DEF VuiReadConnecting, Vui, vFlags, vSocks, vUiVars, vWindow, viewer, channel
  <1>38. CASE VuiStoreConnecting
    BY <1>38, <1>0 DEF VuiStoreConnecting, Vui, vFlags, vSocks, vUiVars, vWindow, viewer,
         channel
  <1>39. CASE VuiStartConn
    BY <1>39, <1>0 DEF VuiStartConn, Vui, vFlags, vSocks, vUiVars, vWindow, viewer, channel
  <1>40. CASE VuiLoadOld
    BY <1>40, <1>0 DEF VuiLoadOld, Vui, vFlags, vSocks, vUiVars, vWindow, viewer, channel
  <1>41. CASE VuiStoreNew
    BY <1>41, <1>0 DEF VuiStoreNew, Vui, vFlags, vSocks, vUiVars, vWindow, viewer, channel
  <1>42. CASE VuiLoadKeyboard
    BY <1>42, <1>0 DEF VuiLoadKeyboard, Vui, vFlags, vSocks, vUiVars, vWindow, viewer, channel
  <1>43. CASE VuiLoadMouse
    BY <1>43, <1>0, NotDisconnect DEF VuiLoadMouse, Vui, vFlags, vSocks, vUiVars, vWindow,
         viewer, channel
  <1>44. CASE VuiCheckGrant
    BY <1>44, <1>0, NotDisconnect DEF VuiCheckGrant, vFlags, vSocks, vUiVars, vWindow, viewer,
         channel
  <1>45. CASE VuiLockToSend
    BY <1>45, <1>0, NotDisconnect DEF VuiLockToSend, AfterSend, vFlags, vSocks, vUiVars,
         vWindow, viewer, channel
  <1>46. CASE VuiSend
    BY <1>46, <1>0, NotDisconnect DEF VuiSend, Vui, AfterSend, ViewerSends, vFlags, vSocks,
         vUiVars, vWindow, viewer, channel
  <1>47. CASE VuiDisconnectGuard
    <2>1. Len(states) + ConnPosts <= MaxStates + 2 /\ ConnPosts \in Nat
      <3>1. vui \in Leaving
        BY <1>47 DEF VuiDisconnectGuard, VuiPostDisconnected, Vui
      <3>2. ConnPosts \in Nat
        OBVIOUS
      <3>. QED
        BY <3>1, <3>2
    <2>2. ConnPosts' = ConnPosts /\ MaxStates' = MaxStates
      BY <1>47 DEF VuiDisconnectGuard, VuiPostDisconnected
    <2>3. Len(states') \in {Len(states), Len(states) + 1}
      BY <1>47, FinalFacts DEF VuiDisconnectGuard, VuiPostDisconnected, vWindow
    <2>4. vui' \notin Connecting
      BY <1>47 DEF VuiDisconnectGuard, VuiPostDisconnected, Vui, AfterDisconnect
    <2>5. Len(states') = Len(states) \/ vui' \in {"idle", "joinConn"}
      BY <1>47 DEF VuiDisconnectGuard, VuiPostDisconnected, Vui, AfterDisconnect, vWindow
    <2>. HIDE DEF ConnPosts
    <2>6. Len(states') + ConnPosts' <= MaxStates + 4
      BY <1>0, <2>1, <2>2, <2>3
    <2>. QED
      BY <1>0, <2>1, <2>2, <2>4, <2>5, <2>6
  <1>48. CASE VuiClearConnected
    BY <1>48, <1>0 DEF VuiClearConnected, Vui, vFlags, vSocks, vUiVars, vWindow, viewer, channel
  <1>49. CASE VuiClearConnecting
    BY <1>49, <1>0 DEF VuiClearConnecting, Vui, vFlags, vSocks, vUiVars, vWindow, viewer,
         channel
  <1>50. CASE VuiReset("keyboard", "dK", "dM")
    BY <1>50, <1>0 DEF VuiReset, Vui, vFlags, vSocks, vUiVars, vWindow, viewer, channel
  <1>51. CASE VuiReset("mouse", "dM", "dVideo")
    BY <1>51, <1>0 DEF VuiReset, Vui, vFlags, vSocks, vUiVars, vWindow, viewer, channel
  <1>52. CASE VuiCloseVideo
    BY <1>52, <1>0 DEF VuiCloseVideo, Vui, CloseVideo, VLockFree, vFlags, vSocks, vUiVars,
         vWindow, viewer, channel
  <1>53. CASE VuiCloseControl
    BY <1>53, <1>0 DEF VuiCloseControl, Vui, CloseControl, VLockFree, ViewerCloses, vFlags,
         vSocks, vUiVars, vWindow, viewer, channel
  <1>54. CASE VuiPostDisconnected
    <2>1. Len(states) + ConnPosts <= MaxStates + 2 /\ ConnPosts \in Nat
      <3>1. vui \in Leaving
        BY <1>54 DEF VuiDisconnectGuard, VuiPostDisconnected, Vui
      <3>2. ConnPosts \in Nat
        OBVIOUS
      <3>. QED
        BY <3>1, <3>2
    <2>2. ConnPosts' = ConnPosts /\ MaxStates' = MaxStates
      BY <1>54 DEF VuiDisconnectGuard, VuiPostDisconnected
    <2>3. Len(states') \in {Len(states), Len(states) + 1}
      BY <1>54, FinalFacts DEF VuiDisconnectGuard, VuiPostDisconnected, vWindow
    <2>4. vui' \notin Connecting
      BY <1>54 DEF VuiDisconnectGuard, VuiPostDisconnected, Vui, AfterDisconnect
    <2>5. Len(states') = Len(states) \/ vui' \in {"idle", "joinConn"}
      BY <1>54 DEF VuiDisconnectGuard, VuiPostDisconnected, Vui, AfterDisconnect, vWindow
    <2>. HIDE DEF ConnPosts
    <2>6. Len(states') + ConnPosts' <= MaxStates + 4
      BY <1>0, <2>1, <2>2, <2>3
    <2>. QED
      BY <1>0, <2>1, <2>2, <2>4, <2>5, <2>6
  <1>55. CASE VuiJoinConn
    BY <1>55, <1>0 DEF VuiJoinConn, Vui, vFlags, vSocks, vUiVars, vWindow, viewer, channel
  <1>56. CASE VuiJoinVideo
    BY <1>56, <1>0 DEF VuiJoinVideo, Vui, vFlags, vSocks, vUiVars, vWindow, viewer, channel
  <1>57. CASE VuiShow
    <2>1. UNCHANGED <<conn, vui, vOut>> /\ ConnPosts' = ConnPosts /\ ConnPosts \in Nat
      BY <1>57 DEF VuiShow, vUiVars
    <2>2. Len(states') = Len(states) - 1
      BY <1>57, FinalFacts DEF VuiShow
    <2>. HIDE DEF ConnPosts
    <2>. QED
      BY <1>0, <2>1, <2>2
  <1>58. CASE UserConnects
    BY <1>58, <1>0 DEF UserConnects, AtRest, vFlags, vSocks, vUiVars, vWindow, viewer, channel
  <1>59. CASE Disconnects(FALSE)
    BY <1>59, <1>0 DEF Disconnects, AtRest, vFlags, vSocks, vUiVars, vWindow, viewer, channel
  <1>60. CASE Disconnects(TRUE)
    BY <1>60, <1>0 DEF Disconnects, AtRest, vFlags, vSocks, vUiVars, vWindow, viewer, channel
  <1>61. ASSUME NEW d \in Device, UserToggles(d) PROVE PostInv'
    BY <1>61, <1>0 DEF UserToggles, AtRest, vFlags, vSocks, vUiVars, vWindow, viewer, channel
  <1>62. ASSUME NEW d \in Device, UserInputs(d) PROVE PostInv'
    BY <1>62, <1>0 DEF UserInputs, AtRest, vFlags, vSocks, vUiVars, vWindow, viewer, channel
  <1>63. ASSUME NEW c \in Conn, HostAccepts(c) PROVE PostInv'
    BY <1>63, <1>0 DEF HostAccepts, vFlags, vSocks, vUiVars, vWindow, viewer, channel
  <1>64. ASSUME NEW c \in Conn, HostReads(c) PROVE PostInv'
    BY <1>64, <1>0 DEF HostReads, HostReceives, vFlags, vSocks, vUiVars, vWindow, viewer,
         channel
  <1>65. ASSUME NEW S \in (SUBSET Conn) \ {{}}, HostHangsUp(S) PROVE PostInv'
    BY <1>65, <1>0 DEF HostHangsUp, HostCloses, vFlags, vSocks, vUiVars, vWindow, viewer,
         channel
  <1>66. ASSUME NEW c \in Conn, NEW line \in HostLines, HostSays(c, line) PROVE PostInv'
    BY <1>66, <1>0 DEF HostSays, HostSends, vFlags, vSocks, vUiVars, vWindow, viewer, channel
  <1>67. CASE UNCHANGED vVars
    BY <1>67 DEF vVars, vFlags, vSocks, vUiVars, vWindow, viewer, channel
  <1>. QED
    BY <1>1, <1>2, <1>3, <1>4, <1>5, <1>6, <1>7, <1>8, <1>9, <1>10, <1>11, <1>12, <1>13, <1>14,
       <1>15, <1>16, <1>17, <1>18, <1>19, <1>20, <1>21, <1>22, <1>23, <1>24, <1>25, <1>26,
       <1>27, <1>28, <1>29, <1>30, <1>31, <1>32, <1>33, <1>34, <1>35, <1>36, <1>37, <1>38,
       <1>39, <1>40, <1>41, <1>42, <1>43, <1>44, <1>45, <1>46, <1>47, <1>48, <1>49, <1>50,
       <1>51, <1>52, <1>53, <1>54, <1>55, <1>56, <1>57, <1>58, <1>59, <1>60, <1>61, <1>62,
       <1>63, <1>64, <1>65, <1>66, <1>67 DEF VNext, ViewerNext, ConnStep, ConnOpens, ConnEnds, VidStep, StreamStep, VuiStep, VuiResets,
         ViewerUser, UserDisconnects, UserCloses, HostEnvironment, ViewerGone

\* A thread that sends or applies a line has one.
LEMMA LineStep ==
    ASSUME VTypeOK, LineInv, [VNext]_vVars
    PROVE  LineInv'
  <1>. USE DEF LineInv
  <1>0. /\ vDev \in Device /\ InputLine(vDev) \in Line /\ Disconnect \in Line
        /\ [vLine EXCEPT !["mouse"] = vAccess["mouse"]] \in Grant
        /\ \A g \in Grant : AccessLine(g) \in Line
    BY DEF VTypeOK, Line, Grant, Device
  <1>1. CASE ConnPublish
    BY <1>1 DEF ConnPublish, VLockFree, vFlags, vSocks, vUiVars, vWindow, viewer, channel
  <1>2. ASSUME NEW c \in Conn, ConnConnect(c) PROVE LineInv'
    BY <1>2 DEF ConnConnect, ConnAt, Connects, vFlags, vSocks, vUiVars, vWindow, viewer, channel
  <1>3. CASE ConnConnectFails
    BY <1>3 DEF ConnConnectFails, ConnAt, vFlags, vSocks, vUiVars, vWindow, viewer, channel
  <1>4. CASE ConnHello
    BY <1>4 DEF ConnHello, ConnAt, ViewerSends, vFlags, vSocks, vUiVars, vWindow, viewer,
         channel
  <1>5. ASSUME NEW n \in 1 .. Capacity, ConnAnswered(n) PROVE LineInv'
    BY <1>5 DEF ConnAnswered, ConnAt, ViewerReceives, vFlags, vSocks, vUiVars, vWindow, viewer,
         channel
  <1>6. CASE ConnNotAnswered
    BY <1>6 DEF ConnNotAnswered, ConnAt, vFlags, vSocks, vUiVars, vWindow, viewer, channel
  <1>7. CASE ConnFail
    BY <1>7 DEF ConnFail, ConnAt, CloseControl, VLockFree, ViewerCloses, vFlags, vSocks,
         vUiVars, vWindow, viewer, channel
  <1>8. CASE ConnFailFlag
    BY <1>8 DEF ConnFailFlag, ConnAt, vFlags, vSocks, vUiVars, vWindow, viewer, channel
  <1>9. CASE ConnSetConnected(TRUE, "setConnected", "clearConnecting")
    BY <1>9 DEF ConnSetConnected, ConnAt, vFlags, vSocks, vUiVars, vWindow, viewer, channel
  <1>10. CASE ConnClearConnecting("clearConnecting", "resetK")
    BY <1>10 DEF ConnClearConnecting, ConnAt, vFlags, vSocks, vUiVars, vWindow, viewer, channel
  <1>11. CASE ConnReset("keyboard", "resetK", "resetM")
    BY <1>11 DEF ConnReset, ConnAt, vFlags, vSocks, vUiVars, vWindow, viewer, channel
  <1>12. CASE ConnReset("mouse", "resetM", "postShow")
    BY <1>12 DEF ConnReset, ConnAt, vFlags, vSocks, vUiVars, vWindow, viewer, channel
  <1>13. CASE ConnPost(TRUE, "postShow", "spawn")
    BY <1>13 DEF ConnPost, ConnAt, vFlags, vSocks, vUiVars, vWindow, viewer, channel
  <1>14. CASE ConnSpawn
    BY <1>14 DEF ConnSpawn, ConnAt, vFlags, vSocks, vUiVars, vWindow, viewer, channel
  <1>15. CASE ConnCheck
    BY <1>15 DEF ConnCheck, ConnAt, vFlags, vSocks, vUiVars, vWindow, viewer, channel
  <1>16. ASSUME NEW n \in 1 .. Capacity, ConnReceive(n) PROVE LineInv'
    BY <1>16 DEF ConnReceive, ConnAt, ViewerReceives, vFlags, vSocks, vUiVars, vWindow, viewer,
         channel
  <1>17. CASE ConnReceiveEnds
    BY <1>17 DEF ConnReceiveEnds, ConnAt, vFlags, vSocks, vUiVars, vWindow, viewer, channel
  <1>18. CASE ConnLinesDone
    BY <1>18 DEF ConnLinesDone, ConnAt, vFlags, vSocks, vUiVars, vWindow, viewer, channel
  <1>19. CASE ConnIgnore
    BY <1>19 DEF ConnIgnore, vFlags, vSocks, vUiVars, vWindow, viewer, channel
  <1>20. CASE ConnApplyKeyboard
    BY <1>20 DEF ConnApplyKeyboard, ConnAt, vFlags, vSocks, vUiVars, vWindow, viewer, channel
  <1>21. CASE ConnApplyMouse
    BY <1>21 DEF ConnApplyMouse, ConnAt, vFlags, vSocks, vUiVars, vWindow, viewer, channel
  <1>22. CASE ConnSetConnected(FALSE, "end", "endConnecting")
    BY <1>22 DEF ConnSetConnected, ConnAt, vFlags, vSocks, vUiVars, vWindow, viewer, channel
  <1>23. CASE ConnClearConnecting("endConnecting", "endK")
    BY <1>23 DEF ConnClearConnecting, ConnAt, vFlags, vSocks, vUiVars, vWindow, viewer, channel
  <1>24. CASE ConnReset("keyboard", "endK", "endM")
    BY <1>24 DEF ConnReset, ConnAt, vFlags, vSocks, vUiVars, vWindow, viewer, channel
  <1>25. CASE ConnReset("mouse", "endM", "closeControl")
    BY <1>25 DEF ConnReset, ConnAt, vFlags, vSocks, vUiVars, vWindow, viewer, channel
  <1>26. CASE ConnPost(FALSE, "endPost", "ended")
    BY <1>26 DEF ConnPost, ConnAt, vFlags, vSocks, vUiVars, vWindow, viewer, channel
  <1>27. CASE ConnCloseControl
    BY <1>27 DEF ConnCloseControl, ConnAt, CloseControl, VLockFree, ViewerCloses, vFlags,
         vSocks, vUiVars, vWindow, viewer, channel
  <1>28. CASE ConnCloseVideo
    BY <1>28 DEF ConnCloseVideo, ConnAt, CloseVideo, VLockFree, vFlags, vSocks, vUiVars,
         vWindow, viewer, channel
  <1>29. CASE ConnJoinVideo
    BY <1>29 DEF ConnJoinVideo, ConnAt, vFlags, vSocks, vUiVars, vWindow, viewer, channel
  <1>30. CASE VidPublish
    BY <1>30 DEF VidPublish, VLockFree, vFlags, vSocks, vUiVars, vWindow, viewer, channel
  <1>31. CASE VidConnect
    BY <1>31 DEF VidConnect, vFlags, vSocks, vUiVars, vWindow, viewer, channel
  <1>32. CASE VidCheck
    BY <1>32 DEF VidCheck, VidAt, vFlags, vSocks, vUiVars, vWindow, viewer, channel
  <1>33. CASE VidFrame
    BY <1>33 DEF VidFrame, VidAt, vFlags, vSocks, vUiVars, vWindow, viewer, channel
  <1>34. CASE VidStreamEnds
    BY <1>34 DEF VidStreamEnds, VidAt, vFlags, vSocks, vUiVars, vWindow, viewer, channel
  <1>35. CASE VidAborted
    BY <1>35 DEF VidAborted, VidAt, vFlags, vSocks, vUiVars, vWindow, viewer, channel
  <1>36. CASE VidClose
    BY <1>36 DEF VidClose, VidAt, CloseVideo, VLockFree, vFlags, vSocks, vUiVars, vWindow,
         viewer, channel
  <1>37. CASE VuiReadConnecting
    BY <1>37 DEF VuiReadConnecting, Vui, vFlags, vSocks, vUiVars, vWindow, viewer, channel
  <1>38. CASE VuiStoreConnecting
    BY <1>38 DEF VuiStoreConnecting, Vui, vFlags, vSocks, vUiVars, vWindow, viewer, channel
  <1>39. CASE VuiStartConn
    BY <1>39 DEF VuiStartConn, Vui, vFlags, vSocks, vUiVars, vWindow, viewer, channel
  <1>40. CASE VuiLoadOld
    BY <1>40 DEF VuiLoadOld, Vui, vFlags, vSocks, vUiVars, vWindow, viewer, channel
  <1>41. CASE VuiStoreNew
    BY <1>41 DEF VuiStoreNew, Vui, vFlags, vSocks, vUiVars, vWindow, viewer, channel
  <1>42. CASE VuiLoadKeyboard
    BY <1>42 DEF VuiLoadKeyboard, Vui, vFlags, vSocks, vUiVars, vWindow, viewer, channel
  <1>43. CASE VuiLoadMouse
    BY <1>43, <1>0 DEF VuiLoadMouse, Vui, vFlags, vSocks, vUiVars, vWindow, viewer, channel
  <1>44. CASE VuiCheckGrant
    BY <1>44, <1>0 DEF VuiCheckGrant, vFlags, vSocks, vUiVars, vWindow, viewer, channel
  <1>45. CASE VuiLockToSend
    BY <1>45, <1>0 DEF VuiLockToSend, AfterSend, vFlags, vSocks, vUiVars, vWindow, viewer,
         channel
  <1>46. CASE VuiSend
    BY <1>46, <1>0 DEF VuiSend, Vui, AfterSend, ViewerSends, vFlags, vSocks, vUiVars, vWindow,
         viewer, channel
  <1>47. CASE VuiDisconnectGuard
    BY <1>47, <1>0 DEF VuiDisconnectGuard, AfterDisconnect, vFlags, vSocks, vUiVars, vWindow,
         viewer, channel
  <1>48. CASE VuiClearConnected
    BY <1>48 DEF VuiClearConnected, Vui, vFlags, vSocks, vUiVars, vWindow, viewer, channel
  <1>49. CASE VuiClearConnecting
    BY <1>49 DEF VuiClearConnecting, Vui, vFlags, vSocks, vUiVars, vWindow, viewer, channel
  <1>50. CASE VuiReset("keyboard", "dK", "dM")
    BY <1>50 DEF VuiReset, Vui, vFlags, vSocks, vUiVars, vWindow, viewer, channel
  <1>51. CASE VuiReset("mouse", "dM", "dVideo")
    BY <1>51 DEF VuiReset, Vui, vFlags, vSocks, vUiVars, vWindow, viewer, channel
  <1>52. CASE VuiCloseVideo
    BY <1>52 DEF VuiCloseVideo, Vui, CloseVideo, VLockFree, vFlags, vSocks, vUiVars, vWindow,
         viewer, channel
  <1>53. CASE VuiCloseControl
    BY <1>53 DEF VuiCloseControl, Vui, CloseControl, VLockFree, ViewerCloses, vFlags, vSocks,
         vUiVars, vWindow, viewer, channel
  <1>54. CASE VuiPostDisconnected
    BY <1>54 DEF VuiPostDisconnected, Vui, AfterDisconnect, vFlags, vSocks, vUiVars, vWindow,
         viewer, channel
  <1>55. CASE VuiJoinConn
    BY <1>55 DEF VuiJoinConn, Vui, vFlags, vSocks, vUiVars, vWindow, viewer, channel
  <1>56. CASE VuiJoinVideo
    BY <1>56 DEF VuiJoinVideo, Vui, vFlags, vSocks, vUiVars, vWindow, viewer, channel
  <1>57. CASE VuiShow
    BY <1>57 DEF VuiShow, vFlags, vSocks, vUiVars, vWindow, viewer, channel
  <1>58. CASE UserConnects
    BY <1>58 DEF UserConnects, AtRest, vFlags, vSocks, vUiVars, vWindow, viewer, channel
  <1>59. CASE Disconnects(FALSE)
    BY <1>59, <1>0 DEF Disconnects, AtRest, vFlags, vSocks, vUiVars, vWindow, viewer, channel
  <1>60. CASE Disconnects(TRUE)
    BY <1>60, <1>0 DEF Disconnects, AtRest, vFlags, vSocks, vUiVars, vWindow, viewer, channel
  <1>61. ASSUME NEW d \in Device, UserToggles(d) PROVE LineInv'
    BY <1>61 DEF UserToggles, AtRest, vFlags, vSocks, vUiVars, vWindow, viewer, channel
  <1>62. ASSUME NEW d \in Device, UserInputs(d) PROVE LineInv'
    BY <1>62 DEF UserInputs, AtRest, vFlags, vSocks, vUiVars, vWindow, viewer, channel
  <1>63. ASSUME NEW c \in Conn, HostAccepts(c) PROVE LineInv'
    BY <1>63 DEF HostAccepts, vFlags, vSocks, vUiVars, vWindow, viewer, channel
  <1>64. ASSUME NEW c \in Conn, HostReads(c) PROVE LineInv'
    BY <1>64 DEF HostReads, HostReceives, vFlags, vSocks, vUiVars, vWindow, viewer, channel
  <1>65. ASSUME NEW S \in (SUBSET Conn) \ {{}}, HostHangsUp(S) PROVE LineInv'
    BY <1>65 DEF HostHangsUp, HostCloses, vFlags, vSocks, vUiVars, vWindow, viewer, channel
  <1>66. ASSUME NEW c \in Conn, NEW line \in HostLines, HostSays(c, line) PROVE LineInv'
    BY <1>66 DEF HostSays, HostSends, vFlags, vSocks, vUiVars, vWindow, viewer, channel
  <1>67. CASE UNCHANGED vVars
    BY <1>67 DEF vVars, vFlags, vSocks, vUiVars, vWindow, viewer, channel
  <1>. QED
    BY <1>1, <1>2, <1>3, <1>4, <1>5, <1>6, <1>7, <1>8, <1>9, <1>10, <1>11, <1>12, <1>13, <1>14,
       <1>15, <1>16, <1>17, <1>18, <1>19, <1>20, <1>21, <1>22, <1>23, <1>24, <1>25, <1>26,
       <1>27, <1>28, <1>29, <1>30, <1>31, <1>32, <1>33, <1>34, <1>35, <1>36, <1>37, <1>38,
       <1>39, <1>40, <1>41, <1>42, <1>43, <1>44, <1>45, <1>46, <1>47, <1>48, <1>49, <1>50,
       <1>51, <1>52, <1>53, <1>54, <1>55, <1>56, <1>57, <1>58, <1>59, <1>60, <1>61, <1>62,
       <1>63, <1>64, <1>65, <1>66, <1>67 DEF VNext, ViewerNext, ConnStep, ConnOpens, ConnEnds, VidStep, StreamStep, VuiStep, VuiResets,
         ViewerUser, UserDisconnects, UserCloses, HostEnvironment, ViewerGone

\* The types of the channel.
LEMMA VChannelTypeStep ==
    ASSUME VTypeOK, OwnInv, LineInv, [VNext]_vVars
    PROVE  ChannelTypeOK'
  <1>0. /\ ChannelTypeOK /\ Hello \in Line
        /\ conn \in Linked => link \in Conn
        /\ vui = "sending" => vOut \in Line
        /\ link \in Conn \cup {NoConn}
    BY LineMembers DEF VTypeOK, OwnInv, LineInv
  <1>1. CASE ConnPublish
    BY <1>1, <1>0 DEF ConnPublish, VLockFree, vFlags, vSocks, vUiVars, vWindow, viewer, channel,
         ChannelTypeOK
  <1>2. ASSUME NEW c \in Conn, ConnConnect(c) PROVE ChannelTypeOK'
    BY <1>2, ChannelTypes, <1>0 DEF ConnConnect, ConnAt, vFlags, vSocks, vUiVars, vWindow,
         viewer, channel
  <1>3. CASE ConnConnectFails
    BY <1>3, <1>0 DEF ConnConnectFails, ConnAt, vFlags, vSocks, vUiVars, vWindow, viewer,
         channel, ChannelTypeOK
  <1>4. CASE ConnHello
    BY <1>4, ChannelTypes, <1>0 DEF Linked, ConnSession, ConnHello, ConnAt, vFlags, vSocks, vUiVars, vWindow, viewer,
         channel
  <1>5. ASSUME NEW n \in 1 .. Capacity, ConnAnswered(n) PROVE ChannelTypeOK'
    BY <1>5, ChannelTypes, <1>0 DEF Linked, ConnSession, ConnAnswered, ConnAt, vFlags, vSocks, vUiVars, vWindow,
         viewer, channel
  <1>6. CASE ConnNotAnswered
    BY <1>6, <1>0 DEF ConnNotAnswered, ConnAt, vFlags, vSocks, vUiVars, vWindow, viewer,
         channel, ChannelTypeOK
  <1>7. CASE ConnFail
    BY <1>7, CloseTypes, <1>0 DEF ConnFail, ConnAt, CloseControl, VLockFree, vFlags, vSocks,
         vUiVars, vWindow, viewer, channel
  <1>8. CASE ConnFailFlag
    BY <1>8, <1>0 DEF ConnFailFlag, ConnAt, vFlags, vSocks, vUiVars, vWindow, viewer, channel,
         ChannelTypeOK
  <1>9. CASE ConnSetConnected(TRUE, "setConnected", "clearConnecting")
    BY <1>9, <1>0 DEF ConnSetConnected, ConnAt, vFlags, vSocks, vUiVars, vWindow, viewer,
         channel, ChannelTypeOK
  <1>10. CASE ConnClearConnecting("clearConnecting", "resetK")
    BY <1>10, <1>0 DEF ConnClearConnecting, ConnAt, vFlags, vSocks, vUiVars, vWindow, viewer,
         channel, ChannelTypeOK
  <1>11. CASE ConnReset("keyboard", "resetK", "resetM")
    BY <1>11, <1>0 DEF ConnReset, ConnAt, vFlags, vSocks, vUiVars, vWindow, viewer, channel,
         ChannelTypeOK
  <1>12. CASE ConnReset("mouse", "resetM", "postShow")
    BY <1>12, <1>0 DEF ConnReset, ConnAt, vFlags, vSocks, vUiVars, vWindow, viewer, channel,
         ChannelTypeOK
  <1>13. CASE ConnPost(TRUE, "postShow", "spawn")
    BY <1>13, <1>0 DEF ConnPost, ConnAt, vFlags, vSocks, vUiVars, vWindow, viewer, channel,
         ChannelTypeOK
  <1>14. CASE ConnSpawn
    BY <1>14, <1>0 DEF ConnSpawn, ConnAt, vFlags, vSocks, vUiVars, vWindow, viewer, channel,
         ChannelTypeOK
  <1>15. CASE ConnCheck
    BY <1>15, <1>0 DEF ConnCheck, ConnAt, vFlags, vSocks, vUiVars, vWindow, viewer, channel,
         ChannelTypeOK
  <1>16. ASSUME NEW n \in 1 .. Capacity, ConnReceive(n) PROVE ChannelTypeOK'
    BY <1>16, ChannelTypes, <1>0 DEF Linked, ConnSession, ConnReceive, ConnAt, vFlags, vSocks, vUiVars, vWindow,
         viewer, channel
  <1>17. CASE ConnReceiveEnds
    BY <1>17, <1>0 DEF ConnReceiveEnds, ConnAt, vFlags, vSocks, vUiVars, vWindow, viewer,
         channel, ChannelTypeOK
  <1>18. CASE ConnLinesDone
    BY <1>18, <1>0 DEF ConnLinesDone, ConnAt, vFlags, vSocks, vUiVars, vWindow, viewer, channel,
         ChannelTypeOK
  <1>19. CASE ConnIgnore
    BY <1>19, <1>0 DEF ConnIgnore, vFlags, vSocks, vUiVars, vWindow, viewer, channel,
         ChannelTypeOK
  <1>20. CASE ConnApplyKeyboard
    BY <1>20, <1>0 DEF ConnApplyKeyboard, ConnAt, vFlags, vSocks, vUiVars, vWindow, viewer,
         channel, ChannelTypeOK
  <1>21. CASE ConnApplyMouse
    BY <1>21, <1>0 DEF ConnApplyMouse, ConnAt, vFlags, vSocks, vUiVars, vWindow, viewer,
         channel, ChannelTypeOK
  <1>22. CASE ConnSetConnected(FALSE, "end", "endConnecting")
    BY <1>22, <1>0 DEF ConnSetConnected, ConnAt, vFlags, vSocks, vUiVars, vWindow, viewer,
         channel, ChannelTypeOK
  <1>23. CASE ConnClearConnecting("endConnecting", "endK")
    BY <1>23, <1>0 DEF ConnClearConnecting, ConnAt, vFlags, vSocks, vUiVars, vWindow, viewer,
         channel, ChannelTypeOK
  <1>24. CASE ConnReset("keyboard", "endK", "endM")
    BY <1>24, <1>0 DEF ConnReset, ConnAt, vFlags, vSocks, vUiVars, vWindow, viewer, channel,
         ChannelTypeOK
  <1>25. CASE ConnReset("mouse", "endM", "closeControl")
    BY <1>25, <1>0 DEF ConnReset, ConnAt, vFlags, vSocks, vUiVars, vWindow, viewer, channel,
         ChannelTypeOK
  <1>26. CASE ConnPost(FALSE, "endPost", "ended")
    BY <1>26, <1>0 DEF ConnPost, ConnAt, vFlags, vSocks, vUiVars, vWindow, viewer, channel,
         ChannelTypeOK
  <1>27. CASE ConnCloseControl
    BY <1>27, CloseTypes, <1>0 DEF ConnCloseControl, ConnAt, CloseControl, VLockFree, vFlags,
         vSocks, vUiVars, vWindow, viewer, channel
  <1>28. CASE ConnCloseVideo
    BY <1>28, <1>0 DEF ConnCloseVideo, ConnAt, CloseVideo, VLockFree, vFlags, vSocks, vUiVars,
         vWindow, viewer, channel, ChannelTypeOK
  <1>29. CASE ConnJoinVideo
    BY <1>29, <1>0 DEF ConnJoinVideo, ConnAt, vFlags, vSocks, vUiVars, vWindow, viewer, channel,
         ChannelTypeOK
  <1>30. CASE VidPublish
    BY <1>30, <1>0 DEF VidPublish, VLockFree, vFlags, vSocks, vUiVars, vWindow, viewer, channel,
         ChannelTypeOK
  <1>31. CASE VidConnect
    BY <1>31, <1>0 DEF VidConnect, vFlags, vSocks, vUiVars, vWindow, viewer, channel,
         ChannelTypeOK
  <1>32. CASE VidCheck
    BY <1>32, <1>0 DEF VidCheck, VidAt, vFlags, vSocks, vUiVars, vWindow, viewer, channel,
         ChannelTypeOK
  <1>33. CASE VidFrame
    BY <1>33, <1>0 DEF VidFrame, VidAt, vFlags, vSocks, vUiVars, vWindow, viewer, channel,
         ChannelTypeOK
  <1>34. CASE VidStreamEnds
    BY <1>34, <1>0 DEF VidStreamEnds, VidAt, vFlags, vSocks, vUiVars, vWindow, viewer, channel,
         ChannelTypeOK
  <1>35. CASE VidAborted
    BY <1>35, <1>0 DEF VidAborted, VidAt, vFlags, vSocks, vUiVars, vWindow, viewer, channel,
         ChannelTypeOK
  <1>36. CASE VidClose
    BY <1>36, <1>0 DEF VidClose, VidAt, CloseVideo, VLockFree, vFlags, vSocks, vUiVars, vWindow,
         viewer, channel, ChannelTypeOK
  <1>37. CASE VuiReadConnecting
    BY <1>37, <1>0 DEF VuiReadConnecting, Vui, vFlags, vSocks, vUiVars, vWindow, viewer,
         channel, ChannelTypeOK
  <1>38. CASE VuiStoreConnecting
    BY <1>38, <1>0 DEF VuiStoreConnecting, Vui, vFlags, vSocks, vUiVars, vWindow, viewer,
         channel, ChannelTypeOK
  <1>39. CASE VuiStartConn
    BY <1>39, <1>0 DEF VuiStartConn, Vui, vFlags, vSocks, vUiVars, vWindow, viewer, channel,
         ChannelTypeOK
  <1>40. CASE VuiLoadOld
    BY <1>40, <1>0 DEF VuiLoadOld, Vui, vFlags, vSocks, vUiVars, vWindow, viewer, channel,
         ChannelTypeOK
  <1>41. CASE VuiStoreNew
    BY <1>41, <1>0 DEF VuiStoreNew, Vui, vFlags, vSocks, vUiVars, vWindow, viewer, channel,
         ChannelTypeOK
  <1>42. CASE VuiLoadKeyboard
    BY <1>42, <1>0 DEF VuiLoadKeyboard, Vui, vFlags, vSocks, vUiVars, vWindow, viewer, channel,
         ChannelTypeOK
  <1>43. CASE VuiLoadMouse
    BY <1>43, <1>0 DEF VuiLoadMouse, Vui, vFlags, vSocks, vUiVars, vWindow, viewer, channel,
         ChannelTypeOK
  <1>44. CASE VuiCheckGrant
    BY <1>44, <1>0 DEF VuiCheckGrant, vFlags, vSocks, vUiVars, vWindow, viewer, channel,
         ChannelTypeOK
  <1>45. CASE VuiLockToSend
    BY <1>45, <1>0 DEF VuiLockToSend, AfterSend, vFlags, vSocks, vUiVars, vWindow, viewer,
         channel, ChannelTypeOK
  <1>46. CASE VuiSend
    BY <1>46, ChannelTypes, <1>0 DEF VuiSend, Vui, AfterSend, vFlags, vSocks, vUiVars, vWindow,
         viewer, channel, ChannelTypeOK
  <1>47. CASE VuiDisconnectGuard
    BY <1>47, <1>0 DEF VuiDisconnectGuard, AfterDisconnect, vFlags, vSocks, vUiVars, vWindow,
         viewer, channel, ChannelTypeOK
  <1>48. CASE VuiClearConnected
    BY <1>48, <1>0 DEF VuiClearConnected, Vui, vFlags, vSocks, vUiVars, vWindow, viewer,
         channel, ChannelTypeOK
  <1>49. CASE VuiClearConnecting
    BY <1>49, <1>0 DEF VuiClearConnecting, Vui, vFlags, vSocks, vUiVars, vWindow, viewer,
         channel, ChannelTypeOK
  <1>50. CASE VuiReset("keyboard", "dK", "dM")
    BY <1>50, <1>0 DEF VuiReset, Vui, vFlags, vSocks, vUiVars, vWindow, viewer, channel,
         ChannelTypeOK
  <1>51. CASE VuiReset("mouse", "dM", "dVideo")
    BY <1>51, <1>0 DEF VuiReset, Vui, vFlags, vSocks, vUiVars, vWindow, viewer, channel,
         ChannelTypeOK
  <1>52. CASE VuiCloseVideo
    BY <1>52, <1>0 DEF VuiCloseVideo, Vui, CloseVideo, VLockFree, vFlags, vSocks, vUiVars,
         vWindow, viewer, channel, ChannelTypeOK
  <1>53. CASE VuiCloseControl
    BY <1>53, CloseTypes, <1>0 DEF VuiCloseControl, Vui, CloseControl, VLockFree, vFlags,
         vSocks, vUiVars, vWindow, viewer, channel
  <1>54. CASE VuiPostDisconnected
    BY <1>54, <1>0 DEF VuiPostDisconnected, Vui, AfterDisconnect, vFlags, vSocks, vUiVars,
         vWindow, viewer, channel, ChannelTypeOK
  <1>55. CASE VuiJoinConn
    BY <1>55, <1>0 DEF VuiJoinConn, Vui, vFlags, vSocks, vUiVars, vWindow, viewer, channel,
         ChannelTypeOK
  <1>56. CASE VuiJoinVideo
    BY <1>56, <1>0 DEF VuiJoinVideo, Vui, vFlags, vSocks, vUiVars, vWindow, viewer, channel,
         ChannelTypeOK
  <1>57. CASE VuiShow
    BY <1>57, <1>0 DEF VuiShow, vFlags, vSocks, vUiVars, vWindow, viewer, channel, ChannelTypeOK
  <1>58. CASE UserConnects
    BY <1>58, <1>0 DEF UserConnects, AtRest, vFlags, vSocks, vUiVars, vWindow, viewer, channel,
         ChannelTypeOK
  <1>59. CASE Disconnects(FALSE)
    BY <1>59, <1>0 DEF Disconnects, AtRest, vFlags, vSocks, vUiVars, vWindow, viewer, channel,
         ChannelTypeOK
  <1>60. CASE Disconnects(TRUE)
    BY <1>60, <1>0 DEF Disconnects, AtRest, vFlags, vSocks, vUiVars, vWindow, viewer, channel,
         ChannelTypeOK
  <1>61. ASSUME NEW d \in Device, UserToggles(d) PROVE ChannelTypeOK'
    BY <1>61, <1>0 DEF UserToggles, AtRest, vFlags, vSocks, vUiVars, vWindow, viewer, channel,
         ChannelTypeOK
  <1>62. ASSUME NEW d \in Device, UserInputs(d) PROVE ChannelTypeOK'
    BY <1>62, <1>0 DEF UserInputs, AtRest, vFlags, vSocks, vUiVars, vWindow, viewer, channel,
         ChannelTypeOK
  <1>63. ASSUME NEW c \in Conn, HostAccepts(c) PROVE ChannelTypeOK'
    BY <1>63, <1>0 DEF HostAccepts, vFlags, vSocks, vUiVars, vWindow, viewer, channel,
         ChannelTypeOK
  <1>64. ASSUME NEW c \in Conn, HostReads(c) PROVE ChannelTypeOK'
    BY <1>64, ChannelTypes, <1>0 DEF HostReads, vFlags, vSocks, vUiVars, vWindow, viewer,
         channel
  <1>65. ASSUME NEW S \in (SUBSET Conn) \ {{}}, HostHangsUp(S) PROVE ChannelTypeOK'
    BY <1>65, CloseTypes, <1>0 DEF HostHangsUp, vFlags, vSocks, vUiVars, vWindow, viewer,
         channel
  <1>66. ASSUME NEW c \in Conn, NEW line \in HostLines, HostSays(c, line) PROVE ChannelTypeOK'
    BY <1>66, ChannelTypes, <1>0, HostLinesAssumption DEF HostSays, vFlags, vSocks, vUiVars,
         vWindow, viewer, channel
  <1>67. CASE UNCHANGED vVars
    BY <1>67, <1>0 DEF vVars, vFlags, vSocks, vUiVars, vWindow, viewer, channel, ChannelTypeOK
  <1>. QED
    BY <1>1, <1>2, <1>3, <1>4, <1>5, <1>6, <1>7, <1>8, <1>9, <1>10, <1>11, <1>12, <1>13, <1>14,
       <1>15, <1>16, <1>17, <1>18, <1>19, <1>20, <1>21, <1>22, <1>23, <1>24, <1>25, <1>26,
       <1>27, <1>28, <1>29, <1>30, <1>31, <1>32, <1>33, <1>34, <1>35, <1>36, <1>37, <1>38,
       <1>39, <1>40, <1>41, <1>42, <1>43, <1>44, <1>45, <1>46, <1>47, <1>48, <1>49, <1>50,
       <1>51, <1>52, <1>53, <1>54, <1>55, <1>56, <1>57, <1>58, <1>59, <1>60, <1>61, <1>62,
       <1>63, <1>64, <1>65, <1>66, <1>67 DEF VNext, ViewerNext, ConnStep, ConnOpens, ConnEnds, VidStep, StreamStep, VuiStep, VuiResets,
         ViewerUser, UserDisconnects, UserCloses, HostEnvironment, ViewerGone

\* The types of the viewer's own variables.
LocalTypeOK ==
    /\ vAccess \in Grant /\ link \in Conn \cup {NoConn}
    /\ conn \in ConnPc /\ vPending \in Seq(Line) /\ vid \in VidPc
    /\ vui \in VuiPc /\ vDev \in Device /\ vLine \in Grant
    /\ vOut \in Line \cup {NoLine}
    /\ states \in Seq(BOOLEAN)

FlagsTypeOK ==
    /\ vConnected \in BOOLEAN /\ vConnecting \in BOOLEAN /\ control \in BOOLEAN
    /\ videoOpen \in BOOLEAN /\ closing \in BOOLEAN /\ shown \in BOOLEAN

\* The types of the flags.
LEMMA FlagsTypeStep ==
    ASSUME FlagsTypeOK, LocalTypeOK, [VNext]_vVars
    PROVE  FlagsTypeOK'
  <1>. USE DEF FlagsTypeOK
  <1>0. states # <<>> => Head(states) \in BOOLEAN
    BY DEF LocalTypeOK
  <1>1. CASE ConnPublish
    BY <1>1 DEF ConnPublish, VLockFree, vFlags, vSocks, vUiVars, vWindow, viewer
  <1>2. ASSUME NEW c \in Conn, ConnConnect(c) PROVE FlagsTypeOK'
    BY <1>2 DEF ConnConnect, ConnAt, vFlags, vSocks, vUiVars, vWindow, viewer
  <1>3. CASE ConnConnectFails
    BY <1>3 DEF ConnConnectFails, ConnAt, vFlags, vSocks, vUiVars, vWindow, viewer
  <1>4. CASE ConnHello
    BY <1>4 DEF ConnHello, ConnAt, vFlags, vSocks, vUiVars, vWindow, viewer
  <1>5. ASSUME NEW n \in 1 .. Capacity, ConnAnswered(n) PROVE FlagsTypeOK'
    BY <1>5 DEF ConnAnswered, ConnAt, vFlags, vSocks, vUiVars, vWindow, viewer
  <1>6. CASE ConnNotAnswered
    BY <1>6 DEF ConnNotAnswered, ConnAt, vFlags, vSocks, vUiVars, vWindow, viewer
  <1>7. CASE ConnFail
    BY <1>7 DEF ConnFail, ConnAt, CloseControl, VLockFree, vFlags, vSocks, vUiVars, vWindow,
         viewer
  <1>8. CASE ConnFailFlag
    BY <1>8 DEF ConnFailFlag, ConnAt, vFlags, vSocks, vUiVars, vWindow, viewer
  <1>9. CASE ConnSetConnected(TRUE, "setConnected", "clearConnecting")
    BY <1>9 DEF ConnSetConnected, ConnAt, vFlags, vSocks, vUiVars, vWindow, viewer
  <1>10. CASE ConnClearConnecting("clearConnecting", "resetK")
    BY <1>10 DEF ConnClearConnecting, ConnAt, vFlags, vSocks, vUiVars, vWindow, viewer
  <1>11. CASE ConnReset("keyboard", "resetK", "resetM")
    BY <1>11 DEF ConnReset, ConnAt, vFlags, vSocks, vUiVars, vWindow, viewer
  <1>12. CASE ConnReset("mouse", "resetM", "postShow")
    BY <1>12 DEF ConnReset, ConnAt, vFlags, vSocks, vUiVars, vWindow, viewer
  <1>13. CASE ConnPost(TRUE, "postShow", "spawn")
    BY <1>13 DEF ConnPost, ConnAt, vFlags, vSocks, vUiVars, vWindow, viewer
  <1>14. CASE ConnSpawn
    BY <1>14 DEF ConnSpawn, ConnAt, vFlags, vSocks, vUiVars, vWindow, viewer
  <1>15. CASE ConnCheck
    BY <1>15 DEF ConnCheck, ConnAt, vFlags, vSocks, vUiVars, vWindow, viewer
  <1>16. ASSUME NEW n \in 1 .. Capacity, ConnReceive(n) PROVE FlagsTypeOK'
    BY <1>16 DEF ConnReceive, ConnAt, vFlags, vSocks, vUiVars, vWindow, viewer
  <1>17. CASE ConnReceiveEnds
    BY <1>17 DEF ConnReceiveEnds, ConnAt, vFlags, vSocks, vUiVars, vWindow, viewer
  <1>18. CASE ConnLinesDone
    BY <1>18 DEF ConnLinesDone, ConnAt, vFlags, vSocks, vUiVars, vWindow, viewer
  <1>19. CASE ConnIgnore
    BY <1>19 DEF ConnIgnore, vFlags, vSocks, vUiVars, vWindow, viewer
  <1>20. CASE ConnApplyKeyboard
    BY <1>20 DEF ConnApplyKeyboard, ConnAt, vFlags, vSocks, vUiVars, vWindow, viewer
  <1>21. CASE ConnApplyMouse
    BY <1>21 DEF ConnApplyMouse, ConnAt, vFlags, vSocks, vUiVars, vWindow, viewer
  <1>22. CASE ConnSetConnected(FALSE, "end", "endConnecting")
    BY <1>22 DEF ConnSetConnected, ConnAt, vFlags, vSocks, vUiVars, vWindow, viewer
  <1>23. CASE ConnClearConnecting("endConnecting", "endK")
    BY <1>23 DEF ConnClearConnecting, ConnAt, vFlags, vSocks, vUiVars, vWindow, viewer
  <1>24. CASE ConnReset("keyboard", "endK", "endM")
    BY <1>24 DEF ConnReset, ConnAt, vFlags, vSocks, vUiVars, vWindow, viewer
  <1>25. CASE ConnReset("mouse", "endM", "closeControl")
    BY <1>25 DEF ConnReset, ConnAt, vFlags, vSocks, vUiVars, vWindow, viewer
  <1>26. CASE ConnPost(FALSE, "endPost", "ended")
    BY <1>26 DEF ConnPost, ConnAt, vFlags, vSocks, vUiVars, vWindow, viewer
  <1>27. CASE ConnCloseControl
    BY <1>27 DEF ConnCloseControl, ConnAt, CloseControl, VLockFree, vFlags, vSocks, vUiVars,
         vWindow, viewer
  <1>28. CASE ConnCloseVideo
    BY <1>28 DEF ConnCloseVideo, ConnAt, CloseVideo, VLockFree, vFlags, vSocks, vUiVars,
         vWindow, viewer
  <1>29. CASE ConnJoinVideo
    BY <1>29 DEF ConnJoinVideo, ConnAt, vFlags, vSocks, vUiVars, vWindow, viewer
  <1>30. CASE VidPublish
    BY <1>30 DEF VidPublish, VLockFree, vFlags, vSocks, vUiVars, vWindow, viewer
  <1>31. CASE VidConnect
    BY <1>31 DEF VidConnect, vFlags, vSocks, vUiVars, vWindow, viewer
  <1>32. CASE VidCheck
    BY <1>32 DEF VidCheck, VidAt, vFlags, vSocks, vUiVars, vWindow, viewer
  <1>33. CASE VidFrame
    BY <1>33 DEF VidFrame, VidAt, vFlags, vSocks, vUiVars, vWindow, viewer
  <1>34. CASE VidStreamEnds
    BY <1>34 DEF VidStreamEnds, VidAt, vFlags, vSocks, vUiVars, vWindow, viewer
  <1>35. CASE VidAborted
    BY <1>35 DEF VidAborted, VidAt, vFlags, vSocks, vUiVars, vWindow, viewer
  <1>36. CASE VidClose
    BY <1>36 DEF VidClose, VidAt, CloseVideo, VLockFree, vFlags, vSocks, vUiVars, vWindow,
         viewer
  <1>37. CASE VuiReadConnecting
    BY <1>37 DEF VuiReadConnecting, Vui, vFlags, vSocks, vUiVars, vWindow, viewer
  <1>38. CASE VuiStoreConnecting
    BY <1>38 DEF VuiStoreConnecting, Vui, vFlags, vSocks, vUiVars, vWindow, viewer
  <1>39. CASE VuiStartConn
    BY <1>39 DEF VuiStartConn, Vui, vFlags, vSocks, vUiVars, vWindow, viewer
  <1>40. CASE VuiLoadOld
    BY <1>40 DEF VuiLoadOld, Vui, vFlags, vSocks, vUiVars, vWindow, viewer
  <1>41. CASE VuiStoreNew
    BY <1>41 DEF VuiStoreNew, Vui, vFlags, vSocks, vUiVars, vWindow, viewer
  <1>42. CASE VuiLoadKeyboard
    BY <1>42 DEF VuiLoadKeyboard, Vui, vFlags, vSocks, vUiVars, vWindow, viewer
  <1>43. CASE VuiLoadMouse
    BY <1>43 DEF VuiLoadMouse, Vui, vFlags, vSocks, vUiVars, vWindow, viewer
  <1>44. CASE VuiCheckGrant
    BY <1>44 DEF VuiCheckGrant, vFlags, vSocks, vUiVars, vWindow, viewer
  <1>45. CASE VuiLockToSend
    BY <1>45 DEF VuiLockToSend, AfterSend, vFlags, vSocks, vUiVars, vWindow, viewer
  <1>46. CASE VuiSend
    BY <1>46 DEF VuiSend, Vui, AfterSend, vFlags, vSocks, vUiVars, vWindow, viewer
  <1>47. CASE VuiDisconnectGuard
    BY <1>47 DEF VuiDisconnectGuard, AfterDisconnect, vFlags, vSocks, vUiVars, vWindow, viewer
  <1>48. CASE VuiClearConnected
    BY <1>48 DEF VuiClearConnected, Vui, vFlags, vSocks, vUiVars, vWindow, viewer
  <1>49. CASE VuiClearConnecting
    BY <1>49 DEF VuiClearConnecting, Vui, vFlags, vSocks, vUiVars, vWindow, viewer
  <1>50. CASE VuiReset("keyboard", "dK", "dM")
    BY <1>50 DEF VuiReset, Vui, vFlags, vSocks, vUiVars, vWindow, viewer
  <1>51. CASE VuiReset("mouse", "dM", "dVideo")
    BY <1>51 DEF VuiReset, Vui, vFlags, vSocks, vUiVars, vWindow, viewer
  <1>52. CASE VuiCloseVideo
    BY <1>52 DEF VuiCloseVideo, Vui, CloseVideo, VLockFree, vFlags, vSocks, vUiVars, vWindow,
         viewer
  <1>53. CASE VuiCloseControl
    BY <1>53 DEF VuiCloseControl, Vui, CloseControl, VLockFree, vFlags, vSocks, vUiVars,
         vWindow, viewer
  <1>54. CASE VuiPostDisconnected
    BY <1>54 DEF VuiPostDisconnected, Vui, AfterDisconnect, vFlags, vSocks, vUiVars, vWindow,
         viewer
  <1>55. CASE VuiJoinConn
    BY <1>55 DEF VuiJoinConn, Vui, vFlags, vSocks, vUiVars, vWindow, viewer
  <1>56. CASE VuiJoinVideo
    BY <1>56 DEF VuiJoinVideo, Vui, vFlags, vSocks, vUiVars, vWindow, viewer
  <1>57. CASE VuiShow
    BY <1>57, <1>0 DEF VuiShow, vFlags, vSocks, vUiVars, vWindow, viewer
  <1>58. CASE UserConnects
    BY <1>58 DEF UserConnects, AtRest, vFlags, vSocks, vUiVars, vWindow, viewer
  <1>59. CASE Disconnects(FALSE)
    BY <1>59 DEF Disconnects, AtRest, vFlags, vSocks, vUiVars, vWindow, viewer
  <1>60. CASE Disconnects(TRUE)
    BY <1>60 DEF Disconnects, AtRest, vFlags, vSocks, vUiVars, vWindow, viewer
  <1>61. ASSUME NEW d \in Device, UserToggles(d) PROVE FlagsTypeOK'
    BY <1>61 DEF UserToggles, AtRest, vFlags, vSocks, vUiVars, vWindow, viewer
  <1>62. ASSUME NEW d \in Device, UserInputs(d) PROVE FlagsTypeOK'
    BY <1>62 DEF UserInputs, AtRest, vFlags, vSocks, vUiVars, vWindow, viewer
  <1>63. ASSUME NEW c \in Conn, HostAccepts(c) PROVE FlagsTypeOK'
    BY <1>63 DEF HostAccepts, vFlags, vSocks, vUiVars, vWindow, viewer
  <1>64. ASSUME NEW c \in Conn, HostReads(c) PROVE FlagsTypeOK'
    BY <1>64 DEF HostReads, vFlags, vSocks, vUiVars, vWindow, viewer
  <1>65. ASSUME NEW S \in (SUBSET Conn) \ {{}}, HostHangsUp(S) PROVE FlagsTypeOK'
    BY <1>65 DEF HostHangsUp, vFlags, vSocks, vUiVars, vWindow, viewer
  <1>66. ASSUME NEW c \in Conn, NEW line \in HostLines, HostSays(c, line) PROVE FlagsTypeOK'
    BY <1>66 DEF HostSays, vFlags, vSocks, vUiVars, vWindow, viewer
  <1>67. CASE UNCHANGED vVars
    BY <1>67 DEF vVars, vFlags, vSocks, vUiVars, vWindow, viewer, channel
  <1>. QED
    BY <1>1, <1>2, <1>3, <1>4, <1>5, <1>6, <1>7, <1>8, <1>9, <1>10, <1>11, <1>12, <1>13, <1>14,
       <1>15, <1>16, <1>17, <1>18, <1>19, <1>20, <1>21, <1>22, <1>23, <1>24, <1>25, <1>26,
       <1>27, <1>28, <1>29, <1>30, <1>31, <1>32, <1>33, <1>34, <1>35, <1>36, <1>37, <1>38,
       <1>39, <1>40, <1>41, <1>42, <1>43, <1>44, <1>45, <1>46, <1>47, <1>48, <1>49, <1>50,
       <1>51, <1>52, <1>53, <1>54, <1>55, <1>56, <1>57, <1>58, <1>59, <1>60, <1>61, <1>62,
       <1>63, <1>64, <1>65, <1>66, <1>67 DEF VNext, ViewerNext, ConnStep, ConnOpens, ConnEnds, VidStep, StreamStep, VuiStep, VuiResets,
         ViewerUser, UserDisconnects, UserCloses, HostEnvironment, ViewerGone

\* The types of the viewer's own variables.
LEMMA LocalTypeStep ==
    ASSUME LocalTypeOK, ChannelTypeOK, LineInv, OwnInv, [VNext]_vVars
    PROVE  LocalTypeOK'
  <1>. USE DEF LocalTypeOK, ConnPc, VidPc, VuiPc, Grant, Device
  <1>0. /\ vDev \in Device /\ InputLine(vDev) \in Line /\ Disconnect \in Line
        /\ \A g \in Grant : AccessLine(g) \in Line
        /\ conn = "applyM" => vPending # <<>>
        /\ \A c \in Conn : toViewer[c] \in Seq(Line)
        /\ conn \in Linked => link \in Conn
        /\ \A d \in Device : vAccess[d] \in BOOLEAN
        /\ [vLine EXCEPT !["mouse"] = vAccess["mouse"]] \in Grant /\ Blocked \in Grant
        /\ AccessLine([vLine EXCEPT !["mouse"] = vAccess["mouse"]]) \in Line
    BY DEF Line, LineInv, ChannelTypeOK, OwnInv, Grant, Device, Blocked
  <1>1. CASE ConnPublish
    BY <1>1 DEF ConnPublish, VLockFree, vFlags, vSocks, vUiVars, vWindow, viewer
  <1>2. ASSUME NEW c \in Conn, ConnConnect(c) PROVE LocalTypeOK'
    BY <1>2 DEF ConnConnect, ConnAt, Connects, vFlags, vSocks, vUiVars, vWindow, viewer
  <1>3. CASE ConnConnectFails
    BY <1>3 DEF ConnConnectFails, ConnAt, vFlags, vSocks, vUiVars, vWindow, viewer
  <1>4. CASE ConnHello
    BY <1>4 DEF ConnHello, ConnAt, ViewerSends, vFlags, vSocks, vUiVars, vWindow, viewer
  <1>5. ASSUME NEW n \in 1 .. Capacity, ConnAnswered(n) PROVE LocalTypeOK'
    BY <1>5 DEF ConnAnswered, ConnAt, ViewerReceives, vFlags, vSocks, vUiVars, vWindow, viewer
  <1>6. CASE ConnNotAnswered
    BY <1>6 DEF ConnNotAnswered, ConnAt, vFlags, vSocks, vUiVars, vWindow, viewer
  <1>7. CASE ConnFail
    BY <1>7 DEF ConnFail, ConnAt, CloseControl, VLockFree, ViewerCloses, vFlags, vSocks,
         vUiVars, vWindow, viewer
  <1>8. CASE ConnFailFlag
    BY <1>8 DEF ConnFailFlag, ConnAt, vFlags, vSocks, vUiVars, vWindow, viewer
  <1>9. CASE ConnSetConnected(TRUE, "setConnected", "clearConnecting")
    BY <1>9 DEF ConnSetConnected, ConnAt, vFlags, vSocks, vUiVars, vWindow, viewer
  <1>10. CASE ConnClearConnecting("clearConnecting", "resetK")
    BY <1>10 DEF ConnClearConnecting, ConnAt, vFlags, vSocks, vUiVars, vWindow, viewer
  <1>11. CASE ConnReset("keyboard", "resetK", "resetM")
    BY <1>11 DEF ConnReset, ConnAt, vFlags, vSocks, vUiVars, vWindow, viewer
  <1>12. CASE ConnReset("mouse", "resetM", "postShow")
    BY <1>12 DEF ConnReset, ConnAt, vFlags, vSocks, vUiVars, vWindow, viewer
  <1>13. CASE ConnPost(TRUE, "postShow", "spawn")
    BY <1>13 DEF ConnPost, ConnAt, vFlags, vSocks, vUiVars, vWindow, viewer
  <1>14. CASE ConnSpawn
    BY <1>14 DEF ConnSpawn, ConnAt, vFlags, vSocks, vUiVars, vWindow, viewer
  <1>15. CASE ConnCheck
    BY <1>15 DEF ConnCheck, ConnAt, vFlags, vSocks, vUiVars, vWindow, viewer
  <1>16. ASSUME NEW n \in 1 .. Capacity, ConnReceive(n) PROVE LocalTypeOK'
    <2>1. link \in Conn /\ n \in 1 .. Len(toViewer[link])
      BY <1>16, <1>0 DEF ConnReceive, ConnAt, ViewerReceives, Linked, ConnSession
    <2>2. First(toViewer[link], n) \in Seq(Line)
      BY <1>0, <2>1, SubSeqOfLines
    <2>. QED
      BY <1>16, <2>2 DEF ConnReceive, ConnAt, vFlags, vSocks, vUiVars, vWindow
  <1>17. CASE ConnReceiveEnds
    BY <1>17 DEF ConnReceiveEnds, ConnAt, vFlags, vSocks, vUiVars, vWindow, viewer
  <1>18. CASE ConnLinesDone
    BY <1>18 DEF ConnLinesDone, ConnAt, vFlags, vSocks, vUiVars, vWindow, viewer
  <1>19. CASE ConnIgnore
    BY <1>19 DEF ConnIgnore, vFlags, vSocks, vUiVars, vWindow, viewer
  <1>20. CASE ConnApplyKeyboard
    BY <1>20, <1>0, LineFields DEF ConnApplyKeyboard, ConnAt, vFlags, vSocks, vUiVars, vWindow,
         viewer
  <1>21. CASE ConnApplyMouse
    BY <1>21, <1>0, LineFields DEF ConnApplyMouse, ConnAt, vFlags, vSocks, vUiVars, vWindow,
         viewer
  <1>22. CASE ConnSetConnected(FALSE, "end", "endConnecting")
    BY <1>22 DEF ConnSetConnected, ConnAt, vFlags, vSocks, vUiVars, vWindow, viewer
  <1>23. CASE ConnClearConnecting("endConnecting", "endK")
    BY <1>23 DEF ConnClearConnecting, ConnAt, vFlags, vSocks, vUiVars, vWindow, viewer
  <1>24. CASE ConnReset("keyboard", "endK", "endM")
    BY <1>24 DEF ConnReset, ConnAt, vFlags, vSocks, vUiVars, vWindow, viewer
  <1>25. CASE ConnReset("mouse", "endM", "closeControl")
    BY <1>25 DEF ConnReset, ConnAt, vFlags, vSocks, vUiVars, vWindow, viewer
  <1>26. CASE ConnPost(FALSE, "endPost", "ended")
    BY <1>26 DEF ConnPost, ConnAt, vFlags, vSocks, vUiVars, vWindow, viewer
  <1>27. CASE ConnCloseControl
    BY <1>27 DEF ConnCloseControl, ConnAt, CloseControl, VLockFree, ViewerCloses, vFlags,
         vSocks, vUiVars, vWindow, viewer
  <1>28. CASE ConnCloseVideo
    BY <1>28 DEF ConnCloseVideo, ConnAt, CloseVideo, VLockFree, vFlags, vSocks, vUiVars,
         vWindow, viewer
  <1>29. CASE ConnJoinVideo
    BY <1>29 DEF ConnJoinVideo, ConnAt, vFlags, vSocks, vUiVars, vWindow, viewer
  <1>30. CASE VidPublish
    BY <1>30 DEF VidPublish, VLockFree, vFlags, vSocks, vUiVars, vWindow, viewer
  <1>31. CASE VidConnect
    BY <1>31 DEF VidConnect, vFlags, vSocks, vUiVars, vWindow, viewer
  <1>32. CASE VidCheck
    BY <1>32 DEF VidCheck, VidAt, vFlags, vSocks, vUiVars, vWindow, viewer
  <1>33. CASE VidFrame
    BY <1>33 DEF VidFrame, VidAt, vFlags, vSocks, vUiVars, vWindow, viewer
  <1>34. CASE VidStreamEnds
    BY <1>34 DEF VidStreamEnds, VidAt, vFlags, vSocks, vUiVars, vWindow, viewer
  <1>35. CASE VidAborted
    BY <1>35 DEF VidAborted, VidAt, vFlags, vSocks, vUiVars, vWindow, viewer
  <1>36. CASE VidClose
    BY <1>36 DEF VidClose, VidAt, CloseVideo, VLockFree, vFlags, vSocks, vUiVars, vWindow,
         viewer
  <1>37. CASE VuiReadConnecting
    BY <1>37 DEF VuiReadConnecting, Vui, vFlags, vSocks, vUiVars, vWindow, viewer
  <1>38. CASE VuiStoreConnecting
    BY <1>38 DEF VuiStoreConnecting, Vui, vFlags, vSocks, vUiVars, vWindow, viewer
  <1>39. CASE VuiStartConn
    BY <1>39 DEF VuiStartConn, Vui, vFlags, vSocks, vUiVars, vWindow, viewer
  <1>40. CASE VuiLoadOld
    BY <1>40 DEF VuiLoadOld, Vui, vFlags, vSocks, vUiVars, vWindow, viewer
  <1>41. CASE VuiStoreNew
    BY <1>41 DEF VuiStoreNew, Vui, vFlags, vSocks, vUiVars, vWindow, viewer
  <1>42. CASE VuiLoadKeyboard
    BY <1>42 DEF VuiLoadKeyboard, Vui, vFlags, vSocks, vUiVars, vWindow, viewer
  <1>43. CASE VuiLoadMouse
    BY <1>43, <1>0 DEF VuiLoadMouse, Vui, vFlags, vSocks, vUiVars, vWindow, viewer
  <1>44. CASE VuiCheckGrant
    BY <1>44, <1>0 DEF VuiCheckGrant, vFlags, vSocks, vUiVars, vWindow, viewer
  <1>45. CASE VuiLockToSend
    BY <1>45 DEF VuiLockToSend, AfterSend, vFlags, vSocks, vUiVars, vWindow, viewer
  <1>46. CASE VuiSend
    BY <1>46 DEF VuiSend, Vui, AfterSend, ViewerSends, vFlags, vSocks, vUiVars, vWindow, viewer
  <1>47. CASE VuiDisconnectGuard
    BY <1>47, <1>0 DEF VuiDisconnectGuard, AfterDisconnect, vFlags, vSocks, vUiVars, vWindow,
         viewer
  <1>48. CASE VuiClearConnected
    BY <1>48 DEF VuiClearConnected, Vui, vFlags, vSocks, vUiVars, vWindow, viewer
  <1>49. CASE VuiClearConnecting
    BY <1>49 DEF VuiClearConnecting, Vui, vFlags, vSocks, vUiVars, vWindow, viewer
  <1>50. CASE VuiReset("keyboard", "dK", "dM")
    BY <1>50 DEF VuiReset, Vui, vFlags, vSocks, vUiVars, vWindow, viewer
  <1>51. CASE VuiReset("mouse", "dM", "dVideo")
    BY <1>51 DEF VuiReset, Vui, vFlags, vSocks, vUiVars, vWindow, viewer
  <1>52. CASE VuiCloseVideo
    BY <1>52 DEF VuiCloseVideo, Vui, CloseVideo, VLockFree, vFlags, vSocks, vUiVars, vWindow,
         viewer
  <1>53. CASE VuiCloseControl
    BY <1>53 DEF VuiCloseControl, Vui, CloseControl, VLockFree, ViewerCloses, vFlags, vSocks,
         vUiVars, vWindow, viewer
  <1>54. CASE VuiPostDisconnected
    BY <1>54 DEF VuiPostDisconnected, Vui, AfterDisconnect, vFlags, vSocks, vUiVars, vWindow,
         viewer
  <1>55. CASE VuiJoinConn
    BY <1>55 DEF VuiJoinConn, Vui, vFlags, vSocks, vUiVars, vWindow, viewer
  <1>56. CASE VuiJoinVideo
    BY <1>56 DEF VuiJoinVideo, Vui, vFlags, vSocks, vUiVars, vWindow, viewer
  <1>57. CASE VuiShow
    BY <1>57 DEF VuiShow, vFlags, vSocks, vUiVars, vWindow, viewer
  <1>58. CASE UserConnects
    BY <1>58 DEF UserConnects, AtRest, vFlags, vSocks, vUiVars, vWindow, viewer
  <1>59. CASE Disconnects(FALSE)
    BY <1>59, <1>0 DEF Disconnects, AtRest, vFlags, vSocks, vUiVars, vWindow, viewer
  <1>60. CASE Disconnects(TRUE)
    BY <1>60, <1>0 DEF Disconnects, AtRest, vFlags, vSocks, vUiVars, vWindow, viewer
  <1>61. ASSUME NEW d \in Device, UserToggles(d) PROVE LocalTypeOK'
    BY <1>61 DEF UserToggles, AtRest, vFlags, vSocks, vUiVars, vWindow, viewer
  <1>62. ASSUME NEW d \in Device, UserInputs(d) PROVE LocalTypeOK'
    BY <1>62 DEF UserInputs, AtRest, vFlags, vSocks, vUiVars, vWindow, viewer
  <1>63. ASSUME NEW c \in Conn, HostAccepts(c) PROVE LocalTypeOK'
    BY <1>63 DEF HostAccepts, vFlags, vSocks, vUiVars, vWindow, viewer
  <1>64. ASSUME NEW c \in Conn, HostReads(c) PROVE LocalTypeOK'
    BY <1>64 DEF HostReads, HostReceives, vFlags, vSocks, vUiVars, vWindow, viewer
  <1>65. ASSUME NEW S \in (SUBSET Conn) \ {{}}, HostHangsUp(S) PROVE LocalTypeOK'
    BY <1>65 DEF HostHangsUp, HostCloses, vFlags, vSocks, vUiVars, vWindow, viewer
  <1>66. ASSUME NEW c \in Conn, NEW line \in HostLines, HostSays(c, line) PROVE LocalTypeOK'
    BY <1>66 DEF HostSays, HostSends, vFlags, vSocks, vUiVars, vWindow, viewer
  <1>67. CASE UNCHANGED vVars
    BY <1>67 DEF vVars, vFlags, vSocks, vUiVars, vWindow, viewer, channel
  <1>. QED
    BY <1>1, <1>2, <1>3, <1>4, <1>5, <1>6, <1>7, <1>8, <1>9, <1>10, <1>11, <1>12, <1>13, <1>14,
       <1>15, <1>16, <1>17, <1>18, <1>19, <1>20, <1>21, <1>22, <1>23, <1>24, <1>25, <1>26,
       <1>27, <1>28, <1>29, <1>30, <1>31, <1>32, <1>33, <1>34, <1>35, <1>36, <1>37, <1>38,
       <1>39, <1>40, <1>41, <1>42, <1>43, <1>44, <1>45, <1>46, <1>47, <1>48, <1>49, <1>50,
       <1>51, <1>52, <1>53, <1>54, <1>55, <1>56, <1>57, <1>58, <1>59, <1>60, <1>61, <1>62,
       <1>63, <1>64, <1>65, <1>66, <1>67 DEF VNext, ViewerNext, ConnStep, ConnOpens, ConnEnds, VidStep, StreamStep, VuiStep, VuiResets,
         ViewerUser, UserDisconnects, UserCloses, HostEnvironment, ViewerGone

------------------------------------------------------------------------------
(* The invariant.                                                           *)

VInv == VTypeOK /\ OwnInv /\ FlagInv /\ LineInv /\ ShowInv /\ PostInv

\* VTypeOK in its parts.
LEMMA TypeParts ==
    VTypeOK <=> ChannelTypeOK /\ LocalTypeOK /\ FlagsTypeOK /\ Len(states) <= MaxStates + 4
  BY DEF VTypeOK, LocalTypeOK, FlagsTypeOK

\* The queue is within its bound.
LEMMA QueueBound ==
    ASSUME LocalTypeOK, PostInv
    PROVE  Len(states) <= MaxStates + 4
  <1>1. Len(states) \in Nat /\ MaxStates \in Nat
    BY StatesAssumption DEF LocalTypeOK
  <1>2. ConnPosts \in Nat
    BY DEF ConnPosts
  <1>. QED
    BY <1>1, <1>2 DEF PostInv

\* VInv holds initially.
LEMMA VInitInv ==
    ASSUME VInit
    PROVE  VInv
  <1>. USE DEF VInit
  <1>1. LocalTypeOK
    <2>1. Blocked \in Grant
      BY DEF Blocked, Grant, Device
    <2>2. vPending \in Seq(Line) /\ states \in Seq(BOOLEAN)
      OBVIOUS
    <2>. QED
      BY <2>1, <2>2 DEF LocalTypeOK, ConnPc, VidPc, VuiPc, Device
  <1>2. ChannelTypeOK
    BY DEF ChannelInit, ChannelTypeOK
  <1>3. FlagsTypeOK
    BY DEF FlagsTypeOK
  <1>4. PostInv
    BY StatesAssumption DEF PostInv, ConnPosts, Connecting, Leaving
  <1>5. VTypeOK
    BY <1>1, <1>2, <1>3, <1>4, QueueBound, TypeParts
  <1>6. OwnInv
    BY DEF OwnInv, ViewerOwnsSockets, Linked, Spawned, ConnSession, ChannelInit
  <1>7. FlagInv /\ LineInv
    BY DEF FlagInv, LineInv
  <1>8. ShowInv
    BY DEF ShowInv, Final, Spawned
  <1>. QED
    BY <1>4, <1>5, <1>6, <1>7, <1>8 DEF VInv

\* VInv is inductive.
LEMMA VStep == VInv /\ [VNext]_vVars => VInv'
  <1>. SUFFICES ASSUME VInv, [VNext]_vVars
                PROVE  VInv'
    OBVIOUS
  <1>. USE DEF VInv
  <1>1. LocalTypeOK /\ FlagsTypeOK /\ ChannelTypeOK
    BY TypeParts
  <1>2. LocalTypeOK'
    BY <1>1, LocalTypeStep
  <1>3. FlagsTypeOK'
    BY <1>1, FlagsTypeStep
  <1>4. ChannelTypeOK'
    BY VChannelTypeStep
  <1>5. OwnInv' /\ FlagInv' /\ LineInv'
    BY OwnStep, VFlagStep, LineStep
  <1>6. ShowInv' /\ PostInv'
    BY ShowStep, PostStep
  <1>7. (Len(states) <= MaxStates + 4)'
    <2>1. LocalTypeOK /\ PostInv => Len(states) <= MaxStates + 4
      BY QueueBound
    <2>2. (LocalTypeOK /\ PostInv => Len(states) <= MaxStates + 4)'
      BY QueueBound, PTL
    <2>. QED
      BY <1>2, <1>6, <2>2
  <1>8. (VTypeOK <=> ChannelTypeOK /\ LocalTypeOK /\ FlagsTypeOK
                       /\ Len(states) <= MaxStates + 4)'
    BY TypeParts, PTL
  <1>9. VTypeOK'
    BY <1>2, <1>3, <1>4, <1>7, <1>8
  <1>. QED
    BY <1>5, <1>6, <1>9

\* The viewer keeps VInv, whatever the host sends and whenever it hangs up.
THEOREM VInductive == VSpec => []VInv
  BY VInitInv, VStep, PTL DEF VSpec

\* The viewer's variables keep their types, and no more window messages wait than
\* the user's last action and the two threads can have posted.
THEOREM VTyped == VSpec => []VTypeOK
  <1>1. VInv => VTypeOK
    BY DEF VInv
  <1>. QED
    BY <1>1, VInductive, PTL

\* No socket of the viewer leaks: whichever of the two threads closes it, an open
\* socket belongs to a thread that will (close_control_socket_safe and
\* close_video_socket_safe).
THEOREM ViewerSocketsOwned == VSpec => []ViewerOwnsSockets
  <1>1. VInv => ViewerOwnsSockets
    BY DEF VInv, OwnInv
  <1>. QED
    BY <1>1, VInductive, PTL

\* A connection thread that is over has left the viewer disconnected: the flags are
\* cleared by two threads in any order, and neither can be set again after it.
THEOREM EndedStaysDisconnected == VSpec => []EndedIsDisconnected
  <1>1. VInv => EndedIsDisconnected
    <2>. SUFFICES ASSUME VInv, conn \in {"none", "ended"}
                  PROVE  ~vConnected /\ (vui = "idle" => ~vConnecting)
      BY DEF EndedIsDisconnected
    <2>. QED
      BY DEF VInv, FlagInv
  <1>. QED
    BY <1>1, VInductive, PTL

\* The Connect button comes back: the last WM_CONNECTION_STATE to be handled says
\* FALSE in every order in which the two threads can post.
THEOREM ConnectButtonBack == VSpec => []ConnectComesBack
  <1>1. VInv => ConnectComesBack
    <2>. SUFFICES ASSUME VInv, states = <<>>,
                         conn \in {"none", "ended", "publish", "connect", "hello",
                                  "recvOk", "fail", "failFlag"}
                  PROVE  ~shown
      BY DEF ConnectComesBack
    <2>1. shown \in BOOLEAN
      BY DEF VInv, VTypeOK
    <2>2. Final = FALSE
      BY DEF VInv, ShowInv, Spawned
    <2>. QED
      BY <2>1, <2>2 DEF Final
  <1>. QED
    BY <1>1, VInductive, PTL

=============================================================================
