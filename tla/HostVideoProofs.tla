-------------------------- MODULE HostVideoProofs --------------------------
(***************************************************************************)
(* Proofs about HostVideo, for every set of connections, every size of the *)
(* socket buffers and every number of units a frame.                       *)
(*                                                                         *)
(* Neither safety property is inductive: what a stop leaves behind depends *)
(* on where the video thread was when the stop closed its sockets.         *)
(* VideoInv says for each point of the thread what it may hold there.      *)
(***************************************************************************)
EXTENDS HostVideo, TLAPS

Serving == Streaming \cup {"publish", "start", "closeClient"}

\* The thread and the window: a thread exists exactly while the server is not off, and
\* the flag is up until the stop.
ThreadInv ==
    /\ vid = "none" <=> ui = "off"
    /\ running <=> ui = "on"

\* What the thread has in its locals at each point.
LocalInv ==
    /\ cur # NoConn <=> vid \in Serving
    /\ capture # "none" => vid \in Streaming \cup {"closeClient"}
    /\ vid = "send" => units > 0

\* The listening socket, and the connections that wait at it.
ListenerInv ==
    /\ listener # "none" => vid \notin {"none", "create", "ended"}
    /\ listener = "listening" => vid # "bind"
    /\ \A c \in Conn : hostEnd[c] = "backlog" => listener = "listening"

\* A connection that is accepted is open until it is published: only then can a stop
\* close it.
ClientInv ==
    /\ StreamOwnsSocket
    /\ vid = "publish" => client = NoConn /\ hostEnd[cur] = "open"

VideoInv == VideoTypeOK /\ ThreadInv /\ LocalInv /\ ListenerInv /\ ClientInv

------------------------------------------------------------------------------
LEMMA VideoInit == Init => VideoInv
  <1>. SUFFICES ASSUME Init PROVE VideoInv
    OBVIOUS
  <1>. USE DEF Init
  <1>1. VideoTypeOK
    <2>1. 0 \in 0 .. Room /\ 0 \in 0 .. MaxUnits
      BY VideoAssumption
    <2>. QED
      BY <2>1 DEF VideoTypeOK, VidPc, UiPc
  <1>2. ThreadInv /\ LocalInv
    BY DEF ThreadInv, LocalInv, Serving, Streaming
  <1>3. ListenerInv
    BY DEF ListenerInv
  <1>4. ClientInv
    BY VideoAssumption DEF ClientInv, StreamOwnsSocket, Streaming
  <1>. QED
    BY <1>1, <1>2, <1>3, <1>4 DEF VideoInv

\* The types: a thread that sends has units left, and its socket is one of Conn.
LEMMA VideoTypeStep ==
    ASSUME VideoTypeOK, LocalInv, VideoAssumption, [Next]_vars
    PROVE  VideoTypeOK'
  <1>. USE DEF VideoTypeOK, LocalInv, Streaming, VidPc, UiPc, Serving
  <1>1. CASE VidCreate
    BY <1>1 DEF VidCreate, Vid, sockets, stream, channel, host
  <1>2. CASE VidListen
    BY <1>2 DEF VidListen, Vid, sockets, stream, channel, host
  <1>3. CASE VidListenFails
    BY <1>3 DEF VidListenFails, Vid, sockets, stream, channel, host
  <1>4. CASE VidMedia
    BY <1>4 DEF VidMedia, Vid, sockets, stream, channel, host
  <1>5. CASE VidLoop
    BY <1>5 DEF VidLoop, Vid, sockets, stream, channel, host
  <1>6. ASSUME NEW c \in Conn, VidAccept(c) PROVE VideoTypeOK'
    BY <1>6 DEF VidAccept, Vid, sockets, stream, channel, host
  <1>7. CASE VidAcceptFails
    BY <1>7 DEF VidAcceptFails, Vid, sockets, stream, channel, host
  <1>8. CASE VidPublish
    BY <1>8 DEF VidPublish, Vid, sockets, stream, channel, host
  <1>9. CASE VidCloseClient
    BY <1>9 DEF VidCloseClient, Vid, HostCloses, sockets, stream, channel, host
  <1>10. CASE VidCloseListener
    BY <1>10 DEF VidCloseListener, Vid, HostCloses, Waiting, sockets, stream, channel, host
  <1>11. CASE VidStart
    BY <1>11 DEF VidStart, Initialized, sockets, stream, channel, host
  <1>12. CASE VidCheck
    BY <1>12 DEF VidCheck, Vid, sockets, stream, channel, host
  <1>13. CASE VidIdle
    BY <1>13 DEF VidIdle, Vid, sockets, stream, channel, host
  <1>14. CASE VidFrame
    BY <1>14 DEF VidFrame, Vid, sockets, stream, channel, host
  <1>15. CASE VidLost
    BY <1>15 DEF VidLost, Vid, sockets, stream, channel, host
  <1>16. CASE VidReinit
    BY <1>16 DEF VidReinit, Vid, Initialized, sockets, stream, channel, host
  <1>17. CASE VidError
    BY <1>17 DEF VidError, Vid, sockets, stream, channel, host
  <1>18. CASE VidNoEncoder
    BY <1>18 DEF VidNoEncoder, Vid, sockets, stream, channel, host
  <1>19. ASSUME NEW n \in 0 .. MaxUnits, VidEncode(n) PROVE VideoTypeOK'
    BY <1>19 DEF VidEncode, Vid, sockets, stream, channel, host
  <1>20. CASE VidSend
    BY <1>20 DEF VidSend, Vid, sockets, stream, channel, host
  <1>21. CASE VidSendFails
    BY <1>21 DEF VidSendFails, Vid, sockets, stream, channel, host
  <1>22. CASE UiStopClient
    BY <1>22 DEF UiStopClient, HostCloses, sockets, stream, channel, host
  <1>23. CASE UiStopListener
    BY <1>23 DEF UiStopListener, HostCloses, Waiting, sockets, stream, channel, host
  <1>24. CASE UiJoin
    BY <1>24 DEF UiJoin, Vid, sockets, stream, channel, host
  <1>25. CASE UiStart
    BY <1>25 DEF UiStart, sockets, stream, channel, host
  <1>26. CASE UiStop
    BY <1>26 DEF UiStop, sockets, stream, channel, host
  <1>27. ASSUME NEW c \in Conn, PeerConnects(c) PROVE VideoTypeOK'
    BY <1>27 DEF PeerConnects, sockets, stream, channel, host
  <1>28. ASSUME NEW c \in Conn, PeerReads(c) PROVE VideoTypeOK'
    BY <1>28 DEF PeerReads, sockets, stream, channel, host
  <1>29. ASSUME NEW c \in Conn, PeerCloses(c) PROVE VideoTypeOK'
    BY <1>29 DEF PeerCloses, sockets, stream, channel, host
  <1>30. CASE UNCHANGED vars
    BY <1>30 DEF vars, sockets, stream, channel, host
  <1>. QED
    BY <1>1, <1>2, <1>3, <1>4, <1>5, <1>6, <1>7, <1>8, <1>9, <1>10, <1>11, <1>12, <1>13, <1>14,
       <1>15, <1>16, <1>17, <1>18, <1>19, <1>20, <1>21, <1>22, <1>23, <1>24, <1>25, <1>26,
       <1>27, <1>28, <1>29, <1>30 DEF Next, VidStep, UiStep, PeerStep

\* Which thread exists.
LEMMA ThreadStep ==
    ASSUME VideoTypeOK, ThreadInv, [Next]_vars
    PROVE  ThreadInv'
  <1>. USE DEF ThreadInv, Streaming, VidPc, UiPc
  <1>1. CASE VidCreate
    BY <1>1 DEF VidCreate, Vid, sockets, stream, channel, host
  <1>2. CASE VidListen
    BY <1>2 DEF VidListen, Vid, sockets, stream, channel, host
  <1>3. CASE VidListenFails
    BY <1>3 DEF VidListenFails, Vid, sockets, stream, channel, host
  <1>4. CASE VidMedia
    BY <1>4 DEF VidMedia, Vid, sockets, stream, channel, host
  <1>5. CASE VidLoop
    BY <1>5 DEF VidLoop, Vid, sockets, stream, channel, host
  <1>6. ASSUME NEW c \in Conn, VidAccept(c) PROVE ThreadInv'
    BY <1>6 DEF VidAccept, Vid, sockets, stream, channel, host
  <1>7. CASE VidAcceptFails
    BY <1>7 DEF VidAcceptFails, Vid, sockets, stream, channel, host
  <1>8. CASE VidPublish
    BY <1>8 DEF VidPublish, Vid, sockets, stream, channel, host
  <1>9. CASE VidCloseClient
    BY <1>9 DEF VidCloseClient, Vid, HostCloses, sockets, stream, channel, host
  <1>10. CASE VidCloseListener
    BY <1>10 DEF VidCloseListener, Vid, HostCloses, Waiting, sockets, stream, channel, host
  <1>11. CASE VidStart
    BY <1>11 DEF VidStart, Initialized, sockets, stream, channel, host
  <1>12. CASE VidCheck
    BY <1>12 DEF VidCheck, Vid, sockets, stream, channel, host
  <1>13. CASE VidIdle
    BY <1>13 DEF VidIdle, Vid, sockets, stream, channel, host
  <1>14. CASE VidFrame
    BY <1>14 DEF VidFrame, Vid, sockets, stream, channel, host
  <1>15. CASE VidLost
    BY <1>15 DEF VidLost, Vid, sockets, stream, channel, host
  <1>16. CASE VidReinit
    BY <1>16 DEF VidReinit, Vid, Initialized, sockets, stream, channel, host
  <1>17. CASE VidError
    BY <1>17 DEF VidError, Vid, sockets, stream, channel, host
  <1>18. CASE VidNoEncoder
    BY <1>18 DEF VidNoEncoder, Vid, sockets, stream, channel, host
  <1>19. ASSUME NEW n \in 0 .. MaxUnits, VidEncode(n) PROVE ThreadInv'
    BY <1>19 DEF VidEncode, Vid, sockets, stream, channel, host
  <1>20. CASE VidSend
    BY <1>20 DEF VidSend, Vid, sockets, stream, channel, host
  <1>21. CASE VidSendFails
    BY <1>21 DEF VidSendFails, Vid, sockets, stream, channel, host
  <1>22. CASE UiStopClient
    BY <1>22 DEF UiStopClient, HostCloses, sockets, stream, channel, host
  <1>23. CASE UiStopListener
    BY <1>23 DEF UiStopListener, HostCloses, Waiting, sockets, stream, channel, host
  <1>24. CASE UiJoin
    BY <1>24 DEF UiJoin, Vid, sockets, stream, channel, host
  <1>25. CASE UiStart
    BY <1>25 DEF UiStart, sockets, stream, channel, host
  <1>26. CASE UiStop
    BY <1>26 DEF UiStop, sockets, stream, channel, host
  <1>27. ASSUME NEW c \in Conn, PeerConnects(c) PROVE ThreadInv'
    BY <1>27 DEF PeerConnects, sockets, stream, channel, host
  <1>28. ASSUME NEW c \in Conn, PeerReads(c) PROVE ThreadInv'
    BY <1>28 DEF PeerReads, sockets, stream, channel, host
  <1>29. ASSUME NEW c \in Conn, PeerCloses(c) PROVE ThreadInv'
    BY <1>29 DEF PeerCloses, sockets, stream, channel, host
  <1>30. CASE UNCHANGED vars
    BY <1>30 DEF vars, sockets, stream, channel, host
  <1>. QED
    BY <1>1, <1>2, <1>3, <1>4, <1>5, <1>6, <1>7, <1>8, <1>9, <1>10, <1>11, <1>12, <1>13, <1>14,
       <1>15, <1>16, <1>17, <1>18, <1>19, <1>20, <1>21, <1>22, <1>23, <1>24, <1>25, <1>26,
       <1>27, <1>28, <1>29, <1>30 DEF Next, VidStep, UiStep, PeerStep

\* The locals of the thread.
LEMMA LocalStep ==
    ASSUME VideoTypeOK, ThreadInv, LocalInv, VideoAssumption, [Next]_vars
    PROVE  LocalInv'
  <1>. USE DEF VideoTypeOK, ThreadInv, LocalInv, Streaming, VidPc, UiPc, Serving
  <1>1. CASE VidCreate
    BY <1>1 DEF VidCreate, Vid, sockets, stream, channel, host
  <1>2. CASE VidListen
    BY <1>2 DEF VidListen, Vid, sockets, stream, channel, host
  <1>3. CASE VidListenFails
    BY <1>3 DEF VidListenFails, Vid, sockets, stream, channel, host
  <1>4. CASE VidMedia
    BY <1>4 DEF VidMedia, Vid, sockets, stream, channel, host
  <1>5. CASE VidLoop
    BY <1>5 DEF VidLoop, Vid, sockets, stream, channel, host
  <1>6. ASSUME NEW c \in Conn, VidAccept(c) PROVE LocalInv'
    BY <1>6 DEF VidAccept, Vid, sockets, stream, channel, host
  <1>7. CASE VidAcceptFails
    BY <1>7 DEF VidAcceptFails, Vid, sockets, stream, channel, host
  <1>8. CASE VidPublish
    BY <1>8 DEF VidPublish, Vid, sockets, stream, channel, host
  <1>9. CASE VidCloseClient
    BY <1>9 DEF VidCloseClient, Vid, HostCloses, sockets, stream, channel, host
  <1>10. CASE VidCloseListener
    BY <1>10 DEF VidCloseListener, Vid, HostCloses, Waiting, sockets, stream, channel, host
  <1>11. CASE VidStart
    BY <1>11 DEF VidStart, Initialized, sockets, stream, channel, host
  <1>12. CASE VidCheck
    BY <1>12 DEF VidCheck, Vid, sockets, stream, channel, host
  <1>13. CASE VidIdle
    BY <1>13 DEF VidIdle, Vid, sockets, stream, channel, host
  <1>14. CASE VidFrame
    BY <1>14 DEF VidFrame, Vid, sockets, stream, channel, host
  <1>15. CASE VidLost
    BY <1>15 DEF VidLost, Vid, sockets, stream, channel, host
  <1>16. CASE VidReinit
    BY <1>16 DEF VidReinit, Vid, Initialized, sockets, stream, channel, host
  <1>17. CASE VidError
    BY <1>17 DEF VidError, Vid, sockets, stream, channel, host
  <1>18. CASE VidNoEncoder
    BY <1>18 DEF VidNoEncoder, Vid, sockets, stream, channel, host
  <1>19. ASSUME NEW n \in 0 .. MaxUnits, VidEncode(n) PROVE LocalInv'
    BY <1>19 DEF VidEncode, Vid, sockets, stream, channel, host
  <1>20. CASE VidSend
    BY <1>20 DEF VidSend, Vid, sockets, stream, channel, host
  <1>21. CASE VidSendFails
    BY <1>21 DEF VidSendFails, Vid, sockets, stream, channel, host
  <1>22. CASE UiStopClient
    BY <1>22 DEF UiStopClient, HostCloses, sockets, stream, channel, host
  <1>23. CASE UiStopListener
    BY <1>23 DEF UiStopListener, HostCloses, Waiting, sockets, stream, channel, host
  <1>24. CASE UiJoin
    BY <1>24 DEF UiJoin, Vid, sockets, stream, channel, host
  <1>25. CASE UiStart
    BY <1>25 DEF UiStart, sockets, stream, channel, host
  <1>26. CASE UiStop
    BY <1>26 DEF UiStop, sockets, stream, channel, host
  <1>27. ASSUME NEW c \in Conn, PeerConnects(c) PROVE LocalInv'
    BY <1>27 DEF PeerConnects, sockets, stream, channel, host
  <1>28. ASSUME NEW c \in Conn, PeerReads(c) PROVE LocalInv'
    BY <1>28 DEF PeerReads, sockets, stream, channel, host
  <1>29. ASSUME NEW c \in Conn, PeerCloses(c) PROVE LocalInv'
    BY <1>29 DEF PeerCloses, sockets, stream, channel, host
  <1>30. CASE UNCHANGED vars
    BY <1>30 DEF vars, sockets, stream, channel, host
  <1>. QED
    BY <1>1, <1>2, <1>3, <1>4, <1>5, <1>6, <1>7, <1>8, <1>9, <1>10, <1>11, <1>12, <1>13, <1>14,
       <1>15, <1>16, <1>17, <1>18, <1>19, <1>20, <1>21, <1>22, <1>23, <1>24, <1>25, <1>26,
       <1>27, <1>28, <1>29, <1>30 DEF Next, VidStep, UiStep, PeerStep

\* The listening socket.
LEMMA ListenerStep ==
    ASSUME VideoTypeOK, ThreadInv, ListenerInv, [Next]_vars
    PROVE  ListenerInv'
  <1>. USE DEF VideoTypeOK, ThreadInv, ListenerInv, Streaming, VidPc, UiPc
  <1>1. CASE VidCreate
    BY <1>1 DEF VidCreate, Vid, sockets, stream, channel, host
  <1>2. CASE VidListen
    BY <1>2 DEF VidListen, Vid, sockets, stream, channel, host
  <1>3. CASE VidListenFails
    BY <1>3 DEF VidListenFails, Vid, sockets, stream, channel, host
  <1>4. CASE VidMedia
    BY <1>4 DEF VidMedia, Vid, sockets, stream, channel, host
  <1>5. CASE VidLoop
    BY <1>5 DEF VidLoop, Vid, sockets, stream, channel, host
  <1>6. ASSUME NEW c \in Conn, VidAccept(c) PROVE ListenerInv'
    BY <1>6 DEF VidAccept, Vid, sockets, stream, channel, host
  <1>7. CASE VidAcceptFails
    BY <1>7 DEF VidAcceptFails, Vid, sockets, stream, channel, host
  <1>8. CASE VidPublish
    BY <1>8 DEF VidPublish, Vid, sockets, stream, channel, host
  <1>9. CASE VidCloseClient
    BY <1>9 DEF VidCloseClient, Vid, HostCloses, sockets, stream, channel, host
  <1>10. CASE VidCloseListener
    BY <1>10 DEF VidCloseListener, Vid, HostCloses, Waiting, sockets, stream, channel, host
  <1>11. CASE VidStart
    BY <1>11 DEF VidStart, Initialized, sockets, stream, channel, host
  <1>12. CASE VidCheck
    BY <1>12 DEF VidCheck, Vid, sockets, stream, channel, host
  <1>13. CASE VidIdle
    BY <1>13 DEF VidIdle, Vid, sockets, stream, channel, host
  <1>14. CASE VidFrame
    BY <1>14 DEF VidFrame, Vid, sockets, stream, channel, host
  <1>15. CASE VidLost
    BY <1>15 DEF VidLost, Vid, sockets, stream, channel, host
  <1>16. CASE VidReinit
    BY <1>16 DEF VidReinit, Vid, Initialized, sockets, stream, channel, host
  <1>17. CASE VidError
    BY <1>17 DEF VidError, Vid, sockets, stream, channel, host
  <1>18. CASE VidNoEncoder
    BY <1>18 DEF VidNoEncoder, Vid, sockets, stream, channel, host
  <1>19. ASSUME NEW n \in 0 .. MaxUnits, VidEncode(n) PROVE ListenerInv'
    BY <1>19 DEF VidEncode, Vid, sockets, stream, channel, host
  <1>20. CASE VidSend
    BY <1>20 DEF VidSend, Vid, sockets, stream, channel, host
  <1>21. CASE VidSendFails
    BY <1>21 DEF VidSendFails, Vid, sockets, stream, channel, host
  <1>22. CASE UiStopClient
    BY <1>22 DEF UiStopClient, HostCloses, sockets, stream, channel, host
  <1>23. CASE UiStopListener
    BY <1>23 DEF UiStopListener, HostCloses, Waiting, sockets, stream, channel, host
  <1>24. CASE UiJoin
    BY <1>24 DEF UiJoin, Vid, sockets, stream, channel, host
  <1>25. CASE UiStart
    BY <1>25 DEF UiStart, sockets, stream, channel, host
  <1>26. CASE UiStop
    BY <1>26 DEF UiStop, sockets, stream, channel, host
  <1>27. ASSUME NEW c \in Conn, PeerConnects(c) PROVE ListenerInv'
    BY <1>27 DEF PeerConnects, sockets, stream, channel, host
  <1>28. ASSUME NEW c \in Conn, PeerReads(c) PROVE ListenerInv'
    BY <1>28 DEF PeerReads, sockets, stream, channel, host
  <1>29. ASSUME NEW c \in Conn, PeerCloses(c) PROVE ListenerInv'
    BY <1>29 DEF PeerCloses, sockets, stream, channel, host
  <1>30. CASE UNCHANGED vars
    BY <1>30 DEF vars, sockets, stream, channel, host
  <1>. QED
    BY <1>1, <1>2, <1>3, <1>4, <1>5, <1>6, <1>7, <1>8, <1>9, <1>10, <1>11, <1>12, <1>13, <1>14,
       <1>15, <1>16, <1>17, <1>18, <1>19, <1>20, <1>21, <1>22, <1>23, <1>24, <1>25, <1>26,
       <1>27, <1>28, <1>29, <1>30 DEF Next, VidStep, UiStep, PeerStep

\* The client's socket.
LEMMA ClientStep ==
    ASSUME VideoTypeOK, ThreadInv, LocalInv, ClientInv, VideoAssumption, [Next]_vars
    PROVE  ClientInv'
  <1>. USE DEF VideoTypeOK, ThreadInv, LocalInv, ClientInv, StreamOwnsSocket, Streaming, VidPc,
            UiPc, Serving
  <1>1. CASE VidCreate
    BY <1>1 DEF VidCreate, Vid, sockets, stream, channel, host
  <1>2. CASE VidListen
    BY <1>2 DEF VidListen, Vid, sockets, stream, channel, host
  <1>3. CASE VidListenFails
    BY <1>3 DEF VidListenFails, Vid, sockets, stream, channel, host
  <1>4. CASE VidMedia
    BY <1>4 DEF VidMedia, Vid, sockets, stream, channel, host
  <1>5. CASE VidLoop
    BY <1>5 DEF VidLoop, Vid, sockets, stream, channel, host
  <1>6. ASSUME NEW c \in Conn, VidAccept(c) PROVE ClientInv'
    BY <1>6 DEF VidAccept, Vid, sockets, stream, channel, host
  <1>7. CASE VidAcceptFails
    BY <1>7 DEF VidAcceptFails, Vid, sockets, stream, channel, host
  <1>8. CASE VidPublish
    BY <1>8 DEF VidPublish, Vid, sockets, stream, channel, host
  <1>9. CASE VidCloseClient
    BY <1>9 DEF VidCloseClient, Vid, HostCloses, sockets, stream, channel, host
  <1>10. CASE VidCloseListener
    BY <1>10 DEF VidCloseListener, Vid, HostCloses, Waiting, sockets, stream, channel, host
  <1>11. CASE VidStart
    BY <1>11 DEF VidStart, Initialized, sockets, stream, channel, host
  <1>12. CASE VidCheck
    BY <1>12 DEF VidCheck, Vid, sockets, stream, channel, host
  <1>13. CASE VidIdle
    BY <1>13 DEF VidIdle, Vid, sockets, stream, channel, host
  <1>14. CASE VidFrame
    BY <1>14 DEF VidFrame, Vid, sockets, stream, channel, host
  <1>15. CASE VidLost
    BY <1>15 DEF VidLost, Vid, sockets, stream, channel, host
  <1>16. CASE VidReinit
    BY <1>16 DEF VidReinit, Vid, Initialized, sockets, stream, channel, host
  <1>17. CASE VidError
    BY <1>17 DEF VidError, Vid, sockets, stream, channel, host
  <1>18. CASE VidNoEncoder
    BY <1>18 DEF VidNoEncoder, Vid, sockets, stream, channel, host
  <1>19. ASSUME NEW n \in 0 .. MaxUnits, VidEncode(n) PROVE ClientInv'
    BY <1>19 DEF VidEncode, Vid, sockets, stream, channel, host
  <1>20. CASE VidSend
    BY <1>20 DEF VidSend, Vid, sockets, stream, channel, host
  <1>21. CASE VidSendFails
    BY <1>21 DEF VidSendFails, Vid, sockets, stream, channel, host
  <1>22. CASE UiStopClient
    BY <1>22 DEF UiStopClient, HostCloses, sockets, stream, channel, host
  <1>23. CASE UiStopListener
    BY <1>23 DEF UiStopListener, HostCloses, Waiting, sockets, stream, channel, host
  <1>24. CASE UiJoin
    BY <1>24 DEF UiJoin, Vid, sockets, stream, channel, host
  <1>25. CASE UiStart
    BY <1>25 DEF UiStart, sockets, stream, channel, host
  <1>26. CASE UiStop
    BY <1>26 DEF UiStop, sockets, stream, channel, host
  <1>27. ASSUME NEW c \in Conn, PeerConnects(c) PROVE ClientInv'
    BY <1>27 DEF PeerConnects, sockets, stream, channel, host
  <1>28. ASSUME NEW c \in Conn, PeerReads(c) PROVE ClientInv'
    BY <1>28 DEF PeerReads, sockets, stream, channel, host
  <1>29. ASSUME NEW c \in Conn, PeerCloses(c) PROVE ClientInv'
    BY <1>29 DEF PeerCloses, sockets, stream, channel, host
  <1>30. CASE UNCHANGED vars
    BY <1>30 DEF vars, sockets, stream, channel, host
  <1>. QED
    BY <1>1, <1>2, <1>3, <1>4, <1>5, <1>6, <1>7, <1>8, <1>9, <1>10, <1>11, <1>12, <1>13, <1>14,
       <1>15, <1>16, <1>17, <1>18, <1>19, <1>20, <1>21, <1>22, <1>23, <1>24, <1>25, <1>26,
       <1>27, <1>28, <1>29, <1>30 DEF Next, VidStep, UiStep, PeerStep

LEMMA VideoStep == VideoInv /\ [Next]_vars => VideoInv'
  BY VideoAssumption, VideoTypeStep, ThreadStep, LocalStep, ListenerStep, ClientStep DEF VideoInv

\* The inductive invariant.
THEOREM VideoInductive == Spec => []VideoInv
  BY VideoInit, VideoStep, PTL DEF Spec

\* Every variable keeps its type: no buffer and no count of units runs over.
THEOREM VideoTyped == Spec => []VideoTypeOK
  <1>1. VideoInv => VideoTypeOK
    BY DEF VideoInv
  <1>. QED
    BY <1>1, VideoInductive, PTL

\* No accepted socket leaks, and the published one is the stream's.
THEOREM StreamSocketsOwned == Spec => []StreamOwnsSocket
  <1>1. VideoInv => StreamOwnsSocket
    BY DEF VideoInv, ClientInv
  <1>. QED
    BY <1>1, VideoInductive, PTL

\* A stop leaves no thread, socket or capture behind.
THEOREM StopGoesDark == Spec => []OffIsDark
  <1>1. VideoInv => OffIsDark
    BY VideoAssumption DEF VideoInv, VideoTypeOK, ThreadInv, LocalInv, ListenerInv, ClientInv,
           StreamOwnsSocket, OffIsDark, Streaming, Serving
  <1>. QED
    BY <1>1, VideoInductive, PTL

=============================================================================
