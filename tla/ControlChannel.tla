--------------------------- MODULE ControlChannel ---------------------------
(***************************************************************************)
(* The TCP connections between viewers and the host's control port, as the *)
(* two programs use them through Winsock: reliable, in order, with the     *)
(* boundaries between sends lost (one recv returns any prefix of what has  *)
(* arrived), and with blocking sends: a send to a peer that does not read  *)
(* waits for room.  A connection that both ends have closed can be opened  *)
(* again, for the next viewer.                                             *)
(***************************************************************************)
EXTENDS ControlProtocol, Naturals, Sequences

CONSTANTS Conn,      \* connections a viewer can make
          NoConn,    \* INVALID_SOCKET
          Capacity   \* lines the socket buffers of one direction hold

ASSUME NoConnAssumption == NoConn \notin Conn
ASSUME CapacityAssumption == Capacity \in Nat \ {0}

VARIABLES hostEnd,   \* hostEnd[c]: the host's socket of c: in the listen backlog,
                     \*   accepted and open, or closed
          viewerEnd, \* viewerEnd[c]: the viewer's socket of c
          toHost,    \* toHost[c]: lines sent by the viewer and not yet received
          toViewer   \* toViewer[c]: lines sent by the host and not yet received

channel == <<hostEnd, viewerEnd, toHost, toViewer>>

ChannelTypeOK ==
    /\ hostEnd \in [Conn -> {"closed", "backlog", "open"}]
    /\ viewerEnd \in [Conn -> {"closed", "open"}]
    /\ toHost \in [Conn -> Seq(Line)]
    /\ toViewer \in [Conn -> Seq(Line)]

ChannelInit ==
    /\ hostEnd = [c \in Conn |-> "closed"]
    /\ viewerEnd = [c \in Conn |-> "closed"]
    /\ toHost = [c \in Conn |-> <<>>]
    /\ toViewer = [c \in Conn |-> <<>>]

\* connect() completes in the host's kernel, before the host accepts.
Connects(c) ==
    /\ hostEnd[c] = "closed" /\ viewerEnd[c] = "closed"
    /\ hostEnd' = [hostEnd EXCEPT ![c] = "backlog"]
    /\ viewerEnd' = [viewerEnd EXCEPT ![c] = "open"]
    /\ UNCHANGED <<toHost, toViewer>>

\* The host's ends after it closes the sockets of S, and what they had received.
HostCloses(S) ==
    /\ hostEnd' = [c \in Conn |-> IF c \in S THEN "closed" ELSE hostEnd[c]]
    /\ toHost' = [c \in Conn |-> IF c \in S THEN <<>> ELSE toHost[c]]
    /\ UNCHANGED <<viewerEnd, toViewer>>

ViewerCloses(S) ==
    /\ viewerEnd' = [c \in Conn |-> IF c \in S THEN "closed" ELSE viewerEnd[c]]
    /\ toViewer' = [c \in Conn |-> IF c \in S THEN <<>> ELSE toViewer[c]]
    /\ UNCHANGED <<hostEnd, toHost>>

\* send() on the host's socket of c: lost when either end is closed, and
\* waiting for room otherwise.
HostCanSend(c) ==
    \/ hostEnd[c] # "open" \/ viewerEnd[c] # "open"
    \/ Len(toViewer[c]) < Capacity

HostSends(c, line) ==
    /\ HostCanSend(c)
    /\ toViewer' = IF hostEnd[c] = "open" /\ viewerEnd[c] = "open"
                     THEN [toViewer EXCEPT ![c] = Append(@, line)] ELSE toViewer
    /\ UNCHANGED <<hostEnd, viewerEnd, toHost>>

ViewerCanSend(c) ==
    \/ hostEnd[c] = "closed" \/ viewerEnd[c] # "open"
    \/ Len(toHost[c]) < Capacity

ViewerSends(c, line) ==
    /\ ViewerCanSend(c)
    /\ toHost' = IF hostEnd[c] # "closed" /\ viewerEnd[c] = "open"
                   THEN [toHost EXCEPT ![c] = Append(@, line)] ELSE toHost
    /\ UNCHANGED <<hostEnd, viewerEnd, toViewer>>

\* The n first lines of what has arrived, and what stays in the socket.
First(q, n) == SubSeq(q, 1, n)
AfterFirst(q, n) == SubSeq(q, n + 1, Len(q))

HostReceives(c, n) ==
    /\ hostEnd[c] = "open" /\ n \in 1 .. Len(toHost[c])
    /\ toHost' = [toHost EXCEPT ![c] = AfterFirst(@, n)]
    /\ UNCHANGED <<hostEnd, viewerEnd, toViewer>>

ViewerReceives(c, n) ==
    /\ viewerEnd[c] = "open" /\ n \in 1 .. Len(toViewer[c])
    /\ toViewer' = [toViewer EXCEPT ![c] = AfterFirst(@, n)]
    /\ UNCHANGED <<hostEnd, viewerEnd, toHost>>

\* recv() fails or returns 0: the socket is closed, or the other end is.
HostRecvEnds(c) == hostEnd[c] # "open" \/ viewerEnd[c] # "open"
ViewerRecvEnds(c) == viewerEnd[c] # "open" \/ hostEnd[c] = "closed"

=============================================================================
