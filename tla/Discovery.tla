----------------------------- MODULE Discovery -----------------------------
(***************************************************************************)
(* How a viewer finds the hosts of its network: its discovery thread       *)
(* broadcasts a request three times over UDP and posts the replies to its  *)
(* window, whose list keeps one entry per address; a host's discovery      *)
(* thread answers while its server is on.                                  *)
(*                                                                         *)
(* Datagrams are lost, delayed, and overtake one another.  A search has a  *)
(* socket of its own: what is on its way when it ends is lost, and so are  *)
(* the requests, since a late one is answered to a socket that is gone.    *)
(***************************************************************************)
EXTENDS Naturals, Sequences, FiniteSets

CONSTANTS Host,      \* the hosts of the network, by address
          Rounds,    \* broadcasts of one search
          Receives,  \* replies read after each
          Searches   \* searches the user starts

ASSUME DiscoveryAssumption ==
    Rounds \in Nat \ {0} /\ Receives \in Nat \ {0} /\ Searches \in Nat

VARIABLES
    on,         \* on[h]: where h's discovery thread is
    running,    \* running[h]: h's g_serverRunning
    requests,   \* requests[h]: requests on their way to h, or in its socket
    replies,    \* replies[h]: h's replies on their way to this search's socket
    searching,  \* g_discoveryRunning
    joinable,   \* g_discoveryThread.joinable()
    vdisc,      \* where the viewer's discovery thread is
    round,      \* its i
    count,      \* its j
    messages,   \* WM_ADD_SERVER and WM_DISCOVERY_DONE in the window's queue
    list,       \* the addresses of the list, in order
    refresh,    \* whether the Refresh button accepts clicks
    gone,       \* the window is closed
    search,     \* how many searches have begun
    answered    \* the hosts that answered this search

hosts == <<on, running>>
net == <<requests, replies>>
thread == <<vdisc, round, count>>
window == <<searching, joinable, list, refresh, gone, search>>
vars == <<hosts, net, thread, messages, window, answered>>

\* A message names the search it belongs to, which the program does not.
Add(h) == [kind |-> "add", host |-> h, of |-> search]
Done == [kind |-> "done", of |-> search]

Message == [kind : {"add"}, host : Host, of : 0 .. Searches]
             \cup [kind : {"done"}, of : 0 .. Searches]

DiscoveryTypeOK ==
    /\ on \in [Host -> {"none", "loop", "recv", "ended"}]
    /\ running \in [Host -> BOOLEAN]
    /\ requests \in [Host -> 0 .. Rounds]
    /\ replies \in [Host -> 0 .. Rounds]
    /\ searching \in BOOLEAN /\ joinable \in BOOLEAN
    /\ vdisc \in {"none", "open", "send", "recv", "close", "ended"}
    /\ round \in 0 .. Rounds /\ count \in 0 .. Receives
    /\ messages \in Seq(Message) /\ list \in Seq(Host)
    /\ refresh \in BOOLEAN /\ gone \in BOOLEAN /\ search \in 0 .. Searches
    /\ answered \subseteq Host

Init ==
    /\ on = [h \in Host |-> "none"] /\ running = [h \in Host |-> FALSE]
    /\ requests = [h \in Host |-> 0] /\ replies = [h \in Host |-> 0]
    /\ searching = FALSE /\ joinable = FALSE
    /\ vdisc = "none" /\ round = 0 /\ count = 0
    /\ messages = <<>> /\ list = <<>> /\ refresh = TRUE /\ gone = FALSE
    /\ search = 0 /\ answered = {}

------------------------------------------------------------------------------
(* A host: server/main.cpp's discovery_loop.                                *)

\* The server starts, and its thread opens and binds its socket, or cannot.
HostStarts(h) ==
    /\ ~running[h] /\ on[h] = "none"
    /\ running' = [running EXCEPT ![h] = TRUE]
    /\ \E there \in {"loop", "ended"} : on' = [on EXCEPT ![h] = there]
    /\ UNCHANGED <<net, thread, messages, window, answered>>

\* A wrong HostLoop: the flag is not looked at again.
HostLoopForever(h) ==
    /\ on[h] = "loop" /\ on' = [on EXCEPT ![h] = "recv"]
    /\ UNCHANGED <<running, net, thread, messages, window, answered>>

\* Once around the loop; the thread closes its socket when it leaves.
HostLoop(h) ==
    /\ on[h] = "loop"
    /\ on' = [on EXCEPT ![h] = IF running[h] THEN "recv" ELSE "ended"]
    /\ requests' = IF running[h] THEN requests ELSE [requests EXCEPT ![h] = 0]
    /\ UNCHANGED <<running, replies, thread, messages, window, answered>>

\* A request is received, and answered to the socket it came from.
HostReplies(h) ==
    /\ on[h] = "recv" /\ requests[h] > 0
    /\ on' = [on EXCEPT ![h] = "loop"]
    /\ requests' = [requests EXCEPT ![h] = @ - 1]
    /\ replies' = IF vdisc \in {"send", "recv"} THEN [replies EXCEPT ![h] = @ + 1]
                                                ELSE replies
    /\ UNCHANGED <<running, thread, messages, window, answered>>

\* Half a second without a request, or a stop has closed the socket.
HostTimesOut(h) ==
    /\ on[h] = "recv"
    /\ on' = [on EXCEPT ![h] = "loop"]
    /\ UNCHANGED <<running, net, thread, messages, window, answered>>

HostStops(h) ==
    /\ running[h] /\ running' = [running EXCEPT ![h] = FALSE]
    /\ UNCHANGED <<on, net, thread, messages, window, answered>>

\* stop_server joins the thread.
HostJoins(h) ==
    /\ ~running[h] /\ on[h] = "ended"
    /\ on' = [on EXCEPT ![h] = "none"]
    /\ UNCHANGED <<running, net, thread, messages, window, answered>>

------------------------------------------------------------------------------
(* The network.                                                             *)

RequestLost(h) ==
    /\ requests[h] > 0 /\ requests' = [requests EXCEPT ![h] = @ - 1]
    /\ UNCHANGED <<hosts, replies, thread, messages, window, answered>>

ReplyLost(h) ==
    /\ replies[h] > 0 /\ replies' = [replies EXCEPT ![h] = @ - 1]
    /\ UNCHANGED <<hosts, requests, thread, messages, window, answered>>

------------------------------------------------------------------------------
(* The viewer's discovery thread: viewer/main.cpp's discovery_loop.         *)

\* A wrong Open: a failure returns without a word.
OpenSilently ==
    /\ vdisc = "open" /\ vdisc' \in {"send", "ended"}
    /\ UNCHANGED <<hosts, net, round, count, messages, window, answered>>

\* init_winsock or socket() fails, or the search has its socket.
Open ==
    /\ vdisc = "open"
    /\ \/ vdisc' = "send" /\ UNCHANGED messages
       \/ vdisc' = "ended" /\ messages' = Append(messages, Done)
    /\ UNCHANGED <<hosts, net, round, count, window, answered>>

Broadcast ==
    /\ vdisc = "send"
    /\ IF round < Rounds
         THEN /\ vdisc' = "recv" /\ round' = round + 1 /\ count' = 0
              /\ requests' = [h \in Host |-> requests[h] + 1]
         ELSE vdisc' = "close" /\ UNCHANGED <<round, count, requests>>
    /\ UNCHANGED <<hosts, replies, messages, window, answered>>

\* recvfrom returns a reply, and post_server posts it.
Receive(h) ==
    /\ vdisc = "recv" /\ replies[h] > 0
    /\ replies' = [replies EXCEPT ![h] = @ - 1]
    /\ messages' = Append(messages, Add(h))
    /\ answered' = answered \cup {h}
    /\ count' = count + 1
    /\ vdisc' = IF count' < Receives THEN "recv" ELSE "send"
    /\ UNCHANGED <<hosts, requests, round, window>>

\* A wrong ReceiveFails: one turn too many.
ReceiveFailsOnce ==
    /\ vdisc = "recv"
    /\ count' = count + 1
    /\ vdisc' = IF count < Receives THEN "recv" ELSE "send"
    /\ UNCHANGED <<hosts, net, round, messages, window, answered>>

\* Any other error: the turn of the inner loop is used up.
ReceiveFails ==
    /\ vdisc = "recv"
    /\ count' = count + 1
    /\ vdisc' = IF count' < Receives THEN "recv" ELSE "send"
    /\ UNCHANGED <<hosts, net, round, messages, window, answered>>

ReceiveTimesOut ==
    /\ vdisc = "recv" /\ vdisc' = "send"
    /\ UNCHANGED <<hosts, net, round, count, messages, window, answered>>

Close ==
    /\ vdisc = "close" /\ vdisc' = "ended"
    /\ requests' = [h \in Host |-> 0] /\ replies' = [h \in Host |-> 0]
    /\ messages' = Append(messages, Done)
    /\ UNCHANGED <<hosts, round, count, window, answered>>

------------------------------------------------------------------------------
(* The viewer's window.                                                     *)

\* start_discovery
StartDiscovery ==
    /\ ~gone /\ refresh /\ ~searching /\ search < Searches
    /\ searching' = TRUE /\ joinable' = TRUE /\ refresh' = FALSE
    /\ search' = search + 1 /\ answered' = {}
    /\ list' = <<>>
    /\ vdisc' = "open" /\ round' = 0 /\ count' = 0
    /\ UNCHANGED <<hosts, net, messages, gone>>

IsNext(kind) == ~gone /\ messages # <<>> /\ Head(messages).kind = kind

\* A wrong AddServer: no look at what the list has.
AddAlways ==
    /\ IsNext("add")
    /\ messages' = Tail(messages)
    /\ list' = Append(list, Head(messages).host)
    /\ UNCHANGED <<hosts, net, thread, searching, joinable, refresh, gone, search,
                   answered>>

\* A wrong AddServer: any entry is taken for the host's own.
AddFirst ==
    /\ IsNext("add")
    /\ messages' = Tail(messages)
    /\ list' = IF list = <<>> THEN <<Head(messages).host>> ELSE list
    /\ UNCHANGED <<hosts, net, thread, searching, joinable, refresh, gone, search,
                   answered>>

\* WM_ADD_SERVER
AddServer ==
    /\ IsNext("add")
    /\ messages' = Tail(messages)
    /\ LET h == Head(messages).host
       IN  list' = IF \E i \in 1 .. Len(list) : list[i] = h THEN list ELSE Append(list, h)
    /\ UNCHANGED <<hosts, net, thread, searching, joinable, refresh, gone, search,
                   answered>>

\* A wrong FinishDiscovery: the thread is not joined, only told apart by the flag.
FinishUnjoined ==
    /\ IsNext("done")
    /\ messages' = Tail(messages)
    /\ searching' = FALSE /\ refresh' = TRUE
    /\ UNCHANGED <<hosts, net, thread, joinable, list, gone, search, answered>>

\* WM_DISCOVERY_DONE: finish_discovery joins the thread that posted it.
FinishDiscovery ==
    /\ IsNext("done") /\ vdisc = "ended"
    /\ messages' = Tail(messages)
    /\ vdisc' = "none" /\ joinable' = FALSE
    /\ searching' = FALSE /\ refresh' = TRUE
    /\ UNCHANGED <<hosts, net, round, count, list, gone, search, answered>>

\* WM_CLOSE: finish_discovery, in the middle of a search too.
CloseWindow ==
    /\ ~gone /\ gone' = TRUE
    /\ vdisc \in {"none", "ended"} /\ vdisc' = "none" /\ joinable' = FALSE
    /\ searching' = FALSE /\ refresh' = TRUE /\ list' = <<>>
    /\ UNCHANGED <<hosts, net, round, count, messages, search, answered>>

------------------------------------------------------------------------------
ThreadStep ==
    \/ Open \/ Broadcast \/ ReceiveFails \/ ReceiveTimesOut \/ Close
    \/ \E h \in Host : Receive(h)

WindowStep == AddServer \/ FinishDiscovery

HostStep(h) == HostLoop(h) \/ HostReplies(h) \/ HostTimesOut(h) \/ HostJoins(h)

Next ==
    \/ ThreadStep \/ WindowStep \/ StartDiscovery \/ CloseWindow
    \/ \E h \in Host :
         HostStarts(h) \/ HostStops(h) \/ HostStep(h) \/ RequestLost(h) \/ ReplyLost(h)

Spec == Init /\ [][Next]_vars

------------------------------------------------------------------------------
\* The list is this search's: one entry per address, none of an earlier search
\* (its messages have all been handled before the next can start), and none that
\* has not answered (viewer/main.cpp:312, 1110-1143).
ListIsThisSearch ==
    /\ \A i, j \in 1 .. Len(list) : list[i] = list[j] => i = j
    /\ \A i \in 1 .. Len(list) : list[i] \in answered
    /\ \A i \in 1 .. Len(messages) : messages[i].of = search

\* g_discoveryThread is assigned a new thread only when the one before has been
\* joined, and the Refresh button accepts clicks exactly when one may be: assigning
\* to a joinable std::thread ends the program (viewer/main.cpp:318, 321-329).
ThreadJoined ==
    ~gone => /\ searching <=> joinable
             /\ refresh <=> ~searching
             /\ vdisc # "none" <=> joinable

\* When a search is done and its messages are handled, every host whose answer was
\* received is in the list: WM_DISCOVERY_DONE is posted last (viewer/main.cpp:299).  An
\* answer still in the socket when the search ends is not received, and a post that a
\* full queue drops is left out.
NoneForgotten ==
    ~gone /\ ~searching => \A h \in answered : \E i \in 1 .. Len(list) : list[i] = h

Fairness == WF_vars(ThreadStep) /\ WF_vars(WindowStep) /\ \A h \in Host : WF_vars(HostStep(h))

FairSpec == Spec /\ Fairness

\* A search ends, answered or not, and the Refresh button comes back: the thread's
\* receives all time out.  A host's discovery thread ends when its server stops, whatever
\* it is asked meanwhile (viewer/main.cpp:248-300, server/main.cpp:448-489, 912-914).
DiscoveryEnds ==
    /\ searching ~> refresh
    /\ \A h \in Host : ~running[h] ~> on[h] = "none" \/ running[h]

=============================================================================
