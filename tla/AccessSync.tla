----------------------------- MODULE AccessSync -----------------------------
(***************************************************************************)
(* The host and one viewer together, over the control connections: what    *)
(* the two users see of the grants.  Each program is the whole machine of  *)
(* HostControl and ViewerControl; each is the other's environment, and the *)
(* viewers and the host that those modules imagine take no step of their   *)
(* own here.                                                               *)
(*                                                                         *)
(* The users act a bounded number of times.                                *)
(***************************************************************************)
EXTENDS HostControl, ViewerControl

CONSTANTS HostClicks,   \* clicks on the host's grant buttons
          ViewerKeys,   \* presses of Alt+K or Alt+M
          ViewerTries,  \* presses of Connect
          ViewerExits,  \* presses of Alt+X
          HostStops     \* times the host is turned off

ASSUME BudgetAssumption ==
    /\ HostClicks \in Nat /\ ViewerKeys \in Nat /\ ViewerTries \in Nat
    /\ ViewerExits \in Nat /\ HostStops \in Nat
\* Each program is in the other's environment.
ASSUME TogetherAssumption == ViewerLines = Line /\ HostLines = Line /\ Buttons = Device

VARIABLE left     \* how often each user may still act

syncVars == <<host, viewer, channel, left>>

SyncInit ==
    /\ Init /\ VInit
    /\ left = [click |-> HostClicks, key |-> ViewerKeys, connect |-> ViewerTries,
               exit |-> ViewerExits, stop |-> HostStops]

Spend(act) == left[act] > 0 /\ left' = [left EXCEPT ![act] = @ - 1]

\* The programs by themselves.
HostCtl == CtlStep /\ UNCHANGED <<viewer, left>>
HostUi == UiStep /\ UNCHANGED <<viewer, left>>

\* A connection reaches a host that listens, through a socket not in use there.
ConnectReaches ==
    \A c \in Conn : hostEnd[c] = "closed" /\ hostEnd'[c] = "backlog" =>
        listener = "listening" /\ c # cur

ViewerConn == ConnStep /\ ConnectReaches /\ UNCHANGED <<host, left>>
ViewerVid == VidStep /\ UNCHANGED <<host, left>>
ViewerUi == VuiStep /\ UNCHANGED <<host, left>>

StreamEnds == VidStreamEnds /\ UNCHANGED <<host, left>>

\* The users.
HostStarts == UiStart /\ UNCHANGED <<viewer, left>>
HostStopped == UiStop /\ Spend("stop") /\ UNCHANGED viewer
HostClicked(d) == UiClick(d) /\ Spend("click") /\ UNCHANGED viewer
ViewerConnects == UserConnects /\ Spend("connect") /\ UNCHANGED host
ViewerToggles(d) == UserToggles(d) /\ Spend("key") /\ UNCHANGED host
ViewerLeaves == UserDisconnects /\ Spend("exit") /\ UNCHANGED host

Users ==
    \/ HostStarts \/ HostStopped \/ ViewerConnects \/ ViewerLeaves
    \/ \E d \in Device : HostClicked(d) \/ ViewerToggles(d)

SyncNext == HostCtl \/ HostUi \/ ViewerConn \/ ViewerVid \/ ViewerUi \/ StreamEnds \/ Users

SyncSpec == SyncInit /\ [][SyncNext]_syncVars

------------------------------------------------------------------------------
\* In a session, everything sent has been received and applied.
Settled ==
    /\ ctl = "recv" /\ conn = "recv" /\ cur = link /\ link # NoConn
    /\ hostEnd[link] = "open" /\ viewerEnd[link] = "open"
    /\ toHost[link] = <<>> /\ toViewer[link] = <<>>

\* No session: the viewer is not connected, and the host is off, or has not got a
\* listening socket, or waits for a viewer.
Apart ==
    /\ conn \in {"none", "ended"}
    /\ ctl \in {"none", "ended"} \/ (ctl = "accept" /\ \A c \in Conn : hostEnd[c] = "closed")

\* Nothing is under way, and neither window has a message to handle.
BothAtRest ==
    /\ ui = "idle" /\ posted = 0 /\ vui = "idle" /\ states = <<>>
    /\ Settled \/ Apart

\* The users take turns: each acts when all that was done before has had its effect.
TakeTurns == Users => BothAtRest

TurnSpec == SyncInit /\ [][SyncNext /\ TakeTurns]_syncVars

\* The operating systems run all the threads.
Fairness ==
    /\ WF_syncVars(HostCtl) /\ WF_syncVars(HostUi)
    /\ WF_syncVars(ViewerConn) /\ WF_syncVars(ViewerVid) /\ WF_syncVars(ViewerUi)

FairTurnSpec == TurnSpec /\ Fairness

------------------------------------------------------------------------------
\* "It can be toggled from both ends and the two stay in sync" (README.md:107):
\* when all that was sent has been received, the two sides hold the same grants,
\* and when there is no session neither holds any.
InSync ==
    ui = "idle" /\ vui = "idle" =>
        /\ Settled => access = vAccess
        /\ Apart => access = Blocked /\ vAccess = Blocked

\* Both ends show what they hold: at rest, the viewer shows its live window exactly
\* while the host serves it, and the host's buttons and label show the viewer's
\* grants too, unless an update of theirs has been dropped and nothing has refreshed
\* them since (server/main.cpp:166-168, 1084-1086, viewer/main.cpp:1160-1175).
WindowsAgree ==
    BothAtRest =>
        /\ ~lost => caption = vAccess /\ enabled = shown
        /\ shown <=> Settled

\* Whatever the users start comes to rest: what one side sends reaches the other and
\* is applied, and a session that one side leaves is over on both, so that each can
\* begin the next (server/main.cpp:521-567, viewer/main.cpp:597-640).  With turns
\* and two lines of room no send waits; that those which do are ended is said by
\* StopCompletes and VideoJoins.
ComesToRest == []<>BothAtRest

=============================================================================
