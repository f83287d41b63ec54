----------------------------- MODULE GrantGate ------------------------------
(***************************************************************************)
(* What the host promises of its grants, without threads, sockets, lines   *)
(* or windows: viewers hold the host's keyboard and mouse one at a time,   *)
(* only while the server is not off, and only what has been granted since  *)
(* their session began, but for one late click.  HostControl implements it.*)
(***************************************************************************)
EXTENDS ControlProtocol

CONSTANTS Conn, NoConn

VARIABLES power,   \* whether the server is on, off, or being stopped
          viewer,  \* the viewer that is connected, or NoConn
          grant    \* what it may do

vars == <<power, viewer, grant>>

Init == power = "off" /\ viewer = NoConn /\ grant = Blocked

TurnOn == power = "off" /\ power' = "on" /\ UNCHANGED <<viewer, grant>>

TurnOff == power = "on" /\ power' = "stopping" /\ UNCHANGED <<viewer, grant>>

Stopped ==
    /\ power = "stopping" /\ viewer = NoConn
    /\ power' = "off" /\ UNCHANGED <<viewer, grant>>

\* A session begins with nothing granted, except by one click that was meant for
\* the session before; a stop may be under way that has yet to close it.
AtMostOne(g) == ~(g["keyboard"] /\ g["mouse"])

Begin(c) ==
    /\ power # "off" /\ viewer = NoConn
    /\ viewer' = c
    /\ grant' \in {g \in Grant : AtMostOne(g)}
    /\ UNCHANGED power

\* One grant is switched, by either user, or revoked as the session ends.
Set(d, b) ==
    /\ viewer # NoConn
    /\ grant' = [grant EXCEPT ![d] = b]
    /\ UNCHANGED <<power, viewer>>

End ==
    /\ viewer # NoConn
    /\ viewer' = NoConn /\ grant' = Blocked
    /\ UNCHANGED power

Next ==
    \/ TurnOn \/ TurnOff \/ Stopped \/ End
    \/ \E c \in Conn : Begin(c)
    \/ \E d \in Device, b \in BOOLEAN : Set(d, b)

Spec == Init /\ [][Next]_vars

=============================================================================
