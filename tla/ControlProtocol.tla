-------------------------- MODULE ControlProtocol --------------------------
(***************************************************************************)
(* The lines of the control connection (TCP port 50510).  Both programs    *)
(* exchange newline-terminated text lines whose prefixes are the constants *)
(* of common/protocol.h.  A line is modelled by what its parser tells      *)
(* apart: the kind, the two grants of an access line, and the device whose *)
(* grant gates an input line.                                              *)
(***************************************************************************)

\* The two kinds of input a host grants separately.
Device == {"keyboard", "mouse"}

Grant == [Device -> BOOLEAN]
Blocked == [d \in Device |-> FALSE]

\* The value of every field a line does not carry.
NoDevice == "none"

Hello      == [kind |-> "hello", grant |-> Blocked, dev |-> NoDevice]
Ok         == [kind |-> "ok", grant |-> Blocked, dev |-> NoDevice]
Disconnect == [kind |-> "disconnect", grant |-> Blocked, dev |-> NoDevice]

\* RM_ACCESS_STATE|keyboard=k|mouse=m
AccessLine(g) == [kind |-> "access", grant |-> g, dev |-> NoDevice]

\* RM_KEY_EVENT (keyboard) and RM_MOUSE_MOVE / _BUTTON / _WHEEL (mouse)
InputLine(d) == [kind |-> "input", grant |-> Blocked, dev |-> d]

Line == {Hello, Ok, Disconnect}
          \cup {AccessLine(g) : g \in Grant}
          \cup {InputLine(d) : d \in Device}

=============================================================================
