----------------------------- MODULE InputRelay -----------------------------
(***************************************************************************)
(* Keys, buttons and the pointer, from the viewer's user to the host's     *)
(* desktop: the messages that the viewer's window gets and what it sends   *)
(* for each (viewer/main.cpp, window_proc), the line on its way, and the   *)
(* host's check of the grant before it injects (server/main.cpp,           *)
(* process_control_line).                                                  *)
(*                                                                         *)
(* Windows is modelled as it is used here: a key goes to the window that   *)
(* has the focus; a button or a movement to the window under the pointer,  *)
(* or to the one that holds the capture; a registered hotkey takes the     *)
(* letter's press and leaves its release; keys held down repeat.           *)
(*                                                                         *)
(* Sessions and grants are those of HostControl and ViewerControl, at the  *)
(* grain that the input sees.                                              *)
(***************************************************************************)
EXTENDS Pointer, ControlProtocol, Sequences

CONSTANTS Keys, Buttons,
          Alt, Letter,   \* the key of every hotkey, and the letter of each device's
          Scenes,        \* what the user works with, and the sizes of what is shown
          NoLine,
          Depth, Changes \* bounds: lines to the host, and changes of its grants, in flight

Inputs == Keys \cup Buttons

ASSUME InputsAssumption ==
    /\ Keys \cap Buttons = {} /\ Alt \in Keys /\ Letter \in [Device -> Keys \ {Alt}]
    /\ Depth \in Nat \ {0} /\ Changes \in Nat \ {0}
ASSUME NoLineAssumption ==
    /\ NoLine \notin [kind : {"input"}, id : Inputs, down : BOOLEAN, aim : Int]
    /\ NoLine \notin [kind : {"move"}, x : Int]
\* SendInput tells 65536 positions apart, and no screen is wider.
ASSUME ScenesAssumption ==
    \A s \in Scenes :
        /\ s.inputs \subseteq Inputs /\ s.places \subseteq Int /\ s.places # {}
        /\ s.desktop \in Nat /\ 1 < s.desktop /\ s.desktop <= 65536
        /\ s.bounds \in Int \X Int /\ s.image \in Int \X Int

VARIABLES
    scene, rect,     \* the scene; g_lastVideoRect, its width
    viewer, host,    \* g_connected of the viewer; the host's handler
    vAccess, hAccess,
    toHost, toViewer,
    shown,           \* g_remoteScreenWidth is known: a frame has come
    phys, at,        \* what the user holds down; where the pointer is, from the rect's left
    focus, capture,
    told,            \* WM_ACCESS_CHANGED is posted
    ui,              \* the button line that the window has still to send
    checked,         \* the line the host is about to inject
    held, cursor,    \* what is down, and where the cursor is, on the host's desktop
    attended, late   \* history: see Attend; inputs injected since the grant was taken

session == <<viewer, host>>
access == <<vAccess, hAccess>>
channel == <<toHost, toViewer>>
user == <<phys, at>>
window == <<focus, capture, told, ui>>
desktop == <<checked, held, cursor, late>>
vars == <<scene, rect, session, access, channel, shown, user, window, desktop, attended>>

DeviceOf(i) == IF i \in Keys THEN "keyboard" ELSE "mouse"
InputsOf(d) == IF d = "keyboard" THEN Keys ELSE Buttons

\* The lines.  `aim` is where the pointer was, a place only the model knows.
EventLine(i, down, aim) == [kind |-> "input", id |-> i, down |-> down, aim |-> aim]
MoveLine(x) == [kind |-> "move", x |-> x]
NoAim == -100  \* no move was sent
LineDevice(line) == IF line.kind = "move" THEN "mouse" ELSE DeviceOf(line.id)

Init ==
    /\ scene \in Scenes
    /\ rect \in FitWidth(scene.bounds[1], scene.bounds[2], scene.image[1], scene.image[2])
    /\ viewer = "out" /\ host = "idle"
    /\ vAccess = Blocked /\ hAccess = Blocked /\ toHost = <<>> /\ toViewer = <<>>
    /\ shown \in scene.shown
    /\ phys = {} /\ at \in scene.places
    /\ focus = TRUE /\ capture = FALSE /\ told = FALSE /\ ui = NoLine
    /\ checked = NoLine /\ held = {} /\ cursor = 0
    /\ attended = {} /\ late = [d \in Device |-> 0]

InputTypeOK ==
    /\ scene \in Scenes /\ rect \in Int
    /\ viewer \in {"out", "in"} /\ host \in {"idle", "serving", "stopped"}
    /\ vAccess \in Grant /\ hAccess \in Grant
    /\ Len(toHost) <= Depth /\ Len(toViewer) <= Changes
    /\ \A i \in DOMAIN toHost :
        LET line == toHost[i]
        IN  \/ line.kind = "input" /\ line.id \in scene.inputs
            \/ line.kind = "move" /\ line.x \in 0 .. scene.desktop - 1
            \/ line.kind = "access" /\ line.grant \in Grant
    /\ phys \subseteq scene.inputs /\ held \subseteq scene.inputs
    /\ ui # NoLine => ui.id \in Buttons
    /\ cursor \in 0 .. scene.desktop - 1
    /\ attended \subseteq scene.inputs

------------------------------------------------------------------------------
\* What the viewer's window may send, and where it goes: a host that has left reads
\* no more.
Sends(d) == viewer = "in" /\ vAccess[d]
Put(lines) ==
    /\ Len(toHost \o lines) <= Depth
    /\ toHost' = IF host = "idle" THEN toHost ELSE toHost \o lines
SendIf(may, lines) == IF may THEN Put(lines) ELSE UNCHANGED toHost

Moves == shown /\ rect > 1
MoveLines(p) == IF Moves THEN {<<MoveLine(x)>> : x \in ToRemote(p, rect, scene.desktop)} ELSE {<<>>}

\* History.  The input is attended when a line about its press is on a way that is open
\* to the end; it is no longer when a grant on that way or the session ends, or when the
\* window will not be told of its release.
Open(d) == Sends(d) /\ host = "serving" /\ hAccess[d]
Attend(i, sent) == attended' = IF sent /\ Open(DeviceOf(i)) THEN attended \cup {i} ELSE attended \ {i}
Closed(a) == UNION {InputsOf(d) : d \in {e \in Device : ~a[e]}}
LostWith(released) == IF released THEN phys \cap Buttons ELSE {}

\* The window is between two messages.
Handles == ui = NoLine
Hot(k) == Alt \in phys /\ \E d \in Device : k = Letter[d]

\* WM_KEYDOWN, WM_SYSKEYDOWN; a key held down repeats.
KeyDown(k) ==
    /\ Handles /\ k \in scene.inputs \cap Keys /\ ~Hot(k)
    /\ phys' = phys \cup {k}
    /\ SendIf(focus /\ Sends("keyboard"), <<EventLine(k, TRUE, NoAim)>>)
    /\ Attend(k, focus)
    /\ UNCHANGED <<scene, rect, session, access, toViewer, shown, at, window, desktop>>

\* A wrong KeyUp: WM_SYSKEYUP is not handled, and a key released while Alt is down is lost.
KeyUpNoSys(k) ==
    /\ Handles /\ k \in phys \cap Keys
    /\ phys' = phys \ {k}
    /\ SendIf(focus /\ Sends("keyboard") /\ Alt \notin phys, <<EventLine(k, FALSE, NoAim)>>)
    /\ UNCHANGED <<scene, rect, session, access, toViewer, shown, at, window, desktop, attended>>

\* WM_KEYUP, WM_SYSKEYUP
KeyUp(k) ==
    /\ Handles /\ k \in phys \cap Keys
    /\ phys' = phys \ {k}
    /\ SendIf(focus /\ Sends("keyboard"), <<EventLine(k, FALSE, NoAim)>>)
    /\ UNCHANGED <<scene, rect, session, access, toViewer, shown, at, window, desktop, attended>>

\* WM_HOTKEY for Alt+K or Alt+M, whatever window has the focus.
Hotkey(d) ==
    /\ Handles /\ Alt \in phys /\ Letter[d] \in scene.inputs
    /\ phys' = phys \cup {Letter[d]}
    /\ LET new == [vAccess EXCEPT ![d] = ~@]
           release == d = "mouse" /\ ~new[d]
       IN  IF viewer = "in"
           THEN /\ vAccess' = new
                /\ capture' = (capture /\ ~release)
                /\ Put(<<AccessLine(new)>>)
                /\ attended' = attended \ ({Letter[d]} \cup Closed(new))
           ELSE /\ attended' = attended \ {Letter[d]}
                /\ UNCHANGED <<vAccess, capture, toHost>>
    /\ UNCHANGED <<scene, rect, session, hAccess, toViewer, shown, at, focus, told, ui, desktop>>

\* The button messages come to the window under the pointer or with the capture; it
\* moves the cursor first, and then sends the button.
OverPicture(p) == 0 <= p /\ p <= rect
OverWindow(p) == -10 <= p /\ p < rect + 10
GetsMouse == OverWindow(at) \/ capture

ButtonDown(b) ==
    /\ Handles /\ b \in (scene.inputs \cap Buttons) \ phys
    /\ phys' = phys \cup {b}
    /\ LET handled == GetsMouse /\ Sends("mouse")
       IN  /\ \E lines \in MoveLines(at) : SendIf(handled, lines)
           /\ ui' = IF handled THEN EventLine(b, TRUE, IF Moves THEN at ELSE NoAim) ELSE NoLine
           /\ focus' = (focus \/ GetsMouse)
           /\ capture' = (capture \/ handled)
           /\ Attend(b, handled)
    /\ UNCHANGED <<scene, rect, session, access, toViewer, shown, at, told, desktop>>

ButtonUp(b) ==
    /\ Handles /\ b \in phys \cap Buttons
    /\ phys' = phys \ {b}
    /\ LET handled == GetsMouse /\ Sends("mouse")
       IN  /\ \E lines \in MoveLines(at) : SendIf(handled, lines)
           /\ ui' = IF handled THEN EventLine(b, FALSE, NoAim) ELSE NoLine
    /\ UNCHANGED <<scene, rect, session, access, toViewer, shown, at, focus, capture, told,
                   desktop, attended>>

\* send_mouse_button asks again whether it may; a release gives up the capture.
ButtonSent ==
    /\ ui # NoLine
    /\ ui' = NoLine
    /\ SendIf(Sends("mouse"), <<ui>>)
    /\ capture' = (capture /\ ui.down)
    /\ attended' = attended \ LostWith(~ui.down)
    /\ UNCHANGED <<scene, rect, session, access, toViewer, shown, user, focus, told, desktop>>

\* WM_MOUSEMOVE
PointerMoves(p) ==
    /\ Handles /\ p \in scene.places \ {at}
    /\ at' = p
    /\ \E lines \in MoveLines(p) : SendIf(Sends("mouse") /\ (OverPicture(p) \/ capture), lines)
    /\ UNCHANGED <<scene, rect, session, access, toViewer, shown, phys, window, desktop, attended>>

\* Another window is activated, which may or may not end the capture; no message of this
\* is handled, and what is down stays down.
FocusLost ==
    /\ Handles /\ focus /\ focus' = FALSE
    /\ \E ends \in BOOLEAN :
        /\ capture' = (capture /\ ~ends)
        /\ attended' = attended \ (Keys \cup LostWith(ends))
    /\ UNCHANGED <<scene, rect, session, access, channel, shown, user, told, ui, desktop>>

FocusGained ==
    /\ Handles /\ ~focus /\ focus' = TRUE
    /\ UNCHANGED <<scene, rect, session, access, channel, shown, user, capture, told, ui,
                   desktop, attended>>

\* WM_ACCESS_CHANGED
AccessTold ==
    /\ Handles /\ told /\ told' = FALSE
    /\ capture' = (capture /\ vAccess["mouse"])
    /\ attended' = attended \ LostWith(~vAccess["mouse"])
    /\ UNCHANGED <<scene, rect, session, access, channel, shown, user, focus, ui, desktop>>

\* Alt+X, or the window is closed.
ViewerLeaves ==
    /\ Handles /\ viewer = "in" /\ viewer' = "out"
    /\ vAccess' = Blocked /\ capture' = FALSE /\ toViewer' = <<>> /\ attended' = {}
    /\ UNCHANGED <<scene, rect, host, hAccess, toHost, shown, user, focus, told, ui, desktop>>

------------------------------------------------------------------------------
\* The viewer's other threads.
ViewerApplies ==
    /\ viewer = "in" /\ toViewer # <<>>
    /\ vAccess' = Head(toViewer) /\ toViewer' = Tail(toViewer) /\ told' = TRUE
    /\ attended' = attended \ Closed(Head(toViewer))
    /\ UNCHANGED <<scene, rect, session, hAccess, toHost, shown, user, focus, capture, ui, desktop>>

ViewerSees ==
    /\ viewer = "in" /\ host # "serving" /\ viewer' = "out"
    /\ vAccess' = Blocked /\ toViewer' = <<>> /\ attended' = {}
    /\ UNCHANGED <<scene, rect, host, hAccess, toHost, shown, user, window, desktop>>

FrameArrives ==
    /\ viewer = "in" /\ ~shown /\ shown' = TRUE
    /\ UNCHANGED <<scene, rect, session, access, channel, user, window, desktop, attended>>

\* The host.
Begin ==
    /\ viewer = "out" /\ host = "idle" /\ viewer' = "in" /\ host' = "serving"
    /\ UNCHANGED <<scene, rect, access, channel, shown, user, window, desktop, attended>>

HostClick(d) ==
    /\ host = "serving" /\ d \in scene.clicks /\ Len(toViewer) < Changes
    /\ LET new == [hAccess EXCEPT ![d] = ~@]
       IN  /\ hAccess' = new
           /\ toViewer' = IF viewer = "in" THEN Append(toViewer, new) ELSE toViewer
           /\ attended' = attended \ Closed(new)
           /\ late' = [late EXCEPT ![d] = 0]
    /\ UNCHANGED <<scene, rect, session, vAccess, toHost, shown, user, window, checked, held, cursor>>

\* A wrong HostTakes: only the viewer's own check of the grants is left.
HostTakesUnchecked ==
    /\ host # "idle" /\ checked = NoLine /\ toHost # <<>>
    /\ LET line == Head(toHost)
       IN  /\ toHost' = Tail(toHost)
           /\ IF line.kind = "access"
              THEN /\ hAccess' = line.grant
                   /\ attended' = attended \ Closed(line.grant)
                   /\ late' = [d \in Device |-> IF line.grant[d] # hAccess[d] THEN 0 ELSE late[d]]
                   /\ UNCHANGED checked
              ELSE checked' = line /\ UNCHANGED <<hAccess, attended, late>>
    /\ UNCHANGED <<scene, rect, session, vAccess, toViewer, shown, user, window, held, cursor>>

\* The handler takes a line: it applies a change of the grants, and of the rest keeps
\* what its grant allows.
HostTakes ==
    /\ host # "idle" /\ checked = NoLine /\ toHost # <<>>
    /\ LET line == Head(toHost)
       IN  /\ toHost' = Tail(toHost)
           /\ IF line.kind = "access"
              THEN /\ hAccess' = line.grant
                   /\ attended' = attended \ Closed(line.grant)
                   /\ late' = [d \in Device |-> IF line.grant[d] # hAccess[d] THEN 0 ELSE late[d]]
                   /\ UNCHANGED checked
              ELSE /\ checked' = IF hAccess[LineDevice(line)] THEN line ELSE NoLine
                   /\ UNCHANGED <<hAccess, attended, late>>
    /\ UNCHANGED <<scene, rect, session, vAccess, toViewer, shown, user, window, held, cursor>>

\* inject_keyboard_event, inject_mouse_button, inject_mouse_move
HostInjects ==
    /\ checked # NoLine /\ checked' = NoLine
    /\ IF checked.kind = "move"
       THEN cursor' = Injected(checked.x, scene.desktop) /\ UNCHANGED held
       ELSE /\ held' = IF checked.down THEN held \cup {checked.id} ELSE held \ {checked.id}
            /\ UNCHANGED cursor
    /\ LET d == LineDevice(checked)
       IN  late' = IF hAccess[d] \/ late[d] = 2 THEN late ELSE [late EXCEPT ![d] = @ + 1]
    /\ UNCHANGED <<scene, rect, session, access, channel, shown, user, window, attended>>

HostStops ==
    /\ host = "serving" /\ host' = "stopped"
    /\ attended' = {}
    /\ UNCHANGED <<scene, rect, viewer, access, channel, shown, user, window, desktop>>

\* The handler's end: told to stop, or after the last line of a viewer that has left.
HostLeaves ==
    /\ host = "stopped" \/ (host = "serving" /\ viewer = "out" /\ toHost = <<>>)
    /\ checked = NoLine
    /\ host' = "idle" /\ hAccess' = Blocked /\ toHost' = <<>>
    /\ late' = [d \in Device |-> 0]
    /\ UNCHANGED <<scene, rect, viewer, vAccess, toViewer, shown, user, window, checked, held,
                   cursor, attended>>

User ==
    \/ \E k \in Keys : KeyDown(k) \/ KeyUp(k)
    \/ \E b \in Buttons : ButtonDown(b) \/ ButtonUp(b)
    \/ \E d \in Device : Hotkey(d) \/ HostClick(d)
    \/ \E p \in scene.places : PointerMoves(p)
    \/ FocusLost \/ FocusGained \/ ViewerLeaves \/ HostStops

Programs ==
    \/ ButtonSent \/ AccessTold \/ ViewerApplies \/ ViewerSees \/ FrameArrives
    \/ Begin \/ HostTakes \/ HostInjects \/ HostLeaves

Next == User \/ Programs

Spec == Init /\ [][Next]_vars

------------------------------------------------------------------------------
\* What is still to be injected about an input: the window's line comes after those on
\* their way, and these after the one that the host is about to inject.
Tells(line, i) == line # NoLine /\ line.kind = "input" /\ line.id = i

\* Whether an input will be down on the host once all that is in flight is injected.
WillBeDown(i) ==
    LET about == {n \in DOMAIN toHost : Tells(toHost[n], i)}
    IN  IF Tells(ui, i) THEN ui.down
        ELSE IF about # {} THEN \E n \in about : toHost[n].down /\ \A m \in about : m <= n
        ELSE IF Tells(checked, i) THEN checked.down
        ELSE i \in held

\* No key or button is left down on the host's desktop, or up, against what the viewer's
\* user does, as long as both grants and the session last and the window is told of the
\* release (viewer/main.cpp:1014-1099, server/main.cpp:370-419).
Faithful == \A i \in attended : WillBeDown(i) <=> i \in phys

Presses(line, b) == Tells(line, b) /\ line.down

\* A press of a button finds the cursor where the user pointed at: the move that was sent
\* before it has been injected, and has brought the cursor there (viewer/main.cpp:724-728,
\* 1042-1043, server/main.cpp:309-313).  Until the first frame no move is sent.
ClickLands ==
    \A b \in attended \cap Buttons :
        /\ Presses(checked, b) /\ checked.aim # NoAim
        /\ ~Presses(ui, b) /\ \A n \in DOMAIN toHost : ~Presses(toHost[n], b)
        => Lands(cursor, checked.aim, rect, scene.desktop)

\* Once a grant is taken away, one more input of that device at most reaches the desktop:
\* the one whose check was passed (server/main.cpp:371-381).
OneLate == \A d \in Device : late[d] <= 1

=============================================================================
