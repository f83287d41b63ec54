------------------------------- MODULE Ltdesk -------------------------------
(***************************************************************************)
(* The host's life as a process, and the ltdesk command that starts it,     *)
(* stops it and asks for it.  A host creates a named mutex first and exits  *)
(* when it was there already; it has a window, by which ltdesk finds it,    *)
(* until WM_CLOSE has stopped the server and destroyed it; and its handle   *)
(* of the mutex is closed after that, when the message loop has ended.      *)
(*                                                                         *)
(* Any number of commands run at once.  A process is named after what       *)
(* started it: the command whose `up' it was, or a start by the user.       *)
(***************************************************************************)
EXTENDS Naturals, Sequences, FiniteSets

CONSTANTS Cmd,     \* the commands that will be given
          Launch,  \* the times the user starts a host without ltdesk
          Denied   \* the processes whose CreateMutex is refused

ASSUME LtdeskAssumption == Denied \subseteq Cmd \cup Launch /\ Cmd \cap Launch = {}

Proc == Cmd \cup Launch

VARIABLES
    at,       \* at[p]: how far process p is in WinMain
    queue,    \* queue[p]: the messages posted to its window
    serving,  \* serving[p]: g_serverRunning
    pc,       \* pc[c]: where command c is
    op,       \* op[c]: which command it is
    found,    \* found[c]: the host whose window it found (or a process of no window)
    handle,   \* handle[c]: whether it has opened that process
    result    \* result[c]: what it reported

host == <<at, queue, serving>>
command == <<pc, op, found, handle, result>>
vars == <<at, queue, serving, pc, op, found, handle, result>>

\* The window can be found until DestroyWindow, while the server stops too.
Window(p) == at[p] \in {"made", "run", "halt", "close"}

\* A handle is closed with its process at the latest.
Holding(p) ==
    p \notin Denied /\ at[p] \in {"second", "create", "made", "run", "halt", "close", "gone"}

\* A wrong Locked: the handle is closed before the window.
LockedWhileOpen == \E p \in Proc : Holding(p) /\ at[p] \notin {"close", "gone"}

Locked == \E p \in Proc : Holding(p)

LtdeskTypeOK ==
    /\ at \in [Proc -> {"none", "begin", "second", "create", "made", "run", "halt",
                        "close", "gone", "ended"}]
    /\ queue \in [Proc -> Seq({"power", "close"})]
    /\ \A p \in Proc : queue[p] # <<>> => Window(p)
    /\ serving \in [Proc -> BOOLEAN]
    /\ \A p \in Proc : serving[p] => at[p] = "run"
    /\ pc \in [Cmd -> {"idle", "find", "spawn", "wait", "ask", "open", "post", "watch",
                       "done"}]
    /\ op \in [Cmd -> {"none", "up", "down", "status"}]
    /\ found \in [Cmd -> Proc] /\ handle \in [Cmd -> BOOLEAN]
    /\ result \in [Cmd -> {"none", "already", "failed", "started", "unseen", "absent",
                           "stopped", "late", "running"}]

Init ==
    /\ at = [p \in Proc |-> "none"]
    /\ queue = [p \in Proc |-> <<>>]
    /\ serving = [p \in Proc |-> FALSE]
    /\ pc = [c \in Cmd |-> "idle"] /\ op = [c \in Cmd |-> "none"]
    /\ found = [c \in Cmd |-> c]
    /\ handle = [c \in Cmd |-> FALSE] /\ result = [c \in Cmd |-> "none"]

------------------------------------------------------------------------------
(* The host: WinMain and window_proc of server/main.cpp.                    *)

Move(p, from, to) == at[p] = from /\ at' = [at EXCEPT ![p] = to]

UserStarts(p) ==
    /\ p \in Launch /\ Move(p, "none", "begin")
    /\ UNCHANGED <<queue, serving, command>>

\* CreateMutexA; a null handle is not taken for a host that is there.
Begin(p) ==
    /\ Move(p, "begin", IF p \notin Denied /\ Locked THEN "second" ELSE "create")
    /\ UNCHANGED <<queue, serving, command>>

\* The second instance shows the window of the first, if it finds one, and returns.
Second(p) == Move(p, "second", "ended") /\ UNCHANGED <<queue, serving, command>>

\* CreateWindowExA, which may fail.
Create(p) ==
    /\ \E to \in {"made", "ended"} : Move(p, "create", to)
    /\ UNCHANGED <<queue, serving, command>>

\* The window is shown, and the process that ltdesk started (--auto-start) posts a
\* click of the power button to itself: behind what has been posted to the window.
Enter(p) ==
    /\ Move(p, "made", "run")
    /\ queue' = IF p \in Cmd THEN [queue EXCEPT ![p] = Append(@, "power")] ELSE queue
    /\ UNCHANGED <<serving, command>>

\* The power button: start_server, if WinSock starts, or stop_server, which joins
\* the server's threads on this one.
Power(p) ==
    IF serving[p]
      THEN serving' = [serving EXCEPT ![p] = FALSE] /\ at' = [at EXCEPT ![p] = "halt"]
      ELSE (\E b \in BOOLEAN : serving' = [serving EXCEPT ![p] = b]) /\ UNCHANGED at

Takes(p, msg) ==
    /\ at[p] = "run" /\ queue[p] # <<>> /\ Head(queue[p]) = msg
    /\ queue' = [queue EXCEPT ![p] = Tail(@)]

TakePower(p) == Takes(p, "power") /\ Power(p) /\ UNCHANGED command

\* The user's click, or the tray menu's Start and Stop, which are enabled when they
\* do the same.  What was posted before goes first.
Click(p) ==
    at[p] = "run" /\ queue[p] = <<>> /\ Power(p) /\ UNCHANGED <<queue, command>>

Halted(p) == Move(p, "halt", "run") /\ UNCHANGED <<queue, serving, command>>

\* WM_CLOSE begins with stop_server.
Shut(p) == at' = [at EXCEPT ![p] = "close"] /\ serving' = [serving EXCEPT ![p] = FALSE]

TakeClose(p) == Takes(p, "close") /\ Shut(p) /\ UNCHANGED command

\* The tray menu's Exit, or the window's close box.
Exit(p) ==
    at[p] = "run" /\ queue[p] = <<>> /\ Shut(p) /\ UNCHANGED <<queue, command>>

\* A wrong Destroy: what was posted to the window is still there.
DestroyKeeps(p) == Move(p, "close", "gone") /\ UNCHANGED <<queue, serving, command>>

\* The server has stopped: DestroyWindow, whose WM_DESTROY finds nothing to stop.
Destroy(p) ==
    /\ Move(p, "close", "gone")
    /\ queue' = [queue EXCEPT ![p] = <<>>]
    /\ UNCHANGED <<serving, command>>

\* GetMessageA returns WM_QUIT, and the mutex is let go.
Leave(p) == Move(p, "gone", "ended") /\ UNCHANGED <<queue, serving, command>>

------------------------------------------------------------------------------
(* The command: tools/ltdesk.cpp.                                           *)

Goto(c, from, to) == pc[c] = from /\ pc' = [pc EXCEPT ![c] = to]

Report(c, from, r) == Goto(c, from, "done") /\ result' = [result EXCEPT ![c] = r]

Given(c) ==
    /\ Goto(c, "idle", "find")
    /\ \E o \in {"up", "down", "status"} : op' = [op EXCEPT ![c] = o]
    /\ UNCHANGED <<host, found, handle, result>>

Seen == \E p \in Proc : Window(p)

UpFinds(c) ==
    /\ op[c] = "up"
    /\ IF Seen THEN Report(c, "find", "already")
               ELSE Goto(c, "find", "spawn") /\ UNCHANGED result
    /\ UNCHANGED <<host, op, found, handle>>

\* CreateProcessW, or a failure (no such file, or not started).
UpSpawns(c) ==
    /\ op[c] = "up"
    /\ \/ Goto(c, "spawn", "wait") /\ Move(c, "none", "begin") /\ UNCHANGED result
       \/ Report(c, "spawn", "failed") /\ UNCHANGED at
    /\ UNCHANGED <<queue, serving, op, found, handle>>

\* wait_for_server_window looks for any host's window, for five seconds.
UpSees(c) == Seen /\ Report(c, "wait", "started") /\ UNCHANGED <<host, op, found, handle>>

UpGivesUp(c) == Report(c, "wait", "unseen") /\ UNCHANGED <<host, op, found, handle>>

DownFinds(c) ==
    /\ op[c] = "down"
    /\ \/ /\ \E p \in Proc : Window(p) /\ found' = [found EXCEPT ![c] = p]
          /\ Goto(c, "find", "ask") /\ UNCHANGED result
       \/ ~Seen /\ Report(c, "find", "absent") /\ UNCHANGED found
    /\ UNCHANGED <<host, op, handle>>

\* Whose window it is: a window that has been destroyed meanwhile is no one's, and
\* then no process is opened.
DownAsks(c) ==
    /\ IF Window(found[c]) THEN Goto(c, "ask", "open") ELSE Goto(c, "ask", "post")
    /\ UNCHANGED <<host, op, found, handle, result>>

\* OpenProcess, which may be refused, and fails when the process has ended since.  (A
\* process identifier that a new process has been given by then is left out.)
DownOpens(c) ==
    /\ Goto(c, "open", "post")
    /\ \E b \in BOOLEAN :
         (b => at[found[c]] # "ended") /\ handle' = [handle EXCEPT ![c] = b]
    /\ UNCHANGED <<host, op, found, result>>

\* WM_CLOSE is posted, to no one if the window is gone; no process, no wait.
DownPosts(c) ==
    /\ queue' = IF Window(found[c]) THEN [queue EXCEPT ![found[c]] = Append(@, "close")]
                                    ELSE queue
    /\ IF handle[c] THEN Goto(c, "post", "watch") /\ UNCHANGED result
                    ELSE Report(c, "post", "stopped")
    /\ UNCHANGED <<at, serving, op, found, handle>>

\* The wait ends with the process.  The code asks only whether it timed out; a wait
\* that fails, which the handle of an open process does not, would be taken for this.
DownSeesEnd(c) ==
    /\ at[found[c]] = "ended" /\ Report(c, "watch", "stopped")
    /\ UNCHANGED <<host, op, found, handle>>

\* A wrong DownGivesUp: the result of the wait is not looked at.
DownAssumes(c) == Report(c, "watch", "stopped") /\ UNCHANGED <<host, op, found, handle>>

\* WaitForSingleObject times out after ten seconds.
DownGivesUp(c) == Report(c, "watch", "late") /\ UNCHANGED <<host, op, found, handle>>

Status(c) ==
    /\ op[c] = "status" /\ Report(c, "find", IF Seen THEN "running" ELSE "absent")
    /\ UNCHANGED <<host, op, found, handle>>

------------------------------------------------------------------------------
HostStep(p) ==
    \/ Begin(p) \/ Second(p) \/ Create(p) \/ Enter(p) \/ TakePower(p) \/ Halted(p)
    \/ TakeClose(p) \/ Destroy(p) \/ Leave(p)

CmdStep(c) ==
    \/ UpFinds(c) \/ UpSpawns(c) \/ UpSees(c) \/ UpGivesUp(c) \/ DownFinds(c)
    \/ DownAsks(c) \/ DownOpens(c) \/ DownPosts(c) \/ DownSeesEnd(c) \/ DownGivesUp(c)
    \/ Status(c)

Next ==
    \/ \E p \in Proc : HostStep(p) \/ UserStarts(p) \/ Click(p) \/ Exit(p)
    \/ \E c \in Cmd : Given(c) \/ CmdStep(c)

Spec == Init /\ [][Next]_vars

------------------------------------------------------------------------------
\* However many are started at once, and while one is on its way out, there is one
\* host with a window, unless its mutex was refused: the mutex is let go only after
\* the window is (server/main.cpp:1116-1127, 1179-1181).
OneHost ==
    \A p, q \in Proc \ Denied : Window(p) /\ Window(q) => p = q

\* A `down' that waited for the process it found and reports it stopped has seen it
\* end, and with it the server, although the window it was found by, and the process,
\* may go between its steps (tools/ltdesk.cpp:128-149).  One that could not open the
\* process says the same without having waited.
WaitedDownIsGone ==
    \A c \in Cmd : result[c] = "stopped" /\ handle[c] => at[found[c]] = "ended"

=============================================================================
