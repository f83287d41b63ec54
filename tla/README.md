# RemoteMirror in TLA+

RemoteMirror mirrors the screen of one Windows PC, the *host*, on another, the
*viewer*, and lets the viewer drive the host's keyboard and mouse while the host's
user or the viewer's has switched the matching grant on.  This directory models
what the two programs do, model-checks it with TLC and proves with TLAPS the safety of
all its parts.  Line numbers are those of the repository's files.

## The system

| Part | Where | State | Operations |
|---|---|---|---|
| Host, control side | `server/main.cpp` | `g_serverRunning`, the two grants, `g_viewerConnected` (four separate atomics); the listening and the client socket under `g_socketMutex`; the buttons and labels of the window | the control thread (`control_loop`, `handle_connected_client`, `process_control_line`); the window thread (`start_server`, `stop_server`, the grant buttons, `WM_UPDATE_ACCESS`) |
| Host, video side | `server/main.cpp`, `server/capture.cpp`, `server/encoder.cpp` | two sockets, the capturer, the encoder and its frames, `first_frame` and `last_keyframe` | `video_loop`, `stream_to_client`; the stop |
| Host, screen capture | `server/capture.cpp` | the Direct3D objects, the staging texture, the GDI fallback, what was delivered | `initialize`, `acquire`, `shutdown` |
| Host, colours | `server/encoder.cpp` | none | `bgra_to_nv12` |
| Host, discovery | `server/main.cpp`, `common/net_utils.cpp` | one UDP socket | `discovery_loop`, `get_primary_ipv4` |
| Host process, `ltdesk` | `server/main.cpp`, `tools/ltdesk.cpp` | a named mutex, the window, its message queue | `WinMain`, `WM_CLOSE`; `up`, `down`, `status` |
| Viewer, connection | `viewer/main.cpp` | `g_connected`, `g_connecting`, the two grants (separate atomics); two sockets under a mutex; what the window shows | the connection thread, the video thread, the window thread (Connect, Alt+X, Alt+K, Alt+M, input, `WM_CLOSE`) |
| Viewer, input | `viewer/main.cpp`; `server/main.cpp` injects | the rectangle of the picture, the mouse capture; what is held down on the host's desktop | the key, button and movement messages; `inject_*` |
| Viewer, decoding | `viewer/main.cpp`, `viewer/decoder.cpp` | the decoder's reference picture, the picture shown | `video_receive_loop`, `H264Decoder::decode`, `nv12_to_bgra` |
| Viewer, discovery | `viewer/main.cpp` | the search's thread and flag, the server list | `start_discovery`, `discovery_loop`, `WM_ADD_SERVER`, `WM_DISCOVERY_DONE` |

The two programs exchange text lines over the control connection (TCP 50510): hello,
OK, the state of the two grants in either direction, input from the viewer, and a
disconnect.  Access units with a header go from host to viewer over the video
connection (TCP 50511), requests and replies over UDP 50500.  Inside a program the
threads share atomics and sockets, and post messages to the window thread.

What is hard about it: three threads of a program start, stop and close one another's
sockets; a send waits for room with the mutex taken; the grants are stored separately
on each end and overwritten by whatever line comes next; a value checked by one thread
is used after another has changed it; Windows drops a posted message when the queue,
which all messages share, is full; an encoder call may fail after it has taken units out; any of a dozen system calls of
the capture may fail with objects in hand; a key's press and its release take different
ways; a search's replies are lost, late and repeated.  `PROJECT.json` lists each of these with its line and the
properties about it.

What makes the parts correct: a stop leaves nothing behind and returns; no socket is
leaked, whichever thread closes it; a viewer that waits is served; the two ends hold
and show the same grants; input is injected only under its grant, and neither a key nor a
button is left down against the user; a click lands where it was made; the capture gives
back what it took and calls idle only what was delivered; the stream can be
decoded from where it starts and comes right again after a failure; the list is that
of the search; there is one host process, and what `ltdesk down` has waited for is true.

## The modules

| Module | Models |
|---|---|
| `ControlProtocol` | the lines of the control connection, by what their parsers tell apart |
| `ControlChannel` | the control connections as Winsock gives them (external): in order, boundaries lost, sends that wait for room |
| `GrantGate` | the abstract specification: on, off or stopping, one viewer or none, its grants |
| `HostControl` | the host's control and window threads; viewers are its environment. It implements `GrantGate` (`ImplementsGate`) |
| `ViewerControl` | the viewer's window, connection and video threads; a host is its environment |
| `AccessSync` | `HostControl` and `ViewerControl` together, over one channel, each the other's environment, and their users: it extends both, and takes their threads' actions without those of the environments they imagine |
| `Pointer` | the conversions of the pointer's position, as operators over the integers |
| `InputRelay` | keys, buttons and the pointer from the viewer's user to the host's desktop, on top of `Pointer` |
| `HostVideo` | the host's video thread and the stop; viewers are its environment |
| `Capture` | `ScreenDuplicator` and its calls by `stream_to_client`; the desktop and its failures are its environment |
| `VideoStream` | what is in one stream: captured frames, encoder, units, decoder |
| `Colours` | the conversion of colours on each side, as operators |
| `Discovery` | the viewer's search, the hosts' answers, the list |
| `Addresses` | the choice of the address that a host announces |
| `Ltdesk` | host processes, the mutex, the window, the commands |
| `ControlProofs`, `AccessSyncProofs`, `HostVideoProofs`, `CaptureProofs`, `DiscoveryProofs`, `LtdeskProofs`, `PictureProofs`, `InputRelayProofs` | the proofs: `ControlProofs` about `HostControl` and `ViewerControl`, `DiscoveryProofs` also about `Addresses`, `PictureProofs` about `VideoStream` and `Colours`, `InputRelayProofs` also about `Pointer` |
| `MCHostControl`, `MCViewerControl`, `MCInputRelay` | sets of lines, scenes and symmetry for TLC |

The modules cut the system where its parts share little.  `HostControl` and `ViewerControl`
are composed in `AccessSync`.  `InputRelay` has sessions and grants at the grain of one step
each: their races are the business of the former three, and its own are between a press, a
grant and a release.  `HostVideo` treats the capture's results as choices, which `Capture`
details, and the stream's contents as sizes, which `VideoStream` details.

**Correspondence.**  A variable stands for a global or for a local that outlives a step,
and `ctl`, `conn`, `vid`, `ui`, `vui`, `pc` for where a thread is.  An action is the code
between two points at which another thread can see or change something: one load or
store of an atomic, one critical section, one socket call, one post.  A call that waits
is an action whose guard is what it waits for, and its failure is another action.  A
critical section that sends is two steps (`sending`), because the mutex stays taken while
the send waits.  Code that runs while no other thread exists (`start_server`, what
follows the joins) is one step.  `map` in `PROJECT.json` names the lines of every
definition.

**Abstractions.**  A line is its kind, its grants and the device that gates it; the text
is left out, and positions are in `InputRelay` only, one axis of the two, which are
computed alike.  A captured picture is its width and which picture it is.  An access unit is its size and whether it is a keyframe.
Status texts are left out; of the windows the grant buttons, the live view and the
Refresh button are modelled.  A `recv` returns any number of the whole lines that have
arrived (a hello or OK that arrives in part is refused like a wrong one).  Left out, as
the models say where it matters: half-open connections (a peer that is gone has closed
its end), the reuse of a socket's number while a thread still holds it, and MessageBoxes.

An operator whose comment begins with "A wrong" is a plausible bug beside the definition
it is a wrong form of.  No specification uses it; put in the place of its neighbour
it makes the property that guards against that bug fail.

## The runs

| Run (configuration) | Shows | Bounds |
|---|---|---|
| `HostControl` | `TypeOK`; `OffIsQuiet`: a stop leaves no thread, socket, session or grant; `SessionOwnsSocket`: no accepted socket leaks; `CaptionFresh`: the buttons do not stay wrong, unless a post has been dropped, and then until the next refresh; `ImplementsGate`: every step is one of `GrantGate` | 2 viewers (one served, one waiting, and any number of connections in turn), buffers and queue of 1 |
| `HostControlLive` | `StopCompletes`; `BacklogServed`: a viewer that waits is served or dropped | 2 viewers that say hello, 1 line in a recv, 1 button |
| `ViewerControl` | `VTypeOK`; `ViewerOwnsSockets`; `EndedIsDisconnected`: a connection that is over does not refuse the next; `ConnectComesBack`; `VideoJoins`: the waits for the video thread end; `JoinsReturn`: so do the window's own, once the host hangs up | 1 connection at a time, 1 message waiting when the user acts |
| `AccessTurns` | `InSync`, `WindowsAgree`: both ends hold and show the same grants, when each user acts after all before has had its effect; `ComesToRest`: what is sent is applied, and no session stays that one end has left | 2 lines of room, so that an OK and an access line come in one recv; 1 click, 1 hotkey, 2 connects, 1 Alt+X, 1 stop |
| `HostVideo` | `VideoTypeOK`; `StreamOwnsSocket`; `OffIsDark`; `StopReturns`; `WaitingIsServed` | 3 viewers, 2 units in the buffers, 2 a frame |
| `VideoStream` | `StreamTypeOK`; `StartsWithKey`: each encoder's first unit on the wire is a keyframe; `Recovers`: the picture comes right again | 2 resolutions, 2 frames in the encoder, 2 units on the wire |
| `Discovery` | `DiscoveryTypeOK`; `ListIsThisSearch`; `ThreadJoined`; `NoneForgotten`; `DiscoveryEnds`: a search and a host's thread end | 2 hosts, 2 searches of 2 rounds of 3 receives |
| `Ltdesk` | `LtdeskTypeOK`; `OneHost`; `WaitedDownIsGone` | 2 commands and 2 starts at once, one of them refused the mutex |
| `Capture` | `CaptureTypeOK`; `NothingLeaks`: references and handles are given back on every path; `IdleMeansDelivered`: an idle answer can be believed; `BestOutput` | 2 adapters of 2 outputs in every layout, an even and an odd width, 2 pictures |
| `InputRelay` | `InputTypeOK`; `Faithful`: no key or button is left down, or up, against the user; `ClickLands`: a press finds the cursor where the user pointed; `OneLate`: one input at most comes after a revocation | 5 scenes, 2 lines on the wire, 1 change of the grants in flight |

Why the bounds are enough.  A host serves one viewer at a time, so a second and a third
connection give all relations: one in service, one waiting, one gone.  One line of room
makes every send one that may wait, in `HostControl`, `HostControlLive` and `ViewerControl`;
two make a recv return several, in `AccessTurns`, where with users who take turns no send
waits.  An update may be dropped whatever is in the window's queue, so that its bound does
not matter for what is dropped.  Two hosts make replies overtake each other; a
second search meets what is left of the first; the code's 3 rounds of 4 receives
(`viewer/main.cpp:248-260`) differ from 2 of 3 only in how often a reply is repeated.
Two outputs on each of two adapters put the primary one before, after and beside an
attached one; an odd width is cropped.  A scene of `InputRelay` is a pair of inputs that get
in each other's way (a hotkey's letter and its Alt, two buttons, a button and the hotkey
that takes its grant) or a screen and the pointer's places on, at the edges of and beside
its picture, for a screen larger and one smaller than the window; places on the wire beyond
the second only delay.  What the bounds cannot show, larger instances, the proofs do.

The bounds themselves: `Capacity` and `Room` (socket buffers), `MaxPosted` (the host
window's queue that are `WM_UPDATE_ACCESS`; Windows has room for 10000 messages of all kinds,
and an update is dropped when the others fill it: `PostUpdate` lets it be dropped at any time,
and `lost` remembers it until the window is refreshed), `MaxStates`
(messages waiting when the viewer's user acts), `MaxUnits` and `Depth` (the encoder),
`Searches`, the budgets of the users in `AccessSync`, `Adapters` and `Outputs` of
`Capture`, and `Scenes`, `Depth` and `Changes` of `InputRelay`.

Fairness.  The operating system runs every thread, so each thread's steps are weakly
fair; users are not fair, and may never act.  `StopCompletes` also assumes that viewers
read, and send a hello or go away (`HelloFairness`): without the second it is violated,
see below.  `BacklogServed` and `WaitingIsServed` assume that viewers leave in the
end, that the backlog passes nobody over (strong fairness of the accept), and for
video that the screen goes on changing; they state these as their premises,
so that `StopCompletes` and `StopReturns` in the same runs do without them.  The premise of
`BacklogServed` also has the user stop clicking in the end: one who never does could keep
the mutex from the control thread.  `Recovers`
assumes that encoding of a requested keyframe, the draining of a full encoder and the
decoding of a keyframe succeed again and again, not that they always do.
`JoinsReturn` has as its premise that the host hangs up in the end: a window thread that is
in the join of a connection thread which has opened a session meanwhile waits as long as that
session lasts.

Deadlock is checked, except where the system really may stop: `AccessSync` when the
users' budgets are spent, and `Ltdesk` when all commands have been given.

## Where the code and what is said of it differ

Each of these runs checks one property and ends with a counterexample.

| Run | Property | What happens |
|---|---|---|
| `HostControlStopHangs` | `StopCompletes` (`tools/ltdesk.cpp:162`) | a connection that sends no hello keeps the control thread in a recv that a stop cannot end |
| `AccessCrossed` | `InSync` (`README.md:107`) | a click and an Alt+K cross, and each end takes the other's grants |

`AccessTurns` and `AccessCrossed` belong together: the same property holds when the users
take turns and fails when they do not, which is exactly what the protocol gives.

Other differences are in the models as the code has them, and no property claims the
contrary:

- "New session always starts with nothing granted" (`server/main.cpp:503`): a click on a
  grant button that was checked in one session is stored in the next one after its reset
  (1038-1049 have no lock), so that `GrantGate`'s `Begin` lets one grant of the two be there;
- a grant revoked between its check and the injection does not stop the injection
  (`server/main.cpp:288-420`, `README.md:116`; `CtlCheckInput`, `CtlInject`); `OneLate` says
  that it is one input and no more;
- what is down stays down on the host when the grant is revoked, when a hotkey takes the
  letter and leaves the Alt, when another window gets the focus, or when the session ends:
  nothing releases it (`viewer/main.cpp:768-771, 1019-1022`).  `Faithful` is about the inputs
  whose way stays open (`attended`);
- releasing one of two buttons gives up the capture (`viewer/main.cpp:1053`), and the other's
  release may go to another window (`ButtonSent`); a session that the host ends under a held
  button leaves the capture with the viewer's window (625-640; `ViewerSees`);
- a click before the first frame sends no movement, and is made where the host's cursor is
  (`viewer/main.cpp:720-722`; `Moves`);
- a public address on a real adapter can lose to a private one on a virtual adapter
  (`net_utils.cpp:136-171`); `LanIsAnnounced` is about hosts that have a private address on a
  real one;
- Alt+X before the connection thread has published its socket closes nothing, and the
  connection is made (`viewer/main.cpp:340-359`, `README.md:113`; `VuiCloseControl`);
- a capture error, or an encoder that cannot be initialized, ends the stream of a viewer
  that stays, and on an idle screen a viewer that has gone is not noticed
  (`server/main.cpp:700-725` against 654-655; `VidError`, `VidNoEncoder`, `VidIdle`);
- the retry of a frame the encoder does not accept is a second drain, and the frame is
  lost (`encoder.cpp:435`; `EncodeNotAccepting`);
- Connect joins the last connection thread on the window's thread, and Alt+X or `WM_CLOSE`
  can come before that thread has published its socket: the window then hangs for as long as
  the session lasts which that thread goes on to open (`viewer/main.cpp:340-359, 665-669,
  1193-1204`; `VuiStartConn`, `VuiJoinConn`, and `JoinsReturn`'s premise);
- a `WM_UPDATE_ACCESS` that does not fit into the host window's queue is dropped, and the
  buttons show the old grants until something else refreshes them (`server/main.cpp:166-168`;
  `PostUpdate`, `lost`);
- a unit whose buffer cannot be locked is dropped in an `encode()` that succeeds, and nothing
  says so (`encoder.cpp:347-369`; `Drained`);
- `down` reports a server stopped that it could not wait for, and `up` takes the window
  of a host that shuts down for one that runs (`tools/ltdesk.cpp:60-66, 127-149`;
  `DownPosts`, `UpFinds`).

## The proofs

All proofs are for every value of the constants: any set of connections, hosts, commands,
resolutions, keys or pictures, any capacity, any number of actions of the users, and any
behaviour of the environment.  They rest on the named assumptions of the modules
(`...Assumption`) and nothing else.  Most of these say that a number is one, or that a value
which stands for "none" is not one of the others.  Two say more: `ScenesAssumption`, that no
screen is wider than the 65536 positions which SendInput tells apart, and
`TogetherAssumption`, that the viewers and the host which `HostControl` and `ViewerControl`
imagine may send any line, as the real ones do.

| Module | Theorems | Inductive invariant |
|---|---|---|
| `ControlProofs`, the host | `TypeCorrect`, `StopLeavesNothing`, `SocketsOwned`, `WindowShowsGrants`, `HostImplementsGate` | `IInv`, and `GateInv` for the last |
| `ControlProofs`, the viewer | `VTyped`, `ViewerSocketsOwned`, `EndedStaysDisconnected`, `ConnectButtonBack` | `VInv` |
| `AccessSyncProofs` | `HostTogether`, `ViewerTogether`; `GrantsInSync`, `WindowsInSync` | `SyncInv`; and `TurnInv` |
| `HostVideoProofs` | `VideoTyped`, `StreamSocketsOwned`, `StopGoesDark` | `VideoInv` |
| `PictureProofs` | `StreamTyped`, `StreamStartsWithKey`; `ColoursPaired`, `GreyStaysGrey` | `StreamInv` |
| `InputRelayProofs` | `InputTyped`, `InputsFaithful`, `ClicksLand`, `OneIsLate`; `PointerLands` | `RelayInv` |
| `CaptureProofs` | `CaptureTyped`, `CaptureHoldsNothing`, `IdleIsDelivered`, `BestIsFirst` | `CaptureInv` |
| `DiscoveryProofs` | `DiscoveryTyped`, `ListIsOfThisSearch`, `ThreadIsJoined`, `NoneIsForgotten`; `LanIsAnnounced` | `DiscoveryInv`; `ScanInv` |
| `LtdeskProofs` | `LtdeskTyped`, `OneHostOnly`, `DownIsBelieved` | `LtdeskInv` |

Every invariant that a run checks, and the one refinement, is the statement of a theorem.

Each proof has one lemma for each part of its invariant, with one step for each action, and
a theorem that puts them together.  None of the safety properties is inductive.

- *Host control.*  `OffIsQuiet` says what holds when the stop is over, and needs at each step
  before it who holds which socket and what the control thread can still do.  `IInv` has
  `ThreadInv` (when a control thread exists, and that none is left with a grant), `SocketInv`
  with `SessionOwnsSocket` (at each point of the thread whose the open, the published and the
  listening socket are: a socket published after the stop's close is closed by the thread
  itself), `PendingInv` (a line in progress is still in the buffer) and `FreshInv` (a refresh
  in progress has loaded current values, or another update is posted or will be, or one has been
  dropped since the last refresh).
- *The refinement.*  `Gate` maps the connected viewer and its grants; while nobody is connected
  the mapping hides what the reset has not reached yet.  A step of `HostControl` is a `Begin`,
  `Set`, `End` or a change of the power, or leaves what `GrantGate` sees.  `GateInv` is what the
  start of a session needs: with one reset done, a click in progress can store at most one
  grant.
- *Viewer control.*  Two threads clear the same flags, close the same sockets and post the same
  message.  `VInv` says where each may still be: `OwnInv` and `FlagInv` at which points of the
  connection thread a socket is open or a flag up, `ShowInv` that the last message to be
  handled says "connected" only while it is so, `PostInv` how many messages are still to come,
  and `LineInv` that a line to be sent or applied is there.
- *Both together.*  What one program does to the connections is what the other's module lets
  its environment do (`HostSteps`, `ViewerSteps`), a send to a closed socket and a close of
  none being steps that the other does not see; for that, nothing may be left in the buffers of
  a closed end (`ClosedIsEmpty`).  So `HostTogether` and `ViewerTogether`: beside the real
  viewer the host is still the host of `HostControl`, and the viewer that of `ViewerControl`,
  and what is proved of each stays true.  That the grants agree is a matter of everything
  between the two ends, and `TurnInv` follows a session through three phases (`Phase`).
  `Free`: nothing is granted, and no line on its way would grant anything, until a user acts in
  a session that stands.  `InUse`: one connection is served by both loops, and either all is
  applied and the two agree (`Agreed`), or exactly one side is writing an access line
  (`HostTells`, `ViewerTells`: its loads equal what it holds), or that line is on its way or
  half applied (`ViewerHears`, `HostHears`: it says what its sender holds).  `Ending`: one side
  has begun to close, no access line can arrive any more, and each side has yet to reset, or
  has reset, what it holds.  `Live` says besides that a session which stands is the one the
  flag and the window's last message tell of.
- *Host video.*  `ClientInv` and `ListenerInv` are `SocketInv`'s counterparts; `LocalInv` relates
  the thread's locals to its point.
- *Video stream.*  `StartsWithKey` speaks of the wire only.  `FirstInv` goes behind it: while
  no unit of an encoder is out, all frames it has taken were forced to be keyframes, and a unit
  that is dropped, alone or with a failed call, leaves `firstFrame` up for the next.  `SizeInv`: what is in
  an encoder, out of it and last on the wire has its one resolution, which is how a new encoder
  is recognized.
- *Input.*  `OpenInv` and `ToldInv` say what the property's `attended` stands for: the input's
  way is open from end to end, and the window will hear of its release.  `Faithful` then follows
  each event along the wire.  `AimInv`: at every stage of its way a press comes right behind the
  move that belongs to it, so that what is drained or injected between them moves no cursor;
  `PointerLands` gives the place.  `LateInv`: an input that is late has been checked already,
  and there is one such place.
- *Capture.*  `HeldInv` gives for each point inside a call what is held there, so that each
  failure can be seen to give back just that.  `DeliveredInv`: when DXGI has nothing to tell,
  what was handed out is what the desktop shows, and no first frame of a new duplication is
  taken for one that was sent.  `SearchInv`: the best output is that of those visited.
- *Discovery.*  `QueueInv`: the thread's last message is `WM_DISCOVERY_DONE`, so that nothing of
  a search is left in the window's queue when the next may begin; `ListInv` says that what was
  answered is in the list or in the queue.
- *`ltdesk`.*  `Alone`: whoever has passed the mutex is alone, before its window is there and
  after it is gone.
- *Calculations.*  The arithmetic is linear after the quotients have been named; what a product
  bounds is given as a lemma.  `PointerLands` covers both roundings of a product of doubles, and
  is what `ClicksLand` uses of `Pointer`.  It, `ColoursPaired`, `GreyStaysGrey` and
  `LanIsAnnounced` have no run of their own: they are about operators, for every input.

Only model-checked: the liveness properties (`StopCompletes`, `BacklogServed`, `VideoJoins`,
`ComesToRest`, `StopReturns`, `WaitingIsServed`, `Recovers`, `DiscoveryEnds`,
`JoinsReturn`), which need reasoning about fairness and ENABLED that the proof system does
not do.

## Not modelled

- Painting (`viewer/main.cpp:782-898`): output without state.
- Status texts, the tray icon, the installer, the manual tests.
- The mouse wheel, whose event leaves nothing down: its gating is that of `CtlCheckInput`.
- Media Foundation's set-up (`encoder.cpp:70-235`, `decoder.cpp:40-163`) beyond success or
  failure, and the H.264 transforms: their calls are `VideoStream`'s choices.
- Socket options and Winsock's start-up (`net_utils.cpp`): single calls.
- A viewer that vanishes without closing its connection: the code has no timeout, and
  such a session lasts until TCP gives up.
- A viewer's window queue that is full: the viewer's posts all arrive.
- `ltdesk down` tests for a timeout only, so that a wait that fails would be reported as a stop
  (`tools/ltdesk.cpp:142`): the handle of an open process does not make it fail.  Nor is a
  process identifier given to a new process between its lookup and `OpenProcess`.
- The host's own mouse, moved between the viewer's move and its press, and a window that is
  resized before its first paint: `ClickLands` is about neither.
- The reuse of a socket's number while another thread still names it: the models name
  connections, not numbers.

## Plan

Done, in this order: the protocol and its channel; `HostControl` and its proof;
`ViewerControl`; `AccessSync`; `HostVideo`; `VideoStream`; `Discovery`; `Ltdesk`; `Capture`;
`GrantGate` and the refinement; `Pointer` and `InputRelay`; `Colours` and `Addresses`; the
proofs of the safety of all of these.

Next, in this order:

1. Proofs: what `GrantGate` promises, carried over to the two programs together by
   `HostTogether`; the steps by which each liveness property makes progress, as lemmas.
2. An abstract specification of the start and the stop, which `HostVideo` and `HostControl`
   both implement.
3. The viewer's parsing of frame headers against a stream that is cut at any byte.
4. Handles that are given out again, in place of connections that are named once.
5. The two programs together without turns and with one line of room, at rest again after
   every action: its state space is too large for TLC as it stands.
