-------------------------- MODULE InputRelayProofs --------------------------
(***************************************************************************)
(* Proofs about InputRelay, for every set of keys, buttons and scenes and  *)
(* any number of lines in flight, and about the conversions it is built    *)
(* on (Pointer), for every position and size.                              *)
(*                                                                         *)
(* None of the properties is inductive.  OpenInv and ToldInv say what      *)
(* `attended` stands for: the way of the input is open from end to end,    *)
(* and the window will be told of its release.  AimInv follows the move    *)
(* that belongs to a press along its way: right before it, then on the     *)
(* desktop.                                                                *)
(***************************************************************************)
EXTENDS InputRelay, SequenceTheorems, TLAPS

(* ---------------------------- the pointer ---------------------------- *)

\* What a division that rounds down leaves.
LEMMA Division ==
    ASSUME NEW x \in Int, NEW n \in Nat, n > 0
    PROVE  x \div n \in Int /\ n * (x \div n) <= x /\ x < n * (x \div n) + n
  OBVIOUS

LEMMA Multiply ==
    ASSUME NEW x \in Int, NEW y \in Int, NEW n \in Nat, x <= y
    PROVE  x * n <= y * n
  OBVIOUS

LEMMA Divide ==
    ASSUME NEW x \in Int, NEW y \in Int, NEW n \in Nat, x * n < y * n
    PROVE  x < y
  BY Multiply

\* A pixel that is injected is met, or the one before it; both edges are met exactly.
LEMMA InjectedLands ==
    ASSUME NEW width \in Nat, 1 < width, width <= 65536,
           NEW x \in 0 .. width - 1
    PROVE  /\ Injected(x, width) \in 0 .. width - 1
           /\ Injected(x, width) <= x /\ x - 1 <= Injected(x, width)
           /\ x = 0 => Injected(x, width) = 0
           /\ x = width - 1 => Injected(x, width) = width - 1
<1> DEFINE w == width - 1
           a == (x * 65535) \div w
           k == (a * width) \div 65536
<1>1. w \in Nat /\ 0 < w /\ w <= 65535 /\ width = w + 1 /\ x \in Int /\ 0 <= x /\ x <= w
  OBVIOUS
<1>2. Injected(x, width) = k
  BY DEF Injected, OnScreen, ToAbsolute, Clamp
<1>3. a \in Int /\ w * a <= x * 65535 /\ x * 65535 < w * a + w
  BY <1>1, Division
<1> HIDE DEF a
<1>4. a * width \in Int /\ a * width = w * a + a
  BY <1>1, <1>3
<1>5. k \in Int /\ 65536 * k <= a * width /\ a * width < 65536 * k + 65536
  BY <1>4, Division
<1> HIDE DEF k, w
<1>6. a <= 65535
  <2>1. x * 65535 <= w * 65535
    BY <1>1
  <2>2. a * w < 65536 * w
    BY <1>1, <1>3, <2>1
  <2>3. QED
    BY <2>2, <1>1, <1>3, Divide
<1>7. x <= a
  <2>1. x * w <= 65535 * x
    BY <1>1, Multiply
  <2>2. x * w < (a + 1) * w
    BY <2>1, <1>1, <1>3
  <2>3. QED
    BY <2>2, <1>1, <1>3, Divide
<1>8. k <= x
  BY <1>1, <1>3, <1>4, <1>5, <1>6
<1>9. x - 1 <= k
  BY <1>1, <1>3, <1>4, <1>5, <1>7
<1>10. ASSUME x = w PROVE k = w
  <2>1. a = 65535
    <3>1. 65535 * w < (a + 1) * w
      BY <1>1, <1>3, <1>10
    <3>2. QED
      BY <3>1, <1>1, <1>3, <1>6, Divide
  <2>2. QED
    BY <2>1, <1>1, <1>4, <1>5
<1>11. 0 <= k
  BY <1>1, <1>3, <1>4, <1>5, <1>7
<1>12. QED
  BY <1>1, <1>2, <1>5, <1>8, <1>9, <1>10, <1>11 DEF w

\* Wherever the pointer is, the cursor of the host comes at most two pixels short of the
\* place it is shown at, and from one edge of the picture to the other the whole desktop
\* can be reached (viewer/main.cpp:724-728, server/main.cpp:300-313).
THEOREM PointerLands ==
    ASSUME NEW picture \in Nat, 1 < picture, NEW width \in Nat, 1 < width, width <= 65536,
           NEW local \in Int, NEW x \in ToRemote(local, picture, width)
    PROVE  x \in 0 .. width - 1 /\ Lands(Injected(x, width), local, picture, width)
<1> DEFINE l == Clamp(local, 0, picture - 1)
           n == picture - 1
           w == width - 1
           p == l * w
           e == p \div n
<1>1. /\ n \in Nat /\ 0 < n /\ w \in Nat /\ 0 < w
      /\ l \in Int /\ 0 <= l /\ l <= n
  BY DEF Clamp
<1>2. x = e \/ (x = e - 1 /\ p % n = 0 /\ 0 < l /\ l < n)
  BY DEF ToRemote, Truncated
<1> HIDE DEF l
<1>3. p \in Int /\ 0 <= p /\ p <= n * w /\ (0 < l => 0 < p) /\ (l = n => p = n * w) /\ (l = 0 => p = 0)
  BY <1>1
<1> HIDE DEF p
<1>4. e \in Int /\ n * e <= p /\ p < n * e + n
  BY <1>1, <1>3, Division
<1>5. p % n = 0 => n * e = p
  BY <1>1, <1>3
<1> HIDE DEF e, n, w
<1>6. e <= w /\ 0 <= e /\ (l = n => e = w) /\ (0 < l /\ p % n = 0 => 0 < e)
  <2>1. e <= w
    <3>1. e * n < (w + 1) * n
      BY <1>1, <1>3, <1>4
    <3>2. QED
      BY <3>1, <1>1, <1>4, Divide
  <2>2. 0 <= e
    <3>1. 0 * n < (e + 1) * n
      BY <1>1, <1>3, <1>4
    <3>2. QED
      BY <3>1, <1>1, <1>4, Divide
  <2>3. ASSUME l = n PROVE e = w
    <3>1. w * n < (e + 1) * n
      BY <1>1, <1>3, <1>4, <2>3
    <3>2. QED
      BY <3>1, <1>1, <1>4, <2>1, Divide
  <2>4. ASSUME 0 < l, p % n = 0 PROVE 0 < e
    <3>1. 0 * n < e * n
      BY <1>1, <1>3, <1>4, <1>5, <2>4
    <3>2. QED
      BY <3>1, <1>1, <1>4, Divide
  <2>5. QED
    BY <2>1, <2>2, <2>3, <2>4
<1>7. /\ x \in Int /\ 0 <= x /\ x <= w
      /\ x * n <= p /\ p <= (x + 1) * n
      /\ l = 0 => x = 0
      /\ l = n => x = w
  <2>1. CASE x = e
    <3>1. l = 0 => e = 0
      <4>1. ASSUME l = 0 PROVE e = 0
        <5>1. e * n < 1 * n
          BY <1>1, <1>3, <1>4, <4>1
        <5>2. QED
          BY <5>1, <1>1, <1>4, <1>6, Divide
      <4>2. QED
        BY <4>1
    <3>2. QED
      BY <2>1, <3>1, <1>1, <1>3, <1>4, <1>6
  <2>2. CASE x = e - 1 /\ p % n = 0 /\ 0 < l /\ l < n
    <3>1. (x + 1) * n = p /\ x * n <= p
      BY <2>2, <1>1, <1>4, <1>5
    <3>2. QED
      BY <2>2, <3>1, <1>1, <1>4, <1>6
  <2>3. QED
    BY <1>2, <2>1, <2>2
<1> DEFINE k == Injected(x, width)
<1>8. /\ k \in Int /\ k <= x /\ x - 1 <= k
      /\ x = 0 => k = 0
      /\ x = w => k = w
  BY <1>7, InjectedLands DEF w
<1> HIDE DEF k
<1>9. k * n <= x * n /\ (x + 1) * n <= (k + 2) * n
  BY <1>1, <1>7, <1>8, Multiply
<1>10. k * n <= p /\ p <= (k + 2) * n
  BY <1>1, <1>3, <1>7, <1>8, <1>9
<1>11. Lands(k, local, picture, width)
  BY <1>7, <1>8, <1>10 DEF Lands, l, n, w, p
<1>12. QED
  BY <1>7, <1>11 DEF k, w

(* ---------------------------- the invariant --------------------------- *)

\* The lines of a scene: keys and buttons, movements, and grants.
EventsOf(s) == [kind : {"input"}, id : s.inputs, down : BOOLEAN, aim : Int]
MovesOf(s) == [kind : {"move"}, x : 0 .. s.desktop - 1]
LinesOf(s) == EventsOf(s) \cup MovesOf(s) \cup {AccessLine(g) : g \in Grant}

RelayTypeInv ==
    /\ scene \in Scenes /\ rect \in Int
    /\ viewer \in {"out", "in"} /\ host \in {"idle", "serving", "stopped"}
    /\ vAccess \in Grant /\ hAccess \in Grant
    /\ toHost \in Seq(LinesOf(scene)) /\ Len(toHost) <= Depth
    /\ toViewer \in Seq(Grant) /\ Len(toViewer) <= Changes
    /\ phys \subseteq scene.inputs /\ held \subseteq scene.inputs
    /\ attended \subseteq scene.inputs
    /\ at \in Int /\ cursor \in 0 .. scene.desktop - 1
    /\ ui = NoLine \/ (ui \in EventsOf(scene) /\ ui.id \in Buttons)
    /\ checked = NoLine \/ checked \in EventsOf(scene) \cup MovesOf(scene)

\* The way of an attended input is open.
OpenInv ==
    \A i \in attended :
        viewer = "in" /\ host = "serving" /\ vAccess[DeviceOf(i)] /\ hAccess[DeviceOf(i)]

\* The window will be told of the release of an attended input.
ToldInv ==
    \A i \in attended : /\ i \in Keys => focus
                        /\ i \in Buttons /\ i \in phys => capture

\* A line that brings the cursor to where the user pointed at; whether the cursor will be
\* there once the host has injected what it has checked, and all that is on its way.
MovesTo(line, aim) ==
    line.kind = "move" /\ Lands(Injected(line.x, scene.desktop), aim, rect, scene.desktop)
Brought(c, cur, aim) ==
    IF c = NoLine THEN Lands(cur, aim, rect, scene.desktop) ELSE MovesTo(c, aim)
Ready(q, c, cur, aim) ==
    IF q = <<>> THEN Brought(c, cur, aim) ELSE MovesTo(q[Len(q)], aim)

\* The move of the latest press of a button is right before it: before the window's line
\* (u), in the queue (q), or already injected, when the host has checked the press (c).
Aimed(q, u, c, cur, b) ==
    /\ Presses(u, b) /\ u.aim # NoAim => Ready(q, c, cur, u.aim)
    /\ ~Presses(u, b) =>
       \A n \in 1 .. Len(q) :
           /\ Presses(q[n], b) /\ q[n].aim # NoAim
           /\ \A m \in n + 1 .. Len(q) : ~Presses(q[m], b)
           => IF n = 1 THEN Brought(c, cur, q[n].aim) ELSE MovesTo(q[n - 1], q[n].aim)
    /\ /\ Presses(c, b) /\ c.aim # NoAim
       /\ ~Presses(u, b) /\ \A n \in 1 .. Len(q) : ~Presses(q[n], b)
       => Lands(cur, c.aim, rect, scene.desktop)
AimInv == \A b \in attended \cap Buttons : Aimed(toHost, ui, checked, cursor, b)

\* An input of a device that is late has been the last one to be checked.
LateInv ==
    /\ late \in [Device -> 0 .. 1]
    /\ \A d \in Device :
           late[d] = 1 => ~hAccess[d] /\ (checked = NoLine \/ LineDevice(checked) # d)

RelayInv == RelayTypeInv /\ OpenInv /\ ToldInv /\ Faithful /\ AimInv /\ LateInv

(* ---------------------- sequences, lines and grants ------------------- *)

LEMMA PutFacts ==
    ASSUME NEW S, NEW q \in Seq(S), NEW e \in S
    PROVE  /\ q \o <<e>> \in Seq(S) /\ Len(q) \in Nat /\ Len(q \o <<e>>) = Len(q) + 1
           /\ \A n \in 1 .. Len(q) : (q \o <<e>>)[n] = q[n]
           /\ (q \o <<e>>)[Len(q) + 1] = e
           /\ q \o <<>> = q
  <1>1. <<e>> \in Seq(S) /\ Len(<<e>>) = 1 /\ <<e>>[1] = e
    OBVIOUS
  <1>2. q \o <<e>> = Append(q, e) /\ q \o <<>> = q
    BY AppendIsConcat, ConcatEmptySeq
  <1>. QED
    BY <1>2, AppendProperties, LenProperties

LEMMA TakeFacts ==
    ASSUME NEW S, NEW q \in Seq(S), q # <<>>
    PROVE  /\ Tail(q) \in Seq(S) /\ Len(q) \in Nat \ {0} /\ Len(Tail(q)) = Len(q) - 1
           /\ \A n \in 1 .. Len(q) - 1 : Tail(q)[n] = q[n + 1]
           /\ Head(q) = q[1] /\ q[1] \in S
  OBVIOUS

LEMMA SceneFacts ==
    ASSUME NEW s \in Scenes
    PROVE  /\ s.inputs \subseteq Inputs /\ s.places \subseteq Int
           /\ s.desktop \in Nat /\ 1 < s.desktop /\ s.desktop <= 65536
           /\ EventsOf(s) \subseteq [kind : {"input"}, id : Inputs, down : BOOLEAN, aim : Int]
           /\ MovesOf(s) \subseteq [kind : {"move"}, x : Int]
  <1>1. /\ s.inputs \subseteq Inputs /\ s.places \subseteq Int
        /\ s.desktop \in Nat /\ 1 < s.desktop /\ s.desktop <= 65536
    BY ScenesAssumption
  <1>2. \A x \in 0 .. s.desktop - 1 : x \in Int
    OBVIOUS
  <1>3. MovesOf(s) \subseteq [kind : {"move"}, x : Int]
    BY <1>2 DEF MovesOf
  <1>4. EventsOf(s) \subseteq [kind : {"input"}, id : Inputs, down : BOOLEAN, aim : Int]
    BY <1>1 DEF EventsOf
  <1>. QED
    BY <1>1, <1>3, <1>4

\* No line is NoLine, and the kinds are told apart.
LEMMA LineFacts ==
    ASSUME NEW s \in Scenes, NEW line \in LinesOf(s)
    PROVE  \/ line.kind = "access" /\ line.grant \in Grant
           \/ line.kind = "input" /\ line \in EventsOf(s) /\ line # NoLine
           \/ line.kind = "move" /\ line \in MovesOf(s) /\ line # NoLine
  <1>1. CASE line \in EventsOf(s)
    <2>1. line.kind = "input"
      BY <1>1 DEF EventsOf
    <2>. QED
      BY <1>1, <2>1, SceneFacts, NoLineAssumption
  <1>2. CASE line \in MovesOf(s)
    <2>1. line.kind = "move"
      BY <1>2 DEF MovesOf
    <2>. QED
      BY <1>2, <2>1, SceneFacts, NoLineAssumption
  <1>3. ASSUME NEW g \in Grant, line = AccessLine(g) PROVE line.kind = "access" /\ line.grant \in Grant
    BY <1>3 DEF AccessLine
  <1>. QED
    BY <1>1, <1>2, <1>3 DEF LinesOf

LEMMA DeviceFacts ==
    ASSUME NEW i \in Inputs
    PROVE  /\ DeviceOf(i) \in Device
           /\ i \in Keys => DeviceOf(i) = "keyboard" /\ i \notin Buttons
           /\ i \in Buttons => DeviceOf(i) = "mouse" /\ i \notin Keys
           /\ i \in InputsOf(DeviceOf(i))
           /\ \A d \in Device : i \in InputsOf(d) => d = DeviceOf(i)
  BY InputsAssumption DEF DeviceOf, InputsOf, Device, Inputs

\* What is closed with a grant.
LEMMA ClosedFacts ==
    ASSUME NEW a, NEW i \in Inputs, i \notin Closed(a)
    PROVE  a[DeviceOf(i)]
  BY DeviceFacts DEF Closed

\* A change of one grant, and what it closes.
LEMMA GrantFacts ==
    ASSUME NEW a \in Grant, NEW d \in Device
    PROVE  /\ [a EXCEPT ![d] = ~@] \in Grant
           /\ \A e \in Device : e # d => [a EXCEPT ![d] = ~@][e] = a[e]
           /\ \A i \in Inputs : i \notin Closed([a EXCEPT ![d] = ~@]) => [a EXCEPT ![d] = ~@][DeviceOf(i)]
           /\ Blocked \in Grant
  <1>1. [a EXCEPT ![d] = ~@] \in Grant /\ Blocked \in Grant
    BY DEF Grant, Blocked
  <1>. QED
    BY <1>1, ClosedFacts DEF Grant

(* ------------------------------ the types ----------------------------- *)

LEMMA EventType ==
    ASSUME NEW s \in Scenes, NEW i \in s.inputs, NEW down \in BOOLEAN, NEW aim \in Int
    PROVE  /\ EventLine(i, down, aim) \in EventsOf(s)
           /\ EventLine(i, down, aim) \in LinesOf(s)
           /\ EventLine(i, down, aim) # NoLine
           /\ NoAim \in Int
  <1>1. EventLine(i, down, aim) \in EventsOf(s)
    BY DEF EventLine, EventsOf
  <1>2. EventLine(i, down, aim) # NoLine
    BY <1>1, SceneFacts, NoLineAssumption
  <1>. QED
    BY <1>1, <1>2 DEF LinesOf, NoAim

\* What the window sends for a movement: one line that lands, or none.
LEMMA MoveLinesType ==
    ASSUME RelayTypeInv, NEW p \in Int, NEW lines \in MoveLines(p)
    PROVE  \/ lines = <<>> /\ ~Moves
           \/ \E line \in MovesOf(scene) : lines = <<line>> /\ MovesTo(line, p) /\ line \in LinesOf(scene)
  <1>1. CASE ~Moves
    BY <1>1 DEF MoveLines
  <1>2. CASE Moves
    <2>1. PICK x \in ToRemote(p, rect, scene.desktop) : lines = <<MoveLine(x)>>
      BY <1>2 DEF MoveLines
    <2>2. rect \in Nat /\ 1 < rect
      BY <1>2 DEF Moves, RelayTypeInv
    <2>3. scene.desktop \in Nat /\ 1 < scene.desktop /\ scene.desktop <= 65536
      BY SceneFacts DEF RelayTypeInv
    <2>4. x \in 0 .. scene.desktop - 1 /\ Lands(Injected(x, scene.desktop), p, rect, scene.desktop)
      BY <2>2, <2>3, PointerLands
    <2>5. MoveLine(x) \in MovesOf(scene) /\ MoveLine(x).kind = "move" /\ MoveLine(x).x = x
      BY <2>4 DEF MoveLine, MovesOf
    <2>6. MovesTo(MoveLine(x), p)
      BY <2>4, <2>5 DEF MovesTo
    <2>. QED
      BY <2>1, <2>5, <2>6 DEF LinesOf
  <1>. QED
    BY <1>1, <1>2

\* Sending one line, or none, keeps the queue's type.
LEMMA SendType ==
    ASSUME RelayTypeInv, NEW may, NEW lines, SendIf(may, lines),
           lines = <<>> \/ \E line \in LinesOf(scene) : lines = <<line>>
    PROVE  toHost' \in Seq(LinesOf(scene)) /\ Len(toHost') <= Depth
  <1>1. toHost \in Seq(LinesOf(scene)) /\ Len(toHost) <= Depth
    BY DEF RelayTypeInv
  <1>2. CASE ~may \/ host = "idle"
    BY <1>1, <1>2 DEF SendIf, Put
  <1>3. CASE may /\ host # "idle"
    <2>1. toHost' = toHost \o lines /\ Len(toHost \o lines) <= Depth
      BY <1>3 DEF SendIf, Put
    <2>2. toHost \o lines \in Seq(LinesOf(scene))
      BY <1>1, PutFacts, ConcatEmptySeq
    <2>. QED
      BY <2>1, <2>2
  <1>. QED
    BY <1>2, <1>3

LEMMA TypeStep ==
    ASSUME RelayTypeInv, [Next]_vars
    PROVE  RelayTypeInv'
  <1>. USE DEF RelayTypeInv, session, access, channel, user, window, desktop
  <1>1. ASSUME NEW k \in Keys, KeyDown(k) PROVE RelayTypeInv'
    <2>1. k \in scene.inputs
      BY <1>1 DEF KeyDown
    <2>2. EventLine(k, TRUE, NoAim) \in LinesOf(scene)
      BY <2>1, EventType DEF NoAim
    <2>3. toHost' \in Seq(LinesOf(scene)) /\ Len(toHost') <= Depth
      BY <1>1, <2>2, SendType DEF KeyDown
    <2>4. attended' \subseteq scene.inputs /\ phys' \subseteq scene.inputs
      BY <1>1, <2>1 DEF KeyDown, Attend
    <2>. QED
      BY <1>1, <2>3, <2>4 DEF KeyDown
  <1>2. ASSUME NEW k \in Keys, KeyUp(k) PROVE RelayTypeInv'
    <2>1. k \in scene.inputs
      BY <1>2 DEF KeyUp
    <2>2. EventLine(k, FALSE, NoAim) \in LinesOf(scene)
      BY <2>1, EventType DEF NoAim
    <2>3. toHost' \in Seq(LinesOf(scene)) /\ Len(toHost') <= Depth
      BY <1>2, <2>2, SendType DEF KeyUp
    <2>. QED
      BY <1>2, <2>3 DEF KeyUp
  <1>3. ASSUME NEW b \in Buttons, ButtonDown(b) PROVE RelayTypeInv'
    <2>1. b \in scene.inputs
      BY <1>3 DEF ButtonDown
    <2>2. PICK lines \in MoveLines(at) : SendIf(GetsMouse /\ Sends("mouse"), lines)
      BY <1>3 DEF ButtonDown
    <2>3. toHost' \in Seq(LinesOf(scene)) /\ Len(toHost') <= Depth
      BY <2>2, MoveLinesType, SendType
    <2>4. EventLine(b, TRUE, IF Moves THEN at ELSE NoAim) \in EventsOf(scene)
      BY <2>1, EventType DEF NoAim
    <2>5. ui' = NoLine \/ (ui' \in EventsOf(scene) /\ ui'.id \in Buttons)
      BY <1>3, <2>4 DEF ButtonDown, EventLine
    <2>6. attended' \subseteq scene.inputs /\ phys' \subseteq scene.inputs
      BY <1>3, <2>1 DEF ButtonDown, Attend
    <2>. QED
      BY <1>3, <2>3, <2>5, <2>6 DEF ButtonDown
  <1>4. ASSUME NEW b \in Buttons, ButtonUp(b) PROVE RelayTypeInv'
    <2>1. b \in scene.inputs
      BY <1>4 DEF ButtonUp
    <2>2. PICK lines \in MoveLines(at) : SendIf(GetsMouse /\ Sends("mouse"), lines)
      BY <1>4 DEF ButtonUp
    <2>3. toHost' \in Seq(LinesOf(scene)) /\ Len(toHost') <= Depth
      BY <2>2, MoveLinesType, SendType
    <2>4. EventLine(b, FALSE, NoAim) \in EventsOf(scene)
      BY <2>1, EventType DEF NoAim
    <2>5. ui' = NoLine \/ (ui' \in EventsOf(scene) /\ ui'.id \in Buttons)
      BY <1>4, <2>4 DEF ButtonUp, EventLine
    <2>. QED
      BY <1>4, <2>3, <2>5 DEF ButtonUp
  <1>5. ASSUME NEW d \in Device, Hotkey(d) PROVE RelayTypeInv'
    <2>. DEFINE new == [vAccess EXCEPT ![d] = ~@]
    <2>1. new \in Grant
      BY GrantFacts
    <2>2. CASE viewer = "in"
      <3>1. Put(<<AccessLine(new)>>) /\ vAccess' = new /\ attended' \subseteq attended
        BY <1>5, <2>2 DEF Hotkey
      <3>2. AccessLine(new) \in LinesOf(scene)
        BY <2>1 DEF LinesOf
      <3>3. toHost' \in Seq(LinesOf(scene)) /\ Len(toHost') <= Depth
        BY <3>1, <3>2, SendType DEF SendIf
      <3>. HIDE DEF new
      <3>. QED
        BY <1>5, <2>1, <3>1, <3>3 DEF Hotkey
    <2>3. CASE viewer # "in"
      BY <1>5, <2>3 DEF Hotkey
    <2>. QED
      BY <2>2, <2>3
  <1>6. ASSUME NEW d \in Device, HostClick(d) PROVE RelayTypeInv'
    <2>. DEFINE new == [hAccess EXCEPT ![d] = ~@]
    <2>1. new \in Grant
      BY GrantFacts
    <2>. HIDE DEF new
    <2>2. Append(toViewer, new) \in Seq(Grant) /\ Len(Append(toViewer, new)) = Len(toViewer) + 1
          /\ Len(toViewer) \in Nat /\ Changes \in Nat
      BY <2>1, AppendProperties, InputsAssumption
    <2>3. hAccess' = new /\ (toViewer' = Append(toViewer, new) \/ toViewer' = toViewer)
          /\ Len(toViewer) < Changes /\ attended' \subseteq attended
      BY <1>6 DEF HostClick, new
    <2>4. toViewer' \in Seq(Grant) /\ Len(toViewer') <= Changes
      BY <2>2, <2>3
    <2>. QED
      BY <1>6, <2>1, <2>3, <2>4 DEF HostClick
  <1>7. ASSUME NEW p \in scene.places, PointerMoves(p) PROVE RelayTypeInv'
    <2>1. p \in Int
      BY SceneFacts
    <2>2. PICK lines \in MoveLines(p) :
             SendIf(Sends("mouse") /\ (OverPicture(p) \/ capture), lines)
      BY <1>7 DEF PointerMoves
    <2>3. toHost' \in Seq(LinesOf(scene)) /\ Len(toHost') <= Depth
      BY <2>1, <2>2, MoveLinesType, SendType
    <2>. QED
      BY <1>7, <2>1, <2>3 DEF PointerMoves
  <1>8. CASE FocusLost
    BY <1>8 DEF FocusLost
  <1>9. CASE FocusGained
    BY <1>9 DEF FocusGained
  <1>10. CASE ViewerLeaves
    <2>1. toViewer' = <<>> /\ attended' = {} /\ vAccess' = Blocked /\ viewer' = "out"
      BY <1>10 DEF ViewerLeaves
    <2>2. Blocked \in Grant /\ <<>> \in Seq(Grant) /\ Len(<<>>) <= Changes
      BY InputsAssumption DEF Blocked, Grant
    <2>. QED
      BY <1>10, <2>1, <2>2 DEF ViewerLeaves
  <1>11. CASE HostStops
    BY <1>11 DEF HostStops
  <1>12. CASE ButtonSent
    <2>1. ui \in LinesOf(scene) /\ SendIf(Sends("mouse"), <<ui>>)
      BY <1>12 DEF ButtonSent, LinesOf
    <2>2. toHost' \in Seq(LinesOf(scene)) /\ Len(toHost') <= Depth
      BY <2>1, SendType
    <2>. QED
      BY <1>12, <2>2 DEF ButtonSent
  <1>13. CASE AccessTold
    BY <1>13 DEF AccessTold
  <1>14. CASE ViewerApplies
    <2>1. Head(toViewer) \in Grant /\ Tail(toViewer) \in Seq(Grant) /\ Len(Tail(toViewer)) <= Changes
      BY <1>14, TakeFacts, InputsAssumption DEF ViewerApplies
    <2>. QED
      BY <1>14, <2>1 DEF ViewerApplies
  <1>15. CASE ViewerSees
    <2>1. toViewer' = <<>> /\ attended' = {} /\ vAccess' = Blocked /\ viewer' = "out"
      BY <1>15 DEF ViewerSees
    <2>2. Blocked \in Grant /\ <<>> \in Seq(Grant) /\ Len(<<>>) <= Changes
      BY InputsAssumption DEF Blocked, Grant
    <2>. QED
      BY <1>15, <2>1, <2>2 DEF ViewerSees
  <1>16. CASE FrameArrives
    BY <1>16 DEF FrameArrives
  <1>17. CASE Begin
    BY <1>17 DEF Begin
  <1>18. CASE HostTakes
    <2>. DEFINE line == Head(toHost)
    <2>1. /\ line \in LinesOf(scene) /\ Tail(toHost) \in Seq(LinesOf(scene))
          /\ Len(Tail(toHost)) <= Depth
      BY <1>18, TakeFacts, InputsAssumption DEF HostTakes
    <2>2. toHost' = Tail(toHost)
      BY <1>18 DEF HostTakes
    <2>3. CASE line.kind = "access"
      <3>1. line.grant \in Grant
        BY <2>1, <2>3, LineFacts
      <3>2. hAccess' = line.grant /\ attended' \subseteq attended /\ checked' = checked
        BY <1>18, <2>3 DEF HostTakes
      <3>. QED
        BY <1>18, <2>1, <2>2, <3>1, <3>2 DEF HostTakes
    <2>4. CASE line.kind # "access"
      <3>1. line \in EventsOf(scene) \cup MovesOf(scene)
        BY <2>1, <2>4, LineFacts
      <3>2. checked' \in {line, NoLine} /\ hAccess' = hAccess /\ attended' = attended
        BY <1>18, <2>4 DEF HostTakes
      <3>. QED
        BY <1>18, <2>1, <2>2, <3>1, <3>2 DEF HostTakes
    <2>. QED
      BY <2>3, <2>4
  <1>19. CASE HostInjects
    <2>1. CASE checked.kind = "move"
      <3>1. checked \in MovesOf(scene)
        BY <1>19, <2>1 DEF HostInjects, EventsOf
      <3>2. scene.desktop \in Nat /\ 1 < scene.desktop /\ scene.desktop <= 65536
        BY SceneFacts
      <3>3. checked.x \in 0 .. scene.desktop - 1
        BY <3>1 DEF MovesOf
      <3>. HIDE DEF RelayTypeInv
      <3>. DEFINE w == scene.desktop
                  x == checked.x
      <3>4. w \in Nat /\ 1 < w /\ w <= 65536 /\ x \in 0 .. w - 1
        BY <3>2, <3>3
      <3>. HIDE DEF w, x
      <3>5. Injected(x, w) \in 0 .. w - 1
        BY <3>4, InjectedLands
      <3>. QED
        BY <1>19, <2>1, <3>5 DEF HostInjects, RelayTypeInv, w, x
    <2>2. CASE checked.kind # "move"
      <3>1. checked \in EventsOf(scene)
        BY <1>19, <2>2 DEF HostInjects, MovesOf
      <3>2. checked.id \in scene.inputs
        BY <3>1 DEF EventsOf
      <3>3. held' \subseteq scene.inputs /\ cursor' = cursor /\ checked' = NoLine
        BY <1>19, <2>2, <3>2 DEF HostInjects
      <3>. QED
        BY <1>19, <3>3 DEF HostInjects
    <2>. QED
      BY <2>1, <2>2
  <1>20. CASE HostLeaves
    <2>1. Blocked \in Grant /\ <<>> \in Seq(LinesOf(scene)) /\ Len(<<>>) <= Depth
      BY InputsAssumption DEF Blocked, Grant
    <2>. QED
      BY <1>20, <2>1 DEF HostLeaves
  <1>21. CASE UNCHANGED vars
    BY <1>21 DEF vars
  <1>. QED
    BY <1>1, <1>2, <1>3, <1>4, <1>5, <1>6, <1>7, <1>8, <1>9, <1>10, <1>11, <1>12, <1>13, <1>14,
       <1>15, <1>16, <1>17, <1>18, <1>19, <1>20, <1>21 DEF Next, User, Programs

(* -------------------- what an attended input stands for --------------- *)

\* The inputs of the scene, and the way of one that is just being attended.
LEMMA AttendedFacts ==
    ASSUME RelayTypeInv
    PROVE  /\ \A i \in scene.inputs : i \in Inputs
           /\ \A i \in attended : i \in Inputs
  BY SceneFacts DEF RelayTypeInv

LEMMA AttendFacts ==
    ASSUME NEW i, NEW sent, Attend(i, sent)
    PROVE  /\ \A j \in attended' : j # i => j \in attended
           /\ i \in attended' => sent /\ Open(DeviceOf(i))
           /\ sent /\ Open(DeviceOf(i)) => i \in attended'
  BY DEF Attend

LEMMA OpenStep ==
    ASSUME RelayTypeInv, OpenInv, [Next]_vars
    PROVE  OpenInv'
  <1>. USE DEF OpenInv, session, access, channel, user, window, desktop
  <1>1. ASSUME attended' \subseteq attended, UNCHANGED <<session, access>> PROVE OpenInv'
    BY <1>1
  <1>2. ASSUME attended' = {} PROVE OpenInv'
    BY <1>2
  <1>3. ASSUME NEW k \in Keys, KeyDown(k) PROVE OpenInv'
    BY <1>3, AttendFacts DEF KeyDown, Open, Sends
  <1>4. ASSUME NEW b \in Buttons, ButtonDown(b) PROVE OpenInv'
    BY <1>4, AttendFacts DEF ButtonDown, Open, Sends
  <1>5. ASSUME NEW d \in Device, Hotkey(d) PROVE OpenInv'
    <2>1. CASE viewer = "in"
      <3>1. /\ vAccess' = [vAccess EXCEPT ![d] = ~@]
            /\ attended' = attended \ ({Letter[d]} \cup Closed([vAccess EXCEPT ![d] = ~@]))
            /\ UNCHANGED <<viewer, host, hAccess>>
        BY <1>5, <2>1 DEF Hotkey
      <3>. QED
        BY <3>1, GrantFacts, AttendedFacts DEF RelayTypeInv
    <2>2. CASE viewer # "in"
      BY <1>1, <1>5, <2>2 DEF Hotkey
    <2>. QED
      BY <2>1, <2>2
  <1>6. ASSUME NEW d \in Device, HostClick(d) PROVE OpenInv'
    <2>1. /\ hAccess' = [hAccess EXCEPT ![d] = ~@]
          /\ attended' = attended \ Closed([hAccess EXCEPT ![d] = ~@])
          /\ UNCHANGED <<viewer, host, vAccess>>
      BY <1>6 DEF HostClick
    <2>. QED
      BY <2>1, GrantFacts, AttendedFacts DEF RelayTypeInv
  <1>7. CASE ViewerApplies
    <2>1. /\ vAccess' = Head(toViewer) /\ attended' = attended \ Closed(Head(toViewer))
          /\ UNCHANGED <<viewer, host, hAccess>>
      BY <1>7 DEF ViewerApplies
    <2>. QED
      BY <2>1, ClosedFacts, AttendedFacts
  <1>8. CASE HostTakes
    <2>1. CASE Head(toHost).kind = "access"
      <3>1. /\ hAccess' = Head(toHost).grant /\ attended' = attended \ Closed(Head(toHost).grant)
            /\ UNCHANGED <<viewer, host, vAccess>>
        BY <1>8, <2>1 DEF HostTakes
      <3>. QED
        BY <3>1, ClosedFacts, AttendedFacts
    <2>2. CASE Head(toHost).kind # "access"
      BY <1>1, <1>8, <2>2 DEF HostTakes
    <2>. QED
      BY <2>1, <2>2
  <1>9. CASE HostLeaves
    BY <1>9 DEF HostLeaves
  <1>10. CASE Begin
    BY <1>10 DEF Begin
  <1>11. ASSUME NEW k \in Keys, KeyUp(k) PROVE OpenInv'
    BY <1>1, <1>11 DEF KeyUp
  <1>12. ASSUME NEW b \in Buttons, ButtonUp(b) PROVE OpenInv'
    BY <1>1, <1>12 DEF ButtonUp
  <1>13. ASSUME NEW p \in scene.places, PointerMoves(p) PROVE OpenInv'
    BY <1>1, <1>13 DEF PointerMoves
  <1>14. CASE FocusLost
    BY <1>1, <1>14 DEF FocusLost
  <1>15. CASE FocusGained \/ FrameArrives \/ HostInjects
    BY <1>1, <1>15 DEF FocusGained, FrameArrives, HostInjects
  <1>16. CASE ViewerLeaves \/ ViewerSees \/ HostStops
    BY <1>2, <1>16 DEF ViewerLeaves, ViewerSees, HostStops
  <1>17. CASE ButtonSent \/ AccessTold
    BY <1>1, <1>17 DEF ButtonSent, AccessTold
  <1>18. CASE UNCHANGED vars
    BY <1>1, <1>18 DEF vars
  <1>. QED
    BY <1>3, <1>4, <1>5, <1>6, <1>7, <1>8, <1>9, <1>10, <1>11, <1>12, <1>13, <1>14,
       <1>15, <1>16, <1>17, <1>18 DEF Next, User, Programs

LEMMA ToldStep ==
    ASSUME RelayTypeInv, OpenInv, ToldInv, [Next]_vars
    PROVE  ToldInv'
  <1>. USE DEF ToldInv, session, access, channel, user, window, desktop
  <1>1. ASSUME attended' \subseteq attended, UNCHANGED <<phys, focus, capture>> PROVE ToldInv'
    BY <1>1
  <1>2. ASSUME attended' = {} PROVE ToldInv'
    BY <1>2
  <1>3. ASSUME NEW k \in Keys, KeyDown(k) PROVE ToldInv'
    <2>1. /\ phys' = phys \cup {k} /\ UNCHANGED <<focus, capture>> /\ k \in scene.inputs
          /\ Attend(k, focus)
      BY <1>3 DEF KeyDown
    <2>2. k \notin Buttons
      BY <1>3, InputsAssumption
    <2>. QED
      BY <2>1, <2>2, AttendFacts
  <1>4. ASSUME NEW k \in Keys, KeyUp(k) PROVE ToldInv'
    BY <1>4 DEF KeyUp
  <1>5. ASSUME NEW b \in Buttons, ButtonDown(b) PROVE ToldInv'
    <2>1. /\ phys' = phys \cup {b} /\ Attend(b, GetsMouse /\ Sends("mouse"))
          /\ focus' = (focus \/ GetsMouse) /\ capture' = (capture \/ (GetsMouse /\ Sends("mouse")))
      BY <1>5 DEF ButtonDown
    <2>2. b \notin Keys
      BY <1>5, InputsAssumption
    <2>. HIDE DEF GetsMouse, Sends
    <2>. QED
      BY <2>1, <2>2, AttendFacts
  <1>6. ASSUME NEW b \in Buttons, ButtonUp(b) PROVE ToldInv'
    BY <1>6 DEF ButtonUp
  <1>7. ASSUME NEW d \in Device, Hotkey(d) PROVE ToldInv'
    <2>. DEFINE new == [vAccess EXCEPT ![d] = ~@]
    <2>1. /\ phys' = phys \cup {Letter[d]} /\ focus' = focus
          /\ attended' \subseteq attended \ {Letter[d]}
      BY <1>7 DEF Hotkey
    <2>2. CASE viewer # "in"
      <3>1. capture' = capture
        BY <1>7, <2>2 DEF Hotkey
      <3>. QED
        BY <2>1, <3>1
    <2>3. CASE viewer = "in"
      <3>1. /\ capture' = (capture /\ ~(d = "mouse" /\ ~new[d]))
            /\ attended' = attended \ ({Letter[d]} \cup Closed(new))
        BY <1>7, <2>3 DEF Hotkey
      <3>. HIDE DEF new
      <3>2. ASSUME NEW i \in attended', i \in Buttons PROVE new["mouse"]
        <4>1. i \in Inputs /\ i \notin Closed(new)
          BY <3>1, AttendedFacts
        <4>2. new[DeviceOf(i)] /\ DeviceOf(i) = "mouse"
          BY <3>2, <4>1, ClosedFacts, DeviceFacts
        <4>. QED
          BY <4>2
      <3>. QED
        BY <2>1, <3>1, <3>2
    <2>. QED
      BY <2>2, <2>3
  <1>8. CASE FocusLost
    <2>1. PICK ends \in BOOLEAN : /\ capture' = (capture /\ ~ends)
                                  /\ attended' = attended \ (Keys \cup LostWith(ends))
      BY <1>8 DEF FocusLost
    <2>2. phys' = phys
      BY <1>8 DEF FocusLost
    <2>. QED
      BY <2>1, <2>2 DEF LostWith
  <1>9. CASE FocusGained
    BY <1>9 DEF FocusGained
  <1>10. CASE AccessTold
    <2>1. /\ capture' = (capture /\ vAccess["mouse"]) /\ UNCHANGED <<phys, focus>>
          /\ attended' = attended \ LostWith(~vAccess["mouse"])
      BY <1>10 DEF AccessTold
    <2>. QED
      BY <2>1 DEF LostWith
  <1>11. CASE ButtonSent
    <2>1. /\ capture' = (capture /\ ui.down) /\ UNCHANGED <<phys, focus>>
          /\ attended' = attended \ LostWith(~ui.down)
      BY <1>11 DEF ButtonSent
    <2>. QED
      BY <2>1 DEF LostWith
  <1>12. ASSUME NEW p \in scene.places, PointerMoves(p) PROVE ToldInv'
    BY <1>1, <1>12 DEF PointerMoves
  <1>13. ASSUME NEW d \in Device, HostClick(d) PROVE ToldInv'
    BY <1>1, <1>13 DEF HostClick
  <1>14. CASE ViewerLeaves \/ ViewerSees \/ HostStops
    BY <1>2, <1>14 DEF ViewerLeaves, ViewerSees, HostStops
  <1>15. CASE ViewerApplies \/ FrameArrives \/ Begin
    BY <1>1, <1>15 DEF ViewerApplies, FrameArrives, Begin
  <1>16. CASE HostTakes
    <2>1. attended' \subseteq attended /\ UNCHANGED <<phys, focus, capture>>
      BY <1>16 DEF HostTakes
    <2>. QED
      BY <1>1, <2>1
  <1>17. CASE HostInjects \/ HostLeaves
    BY <1>1, <1>17 DEF HostInjects, HostLeaves
  <1>18. CASE UNCHANGED vars
    BY <1>1, <1>18 DEF vars
  <1>. QED
    BY <1>3, <1>4, <1>5, <1>6, <1>7, <1>8, <1>9, <1>10, <1>11, <1>12, <1>13, <1>14,
       <1>15, <1>16, <1>17, <1>18 DEF Next, User, Programs

(* ------------------------- one input is late at most ------------------ *)

LEMMA LateStep ==
    ASSUME RelayTypeInv, LateInv, [Next]_vars
    PROVE  LateInv'
  <1>. USE DEF LateInv, session, access, channel, user, window, desktop
  <1>1. ASSUME UNCHANGED <<hAccess, checked, late>> PROVE LateInv'
    BY <1>1 DEF LineDevice, DeviceOf
  <1>2. ASSUME NEW d \in Device, HostClick(d) PROVE LateInv'
    <2>1. /\ hAccess' = [hAccess EXCEPT ![d] = ~@] /\ late' = [late EXCEPT ![d] = 0]
          /\ checked' = checked
      BY <1>2 DEF HostClick
    <2>2. hAccess \in [Device -> BOOLEAN]
      BY DEF RelayTypeInv, Grant
    <2>3. \A e \in Device : e # d => hAccess'[e] = hAccess[e] /\ late'[e] = late[e]
      BY <2>1, <2>2
    <2>4. late'[d] = 0 /\ late' \in [Device -> 0 .. 1]
      BY <2>1
    <2>. QED
      BY <2>1, <2>3, <2>4 DEF LineDevice, DeviceOf
  <1>3. CASE HostTakes
    <2>1. CASE Head(toHost).kind = "access"
      <3>1. /\ hAccess' = Head(toHost).grant /\ checked' = NoLine
            /\ late' = [d \in Device |-> IF Head(toHost).grant[d] # hAccess[d] THEN 0 ELSE late[d]]
        BY <1>3, <2>1 DEF HostTakes
      <3>. QED
        BY <3>1
    <2>2. CASE Head(toHost).kind # "access"
      <3>1. /\ checked' = (IF hAccess[LineDevice(Head(toHost))] THEN Head(toHost) ELSE NoLine)
            /\ UNCHANGED <<hAccess, late>>
        BY <1>3, <2>2 DEF HostTakes
      <3>2. ASSUME NEW d \in Device, late'[d] = 1
            PROVE  ~hAccess'[d] /\ (checked' = NoLine \/ LineDevice(checked') # d)
        BY <3>1, <3>2
      <3>. QED
        BY <3>1, <3>2 DEF LineDevice, DeviceOf
    <2>. QED
      BY <2>1, <2>2
  <1>4. CASE HostInjects
    <2>. DEFINE d == LineDevice(checked)
    <2>1. d \in Device
      <3>1. checked \in EventsOf(scene) \cup MovesOf(scene)
        BY <1>4 DEF HostInjects, RelayTypeInv
      <3>2. checked.kind # "move" => checked.id \in Inputs
        BY <3>1, SceneFacts DEF EventsOf, MovesOf, RelayTypeInv
      <3>. QED
        BY <3>2, DeviceFacts DEF LineDevice, Device
    <2>2. /\ checked' = NoLine /\ UNCHANGED <<hAccess>>
          /\ late' = (IF hAccess[d] \/ late[d] = 2 THEN late ELSE [late EXCEPT ![d] = @ + 1])
      BY <1>4 DEF HostInjects
    <2>3. late[d] = 0
      BY <1>4, <2>1 DEF HostInjects
    <2>. HIDE DEF d
    <2>4. CASE hAccess[d]
      BY <2>2, <2>4
    <2>5. CASE ~hAccess[d]
      <3>1. late' = [late EXCEPT ![d] = 1]
        BY <2>1, <2>2, <2>3, <2>5
      <3>2. late' \in [Device -> 0 .. 1] /\ \A e \in Device : e # d => late'[e] = late[e]
        BY <2>1, <3>1
      <3>. QED
        BY <2>2, <2>5, <3>2
    <2>. QED
      BY <2>4, <2>5
  <1>5. CASE HostLeaves
    <2>1. late' = [d \in Device |-> 0]
      BY <1>5 DEF HostLeaves
    <2>. QED
      BY <2>1
  <1>6. ASSUME NEW k \in Keys, KeyDown(k) \/ KeyUp(k) PROVE LateInv'
    BY <1>1, <1>6 DEF KeyDown, KeyUp
  <1>7. ASSUME NEW b \in Buttons, ButtonDown(b) \/ ButtonUp(b) PROVE LateInv'
    BY <1>1, <1>7 DEF ButtonDown, ButtonUp
  <1>8. ASSUME NEW d \in Device, Hotkey(d) PROVE LateInv'
    BY <1>1, <1>8 DEF Hotkey
  <1>9. ASSUME NEW p \in scene.places, PointerMoves(p) PROVE LateInv'
    BY <1>1, <1>9 DEF PointerMoves
  <1>10. CASE FocusLost \/ FocusGained \/ ViewerLeaves \/ HostStops
    BY <1>1, <1>10 DEF FocusLost, FocusGained, ViewerLeaves, HostStops
  <1>11. CASE ButtonSent \/ AccessTold \/ ViewerApplies
    BY <1>1, <1>11 DEF ButtonSent, AccessTold, ViewerApplies
  <1>12. CASE ViewerSees \/ FrameArrives \/ Begin
    BY <1>1, <1>12 DEF ViewerSees, FrameArrives, Begin
  <1>13. CASE UNCHANGED vars
    BY <1>1, <1>13 DEF vars
  <1>. QED
    BY <1>2, <1>3, <1>4, <1>5, <1>6, <1>7, <1>8, <1>9, <1>10, <1>11, <1>12, <1>13
    DEF Next, User, Programs

(* ------------------ what will be down on the host's side -------------- *)

\* WillBeDown with the lines, the window's line, the checked one and what is down as
\* parameters.
About(q, i) == {n \in 1 .. Len(q) : Tells(q[n], i)}
LastSays(q, i) == \E n \in About(q, i) : q[n].down /\ \A m \in About(q, i) : m <= n
Outcome(q, u, c, h, i) ==
    IF Tells(u, i) THEN u.down
    ELSE IF About(q, i) # {} THEN LastSays(q, i)
    ELSE IF Tells(c, i) THEN c.down
    ELSE i \in h

LEMMA OutcomeIs ==
    ASSUME RelayTypeInv, NEW i
    PROVE  WillBeDown(i) <=> Outcome(toHost, ui, checked, held, i)
  <1>1. DOMAIN toHost = 1 .. Len(toHost)
    BY LenProperties DEF RelayTypeInv
  <1>. QED
    BY <1>1 DEF WillBeDown, Outcome, About, LastSays

\* A line put at the end says what will be, if it is about the input.
LEMMA OutcomePut ==
    ASSUME NEW S, NEW q \in Seq(S), NEW e \in S, NEW u, NEW c, NEW h, NEW i, ~Tells(u, i)
    PROVE  /\ Tells(e, i) => (Outcome(q \o <<e>>, u, c, h, i) <=> e.down)
           /\ ~Tells(e, i) => (Outcome(q \o <<e>>, u, c, h, i) <=> Outcome(q, u, c, h, i))
  <1>. DEFINE r == q \o <<e>>
              k == Len(q)
  <1>1. /\ k \in Nat /\ Len(r) = k + 1 /\ r[k + 1] = e
        /\ \A n \in 1 .. k : r[n] = q[n]
    BY PutFacts
  <1>. HIDE DEF r
  <1>2. \A n \in 1 .. k + 1 : n \in 1 .. k \/ n = k + 1
    BY <1>1
  <1>3. ASSUME Tells(e, i) PROVE Outcome(r, u, c, h, i) <=> e.down
    <2>1. k + 1 \in About(r, i) /\ \A m \in About(r, i) : m <= k + 1
      BY <1>1, <1>3 DEF About
    <2>2. ASSUME NEW n \in About(r, i), \A m \in About(r, i) : m <= n PROVE n = k + 1
      BY <1>1, <2>1, <2>2 DEF About
    <2>3. LastSays(r, i) <=> e.down
      BY <1>1, <2>1, <2>2 DEF LastSays
    <2>. QED
      BY <2>1, <2>3 DEF Outcome
  <1>4. ASSUME ~Tells(e, i) PROVE Outcome(r, u, c, h, i) <=> Outcome(q, u, c, h, i)
    <2>1. \A n \in 1 .. k + 1 : Tells(r[n], i) => n \in 1 .. k /\ Tells(q[n], i)
      BY <1>1, <1>2, <1>4
    <2>2. \A n \in 1 .. k : n \in 1 .. k + 1 /\ (Tells(q[n], i) => Tells(r[n], i))
      BY <1>1
    <2>3. About(r, i) = About(q, i)
      BY <1>1, <2>1, <2>2 DEF About
    <2>4. LastSays(r, i) <=> LastSays(q, i)
      BY <1>1, <2>3 DEF LastSays, About
    <2>. QED
      BY <2>3, <2>4 DEF Outcome
  <1>. QED
    BY <1>3, <1>4 DEF r

\* Taking the first line for the checked one changes nothing, nor does dropping it when it
\* is not about the input.
LEMMA OutcomeTake ==
    ASSUME NEW S, NEW q \in Seq(S), q # <<>>, NEW u, NEW h, NEW i
    PROVE  /\ Outcome(Tail(q), u, Head(q), h, i) <=> Outcome(q, u, NoLine, h, i)
           /\ ~Tells(Head(q), i) => (Outcome(Tail(q), u, NoLine, h, i) <=> Outcome(q, u, NoLine, h, i))
  <1>. DEFINE r == Tail(q)
              k == Len(q)
  <1>1. /\ k \in Nat \ {0} /\ Len(r) = k - 1 /\ Head(q) = q[1]
        /\ \A n \in 1 .. k - 1 : r[n] = q[n + 1]
    BY TakeFacts
  <1>. HIDE DEF r
  <1>2. \A n \in 1 .. k - 1 : n \in About(r, i) <=> n + 1 \in About(q, i)
    BY <1>1 DEF About
  <1>3. \A n \in About(r, i) : n \in 1 .. k - 1
    BY <1>1 DEF About
  <1>4. \A n \in About(q, i) : n \in 1 .. k /\ (n = 1 \/ (n - 1 \in 1 .. k - 1 /\ (n - 1) + 1 = n))
    BY <1>1 DEF About
  <1>5. 1 \in About(q, i) <=> Tells(Head(q), i)
    BY <1>1 DEF About
  <1>6. ~Tells(NoLine, i)
    BY DEF Tells
  <1>7. ASSUME About(r, i) # {}
        PROVE  About(q, i) # {} /\ (LastSays(r, i) <=> LastSays(q, i))
    <2>1. PICK z \in About(r, i) : TRUE
      BY <1>7
    <2>2. z + 1 \in About(q, i) /\ z \in 1 .. k - 1
      BY <1>2, <1>3, <2>1
    <2>3. ASSUME NEW n \in About(r, i), r[n].down, \A m \in About(r, i) : m <= n
          PROVE  LastSays(q, i)
      <3>1. n + 1 \in About(q, i) /\ q[n + 1].down /\ n \in 1 .. k - 1
        BY <1>1, <1>2, <1>3, <2>3
      <3>2. ASSUME NEW m \in About(q, i) PROVE m <= n + 1
        <4>1. m = 1 \/ (m - 1 \in 1 .. k - 1 /\ (m - 1) + 1 = m)
          BY <1>4
        <4>2. m # 1 => m - 1 \in About(r, i)
          BY <1>2, <4>1
        <4>3. m # 1 => m - 1 <= n
          BY <2>3, <4>2
        <4>. QED
          BY <3>1, <4>1, <4>3
      <3>. QED
        BY <3>1, <3>2 DEF LastSays
    <2>4. ASSUME NEW n \in About(q, i), q[n].down, \A m \in About(q, i) : m <= n
          PROVE  LastSays(r, i)
      <3>1. z + 1 <= n
        BY <2>2, <2>4
      <3>2. n # 1 /\ n - 1 \in 1 .. k - 1 /\ (n - 1) + 1 = n
        BY <1>1, <1>4, <2>2, <3>1
      <3>3. n - 1 \in About(r, i) /\ r[n - 1].down
        BY <1>1, <1>2, <2>4, <3>2
      <3>4. ASSUME NEW m \in About(r, i) PROVE m <= n - 1
        <4>1. m \in 1 .. k - 1 /\ m + 1 \in About(q, i)
          BY <1>2, <1>3
        <4>2. m + 1 <= n
          BY <2>4, <4>1
        <4>. QED
          BY <1>1, <3>2, <4>1, <4>2
      <3>. QED
        BY <3>3, <3>4 DEF LastSays
    <2>5. LastSays(r, i) <=> LastSays(q, i)
      BY <2>3, <2>4 DEF LastSays
    <2>. QED
      BY <2>2, <2>5
  <1>8. ASSUME About(r, i) = {} PROVE \A n \in About(q, i) : n = 1
    BY <1>2, <1>4, <1>8
  <1>9. ASSUME About(r, i) = {}, Tells(Head(q), i)
        PROVE  About(q, i) # {} /\ (LastSays(q, i) <=> Head(q).down)
    <2>1. About(q, i) = {1}
      BY <1>5, <1>8, <1>9
    <2>. QED
      BY <1>1, <2>1 DEF LastSays
  <1>10. ASSUME About(r, i) = {}, ~Tells(Head(q), i) PROVE About(q, i) = {}
    BY <1>5, <1>8, <1>10
  <1>11. Outcome(r, u, Head(q), h, i) <=> Outcome(q, u, NoLine, h, i)
    <2>1. CASE About(r, i) # {}
      BY <1>7, <2>1 DEF Outcome
    <2>2. CASE About(r, i) = {} /\ Tells(Head(q), i)
      BY <1>9, <2>2 DEF Outcome
    <2>3. CASE About(r, i) = {} /\ ~Tells(Head(q), i)
      BY <1>6, <1>10, <2>3 DEF Outcome
    <2>. QED
      BY <2>1, <2>2, <2>3
  <1>12. ASSUME ~Tells(Head(q), i)
         PROVE  Outcome(r, u, NoLine, h, i) <=> Outcome(q, u, NoLine, h, i)
    <2>1. CASE About(r, i) # {}
      BY <1>7, <2>1 DEF Outcome
    <2>2. CASE About(r, i) = {}
      BY <1>6, <1>10, <1>12, <2>2 DEF Outcome
    <2>. QED
      BY <2>1, <2>2
  <1>. QED
    BY <1>11, <1>12 DEF r

\* Injecting the checked line does what it was said to do.
LEMMA OutcomeInject ==
    ASSUME NEW q, NEW u, NEW c, NEW h, NEW i, NEW h2,
           Tells(c, i) => (i \in h2 <=> c.down),
           ~Tells(c, i) => (i \in h2 <=> i \in h)
    PROVE  Outcome(q, u, NoLine, h2, i) <=> Outcome(q, u, c, h, i)
  <1>1. ~Tells(NoLine, i)
    BY DEF Tells
  <1>. QED
    BY <1>1 DEF Outcome

\* What one action has to show: for each input that is still attended, what will be.
LEMMA FaithfulFrom ==
    ASSUME RelayTypeInv, RelayTypeInv', Faithful,
           \A i \in attended' :
               (Outcome(toHost', ui', checked', held', i) <=> i \in phys')
    PROVE  Faithful'
  <1>1. ASSUME NEW i \in attended' PROVE WillBeDown(i)' <=> i \in phys'
    <2>1. RelayTypeInv' => (WillBeDown(i)' <=> Outcome(toHost', ui', checked', held', i))
      <3>1. RelayTypeInv' => DOMAIN toHost' = 1 .. Len(toHost')
        BY LenProperties DEF RelayTypeInv
      <3>. QED
        BY <3>1 DEF WillBeDown, Outcome, About, LastSays
    <2>. QED
      BY <2>1
  <1>. QED
    BY <1>1 DEF Faithful

LEMMA FaithfulNow ==
    ASSUME RelayTypeInv, Faithful, NEW i \in attended
    PROVE  Outcome(toHost, ui, checked, held, i) <=> i \in phys
  <1>1. WillBeDown(i) <=> i \in phys
    BY DEF Faithful
  <1>. QED
    BY <1>1, OutcomeIs

\* A line that is sent is put at the end for a viewer in a session.
LEMMA SendIs ==
    ASSUME NEW may, NEW lines, SendIf(may, lines)
    PROVE  /\ may /\ host # "idle" => toHost' = toHost \o lines
           /\ ~may => toHost' = toHost
           /\ toHost' = toHost \/ toHost' = toHost \o lines
  BY DEF SendIf, Put

\* A line that is not about the input, sent or not, does not change what will be.
LEMMA OutcomeSent ==
    ASSUME NEW S, NEW q \in Seq(S), NEW e \in S, NEW r, r = q \/ r = q \o <<e>>,
           NEW u, NEW c, NEW h, NEW i, ~Tells(u, i), ~Tells(e, i)
    PROVE  Outcome(r, u, c, h, i) <=> Outcome(q, u, c, h, i)
  <1>1. CASE r = q
    BY <1>1
  <1>2. CASE r = q \o <<e>>
    BY <1>2, OutcomePut
  <1>. QED
    BY <1>1, <1>2

\* No action changes what will be down against the user, of the inputs that are still
\* attended after it.
LEMMA FaithfulStep ==
    ASSUME RelayTypeInv, RelayTypeInv', OpenInv, ToldInv, Faithful, [Next]_vars
    PROVE  Faithful'
  <1>. DEFINE Will(i) == Outcome(toHost', ui', checked', held', i) <=> i \in phys'
  <1>. USE DEF session, access, channel, user, window, desktop
  <1>0. toHost \in Seq(LinesOf(scene)) /\ scene \in Scenes
    BY DEF RelayTypeInv
  <1>1. ASSUME attended' \subseteq attended, UNCHANGED <<toHost, ui, checked, held, phys>>
        PROVE  Faithful'
    BY <1>1, FaithfulFrom, FaithfulNow
  <1>2. ASSUME attended' = {} PROVE Faithful'
    BY <1>2 DEF Faithful
  <1>3. ASSUME NEW k \in Keys, KeyDown(k) PROVE Faithful'
    <2>. DEFINE e == EventLine(k, TRUE, NoAim)
    <2>1. /\ ui = NoLine /\ k \in scene.inputs /\ phys' = phys \cup {k} /\ Attend(k, focus)
          /\ SendIf(focus /\ Sends("keyboard"), <<e>>) /\ UNCHANGED <<ui, checked, held>>
      BY <1>3 DEF KeyDown, Handles
    <2>2. e \in LinesOf(scene) /\ e # NoLine /\ e.down /\ Tells(e, k)
          /\ \A i : Tells(e, i) => i = k
      <3>1. e \in LinesOf(scene) /\ e # NoLine
        <4>1. NoAim \in Int
          BY DEF NoAim
        <4>. QED
          BY <1>0, <2>1, <4>1, EventType
      <3>2. e.kind = "input" /\ e.id = k /\ e.down
        BY DEF EventLine
      <3>. QED
        BY <3>1, <3>2 DEF Tells
    <2>. HIDE DEF e
    <2>3. \A i : ~Tells(ui, i)
      BY <2>1 DEF Tells
    <2>4. k \in Inputs /\ DeviceOf(k) = "keyboard"
      BY <1>0, <2>1, SceneFacts, DeviceFacts
    <2>5. ASSUME NEW i \in attended' PROVE Will(i)
      <3>1. CASE i = k
        <4>1. focus /\ Open("keyboard")
          BY <2>1, <2>4, <2>5, <3>1, AttendFacts
        <4>2. focus /\ Sends("keyboard") /\ host # "idle"
          BY <4>1 DEF Open
        <4>3. toHost' = toHost \o <<e>>
          BY <2>1, <4>2, SendIs
        <4>4. Outcome(toHost', ui, checked, held, i) <=> e.down
          BY <1>0, <2>2, <2>3, <3>1, <4>3, OutcomePut
        <4>. QED
          BY <2>1, <2>2, <3>1, <4>4
      <3>2. CASE i # k
        <4>1. i \in attended
          BY <2>1, <2>5, <3>2, AttendFacts
        <4>2. ~Tells(e, i)
          BY <2>2, <3>2
        <4>3. Outcome(toHost', ui, checked, held, i) <=> Outcome(toHost, ui, checked, held, i)
          <5>1. toHost' = toHost \/ toHost' = toHost \o <<e>>
            BY <2>1, SendIs
          <5>. QED
            BY <1>0, <2>2, <2>3, <4>2, <5>1, OutcomeSent
        <4>. QED
          BY <2>1, <3>2, <4>1, <4>3, FaithfulNow
      <3>. QED
        BY <3>1, <3>2
    <2>. QED
      BY <2>5, FaithfulFrom
  <1>4. ASSUME NEW k \in Keys, KeyUp(k) PROVE Faithful'
    <2>. DEFINE e == EventLine(k, FALSE, NoAim)
    <2>1. /\ ui = NoLine /\ k \in scene.inputs /\ phys' = phys \ {k} /\ attended' = attended
          /\ SendIf(focus /\ Sends("keyboard"), <<e>>) /\ UNCHANGED <<ui, checked, held>>
      BY <1>4 DEF KeyUp, Handles, RelayTypeInv
    <2>2. e \in LinesOf(scene) /\ e # NoLine /\ ~e.down /\ Tells(e, k)
          /\ \A i : Tells(e, i) => i = k
      <3>1. e \in LinesOf(scene) /\ e # NoLine
        <4>1. NoAim \in Int
          BY DEF NoAim
        <4>. QED
          BY <1>0, <2>1, <4>1, EventType
      <3>2. e.kind = "input" /\ e.id = k /\ ~e.down
        BY DEF EventLine
      <3>. QED
        BY <3>1, <3>2 DEF Tells
    <2>. HIDE DEF e
    <2>3. \A i : ~Tells(ui, i)
      BY <2>1 DEF Tells
    <2>4. k \in Inputs /\ DeviceOf(k) = "keyboard"
      BY <1>0, <2>1, SceneFacts, DeviceFacts
    <2>5. ASSUME NEW i \in attended' PROVE Will(i)
      <3>1. CASE i = k
        <4>1. focus /\ Sends("keyboard") /\ host = "serving"
          BY <1>4, <2>1, <2>4, <2>5, <3>1 DEF OpenInv, ToldInv, Sends
        <4>2. toHost' = toHost \o <<e>>
          BY <2>1, <4>1, SendIs
        <4>3. Outcome(toHost', ui, checked, held, i) <=> e.down
          BY <1>0, <2>2, <2>3, <3>1, <4>2, OutcomePut
        <4>. QED
          BY <2>1, <2>2, <3>1, <4>3
      <3>2. CASE i # k
        <4>2. ~Tells(e, i)
          BY <2>2, <3>2
        <4>3. Outcome(toHost', ui, checked, held, i) <=> Outcome(toHost, ui, checked, held, i)
          <5>1. toHost' = toHost \/ toHost' = toHost \o <<e>>
            BY <2>1, SendIs
          <5>. QED
            BY <1>0, <2>2, <2>3, <4>2, <5>1, OutcomeSent
        <4>. QED
          BY <2>1, <2>5, <3>2, <4>3, FaithfulNow
      <3>. QED
        BY <3>1, <3>2
    <2>. QED
      BY <2>5, FaithfulFrom
  <1>5. ASSUME NEW d \in Device, Hotkey(d) PROVE Faithful'
    <2>. DEFINE new == [vAccess EXCEPT ![d] = ~@]
                e == AccessLine(new)
    <2>1. /\ ui = NoLine /\ phys' = phys \cup {Letter[d]} /\ UNCHANGED <<ui, checked, held>>
          /\ attended' \subseteq attended \ {Letter[d]}
          /\ toHost' = toHost \/ toHost' = toHost \o <<e>>
      BY <1>5 DEF Hotkey, Handles, Put
    <2>2. e \in LinesOf(scene) /\ \A i : ~Tells(e, i)
      <3>1. new \in Grant
        BY GrantFacts DEF RelayTypeInv
      <3>. HIDE DEF new
      <3>2. e.kind = "access"
        BY DEF AccessLine
      <3>. QED
        BY <3>1, <3>2 DEF LinesOf, Tells
    <2>. HIDE DEF e
    <2>3. \A i : ~Tells(ui, i)
      BY <2>1 DEF Tells
    <2>4. ASSUME NEW i \in attended' PROVE Will(i)
      <3>1. i \in attended /\ i # Letter[d]
        BY <2>1, <2>4
      <3>2. Outcome(toHost', ui, checked, held, i) <=> Outcome(toHost, ui, checked, held, i)
        BY <1>0, <2>1, <2>2, <2>3, OutcomeSent
      <3>. QED
        BY <2>1, <3>1, <3>2, FaithfulNow
    <2>. QED
      BY <2>4, FaithfulFrom
  \* A movement, alone or before a button, tells nothing of the inputs.
  <1>6. ASSUME NEW p \in Int, NEW lines \in MoveLines(p), NEW may, SendIf(may, lines),
               NEW i, ~Tells(ui, i)
        PROVE  Outcome(toHost', ui, checked, held, i) <=> Outcome(toHost, ui, checked, held, i)
    <2>1. CASE lines = <<>>
      <3>1. toHost' = toHost
        BY <1>0, <1>6, <2>1, SendIs, ConcatEmptySeq
      <3>. QED
        BY <3>1
    <2>2. ASSUME NEW line \in MovesOf(scene), lines = <<line>>, line \in LinesOf(scene)
          PROVE  Outcome(toHost', ui, checked, held, i) <=> Outcome(toHost, ui, checked, held, i)
      <3>1. ~Tells(line, i)
        BY <2>2 DEF MovesOf, Tells
      <3>2. toHost' = toHost \/ toHost' = toHost \o <<line>>
        BY <1>6, <2>2, SendIs
      <3>. QED
        BY <1>0, <1>6, <2>2, <3>1, <3>2, OutcomeSent
    <2>. QED
      BY <1>6, <2>1, <2>2, MoveLinesType
  <1>7. ASSUME NEW b \in Buttons, ButtonDown(b) PROVE Faithful'
    <2>. DEFINE handled == GetsMouse /\ Sends("mouse")
                e == EventLine(b, TRUE, IF Moves THEN at ELSE NoAim)
    <2>1. /\ ui = NoLine /\ b \in scene.inputs /\ phys' = phys \cup {b} /\ UNCHANGED <<checked, held>>
          /\ Attend(b, handled) /\ ui' = (IF handled THEN e ELSE NoLine)
      BY <1>7 DEF ButtonDown, Handles
    <2>2. PICK lines \in MoveLines(at) : SendIf(handled, lines)
      BY <1>7 DEF ButtonDown
    <2>3. e # NoLine /\ e.kind = "input" /\ e.id = b /\ e.down
      BY <1>0, <2>1, EventType DEF EventLine, NoAim, RelayTypeInv
    <2>. HIDE DEF e, handled
    <2>4. \A i : ~Tells(ui, i)
      BY <2>1 DEF Tells
    <2>5. at \in Int
      BY DEF RelayTypeInv
    <2>6. ASSUME NEW i \in attended' PROVE Will(i)
      <3>1. CASE i = b
        <4>1. ui' = e
          BY <2>1, <2>6, <3>1, AttendFacts
        <4>2. Tells(ui', i) /\ ui'.down
          BY <2>3, <3>1, <4>1 DEF Tells
        <4>. QED
          BY <2>1, <3>1, <4>2 DEF Outcome
      <3>2. CASE i # b
        <4>1. i \in attended /\ ~Tells(ui', i)
          BY <2>1, <2>3, <2>6, <3>2, AttendFacts DEF Tells
        <4>2. Outcome(toHost', ui', checked, held, i) <=> Outcome(toHost', ui, checked, held, i)
          BY <2>4, <4>1 DEF Outcome
        <4>3. Outcome(toHost', ui, checked, held, i) <=> Outcome(toHost, ui, checked, held, i)
          BY <1>6, <2>2, <2>4, <2>5
        <4>. QED
          BY <2>1, <3>2, <4>1, <4>2, <4>3, FaithfulNow
      <3>. QED
        BY <3>1, <3>2
    <2>. QED
      BY <2>6, FaithfulFrom
  <1>8. ASSUME NEW b \in Buttons, ButtonUp(b) PROVE Faithful'
    <2>. DEFINE handled == GetsMouse /\ Sends("mouse")
                e == EventLine(b, FALSE, NoAim)
    <2>1. /\ ui = NoLine /\ b \in scene.inputs /\ b \in phys /\ phys' = phys \ {b}
          /\ UNCHANGED <<checked, held>>
          /\ attended' = attended /\ ui' = (IF handled THEN e ELSE NoLine)
      BY <1>8 DEF ButtonUp, Handles, RelayTypeInv
    <2>2. PICK lines \in MoveLines(at) : SendIf(handled, lines)
      BY <1>8 DEF ButtonUp
    <2>3. e # NoLine /\ e.kind = "input" /\ e.id = b /\ ~e.down
      <3>1. NoAim \in Int
        BY DEF NoAim
      <3>2. e # NoLine
        BY <1>0, <2>1, <3>1, EventType
      <3>. QED
        BY <3>2 DEF EventLine
    <2>4. b \in attended => handled
      <3>1. b \in Inputs /\ DeviceOf(b) = "mouse"
        BY <1>0, <2>1, SceneFacts, DeviceFacts
      <3>. QED
        BY <1>8, <2>1, <3>1 DEF OpenInv, ToldInv, GetsMouse, Sends
    <2>. HIDE DEF e, handled
    <2>5. \A i : ~Tells(ui, i)
      BY <2>1 DEF Tells
    <2>6. at \in Int
      BY DEF RelayTypeInv
    <2>7. ASSUME NEW i \in attended' PROVE Will(i)
      <3>1. CASE i = b
        <4>1. ui' = e
          BY <2>1, <2>4, <2>7, <3>1
        <4>2. Tells(ui', i) /\ ~ui'.down
          BY <2>3, <3>1, <4>1 DEF Tells
        <4>. QED
          BY <2>1, <3>1, <4>2 DEF Outcome
      <3>2. CASE i # b
        <4>1. i \in attended /\ ~Tells(ui', i)
          BY <2>1, <2>3, <2>7, <3>2 DEF Tells
        <4>2. Outcome(toHost', ui', checked, held, i) <=> Outcome(toHost', ui, checked, held, i)
          BY <2>5, <4>1 DEF Outcome
        <4>3. Outcome(toHost', ui, checked, held, i) <=> Outcome(toHost, ui, checked, held, i)
          BY <1>6, <2>2, <2>5, <2>6
        <4>. QED
          BY <2>1, <3>2, <4>1, <4>2, <4>3, FaithfulNow
      <3>. QED
        BY <3>1, <3>2
    <2>. QED
      BY <2>7, FaithfulFrom
  <1>9. ASSUME NEW p \in scene.places, PointerMoves(p) PROVE Faithful'
    <2>1. /\ ui = NoLine /\ UNCHANGED <<ui, checked, held, phys, attended>>
      BY <1>9 DEF PointerMoves, Handles
    <2>2. PICK lines \in MoveLines(p) :
             SendIf(Sends("mouse") /\ (OverPicture(p) \/ capture), lines)
      BY <1>9 DEF PointerMoves
    <2>3. p \in Int /\ \A i : ~Tells(ui, i)
      BY <1>0, <2>1, SceneFacts DEF Tells
    <2>4. ASSUME NEW i \in attended' PROVE Will(i)
      <3>1. Outcome(toHost', ui, checked, held, i) <=> Outcome(toHost, ui, checked, held, i)
        BY <1>6, <2>2, <2>3
      <3>. QED
        BY <2>1, <2>4, <3>1, FaithfulNow
    <2>. QED
      BY <2>4, FaithfulFrom
  <1>10. CASE ButtonSent
    <2>1. /\ ui # NoLine /\ ui' = NoLine /\ SendIf(Sends("mouse"), <<ui>>)
          /\ UNCHANGED <<checked, held, phys>> /\ attended' \subseteq attended
      BY <1>10 DEF ButtonSent
    <2>2. ui \in LinesOf(scene) /\ ui.kind = "input" /\ ui.id \in Buttons
      BY <2>1 DEF RelayTypeInv, LinesOf, EventsOf
    <2>3. \A i : ~Tells(NoLine, i)
      BY DEF Tells
    <2>4. ASSUME NEW i \in attended' PROVE Will(i)
      <3>1. i \in attended
        BY <2>1, <2>4
      <3>2. CASE Tells(ui, i)
        <4>1. i \in Buttons /\ i \in Inputs
          BY <2>2, <3>1, <3>2, AttendedFacts DEF Tells
        <4>2. Sends("mouse") /\ host = "serving"
          BY <3>1, <4>1, DeviceFacts DEF OpenInv, Sends
        <4>3. toHost' = toHost \o <<ui>>
          BY <2>1, <4>2, SendIs
        <4>4. Outcome(toHost', NoLine, checked, held, i) <=> ui.down
          BY <1>0, <2>2, <2>3, <3>2, <4>3, OutcomePut
        <4>5. Outcome(toHost, ui, checked, held, i) <=> ui.down
          BY <3>2 DEF Outcome
        <4>. QED
          BY <2>1, <3>1, <4>4, <4>5, FaithfulNow
      <3>3. CASE ~Tells(ui, i)
        <4>1. Outcome(toHost', NoLine, checked, held, i) <=> Outcome(toHost, NoLine, checked, held, i)
          <5>1. toHost' = toHost \/ toHost' = toHost \o <<ui>>
            BY <2>1, SendIs
          <5>. QED
            BY <1>0, <2>2, <2>3, <3>3, <5>1, OutcomeSent
        <4>2. Outcome(toHost, ui, checked, held, i) <=> Outcome(toHost, NoLine, checked, held, i)
          BY <2>3, <3>3 DEF Outcome
        <4>. QED
          BY <2>1, <3>1, <4>1, <4>2, FaithfulNow
      <3>. QED
        BY <3>2, <3>3
    <2>. QED
      BY <2>4, FaithfulFrom
  <1>11. CASE HostTakes
    <2>. DEFINE line == Head(toHost)
    <2>1. /\ checked = NoLine /\ toHost # <<>> /\ toHost' = Tail(toHost)
          /\ UNCHANGED <<ui, held, phys>> /\ attended' \subseteq attended
      BY <1>11 DEF HostTakes
    <2>2. line \in LinesOf(scene)
      BY <1>0, <2>1, TakeFacts
    <2>3. ASSUME NEW i \in attended' PROVE Will(i)
      <3>1. i \in attended /\ i \in Inputs
        BY <2>1, <2>3, AttendedFacts
      <3>2. CASE checked' = line
        <4>1. Outcome(toHost', ui, checked', held, i) <=> Outcome(toHost, ui, checked, held, i)
          BY <1>0, <2>1, <3>2, OutcomeTake
        <4>. QED
          BY <2>1, <3>1, <4>1, FaithfulNow
      <3>3. CASE checked' # line
        <4>1. checked' = NoLine /\ (line.kind = "access" \/ ~hAccess[LineDevice(line)])
          BY <1>11, <2>1, <3>3 DEF HostTakes
        <4>2. ~Tells(line, i)
          <5>1. Tells(line, i) => line.kind = "input" /\ LineDevice(line) = DeviceOf(i)
            BY DEF Tells, LineDevice
          <5>2. hAccess[DeviceOf(i)]
            BY <3>1 DEF OpenInv
          <5>. QED
            BY <4>1, <5>1, <5>2
        <4>3. Outcome(toHost', ui, checked', held, i) <=> Outcome(toHost, ui, checked, held, i)
          BY <1>0, <2>1, <4>1, <4>2, OutcomeTake
        <4>. QED
          BY <2>1, <3>1, <4>3, FaithfulNow
      <3>. QED
        BY <3>2, <3>3
    <2>. QED
      BY <2>3, FaithfulFrom
  <1>12. CASE HostInjects
    <2>1. /\ checked # NoLine /\ checked' = NoLine /\ UNCHANGED <<toHost, ui, phys, attended>>
          /\ checked \in EventsOf(scene) \cup MovesOf(scene)
      BY <1>12 DEF HostInjects, RelayTypeInv
    <2>2. ASSUME NEW i \in attended' PROVE Will(i)
      <3>1. /\ Tells(checked, i) => (i \in held' <=> checked.down)
            /\ ~Tells(checked, i) => (i \in held' <=> i \in held)
        <4>1. CASE checked.kind = "move"
          BY <1>12, <4>1 DEF HostInjects, Tells
        <4>2. CASE checked.kind # "move"
          <5>1. checked.kind = "input"
            BY <2>1, <4>2 DEF EventsOf, MovesOf
          <5>2. held' = (IF checked.down THEN held \cup {checked.id} ELSE held \ {checked.id})
            BY <1>12, <4>2 DEF HostInjects
          <5>. QED
            BY <2>1, <5>1, <5>2 DEF Tells
        <4>. QED
          BY <4>1, <4>2
      <3>2. Outcome(toHost, ui, NoLine, held', i) <=> Outcome(toHost, ui, checked, held, i)
        BY <3>1, OutcomeInject
      <3>. QED
        BY <2>1, <2>2, <3>2, FaithfulNow
    <2>. QED
      BY <2>2, FaithfulFrom
  <1>13. CASE HostLeaves
    <2>1. attended = {}
      BY <1>13 DEF HostLeaves, OpenInv
    <2>. QED
      BY <1>2, <1>13, <2>1 DEF HostLeaves
  <1>14. CASE ViewerLeaves \/ ViewerSees \/ HostStops
    BY <1>2, <1>14 DEF ViewerLeaves, ViewerSees, HostStops
  <1>15. CASE FocusLost
    BY <1>1, <1>15 DEF FocusLost
  <1>16. CASE FocusGained \/ AccessTold \/ ViewerApplies
    BY <1>1, <1>16 DEF FocusGained, AccessTold, ViewerApplies
  <1>17. ASSUME NEW d \in Device, HostClick(d) PROVE Faithful'
    BY <1>1, <1>17 DEF HostClick
  <1>18. CASE FrameArrives \/ Begin
    BY <1>1, <1>18 DEF FrameArrives, Begin
  <1>19. CASE UNCHANGED vars
    BY <1>1, <1>19 DEF vars
  <1>. QED
    BY <1>3, <1>4, <1>5, <1>7, <1>8, <1>9, <1>10, <1>11, <1>12, <1>13, <1>14, <1>15, <1>16,
       <1>17, <1>18, <1>19 DEF Next, User, Programs

(* --------------------- the move before a press ------------------------ *)

\* A line put at the end that is no press of the button, with none in the window.
LEMMA AimedPut ==
    ASSUME NEW S, NEW q \in Seq(S), NEW e \in S, NEW u, NEW c, NEW cur, NEW b,
           ~Presses(u, b), ~Presses(e, b), Aimed(q, u, c, cur, b)
    PROVE  Aimed(q \o <<e>>, u, c, cur, b)
  <1>. DEFINE r == q \o <<e>>
              k == Len(q)
  <1>1. /\ k \in Nat /\ Len(r) = k + 1 /\ r[k + 1] = e
        /\ \A n \in 1 .. k : r[n] = q[n]
    BY PutFacts
  <1>. HIDE DEF r
  <1>2. \A n \in 1 .. k + 1 : n \in 1 .. k \/ n = k + 1
    BY <1>1
  <1>3. ASSUME NEW n \in 1 .. k + 1, Presses(r[n], b), r[n].aim # NoAim,
               \A m \in n + 1 .. k + 1 : ~Presses(r[m], b)
        PROVE  IF n = 1 THEN Brought(c, cur, r[n].aim) ELSE MovesTo(r[n - 1], r[n].aim)
    <2>1. n \in 1 .. k /\ r[n] = q[n]
      BY <1>1, <1>2, <1>3
    <2>2. \A m \in n + 1 .. k : ~Presses(q[m], b)
      <3>1. \A m \in n + 1 .. k : m \in 1 .. k /\ m \in n + 1 .. k + 1
        BY <1>1, <2>1
      <3>. QED
        BY <1>1, <1>3, <3>1
    <2>3. IF n = 1 THEN Brought(c, cur, q[n].aim) ELSE MovesTo(q[n - 1], q[n].aim)
      BY <1>3, <2>1, <2>2 DEF Aimed
    <2>4. n # 1 => n - 1 \in 1 .. k
      BY <1>1, <2>1
    <2>. QED
      BY <1>1, <2>1, <2>3, <2>4
  <1>4. (\A n \in 1 .. k + 1 : ~Presses(r[n], b)) => \A n \in 1 .. k : ~Presses(q[n], b)
    <2>1. \A n \in 1 .. k : n \in 1 .. k + 1
      BY <1>1
    <2>. QED
      BY <1>1, <2>1
  <1>5. Presses(c, b) /\ c.aim # NoAim /\ (\A n \in 1 .. k : ~Presses(q[n], b))
        => Lands(cur, c.aim, rect, scene.desktop)
    BY DEF Aimed
  <1>. QED
    BY <1>1, <1>3, <1>4, <1>5 DEF Aimed, r

\* A line that is sent or not.
LEMMA AimedSend ==
    ASSUME NEW S, NEW q \in Seq(S), NEW e \in S, NEW r, r = q \/ r = q \o <<e>>,
           NEW u, NEW c, NEW cur, NEW b,
           ~Presses(u, b), ~Presses(e, b), Aimed(q, u, c, cur, b)
    PROVE  Aimed(r, u, c, cur, b)
  <1>1. CASE r = q
    BY <1>1
  <1>2. CASE r = q \o <<e>>
    BY <1>2, AimedPut
  <1>. QED
    BY <1>1, <1>2

\* The window's line matters for a button only if it is a press of it.
LEMMA AimedWindow ==
    ASSUME NEW q, NEW u, NEW v, NEW c, NEW cur, NEW b,
           ~Presses(u, b), ~Presses(v, b), Aimed(q, u, c, cur, b)
    PROVE  Aimed(q, v, c, cur, b)
  BY DEF Aimed

\* The window's press follows its move.
LEMMA AimedSent ==
    ASSUME NEW S, NEW q \in Seq(S), NEW u \in S, NEW c, NEW cur, NEW b,
           Presses(u, b), Aimed(q, u, c, cur, b)
    PROVE  Aimed(q \o <<u>>, NoLine, c, cur, b)
  <1>. DEFINE r == q \o <<u>>
              k == Len(q)
  <1>1. /\ k \in Nat /\ Len(r) = k + 1 /\ r[k + 1] = u
        /\ \A n \in 1 .. k : r[n] = q[n]
    BY PutFacts
  <1>2. q = <<>> <=> k = 0
    BY EmptySeq
  <1>. HIDE DEF r
  <1>3. ASSUME NEW n \in 1 .. k + 1, Presses(r[n], b), r[n].aim # NoAim,
               \A m \in n + 1 .. k + 1 : ~Presses(r[m], b)
        PROVE  IF n = 1 THEN Brought(c, cur, r[n].aim) ELSE MovesTo(r[n - 1], r[n].aim)
    <2>1. n = k + 1
      <3>1. n # k + 1 => k + 1 \in n + 1 .. k + 1
        BY <1>1
      <3>. QED
        BY <1>1, <1>3, <3>1
    <2>2. u.aim # NoAim
      BY <1>1, <1>3, <2>1
    <2>3. Ready(q, c, cur, u.aim)
      BY <2>2 DEF Aimed
    <2>4. CASE k = 0
      BY <1>1, <1>2, <2>1, <2>3, <2>4 DEF Ready
    <2>5. CASE k # 0
      <3>1. n # 1 /\ n - 1 = k /\ k \in 1 .. k
        BY <1>1, <2>1, <2>5
      <3>2. r[n - 1] = q[k] /\ r[n] = u
        BY <1>1, <2>1, <3>1
      <3>3. MovesTo(q[k], u.aim)
        BY <1>2, <2>3, <2>5 DEF Ready
      <3>. QED
        BY <3>1, <3>2, <3>3
    <2>. QED
      BY <2>4, <2>5
  <1>4. ~ \A n \in 1 .. k + 1 : ~Presses(r[n], b)
    <2>1. k + 1 \in 1 .. k + 1
      BY <1>1
    <2>. QED
      BY <1>1, <2>1
  <1>5. ~Presses(NoLine, b)
    BY DEF Presses, Tells
  <1>. QED
    BY <1>1, <1>3, <1>4, <1>5 DEF Aimed, r

\* The host takes the first line: it is checked, or dropped when it moves nothing.
LEMMA AimedTake ==
    ASSUME NEW S, NEW q \in Seq(S), q # <<>>, NEW u, NEW cur, NEW b, NEW c,
           Aimed(q, u, NoLine, cur, b),
           (c = Head(q) /\ c # NoLine) \/ (c = NoLine /\ Head(q).kind # "move")
    PROVE  Aimed(Tail(q), u, c, cur, b)
  <1>. DEFINE r == Tail(q)
              k == Len(q)
  <1>1. /\ k \in Nat \ {0} /\ Len(r) = k - 1 /\ Head(q) = q[1] /\ r \in Seq(S)
        /\ \A n \in 1 .. k - 1 : r[n] = q[n + 1]
    BY TakeFacts
  <1>. HIDE DEF r
  <1>2. r = <<>> <=> k = 1
    BY <1>1, EmptySeq
  <1>3. ASSUME NEW aim, MovesTo(q[1], aim) PROVE Brought(c, cur, aim)
    <2>1. c = Head(q) /\ c # NoLine
      BY <1>1, <1>3 DEF MovesTo
    <2>. QED
      BY <1>1, <1>3, <2>1 DEF Brought
  <1>4. ASSUME Presses(u, b), u.aim # NoAim PROVE Ready(r, c, cur, u.aim)
    <2>1. MovesTo(q[k], u.aim)
      BY <1>4 DEF Aimed, Ready
    <2>2. CASE k = 1
      BY <1>2, <1>3, <2>1, <2>2 DEF Ready
    <2>3. CASE k # 1
      <3>1. k - 1 \in 1 .. k - 1 /\ (k - 1) + 1 = k
        BY <1>1, <2>3
      <3>2. r[k - 1] = q[k]
        BY <1>1, <3>1
      <3>. QED
        BY <1>1, <1>2, <2>1, <2>3, <3>2 DEF Ready
    <2>. QED
      BY <2>2, <2>3
  <1>5. ASSUME ~Presses(u, b), NEW n \in 1 .. k - 1, Presses(r[n], b), r[n].aim # NoAim,
               \A m \in n + 1 .. k - 1 : ~Presses(r[m], b)
        PROVE  IF n = 1 THEN Brought(c, cur, r[n].aim) ELSE MovesTo(r[n - 1], r[n].aim)
    <2>1. n + 1 \in 1 .. k /\ n + 1 # 1 /\ (n + 1) - 1 = n /\ r[n] = q[n + 1]
      BY <1>1
    <2>2. ASSUME NEW m \in (n + 1) + 1 .. k PROVE ~Presses(q[m], b)
      <3>1. m - 1 \in n + 1 .. k - 1 /\ m - 1 \in 1 .. k - 1 /\ (m - 1) + 1 = m
        BY <1>1, <2>2
      <3>. QED
        BY <1>1, <1>5, <3>1
    <2>3. MovesTo(q[(n + 1) - 1], q[n + 1].aim)
      BY <1>5, <2>1, <2>2 DEF Aimed
    <2>4. MovesTo(q[n], r[n].aim)
      BY <2>1, <2>3
    <2>5. CASE n = 1
      BY <1>3, <2>4, <2>5
    <2>6. CASE n # 1
      <3>1. n - 1 \in 1 .. k - 1 /\ (n - 1) + 1 = n
        BY <1>1, <2>6
      <3>. QED
        BY <1>1, <2>4, <2>6, <3>1
    <2>. QED
      BY <2>5, <2>6
  <1>6. ASSUME Presses(c, b), c.aim # NoAim, ~Presses(u, b), \A n \in 1 .. k - 1 : ~Presses(r[n], b)
        PROVE  Lands(cur, c.aim, rect, scene.desktop)
    <2>1. c = q[1] /\ 1 \in 1 .. k
      BY <1>1, <1>6 DEF Presses, Tells
    <2>2. ASSUME NEW m \in 1 + 1 .. k PROVE ~Presses(q[m], b)
      <3>1. m - 1 \in 1 .. k - 1 /\ (m - 1) + 1 = m
        BY <1>1, <2>2
      <3>. QED
        BY <1>1, <1>6, <3>1
    <2>3. Brought(NoLine, cur, q[1].aim)
      BY <1>6, <2>1, <2>2 DEF Aimed
    <2>. QED
      BY <2>1, <2>3 DEF Brought
  <1>. QED
    BY <1>1, <1>4, <1>5, <1>6 DEF Aimed, r

\* The host injects what it has checked.
LEMMA AimedInject ==
    ASSUME NEW q, NEW u, NEW c, c # NoLine, NEW cur, NEW cur2, NEW b, Aimed(q, u, c, cur, b),
           c.kind = "move" => cur2 = Injected(c.x, scene.desktop)
    PROVE  Aimed(q, u, NoLine, cur2, b)
  <1>1. ASSUME NEW aim, Brought(c, cur, aim) PROVE Brought(NoLine, cur2, aim)
    BY <1>1 DEF Brought, MovesTo
  <1>2. ASSUME NEW aim, Ready(q, c, cur, aim) PROVE Ready(q, NoLine, cur2, aim)
    BY <1>1, <1>2 DEF Ready
  <1>3. ~Presses(NoLine, b)
    BY DEF Presses, Tells
  <1>. QED
    BY <1>1, <1>2, <1>3 DEF Aimed

LEMMA SceneStep ==
    ASSUME [Next]_vars
    PROVE  UNCHANGED <<scene, rect>>
  BY DEF Next, User, Programs, vars, KeyDown, KeyUp, ButtonDown, ButtonUp, Hotkey, HostClick,
         PointerMoves, FocusLost, FocusGained, ViewerLeaves, HostStops, ButtonSent, AccessTold,
         ViewerApplies, ViewerSees, FrameArrives, Begin, HostTakes, HostInjects, HostLeaves

\* What one action has to show: for each button that is still attended, its move.
LEMMA AimedFrom ==
    ASSUME UNCHANGED <<scene, rect>>,
           \A b \in attended' \cap Buttons : Aimed(toHost', ui', checked', cursor', b)
    PROVE  AimInv'
  BY DEF AimInv, Aimed, Ready, Brought, MovesTo
\* Every action keeps the move of a press right before it.
LEMMA AimStep ==
    ASSUME RelayTypeInv, OpenInv, AimInv, [Next]_vars
    PROVE  AimInv'
  <1>. DEFINE Kept(b) == Aimed(toHost', ui', checked', cursor', b)
  <1>. USE DEF session, access, channel, user, window, desktop
  <1>0. /\ toHost \in Seq(LinesOf(scene)) /\ scene \in Scenes /\ at \in Int /\ NoAim \in Int
        /\ UNCHANGED <<scene, rect>>
    BY SceneStep DEF RelayTypeInv, NoAim
  <1>1. ASSUME attended' \subseteq attended, UNCHANGED <<toHost, ui, checked, cursor>>
        PROVE  AimInv'
    <2>1. \A b \in attended' \cap Buttons : Kept(b)
      BY <1>1 DEF AimInv
    <2>. QED
      BY <1>0, <2>1, AimedFrom
  <1>2. ASSUME attended' = {} PROVE AimInv'
    BY <1>2 DEF AimInv
  \* A line that presses none of the buttons, from a window that has no line to send.
  <1>3. ASSUME NEW e \in LinesOf(scene), toHost' = toHost \/ toHost' = toHost \o <<e>>,
               ui = NoLine, UNCHANGED <<ui, checked, cursor>>,
               \A b \in attended' \cap Buttons : b \in attended /\ ~Presses(e, b)
        PROVE  AimInv'
    <2>1. ASSUME NEW b \in attended' \cap Buttons PROVE Kept(b)
      <3>1. Aimed(toHost, ui, checked, cursor, b) /\ ~Presses(ui, b)
        BY <1>3, <2>1 DEF AimInv, Presses, Tells
      <3>2. Aimed(toHost', ui, checked, cursor, b)
        BY <1>0, <1>3, <2>1, <3>1, AimedSend
      <3>. QED
        BY <1>3, <3>2
    <2>. QED
      BY <1>0, <2>1, AimedFrom
  <1>4. ASSUME NEW k \in Keys, KeyDown(k) PROVE AimInv'
    <2>1. /\ ui = NoLine /\ k \in scene.inputs /\ Attend(k, focus)
          /\ SendIf(focus /\ Sends("keyboard"), <<EventLine(k, TRUE, NoAim)>>)
          /\ UNCHANGED <<ui, checked, cursor>>
      BY <1>4 DEF KeyDown, Handles
    <2>2. EventLine(k, TRUE, NoAim) \in LinesOf(scene)
      BY <1>0, <2>1, EventType
    <2>3. \A b \in Buttons : b # k /\ ~Presses(EventLine(k, TRUE, NoAim), b)
      BY <1>4, InputsAssumption DEF Presses, Tells, EventLine
    <2>4. \A b \in attended' \cap Buttons : b \in attended
      BY <2>1, <2>3, AttendFacts
    <2>. QED
      BY <1>3, <2>1, <2>2, <2>3, <2>4, SendIs
  <1>5. ASSUME NEW k \in Keys, KeyUp(k) PROVE AimInv'
    <2>1. /\ ui = NoLine /\ k \in scene.inputs /\ attended' = attended
          /\ SendIf(focus /\ Sends("keyboard"), <<EventLine(k, FALSE, NoAim)>>)
          /\ UNCHANGED <<ui, checked, cursor>>
      BY <1>5 DEF KeyUp, Handles, RelayTypeInv
    <2>2. EventLine(k, FALSE, NoAim) \in LinesOf(scene)
      BY <1>0, <2>1, EventType
    <2>3. \A b \in Buttons : ~Presses(EventLine(k, FALSE, NoAim), b)
      BY DEF Presses, EventLine
    <2>. QED
      BY <1>3, <2>1, <2>2, <2>3, SendIs
  <1>6. ASSUME NEW d \in Device, Hotkey(d) PROVE AimInv'
    <2>. DEFINE e == AccessLine([vAccess EXCEPT ![d] = ~@])
    <2>1. /\ ui = NoLine /\ UNCHANGED <<ui, checked, cursor>> /\ attended' \subseteq attended
          /\ toHost' = toHost \/ toHost' = toHost \o <<e>>
      BY <1>6 DEF Hotkey, Handles, Put
    <2>2. [vAccess EXCEPT ![d] = ~@] \in Grant
      BY GrantFacts DEF RelayTypeInv
    <2>3. e \in LinesOf(scene)
      BY <2>2 DEF LinesOf
    <2>4. \A b \in Buttons : ~Presses(e, b)
      BY DEF Presses, Tells, AccessLine
    <2>. HIDE DEF e
    <2>. QED
      BY <1>3, <2>1, <2>3, <2>4
  \* A movement, alone or before the line of a button.
  <1>7. ASSUME NEW p \in Int, NEW lines \in MoveLines(p), NEW may, SendIf(may, lines), ui = NoLine,
               NEW b \in attended \cap Buttons
        PROVE  Aimed(toHost', ui, checked, cursor, b)
    <2>1. Aimed(toHost, ui, checked, cursor, b) /\ ~Presses(ui, b)
      BY <1>7 DEF AimInv, Presses, Tells
    <2>2. CASE lines = <<>>
      <3>1. toHost' = toHost
        BY <1>0, <1>7, <2>2, SendIs, ConcatEmptySeq
      <3>. QED
        BY <2>1, <3>1
    <2>3. ASSUME NEW line \in MovesOf(scene), lines = <<line>>, line \in LinesOf(scene)
          PROVE  Aimed(toHost', ui, checked, cursor, b)
      <3>1. ~Presses(line, b)
        BY <2>3 DEF MovesOf, Presses, Tells
      <3>2. toHost' = toHost \/ toHost' = toHost \o <<line>>
        BY <1>7, <2>3, SendIs
      <3>. QED
        BY <1>0, <2>1, <2>3, <3>1, <3>2, AimedSend
    <2>. QED
      BY <1>7, <2>2, <2>3, MoveLinesType
  <1>8. ASSUME NEW p \in scene.places, PointerMoves(p) PROVE AimInv'
    <2>1. ui = NoLine /\ UNCHANGED <<ui, checked, cursor, attended>>
      BY <1>8 DEF PointerMoves, Handles
    <2>2. PICK lines \in MoveLines(p) :
             SendIf(Sends("mouse") /\ (OverPicture(p) \/ capture), lines)
      BY <1>8 DEF PointerMoves
    <2>3. p \in Int
      BY <1>0, SceneFacts
    <2>4. \A b \in attended' \cap Buttons : Kept(b)
      BY <1>7, <2>1, <2>2, <2>3
    <2>. QED
      BY <1>0, <2>4, AimedFrom
  <1>9. ASSUME NEW b \in Buttons, ButtonUp(b) PROVE AimInv'
    <2>. DEFINE e == EventLine(b, FALSE, NoAim)
    <2>1. /\ ui = NoLine /\ ui' \in {e, NoLine} /\ UNCHANGED <<checked, cursor, attended>>
      BY <1>9 DEF ButtonUp, Handles
    <2>2. PICK lines \in MoveLines(at) : SendIf(GetsMouse /\ Sends("mouse"), lines)
      BY <1>9 DEF ButtonUp
    <2>3. ~e.down
      BY DEF EventLine
    <2>. HIDE DEF e
    <2>4. \A c : ~Presses(ui, c) /\ ~Presses(ui', c)
      BY <2>1, <2>3 DEF Presses, Tells
    <2>5. ASSUME NEW c \in attended' \cap Buttons PROVE Kept(c)
      <3>1. Aimed(toHost', ui, checked, cursor, c)
        BY <1>0, <1>7, <2>1, <2>2, <2>5
      <3>. QED
        BY <2>1, <2>4, <3>1, AimedWindow
    <2>. QED
      BY <1>0, <2>5, AimedFrom
  <1>10. ASSUME NEW b \in Buttons, ButtonDown(b) PROVE AimInv'
    <2>. DEFINE handled == GetsMouse /\ Sends("mouse")
                e == EventLine(b, TRUE, IF Moves THEN at ELSE NoAim)
    <2>1. /\ ui = NoLine /\ ui' = (IF handled THEN e ELSE NoLine) /\ UNCHANGED <<checked, cursor>>
          /\ Attend(b, handled) /\ b \in scene.inputs
      BY <1>10 DEF ButtonDown, Handles
    <2>2. PICK lines \in MoveLines(at) : SendIf(handled, lines)
      BY <1>10 DEF ButtonDown
    <2>3. e.id = b /\ e.down /\ e.kind = "input" /\ e.aim = (IF Moves THEN at ELSE NoAim)
      BY DEF EventLine
    <2>4. e # NoLine
      BY <1>0, <2>1, EventType
    <2>. HIDE DEF e, handled
    <2>5. ASSUME NEW c \in attended' \cap Buttons, c # b PROVE Kept(c)
      <3>1. c \in attended /\ ~Presses(ui, c) /\ ~Presses(ui', c)
        BY <2>1, <2>3, <2>5, AttendFacts DEF Presses, Tells
      <3>2. Aimed(toHost', ui, checked, cursor, c)
        BY <1>0, <1>7, <2>1, <2>2, <2>5, <3>1
      <3>. QED
        BY <2>1, <3>1, <3>2, AimedWindow
    <2>6. ASSUME b \in attended' PROVE Kept(b)
      <3>1. handled /\ Open(DeviceOf(b))
        BY <2>1, <2>6, AttendFacts
      <3>2. ui' = e /\ Presses(ui', b) /\ host # "idle"
        BY <2>1, <2>3, <2>4, <3>1 DEF Presses, Tells, Open
      <3>3. toHost' = toHost \o lines
        BY <2>2, <3>1, <3>2, SendIs
      <3>4. ui'.aim # NoAim => Ready(toHost', checked, cursor, ui'.aim)
        <4>1. CASE ~Moves
          BY <2>3, <3>2, <4>1
        <4>2. CASE Moves
          <5>1. PICK line \in MovesOf(scene) :
                   lines = <<line>> /\ MovesTo(line, at) /\ line \in LinesOf(scene)
            BY <1>0, <2>2, <4>2, MoveLinesType
          <5>2. toHost' # <<>> /\ toHost'[Len(toHost')] = line
            BY <1>0, <3>3, <5>1, PutFacts, EmptySeq
          <5>. QED
            BY <2>3, <3>2, <4>2, <5>1, <5>2 DEF Ready
        <4>. QED
          BY <4>1, <4>2
      <3>. QED
        BY <2>1, <3>2, <3>4 DEF Aimed
    <2>. QED
      BY <1>0, <2>5, <2>6, AimedFrom
  <1>11. CASE ButtonSent
    <2>1. /\ ui # NoLine /\ ui' = NoLine /\ SendIf(Sends("mouse"), <<ui>>)
          /\ UNCHANGED <<checked, cursor>> /\ attended' \subseteq attended
      BY <1>11 DEF ButtonSent
    <2>2. ui \in LinesOf(scene) /\ \A b : ~Presses(NoLine, b)
      BY <2>1 DEF RelayTypeInv, LinesOf, Presses, Tells
    <2>3. ASSUME NEW b \in attended' \cap Buttons PROVE Kept(b)
      <3>1. b \in attended /\ Aimed(toHost, ui, checked, cursor, b)
        BY <2>1, <2>3 DEF AimInv
      <3>2. b \in Inputs /\ DeviceOf(b) = "mouse"
        BY <2>3, <3>1, AttendedFacts, DeviceFacts
      <3>3. Sends("mouse") /\ host # "idle"
        BY <3>1, <3>2 DEF OpenInv, Sends
      <3>4. toHost' = toHost \o <<ui>>
        BY <2>1, <3>3, SendIs
      <3>5. CASE Presses(ui, b)
        <4>1. Aimed(toHost', NoLine, checked, cursor, b)
          BY <1>0, <2>2, <3>1, <3>4, <3>5, AimedSent
        <4>. QED
          BY <2>1, <4>1
      <3>6. CASE ~Presses(ui, b)
        <4>1. Aimed(toHost', ui, checked, cursor, b)
          BY <1>0, <2>2, <3>1, <3>4, <3>6, AimedPut
        <4>2. Aimed(toHost', NoLine, checked, cursor, b)
          BY <2>2, <3>6, <4>1, AimedWindow
        <4>. QED
          BY <2>1, <4>2
      <3>. QED
        BY <3>5, <3>6
    <2>. QED
      BY <1>0, <2>3, AimedFrom
  <1>12. CASE HostTakes
    <2>. DEFINE line == Head(toHost)
    <2>1. /\ checked = NoLine /\ toHost # <<>> /\ toHost' = Tail(toHost)
          /\ UNCHANGED <<ui, cursor>> /\ attended' \subseteq attended
      BY <1>12 DEF HostTakes
    <2>2. line \in LinesOf(scene)
      BY <1>0, <2>1, TakeFacts
    <2>3. ASSUME NEW b \in attended' \cap Buttons PROVE Kept(b)
      <3>1. b \in attended /\ Aimed(toHost, ui, NoLine, cursor, b)
        BY <2>1, <2>3 DEF AimInv
      <3>2. hAccess["mouse"]
        BY <2>3, <3>1, AttendedFacts, DeviceFacts DEF OpenInv
      <3>3. (checked' = line /\ line # NoLine) \/ (checked' = NoLine /\ line.kind # "move")
        <4>1. CASE line.kind = "access"
          BY <1>12, <2>1, <4>1 DEF HostTakes
        <4>2. CASE line.kind # "access"
          <5>1. line # NoLine
            BY <1>0, <2>2, <4>2, LineFacts
          <5>2. checked' = (IF hAccess[LineDevice(line)] THEN line ELSE NoLine)
            BY <1>12, <4>2 DEF HostTakes
          <5>. QED
            BY <3>2, <5>1, <5>2 DEF LineDevice
        <4>. QED
          BY <4>1, <4>2
      <3>4. Aimed(Tail(toHost), ui, checked', cursor, b)
        BY <1>0, <2>1, <3>1, <3>3, AimedTake
      <3>. QED
        BY <2>1, <3>4
    <2>. QED
      BY <1>0, <2>3, AimedFrom
  <1>13. CASE HostInjects
    <2>1. /\ checked # NoLine /\ checked' = NoLine /\ UNCHANGED <<toHost, ui, attended>>
          /\ checked.kind = "move" => cursor' = Injected(checked.x, scene.desktop)
      BY <1>13 DEF HostInjects
    <2>2. ASSUME NEW b \in attended' \cap Buttons PROVE Kept(b)
      <3>1. Aimed(toHost, ui, checked, cursor, b)
        BY <2>1, <2>2 DEF AimInv
      <3>2. Aimed(toHost, ui, NoLine, cursor', b)
        BY <2>1, <3>1, AimedInject
      <3>. QED
        BY <2>1, <3>2
    <2>. QED
      BY <1>0, <2>2, AimedFrom
  <1>14. CASE HostLeaves
    <2>1. attended = {} /\ attended' = attended
      BY <1>14 DEF HostLeaves, OpenInv
    <2>. QED
      BY <1>2, <2>1
  <1>15. CASE ViewerLeaves \/ ViewerSees \/ HostStops
    BY <1>2, <1>15 DEF ViewerLeaves, ViewerSees, HostStops
  <1>16. CASE FocusLost \/ FocusGained
    BY <1>1, <1>16 DEF FocusLost, FocusGained
  <1>17. CASE AccessTold \/ ViewerApplies
    BY <1>1, <1>17 DEF AccessTold, ViewerApplies
  <1>18. ASSUME NEW d \in Device, HostClick(d) PROVE AimInv'
    BY <1>1, <1>18 DEF HostClick
  <1>19. CASE FrameArrives \/ Begin
    BY <1>1, <1>19 DEF FrameArrives, Begin
  <1>20. CASE UNCHANGED vars
    BY <1>1, <1>20 DEF vars
  <1>. QED
    BY <1>4, <1>5, <1>6, <1>8, <1>9, <1>10, <1>11, <1>12, <1>13, <1>14, <1>15, <1>16, <1>17,
       <1>18, <1>19, <1>20 DEF Next, User, Programs

(* ------------------------------ the theorems -------------------------- *)

\* However a picture is fitted, its width is a number.
LEMMA FitType ==
    ASSUME NEW bw \in Int, NEW bh \in Int, NEW iw \in Int, NEW ih \in Int,
           NEW w \in FitWidth(bw, bh, iw, ih)
    PROVE  w \in Int
  <1>1. CASE iw <= 0 \/ ih <= 0
    BY <1>1 DEF FitWidth
  <1>2. CASE ~(iw <= 0 \/ ih <= 0) /\ bw * ih < bh * iw
    <2>1. w \in Touching(bw)
      BY <1>2 DEF FitWidth
    <2>. QED
      BY <2>1 DEF Touching
  <1>3. CASE ~(iw <= 0 \/ ih <= 0) /\ ~(bw * ih < bh * iw)
    <2>. DEFINE drawn == (iw * bh) \div ih
    <2>1. w = drawn \/ w = drawn - 1
      BY <1>3 DEF FitWidth
    <2>2. iw * bh \in Int /\ ih \in Nat \ {0}
      BY <1>3
    <2>3. \A m \in Int : m \div ih \in Int
      BY <2>2
    <2>4. drawn \in Int
      BY <2>2, <2>3
    <2>. QED
      BY <2>1, <2>4
  <1>. QED
    BY <1>1, <1>2, <1>3

\* The invariant holds at first, and every action keeps it.
THEOREM RelayInductive == Spec => []RelayInv
  <1>1. Init => RelayInv
    <2>. SUFFICES ASSUME Init PROVE RelayInv
      OBVIOUS
    <2>. USE DEF Init
    <2>1. scene \in Scenes /\ rect \in Int
      <3>1. scene.bounds \in Int \X Int /\ scene.image \in Int \X Int
        BY ScenesAssumption
      <3>2. /\ scene.bounds[1] \in Int /\ scene.bounds[2] \in Int
            /\ scene.image[1] \in Int /\ scene.image[2] \in Int
        BY <3>1
      <3>. QED
        BY <3>2, FitType
    <2>2. at \in Int /\ 0 \in 0 .. scene.desktop - 1
      BY SceneFacts
    <2>3. Blocked \in Grant /\ Depth \in Nat /\ Changes \in Nat
      BY InputsAssumption DEF Blocked, Grant
    <2>4. RelayTypeInv
      BY <2>1, <2>2, <2>3 DEF RelayTypeInv
    <2>. QED
      BY <2>4 DEF RelayInv, OpenInv, ToldInv, Faithful, AimInv, LateInv
  <1>2. RelayInv /\ [Next]_vars => RelayInv'
    <2>. SUFFICES ASSUME RelayInv, [Next]_vars PROVE RelayInv'
      OBVIOUS
    <2>. USE DEF RelayInv
    <2>1. RelayTypeInv'
      BY TypeStep
    <2>. QED
      BY <2>1, OpenStep, ToldStep, FaithfulStep, AimStep, LateStep
  <1>. QED
    BY <1>1, <1>2, PTL DEF Spec

\* The window, the line and the host's handler only ever hold what the modelled code puts
\* there: lines of the scene's inputs, grants and pixels of the desktop
\* (viewer/main.cpp:702-789, server/main.cpp:293-419).
THEOREM InputTyped == Spec => []InputTypeOK
  <1>1. RelayInv => InputTypeOK
    <2>. SUFFICES ASSUME RelayTypeInv PROVE InputTypeOK
      BY DEF RelayInv
    <2>1. ASSUME NEW n \in DOMAIN toHost
          PROVE  LET line == toHost[n]
                 IN  \/ line.kind = "input" /\ line.id \in scene.inputs
                     \/ line.kind = "move" /\ line.x \in 0 .. scene.desktop - 1
                     \/ line.kind = "access" /\ line.grant \in Grant
      <3>1. toHost[n] \in LinesOf(scene) /\ scene \in Scenes
        BY <2>1 DEF RelayTypeInv
      <3>2. toHost[n] \in EventsOf(scene) => toHost[n].id \in scene.inputs
        BY DEF EventsOf
      <3>3. toHost[n] \in MovesOf(scene) => toHost[n].x \in 0 .. scene.desktop - 1
        BY DEF MovesOf
      <3>. QED
        BY <3>1, <3>2, <3>3, LineFacts
    <2>. QED
      BY <2>1 DEF RelayTypeInv, InputTypeOK
  <1>. QED
    BY <1>1, RelayInductive, PTL

\* No key or button sticks: once all that is in flight is injected, an attended input is
\* down on the host's desktop exactly when the viewer's user holds it down, whatever the
\* hotkeys, the focus, the capture and the grants have done in between
\* (viewer/main.cpp:1014-1099, server/main.cpp:370-419).
THEOREM InputsFaithful == Spec => []Faithful
  <1>1. RelayInv => Faithful
    BY DEF RelayInv
  <1>. QED
    BY <1>1, RelayInductive, PTL

\* A press of a button finds the cursor where the user pointed at, for every size of the
\* window, the picture and the desktop (viewer/main.cpp:724-728, 1042-1043,
\* server/main.cpp:309-313).
THEOREM ClicksLand == Spec => []ClickLands
  <1>1. RelayInv => ClickLands
    <2>. SUFFICES ASSUME RelayTypeInv, AimInv PROVE ClickLands
      BY DEF RelayInv
    <2>1. DOMAIN toHost = 1 .. Len(toHost)
      BY LenProperties DEF RelayTypeInv
    <2>. QED
      BY <2>1 DEF AimInv, Aimed, ClickLands
  <1>. QED
    BY <1>1, RelayInductive, PTL

\* Once the host's owner takes a grant away, at most one input of that device is still
\* injected: the one whose check had passed (server/main.cpp:371-381).
THEOREM OneIsLate == Spec => []OneLate
  <1>1. RelayInv => OneLate
    <2>1. ASSUME NEW n \in 0 .. 1 PROVE n <= 1
      OBVIOUS
    <2>. QED
      BY <2>1 DEF RelayInv, LateInv, OneLate
  <1>. QED
    BY <1>1, RelayInductive, PTL

=============================================================================
