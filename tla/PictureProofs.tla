---------------------------- MODULE PictureProofs ---------------------------
(***************************************************************************)
(* Proofs about the picture on its way: the units of a stream              *)
(* (VideoStream), for any resolutions, any depth of the encoder and any    *)
(* room of the connection, and the conversions of the colours at its two   *)
(* ends (Colours), for all pixels.                                         *)
(*                                                                         *)
(* StartsWithKey speaks of what is on the wire; StreamInv says of the      *)
(* units before it, in the encoder and out of it, which of them are        *)
(* keyframes and of which resolution.                                      *)
(***************************************************************************)
EXTENDS VideoStream, Colours, SequenceTheorems, TLAPS

(* ----------------------------- the stream ---------------------------- *)

AllKeys(s) == \A i \in 1 .. Len(s) : s[i].key
AllOfSize(s, z) == \A i \in 1 .. Len(s) : s[i].size = z

\* Until a unit of an encoder has been taken out of it with success, it is asked for
\* keyframes only, and what fails to come out of it is followed by others.
FirstInv ==
    /\ firstFrame => AllKeys(accepted)
    /\ head /\ loop \in {"acquire", "frame"} => firstFrame
    /\ head /\ loop = "send" => units[1].key

\* What an encoder holds, has given and has last sent is of its one resolution.
SizeInv ==
    /\ loop = "send" => units # <<>> /\ encSize # NoSize
    /\ loop # "send" => units = <<>>
    /\ encSize # NoSize => AllOfSize(accepted, encSize) /\ AllOfSize(units, encSize)
    /\ ~head /\ wire # <<>> /\ encSize # NoSize => wire[Len(wire)].size = encSize

StreamInv == StreamTypeOK /\ FirstInv /\ SizeInv /\ StartsWithKey

\* The two parts of a queue that is drained of its n first units.
LEMMA Parts ==
    ASSUME NEW q \in Seq(Unit), NEW n \in Nat, n <= Len(q)
    PROVE  /\ Len(q) \in Nat
           /\ SubSeq(q, 1, n) \in Seq(Unit) /\ Len(SubSeq(q, 1, n)) = n
           /\ \A i \in 1 .. n : SubSeq(q, 1, n)[i] = q[i]
           /\ SubSeq(q, n + 1, Len(q)) \in Seq(Unit)
           /\ Len(SubSeq(q, n + 1, Len(q))) = Len(q) - n
           /\ \A i \in 1 .. Len(q) - n : SubSeq(q, n + 1, Len(q))[i] = q[n + i]
  <1>1. Len(q) \in Nat /\ \A i \in 1 .. Len(q) : q[i] \in Unit
    BY ElementOfSeq
  <1>2. \A i \in 1 .. n : q[i] \in Unit
    BY <1>1
  <1>3. \A i \in n + 1 .. Len(q) : q[i] \in Unit
    BY <1>1
  <1>4. /\ SubSeq(q, 1, n) \in Seq(Unit) /\ Len(SubSeq(q, 1, n)) = IF 1 <= n THEN n - 1 + 1 ELSE 0
        /\ \A i \in 1 .. n - 1 + 1 : SubSeq(q, 1, n)[i] = q[1 + i - 1]
    BY <1>2, SubSeqProperties
  <1>5. /\ SubSeq(q, n + 1, Len(q)) \in Seq(Unit)
        /\ Len(SubSeq(q, n + 1, Len(q))) =
              IF n + 1 <= Len(q) THEN Len(q) - (n + 1) + 1 ELSE 0
        /\ \A i \in 1 .. Len(q) - (n + 1) + 1 :
              SubSeq(q, n + 1, Len(q))[i] = q[n + 1 + i - 1]
    BY <1>1, <1>3, SubSeqProperties
  <1>. QED
    BY <1>1, <1>4, <1>5

\* What a drain hands over is some of the units it has taken.
LEMMA ChosenUnits ==
    ASSUME NEW q \in Seq(Unit), NEW n \in Nat, n <= Len(q), NEW f \in Choices(n)
    PROVE  /\ Chosen(q, n, f) \in Seq(OutUnit) /\ (Chosen(q, n, f) = <<>> <=> f = <<>>)
           /\ Len(Chosen(q, n, f)) \in Nat
           /\ Chosen(q, n, f) # <<>> => 1 <= Len(Chosen(q, n, f))
           /\ \A i \in 1 .. Len(Chosen(q, n, f)) : \E j \in 1 .. Len(q) :
                 Chosen(q, n, f)[i].key = q[j].key /\ Chosen(q, n, f)[i].size = q[j].size
  <1>. DEFINE out == Chosen(q, n, f)
  <1>1. PICK m \in 0 .. n : f \in [1 .. m -> 1 .. n]
    BY DEF Choices
  <1>2. m \in Nat /\ DOMAIN f = 1 .. m
    BY <1>1
  <1>3. Len(q) \in Nat /\ \A i \in 1 .. m : f[i] \in 1 .. Len(q) /\ q[f[i]] \in Unit
    BY <1>1, ElementOfSeq
  <1>4. ASSUME NEW i \in 1 .. m
        PROVE  out[i] \in OutUnit /\ out[i].key = q[f[i]].key /\ out[i].size = q[f[i]].size
    <2>. DEFINE missing == f[i] < n /\ (i + 1 \in DOMAIN f => f[i + 1] # f[i] + 1)
    <2>1. missing \in BOOLEAN
      BY Zenon
    <2>2. out[i] = [key |-> q[f[i]].key, size |-> q[f[i]].size, gap |-> missing]
      BY <1>2 DEF Chosen
    <2>. HIDE DEF missing, out
    <2>. QED
      BY <1>3, <2>1, <2>2 DEF Unit, OutUnit
  <1>5. DOMAIN out = 1 .. m /\ out = [i \in 1 .. m |-> out[i]]
    BY <1>2 DEF Chosen
  <1>. HIDE DEF out
  <1>6. out \in [1 .. m -> OutUnit]
    BY <1>4, <1>5
  <1>7. out \in Seq(OutUnit) /\ Len(out) = m
    BY <1>2, <1>5, <1>6
  <1>8. f \in Seq(1 .. n) /\ Len(f) = m
    BY <1>1, <1>2
  <1>9. (out = <<>> <=> m = 0) /\ (f = <<>> <=> m = 0)
    BY <1>7, <1>8, EmptySeq
  <1>10. ASSUME NEW i \in 1 .. Len(out)
         PROVE  \E j \in 1 .. Len(q) : out[i].key = q[j].key /\ out[i].size = q[j].size
    <2>1. i \in 1 .. m
      BY <1>7
    <2>. QED
      BY <1>3, <1>4, <2>1
  <1>11. Len(out) \in Nat /\ (out # <<>> => 1 <= Len(out))
    BY <1>2, <1>7, <1>9
  <1>. QED
    BY <1>7, <1>9, <1>10, <1>11 DEF out

LEMMA AppendUnit ==
    ASSUME NEW T, NEW s \in Seq(T), NEW u \in T
    PROVE  /\ Append(s, u) \in Seq(T) /\ Len(s) \in Nat /\ Len(Append(s, u)) = Len(s) + 1
           /\ \A i \in 1 .. Len(s) : Append(s, u)[i] = s[i]
           /\ Append(s, u)[Len(s) + 1] = u
  BY AppendProperties

LEMMA TailUnits ==
    ASSUME NEW T, NEW s \in Seq(T), s # <<>>
    PROVE  /\ Tail(s) \in Seq(T) /\ Len(s) \in Nat \ {0} /\ Len(Tail(s)) = Len(s) - 1
           /\ \A i \in 1 .. Len(s) - 1 : Tail(s)[i] = s[i + 1]
           /\ Head(s) = s[1] /\ s[1] \in T
  OBVIOUS

\* Draining keeps FirstInv and SizeInv, whether it ends well or not.
LEMMA DrainKeeps ==
    ASSUME StreamInv, NEW q \in Seq(Unit), Len(q) <= Depth,
           loop = "frame", encSize \in Size, AllOfSize(q, encSize), firstFrame => AllKeys(q),
           NEW n \in Nat, n <= Len(q), NEW ok \in BOOLEAN, Drained(q, n, ok),
           UNCHANGED <<encSize, head, wire>>
    PROVE  /\ accepted' \in Seq(Unit) /\ Len(accepted') <= Depth /\ units' \in Seq(OutUnit)
           /\ loop' \in {"acquire", "send"}
           /\ firstFrame' \in BOOLEAN /\ keyDue' \in BOOLEAN /\ lost' \in BOOLEAN
           /\ FirstInv' /\ SizeInv'
  <1>. DEFINE out == SubSeq(q, 1, n)
              rest == SubSeq(q, n + 1, Len(q))
  <1>1. /\ out \in Seq(Unit) /\ Len(out) = n /\ \A i \in 1 .. n : out[i] = q[i]
        /\ rest \in Seq(Unit) /\ Len(rest) = Len(q) - n /\ Len(q) \in Nat
        /\ \A i \in 1 .. Len(q) - n : rest[i] = q[n + i]
    BY Parts
  <1>2. AllOfSize(out, encSize) /\ AllOfSize(rest, encSize)
    BY <1>1 DEF AllOfSize
  <1>3. ASSUME firstFrame PROVE AllKeys(out) /\ AllKeys(rest)
    <2>1. \A i \in 1 .. Len(q) : q[i].key
      BY <1>3 DEF AllKeys
    <2>2. \A i \in 1 .. n : i \in 1 .. Len(q)
      BY <1>1
    <2>3. \A i \in 1 .. Len(q) - n : n + i \in 1 .. Len(q)
      BY <1>1
    <2>. HIDE DEF out, rest
    <2>. QED
      BY <1>1, <2>1, <2>2, <2>3 DEF AllKeys
  <1>4. accepted' = rest /\ Len(rest) <= Depth
    BY <1>1, StreamAssumption DEF Drained
  <1>5. firstFrame \in BOOLEAN /\ keyDue \in BOOLEAN /\ lost \in BOOLEAN /\ units \in Seq(OutUnit)
    BY DEF StreamInv, StreamTypeOK
  <1>6. head => firstFrame
    BY DEF StreamInv, FirstInv
  <1>7. encSize # NoSize /\ units = <<>> /\ AllOfSize(units, encSize) /\ wire \in Seq(SentUnit)
        /\ (~head /\ wire # <<>> => wire[Len(wire)].size = encSize)
    BY StreamAssumption DEF StreamInv, SizeInv, StreamTypeOK
  <1>. HIDE DEF out, rest
  <1>8. CASE ok
    <2>1. PICK f \in Choices(n) :
              /\ Hands(q, n, f)
              /\ firstFrame' = (IF ForceKey /\ f # <<>> THEN FALSE ELSE firstFrame)
              /\ keyDue' = (IF ForceKey /\ f # <<>> THEN FALSE ELSE keyDue)
      BY <1>8 DEF Drained
    <2>2. /\ units' = Chosen(q, n, f) /\ loop' = (IF f # <<>> THEN "send" ELSE "acquire")
          /\ lost' \in BOOLEAN
      BY <1>5, <2>1 DEF Hands
    <2>3. /\ units' \in Seq(OutUnit) /\ (units' = <<>> <=> f = <<>>)
          /\ Len(units') \in Nat /\ (units' # <<>> => 1 <= Len(units'))
          /\ \A i \in 1 .. Len(units') : \E j \in 1 .. Len(q) :
                units'[i].key = q[j].key /\ units'[i].size = q[j].size
      BY <2>2, ChosenUnits
    <2>4. firstFrame' \in BOOLEAN /\ keyDue' \in BOOLEAN /\ (firstFrame' => firstFrame)
      BY <1>5, <2>1
    <2>5. AllOfSize(units', encSize)
      BY <2>3 DEF AllOfSize
    <2>6. firstFrame => AllKeys(units')
      BY <2>3 DEF AllKeys
    <2>7. FirstInv'
      <3>1. firstFrame' => AllKeys(accepted')
        BY <1>3, <1>4, <2>4
      <3>2. head' /\ loop' \in {"acquire", "frame"} => firstFrame'
        BY <1>6, <2>1, <2>2
      <3>3. head' /\ loop' = "send" => units'[1].key
        BY <1>6, <2>2, <2>3, <2>6 DEF AllKeys
      <3>. QED
        BY <3>1, <3>2, <3>3 DEF FirstInv
    <2>8. SizeInv'
      BY <1>2, <1>4, <1>7, <2>2, <2>3, <2>5 DEF SizeInv
    <2>. QED
      BY <1>1, <1>4, <2>2, <2>3, <2>4, <2>7, <2>8
  <1>9. CASE ~ok
    <2>1. /\ units' = units /\ loop' = "acquire" /\ lost' = (lost \/ n > 0)
          /\ firstFrame' = firstFrame /\ keyDue' = keyDue
      BY <1>9 DEF Drained
    <2>2. FirstInv'
      BY <1>3, <1>4, <1>6, <2>1 DEF FirstInv
    <2>3. SizeInv'
      BY <1>2, <1>4, <1>7, <2>1 DEF SizeInv
    <2>. QED
      BY <1>1, <1>4, <1>5, <2>1, <2>2, <2>3
  <1>. QED
    BY <1>8, <1>9

\* Both ways into a drain: with the frame accepted, and without.
LEMMA EncodeKeeps ==
    ASSUME StreamInv, NEW n \in Drains, NEW ok \in BOOLEAN,
           Encode(n, ok) \/ EncodeNotAccepting(n, ok)
    PROVE  StreamInv'
  <1>1. n \in Nat /\ accepted \in Seq(Unit) /\ Len(accepted) \in Nat /\ Len(accepted) <= Depth
        /\ Depth \in Nat /\ frame \in Size
    BY StreamAssumption DEF Drains, StreamInv, StreamTypeOK
  <1>2. loop = "frame" /\ frame = encSize /\ UNCHANGED <<screen, frame, encSize, head, wire, viewer>>
    BY DEF Encode, EncodeNotAccepting
  <1>3. encSize # NoSize /\ AllOfSize(accepted, encSize)
    BY <1>1, <1>2, StreamAssumption DEF StreamInv, SizeInv
  <1>4. firstFrame => AllKeys(accepted)
    BY DEF StreamInv, FirstInv
  <1>5. \E q \in Seq(Unit) :
            /\ Len(q) <= Depth /\ AllOfSize(q, encSize) /\ (firstFrame => AllKeys(q))
            /\ n <= Len(q) /\ Drained(q, n, ok)
    <2>1. CASE Encode(n, ok)
      <3>1. PICK gop \in BOOLEAN :
               LET unit == [key |-> gop \/ asked \/ ForceKey \/ ~begun, size |-> frame]
                   q == Append(accepted, unit)
               IN  n <= Len(q) /\ Drained(q, n, ok)
        BY <2>1 DEF Encode
      <3>. DEFINE unit == [key |-> gop \/ asked \/ ForceKey \/ ~begun, size |-> frame]
                  q == Append(accepted, unit)
      <3>2. unit \in Unit /\ unit.size = encSize /\ (firstFrame => unit.key)
        <4>1. (gop \/ asked \/ ForceKey \/ ~begun) \in BOOLEAN
          BY Zenon
        <4>. HIDE DEF ForceKey
        <4>2. unit \in Unit /\ unit.size = encSize /\ unit.key = (gop \/ asked \/ ForceKey \/ ~begun)
          BY <1>1, <1>2, <4>1 DEF Unit
        <4>3. firstFrame => ForceKey
          BY DEF ForceKey
        <4>. QED
          BY <4>2, <4>3
      <3>. HIDE DEF unit
      <3>3. /\ q \in Seq(Unit) /\ Len(q) = Len(accepted) + 1
            /\ \A i \in 1 .. Len(accepted) : q[i] = accepted[i]
            /\ q[Len(accepted) + 1] = unit
        BY <1>1, <3>2, AppendUnit
      <3>4. Len(q) <= Depth
        BY <1>1, <2>1, <3>3 DEF Encode
      <3>5. \A i \in 1 .. Len(q) : i \in 1 .. Len(accepted) \/ i = Len(accepted) + 1
        BY <1>1, <3>3
      <3>6. AllOfSize(q, encSize)
        BY <1>3, <3>2, <3>3, <3>5 DEF AllOfSize
      <3>7. firstFrame => AllKeys(q)
        BY <1>4, <3>2, <3>3, <3>5 DEF AllKeys
      <3>8. n <= Len(q) /\ Drained(q, n, ok)
        BY <3>1 DEF unit
      <3>. QED
        BY <3>3, <3>4, <3>6, <3>7, <3>8
    <2>2. CASE EncodeNotAccepting(n, ok)
      BY <1>1, <1>3, <1>4, <2>2 DEF EncodeNotAccepting
    <2>. QED
      BY <2>1, <2>2
  <1>6. /\ accepted' \in Seq(Unit) /\ Len(accepted') <= Depth /\ units' \in Seq(OutUnit)
        /\ loop' \in {"acquire", "send"}
        /\ firstFrame' \in BOOLEAN /\ keyDue' \in BOOLEAN /\ lost' \in BOOLEAN
        /\ FirstInv' /\ SizeInv'
    BY <1>1, <1>2, <1>5, DrainKeeps
  <1>7. begun' \in BOOLEAN /\ asked' \in BOOLEAN
    BY DEF Encode, EncodeNotAccepting, StreamInv, StreamTypeOK
  <1>8. StreamTypeOK'
    BY <1>2, <1>6, <1>7 DEF StreamInv, StreamTypeOK, viewer
  <1>9. StartsWithKey'
    BY <1>2 DEF StreamInv, StartsWithKey
  <1>. QED
    BY <1>6, <1>8, <1>9 DEF StreamInv

\* The next unit may follow the last one on the wire.
LEMMA SendKeeps ==
    ASSUME StreamInv, Send
    PROVE  StreamInv'
  <1>. DEFINE sent == [key |-> Head(units).key, size |-> Head(units).size,
                       head |-> head, orphan |-> lost]
              k == Len(wire)
  <1>1. /\ units \in Seq(OutUnit) /\ units # <<>> /\ wire \in Seq(SentUnit)
        /\ head \in BOOLEAN /\ lost \in BOOLEAN /\ encSize # NoSize
        /\ loop = "send" /\ Len(wire) < Room /\ Room \in Nat
    BY StreamAssumption DEF Send, StreamInv, StreamTypeOK, SizeInv
  <1>2. /\ Tail(units) \in Seq(OutUnit) /\ Len(units) \in Nat \ {0} /\ Len(Tail(units)) = Len(units) - 1
        /\ \A i \in 1 .. Len(units) - 1 : Tail(units)[i] = units[i + 1]
        /\ Head(units) = units[1] /\ units[1] \in OutUnit
    BY <1>1, TailUnits
  <1>3. AllOfSize(units, encSize) /\ AllOfSize(accepted, encSize)
    BY <1>1 DEF StreamInv, SizeInv
  <1>4. sent \in SentUnit /\ sent.size = encSize /\ sent.head = head /\ (head => sent.key)
    BY <1>1, <1>2, <1>3 DEF OutUnit, SentUnit, AllOfSize, StreamInv, FirstInv
  <1>5. /\ wire' = Append(wire, sent) /\ units' = Tail(units)
        /\ loop' = (IF units' = <<>> THEN "acquire" ELSE "send")
        /\ head' = FALSE /\ lost' = Head(units).gap
        /\ UNCHANGED <<screen, keyDue, frame, encSize, firstFrame, accepted, begun, asked, viewer>>
    BY DEF Send
  <1>. HIDE DEF sent
  <1>6. /\ wire' \in Seq(SentUnit) /\ k \in Nat /\ Len(wire') = k + 1
        /\ \A i \in 1 .. k : wire'[i] = wire[i]
        /\ wire'[k + 1] = sent
    BY <1>1, <1>4, <1>5, AppendUnit
  <1>7. StreamTypeOK'
    <2>1. Len(wire') <= Room
      BY <1>1, <1>6
    <2>2. lost' \in BOOLEAN
      BY <1>2, <1>5 DEF OutUnit
    <2>. HIDE DEF k
    <2>. QED
      BY <1>1, <1>2, <1>5, <1>6, <2>1, <2>2 DEF StreamInv, StreamTypeOK, viewer
  <1>8. FirstInv'
    BY <1>5 DEF StreamInv, FirstInv
  <1>9. AllOfSize(units', encSize)
    BY <1>2, <1>3, <1>5 DEF AllOfSize
  <1>10. SizeInv'
    BY <1>1, <1>3, <1>4, <1>5, <1>6, <1>9 DEF SizeInv
  <1>11. \A i \in 1 .. k + 1 : i \in 1 .. k \/ i = k + 1
    BY <1>6
  <1>12. \A i \in 1 .. k + 1 : wire'[i].head => wire'[i].key
    BY <1>4, <1>6, <1>11 DEF StreamInv, StartsWithKey
  <1>13. ASSUME NEW i \in 1 .. k, wire'[i].size # wire'[i + 1].size PROVE wire'[i + 1].head
    <2>1. CASE i = k
      <3>1. wire # <<>> /\ wire'[i].size = wire[k].size
        BY <1>6, <2>1
      <3>2. head
        BY <1>1, <1>4, <1>6, <1>13, <2>1, <3>1 DEF StreamInv, SizeInv
      <3>. QED
        BY <1>4, <1>6, <2>1, <3>2
    <2>2. CASE i # k
      <3>1. i \in 1 .. k - 1 /\ i + 1 \in 1 .. k
        BY <1>6, <2>2
      <3>. QED
        BY <1>6, <1>13, <3>1 DEF StreamInv, StartsWithKey
    <2>. QED
      BY <2>1, <2>2
  <1>14. Len(wire') - 1 = k
    BY <1>6
  <1>15. StartsWithKey'
    BY <1>6, <1>12, <1>13, <1>14 DEF StartsWithKey
  <1>. QED
    BY <1>7, <1>8, <1>10, <1>15 DEF StreamInv

\* The viewer takes a unit off the wire.
LEMMA DecodeKeeps ==
    ASSUME StreamInv, Decode \/ DecodeFails
    PROVE  StreamInv'
  <1>1. /\ wire \in Seq(SentUnit) /\ wire # <<>> /\ wire' = Tail(wire)
        /\ UNCHANGED <<screen, keyDue, host>>
    BY DEF Decode, DecodeFails, StreamInv, StreamTypeOK
  <1>2. /\ wire' \in Seq(SentUnit) /\ Len(wire) \in Nat \ {0} /\ Len(wire') = Len(wire) - 1
        /\ \A i \in 1 .. Len(wire) - 1 : wire'[i] = wire[i + 1]
        /\ wire[1] = Head(wire) /\ wire[1] \in SentUnit
    BY <1>1, TailUnits
  <1>3. intact \in BOOLEAN /\ Head(wire).key \in BOOLEAN /\ Head(wire).orphan \in BOOLEAN
    BY <1>2 DEF SentUnit, StreamInv, StreamTypeOK
  <1>4. intact' \in BOOLEAN /\ picture' \in {"none", "right", "wrong"}
    <2>1. CASE Decode
      <3>1. intact' \in BOOLEAN
        BY <1>3, <2>1 DEF Decode
      <3>. QED
        BY <2>1, <3>1 DEF Decode, StreamInv, StreamTypeOK
    <2>2. CASE DecodeFails
      BY <2>2 DEF DecodeFails, StreamInv, StreamTypeOK
    <2>. QED
      BY <2>1, <2>2
  <1>5. Len(wire') <= Room
    BY <1>2, StreamAssumption DEF StreamInv, StreamTypeOK
  <1>6. StreamTypeOK'
    BY <1>1, <1>2, <1>4, <1>5 DEF StreamInv, StreamTypeOK, host
  <1>7. FirstInv'
    BY <1>1 DEF StreamInv, FirstInv, host
  <1>8. wire' # <<>> => wire'[Len(wire')] = wire[Len(wire)]
    <2>1. ASSUME wire' # <<>> PROVE Len(wire') \in 1 .. Len(wire) - 1 /\ Len(wire') + 1 = Len(wire)
      BY <1>2, <2>1
    <2>. QED
      BY <1>2, <2>1
  <1>9. SizeInv'
    BY <1>1, <1>8 DEF StreamInv, SizeInv, host
  <1>10. \A i \in 1 .. Len(wire') : wire'[i].head => wire'[i].key
    BY <1>2 DEF StreamInv, StartsWithKey
  <1>11. ASSUME NEW i \in 1 .. Len(wire') - 1, wire'[i].size # wire'[i + 1].size
         PROVE  wire'[i + 1].head
    <2>1. /\ i \in 1 .. Len(wire) - 1 /\ i + 1 \in 1 .. Len(wire) - 1
          /\ wire'[i] = wire[i + 1] /\ wire'[i + 1] = wire[(i + 1) + 1]
      BY <1>2
    <2>. QED
      BY <1>11, <2>1 DEF StreamInv, StartsWithKey
  <1>12. StartsWithKey'
    BY <1>10, <1>11 DEF StartsWithKey
  <1>. QED
    BY <1>6, <1>7, <1>9, <1>12 DEF StreamInv

\* A new encoder is empty, and so is everything that was to be said of it.
LEMMA RebuildKeeps ==
    ASSUME StreamInv, Rebuild
    PROVE  StreamInv'
  <1>1. <<>> \in Seq(Unit) /\ Len(<<>>) = 0 /\ Depth \in Nat
    BY StreamAssumption
  <1>2. StreamTypeOK'
    <2>1. screen' \in Size /\ loop' \in {"acquire", "frame", "send", "over"} /\ frame' \in Size
          /\ keyDue' \in BOOLEAN /\ units' \in Seq(OutUnit) /\ wire' \in Seq(SentUnit)
          /\ Len(wire') <= Room /\ intact' \in BOOLEAN /\ picture' \in {"none", "right", "wrong"}
      BY DEF StreamInv, StreamTypeOK, Rebuild, viewer
    <2>2. accepted' \in Seq(Unit) /\ Len(accepted') <= Depth
      BY <1>1 DEF Rebuild
    <2>3. /\ encSize' \in Size \cup {NoSize} /\ firstFrame' \in BOOLEAN /\ begun' \in BOOLEAN
          /\ asked' \in BOOLEAN /\ head' \in BOOLEAN /\ lost' \in BOOLEAN
      BY DEF StreamInv, StreamTypeOK, Rebuild
    <2>. QED
      BY <2>1, <2>2, <2>3 DEF StreamTypeOK
  <1>3. AllKeys(<<>>) /\ \A z : AllOfSize(<<>>, z)
    BY <1>1 DEF AllKeys, AllOfSize
  <1>4. FirstInv'
    BY <1>3 DEF StreamInv, FirstInv, Rebuild
  <1>5. SizeInv'
    BY <1>3, StreamAssumption DEF StreamInv, SizeInv, Rebuild
  <1>. QED
    BY <1>2, <1>4, <1>5 DEF StreamInv, StartsWithKey, Rebuild

THEOREM StreamInductive == Spec => []StreamInv
  <1>1. Init => StreamInv
    <2>1. <<>> \in Seq(Unit) /\ <<>> \in Seq(SentUnit) /\ Len(<<>>) = 0
          /\ Depth \in Nat /\ Room \in Nat
      BY StreamAssumption
    <2>2. ASSUME Init PROVE StreamTypeOK
      <3>1. accepted \in Seq(Unit) /\ units \in Seq(OutUnit) /\ wire \in Seq(SentUnit)
        BY <2>1, <2>2 DEF Init
      <3>2. Len(accepted) <= Depth /\ Len(wire) <= Room
        BY <2>1, <2>2 DEF Init
      <3>3. frame \in Size /\ encSize \in Size \cup {NoSize}
        BY <2>2 DEF Init
      <3>. QED
        BY <2>2, <3>1, <3>2, <3>3 DEF Init, StreamTypeOK
    <2>3. Init => FirstInv /\ SizeInv
      BY <2>1 DEF Init, FirstInv, SizeInv, AllKeys
    <2>4. Init => StartsWithKey
      BY <2>1 DEF Init, StartsWithKey
    <2>. QED
      BY <2>2, <2>3, <2>4 DEF StreamInv
  <1>2. StreamInv /\ [Next]_vars => StreamInv'
    <2>1. SUFFICES ASSUME StreamInv, [Next]_vars PROVE StreamInv'
      OBVIOUS
    <2>. USE DEF StreamInv, StreamTypeOK, FirstInv, SizeInv, StartsWithKey
    <2>2. CASE ScreenResizes
      BY <2>1, <2>2 DEF ScreenResizes, host, viewer
    <2>3. CASE ThreeSecondsPass
      BY <2>1, <2>3 DEF ThreeSecondsPass, host, viewer
    <2>4. CASE Captured
      BY <2>1, <2>4 DEF Captured, viewer
    <2>5. CASE CaptureLost
      BY <2>1, <2>5 DEF CaptureLost, viewer
    <2>6. CASE Ends
      <3>1. <<>> \in Seq(Unit) /\ Len(<<>>) = 0 /\ Depth \in Nat
        BY StreamAssumption
      <3>2. AllKeys(<<>>) /\ \A z : AllOfSize(<<>>, z)
        BY <3>1 DEF AllKeys, AllOfSize
      <3>. QED
        BY <2>1, <2>6, <3>1, <3>2 DEF Ends, viewer
    <2>7. CASE EncodeFails
      BY <2>1, <2>7 DEF EncodeFails, ForceKey, viewer
    <2>8. CASE UNCHANGED vars
      BY <2>1, <2>8 DEF vars, host, viewer
    <2>. QED
      BY <2>1, <2>2, <2>3, <2>4, <2>5, <2>6, <2>7, <2>8, EncodeKeeps, SendKeeps, DecodeKeeps,
         RebuildKeeps DEF Next, HostStep
  <1>. QED
    BY <1>1, <1>2, PTL DEF Spec

\* Every variable of the stream keeps its type, and neither the encoder nor the connection
\* holds more than it can (server/main.cpp:700-760).
THEOREM StreamTyped == Spec => []StreamTypeOK
  <1>1. StreamInv => StreamTypeOK
    BY DEF StreamInv
  <1>. QED
    BY <1>1, StreamInductive, PTL

\* Whatever fails between the capture and the wire, each encoder's first unit to be sent
\* is a keyframe, and the resolution changes only there (server/main.cpp:717-746).
THEOREM StreamStartsWithKey == Spec => []StartsWithKey
  <1>1. StreamInv => StartsWithKey
    BY DEF StreamInv
  <1>. QED
    BY <1>1, StreamInductive, PTL

(* ---------------------------- the colours ---------------------------- *)

LEMMA Shift ==
    ASSUME NEW x \in Int
    PROVE  x \div 256 \in Int /\ 256 * (x \div 256) <= x /\ x < 256 * (x \div 256) + 256
  OBVIOUS

LEMMA PixelType ==
    ASSUME NEW p \in Pixel
    PROVE  /\ p.r \in Int /\ 0 <= p.r /\ p.r <= 255
           /\ p.g \in Int /\ 0 <= p.g /\ p.g <= 255
           /\ p.b \in Int /\ 0 <= p.b /\ p.b <= 255
<1>1. p.r \in Byte /\ p.g \in Byte /\ p.b \in Byte
  BY DEF Pixel
<1>2. \A x \in Byte : x \in Int /\ 0 <= x /\ x <= 255
  BY DEF Byte
<1>3. QED
  BY <1>1, <1>2

\* The host's planes keep to the studio range, so that its clamps never cut anything off
\* (encoder.cpp:244-276).
LEMMA StudioRange ==
    ASSUME NEW p \in Pixel
    PROVE  /\ Y(p) = ((66 * p.r + 129 * p.g + 25 * p.b + 128) \div 256) + 16
           /\ U(p) = ((-38 * p.r - 74 * p.g + 112 * p.b + 128) \div 256) + 128
           /\ V(p) = ((112 * p.r - 94 * p.g - 18 * p.b + 128) \div 256) + 128
           /\ Y(p) \in 16 .. 235 /\ U(p) \in 16 .. 240 /\ V(p) \in 16 .. 240
<1> DEFINE y == 66 * p.r + 129 * p.g + 25 * p.b + 128
           u == -38 * p.r - 74 * p.g + 112 * p.b + 128
           v == 112 * p.r - 94 * p.g - 18 * p.b + 128
<1>1. /\ y \in Int /\ 0 <= y /\ y < 220 * 256
      /\ u \in Int /\ -112 * 256 <= u /\ u < 113 * 256
      /\ v \in Int /\ -112 * 256 <= v /\ v < 113 * 256
  BY PixelType
<1>2. Y(p) = ClampByte((y \div 256) + 16) /\ U(p) = ClampByte((u \div 256) + 128)
        /\ V(p) = ClampByte((v \div 256) + 128)
  BY DEF Y, U, V
<1> HIDE DEF y, u, v
<1>3. ClampByte((y \div 256) + 16) = (y \div 256) + 16 /\ (y \div 256) + 16 \in 16 .. 235
  BY <1>1, Shift DEF ClampByte
<1>4. ClampByte((u \div 256) + 128) = (u \div 256) + 128 /\ (u \div 256) + 128 \in 16 .. 240
  BY <1>1, Shift DEF ClampByte
<1>5. ClampByte((v \div 256) + 128) = (v \div 256) + 128 /\ (v \div 256) + 128 \in 16 .. 240
  BY <1>1, Shift DEF ClampByte
<1>6. Y(p) = (y \div 256) + 16 /\ U(p) = (u \div 256) + 128 /\ V(p) = (v \div 256) + 128
  BY <1>2, <1>3, <1>4, <1>5
<1>7. Y(p) \in 16 .. 235 /\ U(p) \in 16 .. 240 /\ V(p) \in 16 .. 240
  BY <1>3, <1>4, <1>5, <1>6
<1>. QED
  BY <1>6, <1>7 DEF y, u, v

\* A block of one colour has that colour for its mean.
LEMMA MeanOfOne ==
    ASSUME NEW p \in Pixel
    PROVE  Mean([i \in 1 .. 4 |-> p]) = p
<1>1. p = [b |-> p.b, g |-> p.g, r |-> p.r]
  BY DEF Pixel
<1>2. ASSUME NEW x \in Int PROVE Average(x, x, x, x) = x
  BY DEF Average
<1>3. Average(p.r, p.r, p.r, p.r) = p.r /\ Average(p.g, p.g, p.g, p.g) = p.g
        /\ Average(p.b, p.b, p.b, p.b) = p.b
  BY <1>2, PixelType
<1>4. QED
  BY <1>1, <1>3 DEF Mean

\* "Must stay paired with the decoder's inverse" (encoder.cpp:244): an area of one colour
\* is shown in that colour, up to three levels of 255.
THEOREM ColoursPaired ==
    ASSUME NEW p \in Pixel, NEW i \in 1 .. 4
    PROVE  LET q == Mirrored([j \in 1 .. 4 |-> p], i)
           IN  Near(p.r, q.r, 3) /\ Near(p.g, q.g, 3) /\ Near(p.b, q.b, 3)
<1> DEFINE y == 66 * p.r + 129 * p.g + 25 * p.b + 128
           u == -38 * p.r - 74 * p.g + 112 * p.b + 128
           v == 112 * p.r - 94 * p.g - 18 * p.b + 128
           c == y \div 256
           d == u \div 256
           e == v \div 256
<1>1. y \in Int /\ u \in Int /\ v \in Int
  BY PixelType
<1>2. /\ c \in Int /\ 256 * c <= y /\ y < 256 * c + 256
      /\ d \in Int /\ 256 * d <= u /\ u < 256 * d + 256
      /\ e \in Int /\ 256 * e <= v /\ v < 256 * e + 256
  BY <1>1, Shift
<1>3. Mirrored([j \in 1 .. 4 |-> p], i) = Shown(Y(p), U(p), V(p))
  BY MeanOfOne DEF Mirrored
<1>4. Y(p) = c + 16 /\ U(p) = d + 128 /\ V(p) = e + 128
  BY StudioRange
<1>5. /\ 256 * c <= 66 * p.r + 129 * p.g + 25 * p.b + 128
      /\ 66 * p.r + 129 * p.g + 25 * p.b + 128 < 256 * c + 256
      /\ 256 * d <= -38 * p.r - 74 * p.g + 112 * p.b + 128
      /\ -38 * p.r - 74 * p.g + 112 * p.b + 128 < 256 * d + 256
      /\ 256 * e <= 112 * p.r - 94 * p.g - 18 * p.b + 128
      /\ 112 * p.r - 94 * p.g - 18 * p.b + 128 < 256 * e + 256
  BY <1>2
<1>6. c \in Int /\ d \in Int /\ e \in Int
  BY <1>2
<1> HIDE DEF c, d, e, y, u, v
<1>7. Y(p) - 16 = c /\ U(p) - 128 = d /\ V(p) - 128 = e
  BY <1>4, <1>6
<1>8. ASSUME NEW x \in Int, NEW z \in Int, 0 <= x, x <= 255,
             256 * x - 768 <= z, z < 256 * x + 1024
      PROVE  Near(x, ClampByte(z \div 256), 3)
  BY <1>8, Shift DEF Near, ClampByte
<1>9. Near(p.b, ClampByte((298 * c + 516 * d + 128) \div 256), 3)
  <2>1. 256 * p.b - 768 <= 298 * c + 516 * d + 128 /\ 298 * c + 516 * d + 128 < 256 * p.b + 1024
    BY <1>5, <1>6, PixelType
  <2>2. QED
    BY <2>1, <1>6, <1>8, PixelType
<1>10. Near(p.g, ClampByte((298 * c - 100 * d - 208 * e + 128) \div 256), 3)
  <2>1. 256 * p.g - 768 <= 298 * c - 100 * d - 208 * e + 128
          /\ 298 * c - 100 * d - 208 * e + 128 < 256 * p.g + 1024
    BY <1>5, <1>6, PixelType
  <2>2. QED
    BY <2>1, <1>6, <1>8, PixelType
<1>11. Near(p.r, ClampByte((298 * c + 409 * e + 128) \div 256), 3)
  <2>1. 256 * p.r - 768 <= 298 * c + 409 * e + 128 /\ 298 * c + 409 * e + 128 < 256 * p.r + 1024
    BY <1>5, <1>6, PixelType
  <2>2. QED
    BY <2>1, <1>6, <1>8, PixelType
<1>12. QED
  BY <1>3, <1>7, <1>9, <1>10, <1>11 DEF Shown

\* Grey is shown as grey, within one level, though the colours of four pixels are averaged.
THEOREM GreyStaysGrey ==
    ASSUME NEW k \in Block, \A j \in 1 .. 4 : k[j].r = k[j].g /\ k[j].b = k[j].g,
           NEW i \in 1 .. 4
    PROVE  LET q == Mirrored(k, i)
           IN  q.r = q.g /\ q.b = q.g /\ Near(k[i].g, q.g, 1)
<1>1. k[i] \in Pixel /\ k[i].r = k[i].g /\ k[i].b = k[i].g
  BY DEF Block
<1>2. ASSUME NEW m \in Int
      PROVE  (-38 * m - 74 * m + 112 * m + 128) \div 256 = 0
             /\ (112 * m - 94 * m - 18 * m + 128) \div 256 = 0
  <2>1. -38 * m - 74 * m + 112 * m + 128 = 128 /\ 112 * m - 94 * m - 18 * m + 128 = 128
    OBVIOUS
  <2>2. 128 \div 256 = 0
    OBVIOUS
  <2>3. QED
    BY <2>1, <2>2
<1>3. U(Mean(k)) = 128 /\ V(Mean(k)) = 128
  <2>1. Mean(k).r = Mean(k).g /\ Mean(k).b = Mean(k).g
    BY DEF Mean
  <2>2. Mean(k).g \in Int
    <3>1. k[1].g \in Int /\ k[2].g \in Int /\ k[3].g \in Int /\ k[4].g \in Int
      BY PixelType DEF Block
    <3>2. QED
      BY <3>1 DEF Mean, Average
  <2>3. QED
    BY <2>1, <2>2, <1>2 DEF U, V, ClampByte
<1> DEFINE g == k[i].g
           y == 220 * g + 128
           c == y \div 256
<1>4. g \in Int /\ 0 <= g /\ g <= 255
  BY <1>1, PixelType
<1>5. Y(k[i]) = c + 16
  <2>1. 66 * g + 129 * g + 25 * g + 128 = y
    BY <1>4
  <2>2. Y(k[i]) = ((66 * g + 129 * g + 25 * g + 128) \div 256) + 16
    BY <1>1, StudioRange
  <2>3. QED
    BY <2>1, <2>2
<1>6. c \in Int /\ 256 * c <= 220 * g + 128 /\ 220 * g + 128 < 256 * c + 256
  <2>1. y \in Int
    BY <1>4
  <2>2. QED
    BY <2>1, Shift
<1> HIDE DEF c, y, g
<1>7. Y(k[i]) - 16 = c /\ U(Mean(k)) - 128 = 0 /\ V(Mean(k)) - 128 = 0
  BY <1>3, <1>5, <1>6
<1> DEFINE z == 298 * c + 128
<1>8. /\ 298 * c + 516 * 0 + 128 = z /\ 298 * c + 409 * 0 + 128 = z
      /\ 298 * c - 100 * 0 - 208 * 0 + 128 = z
  BY <1>6
<1>9. Near(g, ClampByte(z \div 256), 1)
  <2>1. z \in Int /\ 256 * g - 256 <= z /\ z < 256 * g + 512
    BY <1>4, <1>6
  <2> HIDE DEF z
  <2>2. QED
    BY <2>1, <1>4, Shift DEF Near, ClampByte
<1> HIDE DEF z
<1>10. Mirrored(k, i) = [b |-> ClampByte(z \div 256), g |-> ClampByte(z \div 256),
                         r |-> ClampByte(z \div 256)]
  BY <1>7, <1>8 DEF Mirrored, Shown
<1>11. QED
  BY <1>9, <1>10 DEF g

=============================================================================
