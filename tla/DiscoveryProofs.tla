-------------------------- MODULE DiscoveryProofs --------------------------
(***************************************************************************)
(* Proofs about Discovery, for every set of hosts and every number of      *)
(* broadcasts, of replies read after each and of searches, and about the   *)
(* address that a host announces (Addresses), for every list of addresses. *)
(*                                                                         *)
(* A search's properties hold because of the order of the messages: the    *)
(* thread's last one is WM_DISCOVERY_DONE, so that the window's queue is   *)
(* empty when the next search may begin.  QueueInv says so at every point. *)
(***************************************************************************)
EXTENDS Discovery, Addresses, SequenceTheorems, TLAPS

Working == {"open", "send", "recv", "close"}

Entries(s) == {s[i] : i \in 1 .. Len(s)}

Unique(s) == \A i, j \in 1 .. Len(s) : s[i] = s[j] => i = j

\* WM_DISCOVERY_DONE is not among these messages; it is the last of them.
NoDone(s) == \A i \in 1 .. Len(s) : s[i].kind # "done"
DoneLast(s) == s # <<>> /\ \A i \in 1 .. Len(s) : s[i].kind = "done" <=> i = Len(s)

\* The datagrams on their way are those of the broadcasts so far.
NetInv ==
    /\ \A h \in Host : requests[h] + replies[h] <= round
    /\ vdisc \in {"none", "open", "ended"} =>
          \A h \in Host : requests[h] = 0 /\ replies[h] = 0
    /\ vdisc = "recv" => count < Receives

\* The thread, the flags and the button; when the window is gone, so is the thread.
FlagInv ==
    /\ ThreadJoined
    /\ gone => vdisc = "none"

\* The window's queue: all of it is this search's, and the thread's last word ends it.
QueueInv ==
    /\ \A m \in Entries(messages) :
          m.of = search /\ (m.kind = "add" => m.host \in answered)
    /\ ~gone =>
          /\ vdisc = "none" => messages = <<>>
          /\ vdisc \in Working => NoDone(messages)
          /\ vdisc = "ended" => DoneLast(messages)

\* The window's list: what has answered, and all that has and is not in the queue.
ListInv ==
    /\ Unique(list)
    /\ Entries(list) \subseteq answered
    /\ ~gone =>
          \A h \in answered :
             h \in Entries(list)
                \/ \E m \in Entries(messages) : m.kind = "add" /\ m.host = h

DiscoveryInv ==
    DiscoveryTypeOK /\ NetInv /\ FlagInv /\ QueueInv /\ ListInv

------------------------------------------------------------------------------
(* Sequences.                                                               *)

LEMMA AppendFacts ==
    ASSUME NEW S, NEW s \in Seq(S), NEW m \in S
    PROVE  /\ Append(s, m) \in Seq(S) /\ Len(s) \in Nat /\ Len(Append(s, m)) = Len(s) + 1
           /\ \A i \in 1 .. Len(s) : Append(s, m)[i] = s[i]
           /\ Append(s, m)[Len(s) + 1] = m
  OBVIOUS

LEMMA TailFacts ==
    ASSUME NEW S, NEW s \in Seq(S), s # <<>>
    PROVE  /\ Tail(s) \in Seq(S) /\ Len(s) \in Nat \ {0} /\ Len(Tail(s)) = Len(s) - 1
           /\ \A i \in 1 .. Len(s) - 1 : Tail(s)[i] = s[i + 1]
           /\ Head(s) = s[1] /\ s[1] \in S
  OBVIOUS

LEMMA EntriesAppend ==
    ASSUME NEW S, NEW s \in Seq(S), NEW m \in S
    PROVE  Entries(Append(s, m)) = Entries(s) \cup {m}
  <1>1. 1 .. Len(s) + 1 = 1 .. Len(s) \cup {Len(s) + 1}
    BY AppendFacts
  <1>. QED
    BY <1>1, AppendFacts DEF Entries

LEMMA EntriesTail ==
    ASSUME NEW S, NEW s \in Seq(S), s # <<>>
    PROVE  Entries(s) = {Head(s)} \cup Entries(Tail(s))
  <1>. DEFINE n == Len(s)
  <1>1. n \in Nat \ {0} /\ Len(Tail(s)) = n - 1 /\ Head(s) = s[1]
    BY TailFacts
  <1>2. ASSUME NEW i \in 1 .. n PROVE s[i] \in {Head(s)} \cup Entries(Tail(s))
    <2>1. CASE i = 1
      BY <1>1, <2>1
    <2>2. CASE i # 1
      <3>1. i - 1 \in 1 .. n - 1 /\ (i - 1) + 1 = i
        BY <1>1, <2>2
      <3>2. Tail(s)[i - 1] = s[(i - 1) + 1]
        BY <3>1, TailFacts
      <3>. QED
        BY <1>1, <3>1, <3>2 DEF Entries
    <2>. QED
      BY <2>1, <2>2
  <1>3. ASSUME NEW i \in 1 .. n - 1 PROVE Tail(s)[i] \in Entries(s)
    <2>1. i + 1 \in 1 .. n /\ Tail(s)[i] = s[i + 1]
      BY <1>1, TailFacts
    <2>. QED
      BY <2>1 DEF Entries
  <1>4. Head(s) \in Entries(s)
    BY <1>1 DEF Entries
  <1>. QED
    BY <1>1, <1>2, <1>3, <1>4 DEF Entries

LEMMA UniqueAppend ==
    ASSUME NEW S, NEW s \in Seq(S), NEW m \in S, Unique(s), m \notin Entries(s)
    PROVE  Unique(Append(s, m))
  <1>1. \A i \in 1 .. Len(s) + 1 : i \in 1 .. Len(s) \/ i = Len(s) + 1
    BY AppendFacts
  <1>. QED
    BY <1>1, AppendFacts DEF Unique, Entries

LEMMA PostAdd ==
    ASSUME NEW s \in Seq(Message), NEW m \in Message, m.kind # "done", NoDone(s)
    PROVE  NoDone(Append(s, m))
  <1>1. \A i \in 1 .. Len(s) + 1 : i \in 1 .. Len(s) \/ i = Len(s) + 1
    BY AppendFacts
  <1>. QED
    BY <1>1, AppendFacts DEF NoDone

LEMMA PostDone ==
    ASSUME NEW s \in Seq(Message), NEW m \in Message, m.kind = "done", NoDone(s)
    PROVE  DoneLast(Append(s, m))
  <1>. DEFINE n == Len(s)
  <1>1. n \in Nat /\ Len(Append(s, m)) = n + 1 /\ Append(s, m)[n + 1] = m
    BY AppendFacts
  <1>2. \A i \in 1 .. n + 1 : (i \in 1 .. n /\ i # n + 1) \/ i = n + 1
    BY <1>1
  <1>3. Append(s, m) # <<>>
    BY <1>1
  <1>4. \A i \in 1 .. n : Append(s, m)[i].kind # "done"
    BY AppendFacts DEF NoDone
  <1>. QED
    BY <1>1, <1>2, <1>3, <1>4 DEF DoneLast

LEMMA NoMessages == \A s \in Seq(Message) : s = <<>> <=> Len(s) = 0
  BY EmptySeq

\* A message that is no WM_DISCOVERY_DONE is taken from the queue.
LEMMA TakeAdd ==
    ASSUME NEW s \in Seq(Message), s # <<>>, Head(s).kind # "done"
    PROVE  /\ NoDone(s) => NoDone(Tail(s))
           /\ DoneLast(s) => DoneLast(Tail(s))
  <1>. DEFINE n == Len(s)
  <1>1. n \in Nat \ {0} /\ Len(Tail(s)) = n - 1 /\ Tail(s) \in Seq(Message)
    BY TailFacts
  <1>2. \A i \in 1 .. n - 1 : i + 1 \in 1 .. n /\ Tail(s)[i] = s[i + 1]
    BY <1>1, TailFacts
  <1>3. NoDone(s) => NoDone(Tail(s))
    BY <1>1, <1>2 DEF NoDone
  <1>4. ASSUME DoneLast(s) PROVE DoneLast(Tail(s))
    <2>1. n # 1
      <3>1. n = 1 => s[1].kind = "done"
        BY <1>1, <1>4 DEF DoneLast
      <3>. QED
        BY <3>1, TailFacts
    <2>2. Tail(s) # <<>>
      <3>1. Tail(s) = <<>> => Len(Tail(s)) = 0
        BY <1>1, NoMessages, Zenon
      <3>2. Len(Tail(s)) # 0
        BY <1>1, <2>1
      <3>. QED
        BY <3>1, <3>2, Zenon
    <2>3. \A i \in 1 .. n - 1 : s[i + 1].kind = "done" <=> i = n - 1
      <3>1. \A j \in 1 .. n : s[j].kind = "done" <=> j = n
        BY <1>4 DEF DoneLast
      <3>. SUFFICES ASSUME NEW i \in 1 .. n - 1
                    PROVE  s[i + 1].kind = "done" <=> i = n - 1
        OBVIOUS
      <3>2. i + 1 \in 1 .. n /\ (i + 1 = n <=> i = n - 1)
        BY <1>1
      <3>. QED
        BY <3>1, <3>2
    <2>. QED
      BY <1>1, <1>2, <2>2, <2>3 DEF DoneLast
  <1>. QED
    BY <1>3, <1>4

\* WM_DISCOVERY_DONE is taken from the queue.
LEMMA TakeDone ==
    ASSUME NEW s \in Seq(Message), DoneLast(s), Head(s).kind = "done"
    PROVE  Tail(s) = <<>>
  <1>1. s # <<>>
    BY DEF DoneLast
  <1>2. Len(s) \in Nat \ {0} /\ Head(s) = s[1] /\ Tail(s) \in Seq(Message) /\ Len(Tail(s)) = Len(s) - 1
    BY <1>1, TailFacts
  <1>3. 1 = Len(s)
    <2>1. 1 \in 1 .. Len(s) /\ s[1].kind = "done"
      BY <1>2
    <2>. QED
      BY <2>1 DEF DoneLast
  <1>4. Len(Tail(s)) = 0
    BY <1>2, <1>3
  <1>. QED
    BY <1>2, <1>4, NoMessages, Zenon

LEMMA EmptyQueue == Entries(<<>>) = {} /\ Unique(<<>>) /\ NoDone(<<>>)
  BY DEF Entries, Unique, NoDone

\* What a message says.
LEMMA Messages ==
    ASSUME search \in 0 .. Searches
    PROVE  /\ Done \in Message /\ Done.kind = "done" /\ Done.of = search
           /\ \A h \in Host :
                 /\ Add(h) \in Message /\ Add(h).kind = "add" /\ Add(h).of = search
                 /\ Add(h).host = h
           /\ \A m \in Message :
                 /\ m.kind \in {"add", "done"} /\ m.of \in 0 .. Searches
                 /\ m.kind = "add" => m.host \in Host
  BY DEF Message, Add, Done

------------------------------------------------------------------------------
(* The parts of the invariant.                                              *)

\* The datagrams.
LEMMA NetStep ==
    ASSUME DiscoveryTypeOK, FlagInv, NetInv, DiscoveryAssumption, [Next]_vars
    PROVE  NetInv'
  <1>. USE DEF NetInv, DiscoveryTypeOK
  <1>0. ~gone /\ ~searching => vdisc = "none"
    BY DEF FlagInv, ThreadJoined
  <1>1. CASE Open
    BY <1>1 DEF Open, hosts, net, thread, window
  <1>2. CASE Broadcast
    BY <1>2 DEF Broadcast, hosts, net, thread, window
  <1>3. CASE ReceiveFails
    BY <1>3 DEF ReceiveFails, hosts, net, thread, window
  <1>4. CASE ReceiveTimesOut
    BY <1>4 DEF ReceiveTimesOut, hosts, net, thread, window
  <1>5. CASE Close
    BY <1>5 DEF Close, hosts, net, thread, window
  <1>6. ASSUME NEW h \in Host, Receive(h) PROVE NetInv'
    BY <1>6 DEF Receive, hosts, net, thread, window
  <1>7. CASE AddServer
    BY <1>7 DEF AddServer, IsNext, hosts, net, thread, window
  <1>8. CASE FinishDiscovery
    BY <1>8 DEF FinishDiscovery, IsNext, hosts, net, thread, window
  <1>9. CASE StartDiscovery
    BY <1>9, <1>0 DEF StartDiscovery, hosts, net, thread, window
  <1>10. CASE CloseWindow
    BY <1>10 DEF CloseWindow, hosts, net, thread, window
  <1>11. ASSUME NEW h \in Host, HostStarts(h) PROVE NetInv'
    BY <1>11 DEF HostStarts, hosts, net, thread, window
  <1>12. ASSUME NEW h \in Host, HostStops(h) PROVE NetInv'
    BY <1>12 DEF HostStops, hosts, net, thread, window
  <1>13. ASSUME NEW h \in Host, HostLoop(h) PROVE NetInv'
    <2>1. \A g \in Host : requests'[g] = requests[g] \/ requests'[g] = 0
      BY <1>13 DEF HostLoop
    <2>2. \A g \in Host : requests[g] = 0 => requests'[g] = 0
      BY <1>13 DEF HostLoop
    <2>3. UNCHANGED <<replies, vdisc, round, count>>
      BY <1>13 DEF HostLoop, thread
    <2>4. \A g \in Host : requests[g] \in Nat /\ replies[g] \in Nat
      BY DiscoveryAssumption DEF DiscoveryTypeOK
    <2>5. round \in Nat
      BY DiscoveryAssumption DEF DiscoveryTypeOK
    <2>. HIDE DEF DiscoveryTypeOK
    <2>6. \A g \in Host : requests'[g] + replies'[g] <= round'
      BY <2>1, <2>3, <2>4, <2>5
    <2>. QED
      BY <2>2, <2>3, <2>6
  <1>14. ASSUME NEW h \in Host, HostReplies(h) PROVE NetInv'
    BY <1>14 DEF HostReplies, hosts, net, thread, window
  <1>15. ASSUME NEW h \in Host, HostTimesOut(h) PROVE NetInv'
    BY <1>15 DEF HostTimesOut, hosts, net, thread, window
  <1>16. ASSUME NEW h \in Host, HostJoins(h) PROVE NetInv'
    BY <1>16 DEF HostJoins, hosts, net, thread, window
  <1>17. ASSUME NEW h \in Host, RequestLost(h) PROVE NetInv'
    BY <1>17 DEF RequestLost, hosts, net, thread, window
  <1>18. ASSUME NEW h \in Host, ReplyLost(h) PROVE NetInv'
    BY <1>18 DEF ReplyLost, hosts, net, thread, window
  <1>19. CASE UNCHANGED vars
    BY <1>19 DEF vars, hosts, net, thread, window
  <1>. QED
    BY <1>1, <1>2, <1>3, <1>4, <1>5, <1>6, <1>7, <1>8, <1>9, <1>10, <1>11, <1>12, <1>13, <1>14,
       <1>15, <1>16, <1>17, <1>18, <1>19 DEF Next, ThreadStep, WindowStep, HostStep

\* The flags.
LEMMA FlagStep ==
    ASSUME DiscoveryTypeOK, FlagInv, [Next]_vars
    PROVE  FlagInv'
  <1>. USE DEF FlagInv, ThreadJoined, DiscoveryTypeOK
  <1>1. CASE Open
    BY <1>1 DEF Open, hosts, net, thread, window
  <1>2. CASE Broadcast
    BY <1>2 DEF Broadcast, hosts, net, thread, window
  <1>3. CASE ReceiveFails
    BY <1>3 DEF ReceiveFails, hosts, net, thread, window
  <1>4. CASE ReceiveTimesOut
    BY <1>4 DEF ReceiveTimesOut, hosts, net, thread, window
  <1>5. CASE Close
    BY <1>5 DEF Close, hosts, net, thread, window
  <1>6. ASSUME NEW h \in Host, Receive(h) PROVE FlagInv'
    BY <1>6 DEF Receive, hosts, net, thread, window
  <1>7. CASE AddServer
    BY <1>7 DEF AddServer, IsNext, hosts, net, thread, window
  <1>8. CASE FinishDiscovery
    BY <1>8 DEF FinishDiscovery, IsNext, hosts, net, thread, window
  <1>9. CASE StartDiscovery
    BY <1>9 DEF StartDiscovery, hosts, net, thread, window
  <1>10. CASE CloseWindow
    BY <1>10 DEF CloseWindow, hosts, net, thread, window
  <1>11. ASSUME NEW h \in Host, HostStarts(h) PROVE FlagInv'
    BY <1>11 DEF HostStarts, hosts, net, thread, window
  <1>12. ASSUME NEW h \in Host, HostStops(h) PROVE FlagInv'
    BY <1>12 DEF HostStops, hosts, net, thread, window
  <1>13. ASSUME NEW h \in Host, HostLoop(h) PROVE FlagInv'
    BY <1>13 DEF HostLoop, hosts, net, thread, window
  <1>14. ASSUME NEW h \in Host, HostReplies(h) PROVE FlagInv'
    BY <1>14 DEF HostReplies, hosts, net, thread, window
  <1>15. ASSUME NEW h \in Host, HostTimesOut(h) PROVE FlagInv'
    BY <1>15 DEF HostTimesOut, hosts, net, thread, window
  <1>16. ASSUME NEW h \in Host, HostJoins(h) PROVE FlagInv'
    BY <1>16 DEF HostJoins, hosts, net, thread, window
  <1>17. ASSUME NEW h \in Host, RequestLost(h) PROVE FlagInv'
    BY <1>17 DEF RequestLost, hosts, net, thread, window
  <1>18. ASSUME NEW h \in Host, ReplyLost(h) PROVE FlagInv'
    BY <1>18 DEF ReplyLost, hosts, net, thread, window
  <1>19. CASE UNCHANGED vars
    BY <1>19 DEF vars, hosts, net, thread, window
  <1>. QED
    BY <1>1, <1>2, <1>3, <1>4, <1>5, <1>6, <1>7, <1>8, <1>9, <1>10, <1>11, <1>12, <1>13, <1>14,
       <1>15, <1>16, <1>17, <1>18, <1>19 DEF Next, ThreadStep, WindowStep, HostStep

\* The types.
LEMMA DiscoveryTypeStep ==
    ASSUME DiscoveryTypeOK, NetInv, DiscoveryAssumption, [Next]_vars
    PROVE  DiscoveryTypeOK'
  <1>. USE DEF DiscoveryTypeOK, NetInv
  <1>1. CASE Open
    <2>1. CASE vdisc' = "send" /\ UNCHANGED messages
      BY <1>1, <2>1 DEF Open, hosts, net, thread, window
    <2>2. CASE vdisc' = "ended" /\ messages' = Append(messages, Done)
      BY <1>1, <2>2, AppendFacts, Messages DEF Open, hosts, net, thread, window
    <2>. QED
      BY <1>1, <2>1, <2>2 DEF Open
  <1>2. CASE Broadcast
    BY <1>2 DEF Broadcast, hosts, net, thread, window
  <1>3. CASE ReceiveFails
    BY <1>3 DEF ReceiveFails, hosts, net, thread, window
  <1>4. CASE ReceiveTimesOut
    BY <1>4 DEF ReceiveTimesOut, hosts, net, thread, window
  <1>5. CASE Close
    BY <1>5, AppendFacts, Messages DEF Close, hosts, net, thread, window
  <1>6. ASSUME NEW h \in Host, Receive(h) PROVE DiscoveryTypeOK'
    BY <1>6, AppendFacts, Messages DEF Receive, hosts, net, thread, window
  <1>7. CASE AddServer
    <2>1. messages' \in Seq(Message) /\ Head(messages).host \in Host
      BY <1>7, TailFacts, Messages DEF AddServer, IsNext
    <2>2. list' \in Seq(Host)
      BY <1>7, <2>1 DEF AddServer
    <2>. QED
      BY <1>7, <2>1, <2>2 DEF AddServer, hosts, net, thread
  <1>8. CASE FinishDiscovery
    BY <1>8, TailFacts DEF FinishDiscovery, IsNext, hosts, net, thread, window
  <1>9. CASE StartDiscovery
    <2>1. list' \in Seq(Host)
      BY <1>9, EmptySeq DEF StartDiscovery, CloseWindow
    <2>2. 0 \in 0 .. Rounds /\ 0 \in 0 .. Receives
      BY DiscoveryAssumption
    <2>3. search' \in 0 .. Searches
      BY <1>9, DiscoveryAssumption DEF StartDiscovery, CloseWindow
    <2>. QED
      BY <1>9, <2>1, <2>2, <2>3 DEF StartDiscovery, CloseWindow, hosts, net, thread
  <1>10. CASE CloseWindow
    <2>1. list' \in Seq(Host)
      BY <1>10, EmptySeq DEF StartDiscovery, CloseWindow
    <2>2. 0 \in 0 .. Rounds /\ 0 \in 0 .. Receives
      BY DiscoveryAssumption
    <2>3. search' \in 0 .. Searches
      BY <1>10, DiscoveryAssumption DEF StartDiscovery, CloseWindow
    <2>. QED
      BY <1>10, <2>1, <2>2, <2>3 DEF StartDiscovery, CloseWindow, hosts, net, thread
  <1>11. ASSUME NEW h \in Host, HostStarts(h) PROVE DiscoveryTypeOK'
    BY <1>11 DEF HostStarts, hosts, net, thread, window
  <1>12. ASSUME NEW h \in Host, HostStops(h) PROVE DiscoveryTypeOK'
    BY <1>12 DEF HostStops, hosts, net, thread, window
  <1>13. ASSUME NEW h \in Host, HostLoop(h) PROVE DiscoveryTypeOK'
    BY <1>13 DEF HostLoop, hosts, net, thread, window
  <1>14. ASSUME NEW h \in Host, HostReplies(h) PROVE DiscoveryTypeOK'
    BY <1>14 DEF HostReplies, hosts, net, thread, window
  <1>15. ASSUME NEW h \in Host, HostTimesOut(h) PROVE DiscoveryTypeOK'
    BY <1>15 DEF HostTimesOut, hosts, net, thread, window
  <1>16. ASSUME NEW h \in Host, HostJoins(h) PROVE DiscoveryTypeOK'
    BY <1>16 DEF HostJoins, hosts, net, thread, window
  <1>17. ASSUME NEW h \in Host, RequestLost(h) PROVE DiscoveryTypeOK'
    BY <1>17 DEF RequestLost, hosts, net, thread, window
  <1>18. ASSUME NEW h \in Host, ReplyLost(h) PROVE DiscoveryTypeOK'
    BY <1>18 DEF ReplyLost, hosts, net, thread, window
  <1>19. CASE UNCHANGED vars
    BY <1>19 DEF vars, hosts, net, thread, window
  <1>. QED
    BY <1>1, <1>2, <1>3, <1>4, <1>5, <1>6, <1>7, <1>8, <1>9, <1>10, <1>11, <1>12, <1>13, <1>14,
       <1>15, <1>16, <1>17, <1>18, <1>19 DEF Next, ThreadStep, WindowStep, HostStep

\* The queue.
LEMMA QueueStep ==
    ASSUME DiscoveryTypeOK, FlagInv, QueueInv, [Next]_vars
    PROVE  QueueInv'
  <1>. USE DEF Working, QueueInv
  <1>0. /\ messages \in Seq(Message) /\ search \in 0 .. Searches
        /\ ~gone /\ ~searching => vdisc = "none"
        /\ gone => vdisc = "none"
    BY DEF DiscoveryTypeOK, FlagInv, ThreadJoined
  <1>1. CASE Open
    <2>1. CASE vdisc' = "send" /\ UNCHANGED messages
      BY <1>1, <2>1 DEF Open, hosts, net, thread, window
    <2>2. CASE vdisc' = "ended" /\ messages' = Append(messages, Done)
      BY <1>1, <2>2, EntriesAppend, PostDone, <1>0, Messages DEF Open, hosts, net, thread, window
    <2>. QED
      BY <1>1, <2>1, <2>2 DEF Open
  <1>2. CASE Broadcast
    BY <1>2 DEF Broadcast, hosts, net, thread, window
  <1>3. CASE ReceiveFails
    BY <1>3 DEF ReceiveFails, hosts, net, thread, window
  <1>4. CASE ReceiveTimesOut
    BY <1>4 DEF ReceiveTimesOut, hosts, net, thread, window
  <1>5. CASE Close
    BY <1>5, EntriesAppend, PostAdd, PostDone, <1>0, Messages DEF Close, hosts, net, thread,
         window
  <1>6. ASSUME NEW h \in Host, Receive(h) PROVE QueueInv'
    BY <1>6, EntriesAppend, PostAdd, PostDone, <1>0, Messages DEF Receive, hosts, net, thread,
         window
  <1>7. CASE AddServer
    BY <1>7, EntriesTail, TakeAdd, <1>0, Messages DEF AddServer, IsNext, hosts, net, thread,
         window
  <1>8. CASE FinishDiscovery
    BY <1>8, EntriesTail, TakeDone, EmptyQueue, <1>0 DEF FinishDiscovery, IsNext, hosts, net,
         thread, window
  <1>9. CASE StartDiscovery
    BY <1>9, EmptyQueue, <1>0 DEF StartDiscovery, hosts, net, thread, window
  <1>10. CASE CloseWindow
    BY <1>10 DEF CloseWindow, hosts, net, thread, window
  <1>11. ASSUME NEW h \in Host, HostStarts(h) PROVE QueueInv'
    BY <1>11 DEF HostStarts, hosts, net, thread, window
  <1>12. ASSUME NEW h \in Host, HostStops(h) PROVE QueueInv'
    BY <1>12 DEF HostStops, hosts, net, thread, window
  <1>13. ASSUME NEW h \in Host, HostLoop(h) PROVE QueueInv'
    BY <1>13 DEF HostLoop, hosts, net, thread, window
  <1>14. ASSUME NEW h \in Host, HostReplies(h) PROVE QueueInv'
    BY <1>14 DEF HostReplies, hosts, net, thread, window
  <1>15. ASSUME NEW h \in Host, HostTimesOut(h) PROVE QueueInv'
    BY <1>15 DEF HostTimesOut, hosts, net, thread, window
  <1>16. ASSUME NEW h \in Host, HostJoins(h) PROVE QueueInv'
    BY <1>16 DEF HostJoins, hosts, net, thread, window
  <1>17. ASSUME NEW h \in Host, RequestLost(h) PROVE QueueInv'
    BY <1>17 DEF RequestLost, hosts, net, thread, window
  <1>18. ASSUME NEW h \in Host, ReplyLost(h) PROVE QueueInv'
    BY <1>18 DEF ReplyLost, hosts, net, thread, window
  <1>19. CASE UNCHANGED vars
    BY <1>19 DEF vars, hosts, net, thread, window
  <1>. QED
    BY <1>1, <1>2, <1>3, <1>4, <1>5, <1>6, <1>7, <1>8, <1>9, <1>10, <1>11, <1>12, <1>13, <1>14,
       <1>15, <1>16, <1>17, <1>18, <1>19 DEF Next, ThreadStep, WindowStep, HostStep

\* The list.
LEMMA ListStep ==
    ASSUME DiscoveryTypeOK, FlagInv, QueueInv, ListInv, [Next]_vars
    PROVE  ListInv'
  <1>. USE DEF QueueInv, ListInv
  <1>0. /\ messages \in Seq(Message) /\ search \in 0 .. Searches
        /\ list \in Seq(Host)
        /\ ~gone /\ ~searching => vdisc = "none"
        /\ gone => vdisc = "none"
    BY DEF DiscoveryTypeOK, FlagInv, ThreadJoined
  <1>1. CASE Open
    <2>1. CASE vdisc' = "send" /\ UNCHANGED messages
      BY <1>1, <2>1 DEF Open, hosts, net, thread, window
    <2>2. CASE vdisc' = "ended" /\ messages' = Append(messages, Done)
      BY <1>1, <2>2, EntriesAppend, <1>0, Messages DEF Open, hosts, net, thread, window
    <2>. QED
      BY <1>1, <2>1, <2>2 DEF Open
  <1>2. CASE Broadcast
    BY <1>2 DEF Broadcast, hosts, net, thread, window
  <1>3. CASE ReceiveFails
    BY <1>3 DEF ReceiveFails, hosts, net, thread, window
  <1>4. CASE ReceiveTimesOut
    BY <1>4 DEF ReceiveTimesOut, hosts, net, thread, window
  <1>5. CASE Close
    BY <1>5, EntriesAppend, <1>0, Messages DEF Close, hosts, net, thread, window
  <1>6. ASSUME NEW h \in Host, Receive(h) PROVE ListInv'
    BY <1>6, EntriesAppend, <1>0, Messages DEF Receive, hosts, net, thread, window
  <1>7. CASE AddServer
    <2>. DEFINE k == Head(messages).host
    <2>1. /\ messages' = Tail(messages) /\ Entries(messages) = {Head(messages)} \cup Entries(messages')
          /\ Head(messages) \in Message /\ Head(messages).kind = "add"
          /\ UNCHANGED <<gone, answered>>
      BY <1>7, <1>0, EntriesTail, TailFacts DEF AddServer, IsNext
    <2>2. k \in answered /\ k \in Host
      BY <2>1, Messages, <1>0
    <2>3. Unique(list') /\ Entries(list') = Entries(list) \cup {k}
      <3>1. CASE k \in Entries(list)
        <4>1. list' = list
          BY <1>7, <3>1 DEF AddServer, Entries
        <4>. QED
          BY <3>1, <4>1
      <3>2. CASE k \notin Entries(list)
        <4>1. list' = Append(list, k)
          BY <1>7, <3>2 DEF AddServer, Entries
        <4>. QED
          BY <1>0, <2>2, <3>2, <4>1, EntriesAppend, UniqueAppend
      <3>. QED
        BY <3>1, <3>2
    <2>. QED
      BY <2>1, <2>2, <2>3
  <1>8. CASE FinishDiscovery
    BY <1>8, EntriesTail, TakeDone, <1>0 DEF FinishDiscovery, IsNext, hosts, net, thread, window
  <1>9. CASE StartDiscovery
    BY <1>9, EmptyQueue DEF StartDiscovery, hosts, net, thread, window
  <1>10. CASE CloseWindow
    BY <1>10, EmptyQueue DEF CloseWindow, hosts, net, thread, window
  <1>11. ASSUME NEW h \in Host, HostStarts(h) PROVE ListInv'
    BY <1>11 DEF HostStarts, hosts, net, thread, window
  <1>12. ASSUME NEW h \in Host, HostStops(h) PROVE ListInv'
    BY <1>12 DEF HostStops, hosts, net, thread, window
  <1>13. ASSUME NEW h \in Host, HostLoop(h) PROVE ListInv'
    BY <1>13 DEF HostLoop, hosts, net, thread, window
  <1>14. ASSUME NEW h \in Host, HostReplies(h) PROVE ListInv'
    BY <1>14 DEF HostReplies, hosts, net, thread, window
  <1>15. ASSUME NEW h \in Host, HostTimesOut(h) PROVE ListInv'
    BY <1>15 DEF HostTimesOut, hosts, net, thread, window
  <1>16. ASSUME NEW h \in Host, HostJoins(h) PROVE ListInv'
    BY <1>16 DEF HostJoins, hosts, net, thread, window
  <1>17. ASSUME NEW h \in Host, RequestLost(h) PROVE ListInv'
    BY <1>17 DEF RequestLost, hosts, net, thread, window
  <1>18. ASSUME NEW h \in Host, ReplyLost(h) PROVE ListInv'
    BY <1>18 DEF ReplyLost, hosts, net, thread, window
  <1>19. CASE UNCHANGED vars
    BY <1>19 DEF vars, hosts, net, thread, window
  <1>. QED
    BY <1>1, <1>2, <1>3, <1>4, <1>5, <1>6, <1>7, <1>8, <1>9, <1>10, <1>11, <1>12, <1>13, <1>14,
       <1>15, <1>16, <1>17, <1>18, <1>19 DEF Next, ThreadStep, WindowStep, HostStep

------------------------------------------------------------------------------
LEMMA DiscoveryInit == Init => DiscoveryInv
  <1>. SUFFICES ASSUME Init PROVE DiscoveryInv
    OBVIOUS
  <1>. USE DEF Init
  <1>1. DiscoveryTypeOK
    <2>1. 0 \in 0 .. Rounds /\ 0 \in 0 .. Receives /\ 0 \in 0 .. Searches
      BY DiscoveryAssumption
    <2>2. messages \in Seq(Message) /\ list \in Seq(Host)
      BY EmptySeq
    <2>. QED
      BY <2>1, <2>2 DEF DiscoveryTypeOK
  <1>2. NetInv /\ FlagInv
    BY DEF NetInv, FlagInv, ThreadJoined
  <1>3. QueueInv /\ ListInv
    BY EmptyQueue DEF QueueInv, ListInv, Working
  <1>. QED
    BY <1>1, <1>2, <1>3 DEF DiscoveryInv

LEMMA DiscoveryStep == DiscoveryInv /\ [Next]_vars => DiscoveryInv'
  BY DiscoveryAssumption, DiscoveryTypeStep, NetStep, FlagStep, QueueStep, ListStep
     DEF DiscoveryInv

\* The inductive invariant.
THEOREM DiscoveryInductive == Spec => []DiscoveryInv
  BY DiscoveryInit, DiscoveryStep, PTL DEF Spec

\* Every variable keeps its type: no more datagrams are about than were broadcast.
THEOREM DiscoveryTyped == Spec => []DiscoveryTypeOK
  <1>1. DiscoveryInv => DiscoveryTypeOK
    BY DEF DiscoveryInv
  <1>. QED
    BY <1>1, DiscoveryInductive, PTL

\* No entry of the list is double, of an earlier search, or of a host that is silent.
THEOREM ListIsOfThisSearch == Spec => []ListIsThisSearch
  <1>1. DiscoveryInv => ListIsThisSearch
    BY DEF DiscoveryInv, QueueInv, ListInv, Entries, Unique, ListIsThisSearch
  <1>. QED
    BY <1>1, DiscoveryInductive, PTL

\* No search assigns to a thread that has not been joined.
THEOREM ThreadIsJoined == Spec => []ThreadJoined
  <1>1. DiscoveryInv => ThreadJoined
    BY DEF DiscoveryInv, FlagInv
  <1>. QED
    BY <1>1, DiscoveryInductive, PTL

\* A search that is over has every host in the list that answered it.
THEOREM NoneIsForgotten == Spec => []NoneForgotten
  <1>1. DiscoveryInv => NoneForgotten
    <2>. SUFFICES ASSUME DiscoveryInv, ~gone, ~searching PROVE NoneForgotten
      BY DEF NoneForgotten
    <2>1. messages = <<>>
      BY DEF DiscoveryInv, FlagInv, ThreadJoined, QueueInv
    <2>2. \A h \in answered : h \in Entries(list)
      BY <2>1, EmptyQueue DEF DiscoveryInv, ListInv
    <2>. QED
      BY <2>2 DEF NoneForgotten, Entries
  <1>. QED
    BY <1>1, DiscoveryInductive, PTL

(* ------------------- the address a host announces --------------------- *)

\* No address of a virtual adapter has the score of one on the local network.
LEMMA LanScoresHigher ==
    ASSUME NEW c \in Candidate, NEW v \in Candidate, OnTheLan(c), v.virtual, Eligible(v)
    PROVE  Score(v) < Score(c)
  <1>1. c.range \in {"hotspot", "home", "private"} /\ ~c.virtual /\ c.type \in {"wifi", "ethernet"}
    BY DEF OnTheLan, IsPrivate
  <1>2. Score(c) >= 260
    BY <1>1 DEF Score, IsPrivate
  <1>3. Score(v) <= 230
    BY DEF Score, IsPrivate
  <1>4. Score(c) \in Nat /\ Score(v) \in Nat
    BY DEF Score
  <1>5. QED
    BY <1>2, <1>3, <1>4

LEMMA ScoreType == \A c \in Candidate : Score(c) \in Nat
  BY DEF Score

\* What has been looked at has at most the score of what is kept.
ScanInv ==
    /\ addresses \in Seq(Candidate) /\ place \in 1 .. Len(addresses) + 1 /\ best \in 0 .. place - 1
    /\ best # 0 => Eligible(addresses[best])
    /\ \A i \in 1 .. place - 1 :
           Eligible(addresses[i]) => best # 0 /\ Score(addresses[i]) <= Score(addresses[best])

LEMMA LookInductive ==
    ASSUME ScanInv, Look
    PROVE  ScanInv'
  <1> DEFINE b == best'
  <1>1. /\ addresses' = addresses /\ place' = place + 1
        /\ place \in 1 .. Len(addresses) /\ Len(addresses) \in Nat
        /\ addresses[place] \in Candidate /\ addresses \in Seq(Candidate)
        /\ \A i \in 1 .. place : addresses[i] \in Candidate
    BY DEF ScanInv, Look
  <1>2. CASE Eligible(addresses[place]) /\ Better(place)
    <2>1. b = place
      BY <1>2 DEF Look
    <2>2. \A i \in 1 .. place - 1 :
             Eligible(addresses[i]) => Score(addresses[i]) <= Score(addresses[place])
      <3>1. SUFFICES ASSUME NEW i \in 1 .. place - 1, Eligible(addresses[i])
                     PROVE  Score(addresses[i]) <= Score(addresses[place])
        OBVIOUS
      <3>2. best # 0 /\ Score(addresses[i]) <= Score(addresses[best]) /\ best \in 1 .. place - 1
        BY <3>1 DEF ScanInv
      <3>3. Score(addresses[best]) < Score(addresses[place])
        <4>1. Score(addresses[best]) \in Nat /\ Score(addresses[place]) \in Nat
          BY <1>1, <3>2, ScoreType
        <4>2. QED
          BY <4>1, <3>2, <1>2 DEF Better
      <3>4. Score(addresses[i]) \in Nat /\ Score(addresses[best]) \in Nat /\ Score(addresses[place]) \in Nat
        BY <1>1, <3>2, ScoreType
      <3>5. QED
        BY <3>2, <3>3, <3>4
    <2>3. Score(addresses[place]) <= Score(addresses[place])
      BY <1>1, ScoreType
    <2>4. QED
      BY <1>1, <1>2, <2>1, <2>2, <2>3 DEF ScanInv
  <1>3. CASE ~(Eligible(addresses[place]) /\ Better(place))
    <2>1. b = best
      BY <1>3 DEF Look
    <2>2. Eligible(addresses[place]) => best # 0 /\ Score(addresses[place]) <= Score(addresses[best])
      <3>1. SUFFICES ASSUME Eligible(addresses[place])
                     PROVE  best # 0 /\ Score(addresses[place]) <= Score(addresses[best])
        OBVIOUS
      <3>2. best # 0 /\ ~(Score(addresses[place]) > Score(addresses[best]))
        BY <3>1, <1>3 DEF Better
      <3>3. Score(addresses[place]) \in Nat /\ Score(addresses[best]) \in Nat
        BY <1>1, <3>2, ScoreType DEF ScanInv
      <3>4. QED
        BY <3>2, <3>3
    <2>3. QED
      BY <1>1, <2>1, <2>2 DEF ScanInv
  <1>4. QED
    BY <1>2, <1>3

\* A host that is on a local network announces an address of it, whatever its adapters and
\* their order (net_utils.cpp:136-171, 213-265).
THEOREM LanIsAnnounced == ScanSpec => []AnnouncesTheLan
  <1>1. ScanInit => ScanInv
    BY DEF ScanInit, ScanInv
  <1>2. ScanInv /\ [Look]_scan => ScanInv'
    <2>1. ScanInv /\ UNCHANGED scan => ScanInv'
      BY DEF ScanInv, scan, Eligible, Score, IsPrivate
    <2>2. QED
      BY <2>1, LookInductive
  <1>3. ScanInv => AnnouncesTheLan
    <2>1. SUFFICES ASSUME ScanInv, place > Len(addresses),
                          NEW i \in 1 .. Len(addresses), OnTheLan(addresses[i])
                   PROVE  best # 0 /\ ~addresses[best].virtual /\ Eligible(addresses[best])
      BY DEF AnnouncesTheLan
    <2>2. /\ addresses[i] \in Candidate /\ i \in 1 .. place - 1 /\ Eligible(addresses[i])
      BY <2>1 DEF ScanInv, OnTheLan
    <2>3. best # 0 /\ Score(addresses[i]) <= Score(addresses[best]) /\ Eligible(addresses[best])
      BY <2>1, <2>2 DEF ScanInv
    <2>4. addresses[best] \in Candidate
      BY <2>1, <2>3 DEF ScanInv
    <2>5. ASSUME addresses[best].virtual PROVE FALSE
      <3>1. Score(addresses[best]) < Score(addresses[i])
        BY <2>1, <2>2, <2>3, <2>4, <2>5, LanScoresHigher
      <3>2. Score(addresses[best]) \in Nat /\ Score(addresses[i]) \in Nat
        BY <2>2, <2>4, ScoreType
      <3>3. QED
        BY <2>3, <3>1, <3>2
    <2>6. QED
      BY <2>3, <2>5
  <1>4. QED
    BY <1>1, <1>2, <1>3, PTL DEF ScanSpec

=============================================================================
