---------------------------- MODULE LtdeskProofs ----------------------------
(***************************************************************************)
(* Proofs about Ltdesk, for every set of commands, of starts by the user   *)
(* and of processes whose CreateMutex is refused.                          *)
(*                                                                         *)
(* OneHost is not inductive: a process that has passed CreateMutex and has *)
(* no window yet will have one, and one that has lost its window still     *)
(* keeps the mutex.  Alone says the same of all of these.                  *)
(***************************************************************************)
EXTENDS Ltdesk, TLAPS

\* A process that has found itself the first one.
First(p) == at[p] \in {"create", "made", "run", "halt", "close", "gone"}

Alone == \A p, q \in Proc \ Denied : First(p) /\ First(q) => p = q

\* A command reports at its end, and not before.
ReportsLast == \A c \in Cmd : pc[c] # "done" => result[c] = "none"

LtdeskInv == LtdeskTypeOK /\ Alone /\ ReportsLast /\ WaitedDownIsGone

------------------------------------------------------------------------------
LEMMA LtdeskInit == Init => LtdeskInv
  <1>. SUFFICES ASSUME Init PROVE LtdeskInv
    OBVIOUS
  <1>. USE DEF Init
  <1>1. LtdeskTypeOK
    BY DEF LtdeskTypeOK, Proc
  <1>2. Alone /\ ReportsLast /\ WaitedDownIsGone
    BY DEF Alone, First, ReportsLast, WaitedDownIsGone, Proc
  <1>. QED
    BY <1>1, <1>2 DEF LtdeskInv

\* The types: a message waits only at a window, and only a running host serves.
LEMMA LtdeskTypeStep ==
    ASSUME LtdeskTypeOK, [Next]_vars
    PROVE  LtdeskTypeOK'
  <1>. USE DEF LtdeskTypeOK, Window, Proc
  <1>1. ASSUME NEW p \in Proc, Begin(p) PROVE LtdeskTypeOK'
    BY <1>1 DEF Begin, Move, host, command
  <1>2. ASSUME NEW p \in Proc, Second(p) PROVE LtdeskTypeOK'
    BY <1>2 DEF Second, Move, host, command
  <1>3. ASSUME NEW p \in Proc, Create(p) PROVE LtdeskTypeOK'
    BY <1>3 DEF Create, Move, host, command
  <1>4. ASSUME NEW p \in Proc, Enter(p) PROVE LtdeskTypeOK'
    BY <1>4 DEF Enter, Move, host, command
  <1>5. ASSUME NEW p \in Proc, TakePower(p) PROVE LtdeskTypeOK'
    <2>. USE <1>5 DEF TakePower, Takes, Power, host, command
    <2>1. queue' \in [Proc -> Seq({"power", "close"})]
      OBVIOUS
    <2>2. at' \in [Proc -> {"none", "begin", "second", "create", "made", "run", "halt",
                           "close", "gone", "ended"}]
      OBVIOUS
    <2>3. \A q \in Proc : queue'[q] # <<>> => Window(q)'
      <3>1. \A q \in Proc : Window(q) => Window(q)'
        OBVIOUS
      <3>2. \A q \in Proc : queue'[q] # <<>> => queue[q] # <<>>
        OBVIOUS
      <3>. QED
        BY <3>1, <3>2
    <2>4. serving' \in [Proc -> BOOLEAN]
      OBVIOUS
    <2>5. \A q \in Proc : serving'[q] => at'[q] = "run"
      OBVIOUS
    <2>6. UNCHANGED <<pc, op, found, handle, result>>
      OBVIOUS
    <2>. QED
      BY <2>1, <2>2, <2>3, <2>4, <2>5, <2>6
  <1>6. ASSUME NEW p \in Proc, Halted(p) PROVE LtdeskTypeOK'
    BY <1>6 DEF Halted, Move, host, command
  <1>7. ASSUME NEW p \in Proc, TakeClose(p) PROVE LtdeskTypeOK'
    BY <1>7 DEF TakeClose, Takes, Shut, host, command
  <1>8. ASSUME NEW p \in Proc, Destroy(p) PROVE LtdeskTypeOK'
    BY <1>8 DEF Destroy, Move, host, command
  <1>9. ASSUME NEW p \in Proc, Leave(p) PROVE LtdeskTypeOK'
    BY <1>9 DEF Leave, Move, host, command
  <1>10. ASSUME NEW p \in Proc, UserStarts(p) PROVE LtdeskTypeOK'
    BY <1>10 DEF UserStarts, Move, host, command
  <1>11. ASSUME NEW p \in Proc, Click(p) PROVE LtdeskTypeOK'
    BY <1>11 DEF Click, Power, host, command
  <1>12. ASSUME NEW p \in Proc, Exit(p) PROVE LtdeskTypeOK'
    BY <1>12 DEF Exit, Shut, host, command
  <1>13. ASSUME NEW c \in Cmd, Given(c) PROVE LtdeskTypeOK'
    BY <1>13 DEF Given, Goto, host, command
  <1>14. ASSUME NEW c \in Cmd, UpFinds(c) PROVE LtdeskTypeOK'
    BY <1>14 DEF UpFinds, Goto, Report, host, command
  <1>15. ASSUME NEW c \in Cmd, UpSees(c) PROVE LtdeskTypeOK'
    BY <1>15 DEF UpSees, Goto, Report, host, command
  <1>16. ASSUME NEW c \in Cmd, UpGivesUp(c) PROVE LtdeskTypeOK'
    BY <1>16 DEF UpGivesUp, Goto, Report, host, command
  <1>17. ASSUME NEW c \in Cmd, DownFinds(c) PROVE LtdeskTypeOK'
    BY <1>17 DEF DownFinds, Goto, Report, host, command
  <1>18. ASSUME NEW c \in Cmd, DownOpens(c) PROVE LtdeskTypeOK'
    BY <1>18 DEF DownOpens, Goto, Report, host, command
  <1>25. ASSUME NEW c \in Cmd, DownAsks(c) PROVE LtdeskTypeOK'
    BY <1>25 DEF DownAsks, Goto, host, command
  <1>19. ASSUME NEW c \in Cmd, DownPosts(c) PROVE LtdeskTypeOK'
    <2>1. found[c] \in Proc
      BY DEF Proc
    <2>2. queue' \in [Proc -> Seq({"power", "close"})]
      <3>1. Append(queue[found[c]], "close") \in Seq({"power", "close"})
        BY <2>1
      <3>. QED
        BY <1>19, <2>1, <3>1 DEF DownPosts
    <2>3. \A p \in Proc : queue'[p] # <<>> => Window(p)
      BY <1>19, <2>1 DEF DownPosts
    <2>. QED
      BY <1>19, <2>2, <2>3 DEF DownPosts, Goto, Report, host, command
  <1>20. ASSUME NEW c \in Cmd, DownSeesEnd(c) PROVE LtdeskTypeOK'
    BY <1>20 DEF DownSeesEnd, Goto, Report, host, command
  <1>21. ASSUME NEW c \in Cmd, DownGivesUp(c) PROVE LtdeskTypeOK'
    BY <1>21 DEF DownGivesUp, Goto, Report, host, command
  <1>22. ASSUME NEW c \in Cmd, Status(c) PROVE LtdeskTypeOK'
    BY <1>22 DEF Status, Goto, Report, host, command
  <1>23. ASSUME NEW c \in Cmd, UpSpawns(c) PROVE LtdeskTypeOK'
    BY <1>23 DEF UpSpawns, Goto, Report, Move, host, command
  <1>24. CASE UNCHANGED vars
    BY <1>24 DEF vars, host, command
  <1>. QED
    BY <1>1, <1>2, <1>3, <1>4, <1>5, <1>6, <1>7, <1>8, <1>9, <1>10, <1>11, <1>12, <1>13, <1>14,
       <1>15, <1>16, <1>17, <1>18, <1>19, <1>20, <1>21, <1>22, <1>23, <1>24, <1>25
       DEF Next, HostStep, CmdStep

\* Only CreateMutex makes a process the first, and then no other one holds the mutex.
LEMMA AloneStep ==
    ASSUME LtdeskTypeOK, Alone, [Next]_vars
    PROVE  Alone'
  <1>. USE DEF Alone, First, Proc, Holding, Locked, LtdeskTypeOK
  <1>1. ASSUME NEW p \in Proc, Begin(p) PROVE Alone'
    BY <1>1 DEF Begin, Move, host, command
  <1>2. ASSUME NEW p \in Proc, Second(p) PROVE Alone'
    BY <1>2 DEF Second, Move, host, command
  <1>3. ASSUME NEW p \in Proc, Create(p) PROVE Alone'
    BY <1>3 DEF Create, Move, host, command
  <1>4. ASSUME NEW p \in Proc, Enter(p) PROVE Alone'
    BY <1>4 DEF Enter, Move, host, command
  <1>5. ASSUME NEW p \in Proc, TakePower(p) PROVE Alone'
    <2>. USE <1>5 DEF TakePower, Takes, Power, host, command
    <2>1. CASE serving[p]
      BY <2>1
    <2>2. CASE ~serving[p]
      <3>1. UNCHANGED at
        BY <2>2
      <3>. QED
        BY <2>2, <3>1
    <2>. QED
      BY <2>1, <2>2
  <1>6. ASSUME NEW p \in Proc, Halted(p) PROVE Alone'
    BY <1>6 DEF Halted, Move, host, command
  <1>7. ASSUME NEW p \in Proc, TakeClose(p) PROVE Alone'
    BY <1>7 DEF TakeClose, Takes, Shut, host, command
  <1>8. ASSUME NEW p \in Proc, Destroy(p) PROVE Alone'
    BY <1>8 DEF Destroy, Move, host, command
  <1>9. ASSUME NEW p \in Proc, Leave(p) PROVE Alone'
    BY <1>9 DEF Leave, Move, host, command
  <1>10. ASSUME NEW p \in Proc, UserStarts(p) PROVE Alone'
    BY <1>10 DEF UserStarts, Move, host, command
  <1>11. ASSUME NEW p \in Proc, Click(p) PROVE Alone'
    BY <1>11 DEF Click, Power, host, command
  <1>12. ASSUME NEW p \in Proc, Exit(p) PROVE Alone'
    BY <1>12 DEF Exit, Shut, host, command
  <1>13. ASSUME NEW c \in Cmd, Given(c) PROVE Alone'
    BY <1>13 DEF Given, Goto, host, command
  <1>14. ASSUME NEW c \in Cmd, UpFinds(c) PROVE Alone'
    BY <1>14 DEF UpFinds, Goto, Report, host, command
  <1>15. ASSUME NEW c \in Cmd, UpSees(c) PROVE Alone'
    BY <1>15 DEF UpSees, Goto, Report, host, command
  <1>16. ASSUME NEW c \in Cmd, UpGivesUp(c) PROVE Alone'
    BY <1>16 DEF UpGivesUp, Goto, Report, host, command
  <1>17. ASSUME NEW c \in Cmd, DownFinds(c) PROVE Alone'
    BY <1>17 DEF DownFinds, Goto, Report, host, command
  <1>18. ASSUME NEW c \in Cmd, DownOpens(c) PROVE Alone'
    BY <1>18 DEF DownOpens, Goto, Report, host, command
  <1>25. ASSUME NEW c \in Cmd, DownAsks(c) PROVE Alone'
    BY <1>25 DEF DownAsks, Goto, host, command
  <1>19. ASSUME NEW c \in Cmd, DownPosts(c) PROVE Alone'
    BY <1>19 DEF DownPosts, Goto, Report, host, command
  <1>20. ASSUME NEW c \in Cmd, DownSeesEnd(c) PROVE Alone'
    BY <1>20 DEF DownSeesEnd, Goto, Report, host, command
  <1>21. ASSUME NEW c \in Cmd, DownGivesUp(c) PROVE Alone'
    BY <1>21 DEF DownGivesUp, Goto, Report, host, command
  <1>22. ASSUME NEW c \in Cmd, Status(c) PROVE Alone'
    BY <1>22 DEF Status, Goto, Report, host, command
  <1>23. ASSUME NEW c \in Cmd, UpSpawns(c) PROVE Alone'
    BY <1>23 DEF UpSpawns, Goto, Report, Move, host, command
  <1>24. CASE UNCHANGED vars
    BY <1>24 DEF vars, host, command
  <1>. QED
    BY <1>1, <1>2, <1>3, <1>4, <1>5, <1>6, <1>7, <1>8, <1>9, <1>10, <1>11, <1>12, <1>13, <1>14,
       <1>15, <1>16, <1>17, <1>18, <1>19, <1>20, <1>21, <1>22, <1>23, <1>24, <1>25
       DEF Next, HostStep, CmdStep

\* A report is the last step of its command.
LEMMA ReportsLastStep ==
    ASSUME LtdeskTypeOK, ReportsLast, [Next]_vars
    PROVE  ReportsLast'
  <1>. USE DEF LtdeskTypeOK, ReportsLast, Proc
  <1>1. ASSUME NEW p \in Proc, Begin(p) PROVE ReportsLast'
    BY <1>1 DEF Begin, Move, host, command
  <1>2. ASSUME NEW p \in Proc, Second(p) PROVE ReportsLast'
    BY <1>2 DEF Second, Move, host, command
  <1>3. ASSUME NEW p \in Proc, Create(p) PROVE ReportsLast'
    BY <1>3 DEF Create, Move, host, command
  <1>4. ASSUME NEW p \in Proc, Enter(p) PROVE ReportsLast'
    BY <1>4 DEF Enter, Move, host, command
  <1>5. ASSUME NEW p \in Proc, TakePower(p) PROVE ReportsLast'
    BY <1>5 DEF TakePower, Takes, Power, host, command
  <1>6. ASSUME NEW p \in Proc, Halted(p) PROVE ReportsLast'
    BY <1>6 DEF Halted, Move, host, command
  <1>7. ASSUME NEW p \in Proc, TakeClose(p) PROVE ReportsLast'
    BY <1>7 DEF TakeClose, Takes, Shut, host, command
  <1>8. ASSUME NEW p \in Proc, Destroy(p) PROVE ReportsLast'
    BY <1>8 DEF Destroy, Move, host, command
  <1>9. ASSUME NEW p \in Proc, Leave(p) PROVE ReportsLast'
    BY <1>9 DEF Leave, Move, host, command
  <1>10. ASSUME NEW p \in Proc, UserStarts(p) PROVE ReportsLast'
    BY <1>10 DEF UserStarts, Move, host, command
  <1>11. ASSUME NEW p \in Proc, Click(p) PROVE ReportsLast'
    BY <1>11 DEF Click, Power, host, command
  <1>12. ASSUME NEW p \in Proc, Exit(p) PROVE ReportsLast'
    BY <1>12 DEF Exit, Shut, host, command
  <1>13. ASSUME NEW c \in Cmd, Given(c) PROVE ReportsLast'
    BY <1>13 DEF Given, Goto, host, command
  <1>14. ASSUME NEW c \in Cmd, UpFinds(c) PROVE ReportsLast'
    BY <1>14 DEF UpFinds, Goto, Report, host, command
  <1>15. ASSUME NEW c \in Cmd, UpSees(c) PROVE ReportsLast'
    BY <1>15 DEF UpSees, Goto, Report, host, command
  <1>16. ASSUME NEW c \in Cmd, UpGivesUp(c) PROVE ReportsLast'
    BY <1>16 DEF UpGivesUp, Goto, Report, host, command
  <1>17. ASSUME NEW c \in Cmd, DownFinds(c) PROVE ReportsLast'
    BY <1>17 DEF DownFinds, Goto, Report, host, command
  <1>18. ASSUME NEW c \in Cmd, DownOpens(c) PROVE ReportsLast'
    BY <1>18 DEF DownOpens, Goto, Report, host, command
  <1>25. ASSUME NEW c \in Cmd, DownAsks(c) PROVE ReportsLast'
    BY <1>25 DEF DownAsks, Goto, host, command
  <1>19. ASSUME NEW c \in Cmd, DownPosts(c) PROVE ReportsLast'
    BY <1>19 DEF DownPosts, Goto, Report, host, command
  <1>20. ASSUME NEW c \in Cmd, DownSeesEnd(c) PROVE ReportsLast'
    BY <1>20 DEF DownSeesEnd, Goto, Report, host, command
  <1>21. ASSUME NEW c \in Cmd, DownGivesUp(c) PROVE ReportsLast'
    BY <1>21 DEF DownGivesUp, Goto, Report, host, command
  <1>22. ASSUME NEW c \in Cmd, Status(c) PROVE ReportsLast'
    BY <1>22 DEF Status, Goto, Report, host, command
  <1>23. ASSUME NEW c \in Cmd, UpSpawns(c) PROVE ReportsLast'
    BY <1>23 DEF UpSpawns, Goto, Report, Move, host, command
  <1>24. CASE UNCHANGED vars
    BY <1>24 DEF vars, host, command
  <1>. QED
    BY <1>1, <1>2, <1>3, <1>4, <1>5, <1>6, <1>7, <1>8, <1>9, <1>10, <1>11, <1>12, <1>13, <1>14,
       <1>15, <1>16, <1>17, <1>18, <1>19, <1>20, <1>21, <1>22, <1>23, <1>24, <1>25
       DEF Next, HostStep, CmdStep

\* An ended process stays so, and a command that has reported is over.
LEMMA WaitedStep ==
    ASSUME LtdeskTypeOK, ReportsLast, WaitedDownIsGone, [Next]_vars
    PROVE  WaitedDownIsGone'
  <1>. USE DEF LtdeskTypeOK, ReportsLast, WaitedDownIsGone, Proc
  <1>1. ASSUME NEW p \in Proc, Begin(p) PROVE WaitedDownIsGone'
    BY <1>1 DEF Begin, Move, host, command
  <1>2. ASSUME NEW p \in Proc, Second(p) PROVE WaitedDownIsGone'
    BY <1>2 DEF Second, Move, host, command
  <1>3. ASSUME NEW p \in Proc, Create(p) PROVE WaitedDownIsGone'
    BY <1>3 DEF Create, Move, host, command
  <1>4. ASSUME NEW p \in Proc, Enter(p) PROVE WaitedDownIsGone'
    BY <1>4 DEF Enter, Move, host, command
  <1>5. ASSUME NEW p \in Proc, TakePower(p) PROVE WaitedDownIsGone'
    BY <1>5 DEF TakePower, Takes, Power, host, command
  <1>6. ASSUME NEW p \in Proc, Halted(p) PROVE WaitedDownIsGone'
    BY <1>6 DEF Halted, Move, host, command
  <1>7. ASSUME NEW p \in Proc, TakeClose(p) PROVE WaitedDownIsGone'
    BY <1>7 DEF TakeClose, Takes, Shut, host, command
  <1>8. ASSUME NEW p \in Proc, Destroy(p) PROVE WaitedDownIsGone'
    BY <1>8 DEF Destroy, Move, host, command
  <1>9. ASSUME NEW p \in Proc, Leave(p) PROVE WaitedDownIsGone'
    BY <1>9 DEF Leave, Move, host, command
  <1>10. ASSUME NEW p \in Proc, UserStarts(p) PROVE WaitedDownIsGone'
    BY <1>10 DEF UserStarts, Move, host, command
  <1>11. ASSUME NEW p \in Proc, Click(p) PROVE WaitedDownIsGone'
    BY <1>11 DEF Click, Power, host, command
  <1>12. ASSUME NEW p \in Proc, Exit(p) PROVE WaitedDownIsGone'
    BY <1>12 DEF Exit, Shut, host, command
  <1>13. ASSUME NEW c \in Cmd, Given(c) PROVE WaitedDownIsGone'
    BY <1>13 DEF Given, Goto, host, command
  <1>14. ASSUME NEW c \in Cmd, UpFinds(c) PROVE WaitedDownIsGone'
    BY <1>14 DEF UpFinds, Goto, Report, host, command
  <1>15. ASSUME NEW c \in Cmd, UpSees(c) PROVE WaitedDownIsGone'
    BY <1>15 DEF UpSees, Goto, Report, host, command
  <1>16. ASSUME NEW c \in Cmd, UpGivesUp(c) PROVE WaitedDownIsGone'
    BY <1>16 DEF UpGivesUp, Goto, Report, host, command
  <1>17. ASSUME NEW c \in Cmd, DownFinds(c) PROVE WaitedDownIsGone'
    BY <1>17 DEF DownFinds, Goto, Report, host, command
  <1>18. ASSUME NEW c \in Cmd, DownOpens(c) PROVE WaitedDownIsGone'
    BY <1>18 DEF DownOpens, Goto, Report, host, command
  <1>25. ASSUME NEW c \in Cmd, DownAsks(c) PROVE WaitedDownIsGone'
    BY <1>25 DEF DownAsks, Goto, host, command
  <1>19. ASSUME NEW c \in Cmd, DownPosts(c) PROVE WaitedDownIsGone'
    BY <1>19 DEF DownPosts, Goto, Report, host, command
  <1>20. ASSUME NEW c \in Cmd, DownSeesEnd(c) PROVE WaitedDownIsGone'
    BY <1>20 DEF DownSeesEnd, Goto, Report, host, command
  <1>21. ASSUME NEW c \in Cmd, DownGivesUp(c) PROVE WaitedDownIsGone'
    BY <1>21 DEF DownGivesUp, Goto, Report, host, command
  <1>22. ASSUME NEW c \in Cmd, Status(c) PROVE WaitedDownIsGone'
    BY <1>22 DEF Status, Goto, Report, host, command
  <1>23. ASSUME NEW c \in Cmd, UpSpawns(c) PROVE WaitedDownIsGone'
    BY <1>23 DEF UpSpawns, Goto, Report, Move, host, command
  <1>24. CASE UNCHANGED vars
    BY <1>24 DEF vars, host, command
  <1>. QED
    BY <1>1, <1>2, <1>3, <1>4, <1>5, <1>6, <1>7, <1>8, <1>9, <1>10, <1>11, <1>12, <1>13, <1>14,
       <1>15, <1>16, <1>17, <1>18, <1>19, <1>20, <1>21, <1>22, <1>23, <1>24, <1>25
       DEF Next, HostStep, CmdStep

LEMMA LtdeskStep == LtdeskInv /\ [Next]_vars => LtdeskInv'
  BY LtdeskTypeStep, AloneStep, ReportsLastStep, WaitedStep DEF LtdeskInv

\* The inductive invariant.
THEOREM LtdeskInductive == Spec => []LtdeskInv
  BY LtdeskInit, LtdeskStep, PTL DEF Spec

\* Every variable keeps its type; no message waits at a window that is gone.
THEOREM LtdeskTyped == Spec => []LtdeskTypeOK
  <1>1. LtdeskInv => LtdeskTypeOK
    BY DEF LtdeskInv
  <1>. QED
    BY <1>1, LtdeskInductive, PTL

\* One host with a window, however many are started and whenever one leaves.
THEOREM OneHostOnly == Spec => []OneHost
  <1>1. LtdeskInv => OneHost
    BY DEF LtdeskInv, Alone, First, OneHost, Window
  <1>. QED
    BY <1>1, LtdeskInductive, PTL

\* A `down' that waited for a process and reports it stopped has seen it end.
THEOREM DownIsBelieved == Spec => []WaitedDownIsGone
  <1>1. LtdeskInv => WaitedDownIsGone
    BY DEF LtdeskInv
  <1>. QED
    BY <1>1, LtdeskInductive, PTL

=============================================================================
