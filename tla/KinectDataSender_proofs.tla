---------------------- MODULE KinectDataSender_proofs ----------------------
(***************************************************************************)
(* Safety of KinectDataSender for any number of frames.  The argument: the *)
(* flag m_bDataPrepared, not the critical section, keeps SendKinectData    *)
(* away from a frame the sender has in its hands, until Stop, after which  *)
(* no frame is offered any more.                                           *)
(***************************************************************************)
EXTENDS KinectDataSender, TLAPS

USE MaxFramesAssumption

\* m_cs is held exactly in the two critical sections.
LockInv ==
  /\ cs = "gui" <=> gpc \in {"copy", "notify"}
  /\ cs = "sender" <=> \/ job = "frame" /\ spc \in SendPcs
                       \/ spc = "unlock"

\* From the test of m_bDataPrepared until the flag is cleared.
FrameBusy == spc = "lock" \/ (job = "frame" /\ spc \in SendPcs)

StopPassedDiscard == gpc \in {"stopnotify", "delete", "done"}

SlotInv ==
  /\ gpc \in {"enter", "copy"} => ~prepared /\ accepted < MaxFrames
  /\ FrameBusy => prepared \/ StopPassedDiscard
  /\ prepared \/ FrameBusy => rawData = accepted /\ accepted # 0
  /\ job = "frame" /\ spc \in {"make", "request"} => payload = accepted

\* What was handed over is not newer than the slot, and older than a frame that
\* has yet to be handed over.
HandedInv ==
  /\ \A i \in DOMAIN handed : handed[i] # 0 /\ handed[i] <= accepted
  /\ (prepared \/ FrameInHand) /\ ~(job = "frame" /\ spc \in {"dispatch", "after"})
       => \A i \in DOMAIN handed : handed[i] < accepted
  /\ HandedOnceInOrder

ControlInv == TypeOK /\ LockInv /\ SlotInv

IInv == ControlInv /\ HandedInv

-----------------------------------------------------------------------------
LEMMA InitInv == Init => IInv
<1>1. Init => FlagsOK
  BY Zenon DEF Init, Constructed, FlagsOK
<1>2. Init => IInv
  BY <1>1 DEF Init, Constructed, IInv, ControlInv, TypeOK, LockInv, SlotInv, HandedInv, FrameBusy,
              FrameInHand, HandedOnceInOrder, GuiPcs, SpcSet, SendPcs
<1>3. QED
  BY <1>2

\* The flags stay Boolean.
LEMMA FlagsStep ==
  ASSUME FlagsOK, [Next]_vars
  PROVE  FlagsOK'
<1> USE DEF FlagsOK, sharedFlags, http
<1>1. CASE SendKinectData
  BY <1>1, Zenon DEF SendKinectData
<1>2. CASE ReplaceBuffer
  BY <1>2, Zenon DEF ReplaceBuffer
<1>3. CASE Publish
  BY <1>3, Zenon DEF Publish
<1>4. CASE Notify
  BY <1>4, Zenon DEF Notify, Wake
<1>5. CASE Stop
  BY <1>5, Zenon DEF Stop
<1>6. CASE ForgetConnection
  BY <1>6, Zenon DEF ForgetConnection
<1>7. CASE Discard
  BY <1>7, Zenon DEF Discard
<1>8. CASE StopNotify
  BY <1>8, Zenon DEF StopNotify, Wake
<1>9. CASE Delete
  BY <1>9, Zenon DEF Delete
<1>10. CASE Start
  BY <1>10, Zenon DEF Start
<1>11. CASE Loop
  BY <1>11, Zenon DEF Loop
<1>12. CASE Wait
  BY <1>12, Zenon DEF Wait
<1>13. CASE Woken
  BY <1>13, Zenon DEF Woken
<1>14. CASE Lock
  BY <1>14, Zenon DEF Lock
<1>15. CASE FillRequest
  BY <1>15, Zenon DEF FillRequest
<1>16. CASE RecheckConnection
  BY <1>16, Zenon DEF RecheckConnection
<1>17. CASE MakeRequest
  BY <1>17, Zenon DEF MakeRequest
<1>18. CASE UseFreedConnection
  BY <1>18, Zenon DEF UseFreedConnection
<1>19. CASE OnRequestDone
  BY <1>19, Zenon DEF OnRequestDone
<1>20. CASE DispatchReturns
  BY <1>20, Zenon DEF DispatchReturns
<1>21. CASE FinishSend
  BY <1>21, Zenon DEF FinishSend
<1>22. CASE Unlock
  BY <1>22, Zenon DEF Unlock
<1>23. CASE Exit
  BY <1>23, Zenon DEF Exit
<1>24. CASE SpuriousWakeup
  BY <1>24, Zenon DEF SpuriousWakeup
<1>25. CASE GuiCrash
  BY <1>25, Zenon DEF GuiCrash
<1>26. CASE UNCHANGED vars
  BY <1>26, Zenon DEF vars
<1>27. QED
  BY <1>1, <1>2, <1>3, <1>4, <1>5, <1>6, <1>7, <1>8, <1>9, <1>10, <1>11,
     <1>12, <1>13, <1>14, <1>15, <1>16, <1>17, <1>18, <1>19, <1>20, <1>21,
     <1>22, <1>23, <1>24, <1>25, <1>26
  DEF Next, GuiContinues, SenderStep

\* The control part is inductive by itself.
LEMMA ControlInvStep ==
  ASSUME ControlInv, [Next]_vars
  PROVE  ControlInv'
<1> FlagsOK'
  BY FlagsStep DEF ControlInv, TypeOK
<1> USE DEF ControlInv, TypeOK, LockInv, SlotInv, FrameBusy, StopPassedDiscard,
            GuiPcs, SpcSet, SendPcs, sharedFlags, http, history
<1>1. CASE SendKinectData
  BY <1>1 DEF SendKinectData
<1>2. CASE ReplaceBuffer
  BY <1>2 DEF ReplaceBuffer
<1>3. CASE Publish
  BY <1>3 DEF Publish
<1>4. CASE Notify
  BY <1>4 DEF Notify, Wake
<1>5. CASE Stop
  BY <1>5 DEF Stop
<1>6. CASE ForgetConnection
  BY <1>6 DEF ForgetConnection
<1>7. CASE Discard
  BY <1>7 DEF Discard
<1>8. CASE StopNotify
  BY <1>8 DEF StopNotify, Wake
<1>9. CASE Delete
  BY <1>9 DEF Delete
<1>10. CASE Start
  BY <1>10 DEF Start
<1>11. CASE Loop
  BY <1>11 DEF Loop
<1>12. CASE Wait
  BY <1>12 DEF Wait
<1>13. CASE Woken
  BY <1>13 DEF Woken
<1>14. CASE Lock
  BY <1>14 DEF Lock
<1>15. CASE FillRequest
  BY <1>15 DEF FillRequest
<1>16. CASE RecheckConnection
  BY <1>16 DEF RecheckConnection
<1>17. CASE MakeRequest
  BY <1>17 DEF MakeRequest
<1>18. CASE UseFreedConnection
  BY <1>18 DEF UseFreedConnection
<1>19. CASE OnRequestDone
  BY <1>19 DEF OnRequestDone
<1>20. CASE DispatchReturns
  BY <1>20 DEF DispatchReturns
<1>21. CASE FinishSend
  BY <1>21 DEF FinishSend
<1>22. CASE Unlock
  BY <1>22 DEF Unlock
<1>23. CASE Exit
  BY <1>23 DEF Exit
<1>24. CASE SpuriousWakeup
  BY <1>24 DEF SpuriousWakeup
<1>25. CASE GuiCrash
  BY <1>25 DEF GuiCrash
<1>26. CASE UNCHANGED vars
  BY <1>26 DEF vars
<1> HIDE DEF ControlInv
<1>27. QED
  BY <1>1, <1>2, <1>3, <1>4, <1>5, <1>6, <1>7, <1>8, <1>9, <1>10, <1>11,
     <1>12, <1>13, <1>14, <1>15, <1>16, <1>17, <1>18, <1>19, <1>20, <1>21,
     <1>22, <1>23, <1>24, <1>25, <1>26
  DEF Next, GuiContinues, SenderStep

\* The history of what was handed over; only MakeRequest adds to it.
LEMMA HandedInvStep ==
  ASSUME IInv, [Next]_vars
  PROVE  HandedInv'
<1> USE DEF IInv, ControlInv, TypeOK, LockInv, SlotInv, HandedInv, FrameBusy,
            FrameInHand, StopPassedDiscard, HandedOnceInOrder, GuiPcs, SpcSet,
            SendPcs, sharedFlags, http, history
<1>1. CASE SendKinectData
  BY <1>1 DEF SendKinectData
<1>2. CASE ReplaceBuffer
  BY <1>2 DEF ReplaceBuffer
<1>3. CASE Publish
  BY <1>3 DEF Publish
<1>4. CASE Notify
  BY <1>4 DEF Notify, Wake
<1>5. CASE Stop
  BY <1>5 DEF Stop
<1>6. CASE ForgetConnection
  BY <1>6 DEF ForgetConnection
<1>7. CASE Discard
  BY <1>7 DEF Discard
<1>8. CASE StopNotify
  BY <1>8 DEF StopNotify, Wake
<1>9. CASE Delete
  BY <1>9 DEF Delete
<1>10. CASE Start
  BY <1>10 DEF Start
<1>11. CASE Loop
  BY <1>11 DEF Loop
<1>12. CASE Wait
  BY <1>12 DEF Wait
<1>13. CASE Woken
  BY <1>13 DEF Woken
<1>14. CASE Lock
  BY <1>14 DEF Lock
<1>15. CASE FillRequest
  BY <1>15 DEF FillRequest
<1>16. CASE RecheckConnection
  BY <1>16 DEF RecheckConnection
<1>17. CASE MakeRequest
  <2>1. CASE handed' = Append(handed, payload) /\ job = "frame"
    <3>1. payload = accepted /\ accepted # 0 /\ accepted \in Nat
      BY <1>17, <2>1 DEF MakeRequest
    <3>2. \A i \in DOMAIN handed : handed[i] < payload
      BY <1>17, <2>1, <3>1 DEF MakeRequest
    <3>3. /\ DOMAIN handed' = 1..(Len(handed) + 1)
          /\ \A i \in DOMAIN handed : handed'[i] = handed[i]
          /\ handed'[Len(handed) + 1] = payload
          /\ DOMAIN handed = 1..Len(handed) /\ Len(handed) \in Nat
      BY <2>1
    <3>4. \A i \in DOMAIN handed' : handed'[i] # 0 /\ handed'[i] <= accepted
      BY <3>1, <3>2, <3>3
    <3>5. HandedOnceInOrder'
      BY <3>1, <3>2, <3>3
    <3>6. spc' = "dispatch" /\ job' = "frame" /\ accepted' = accepted
      BY <1>17, <2>1 DEF MakeRequest
    <3>7. QED
      BY <3>4, <3>5, <3>6
  <2>2. CASE UNCHANGED handed
    BY <1>17, <2>2 DEF MakeRequest
  <2>3. QED
    BY <1>17, <2>1, <2>2 DEF MakeRequest
<1>18. CASE UseFreedConnection
  BY <1>18 DEF UseFreedConnection
<1>19. CASE OnRequestDone
  BY <1>19 DEF OnRequestDone
<1>20. CASE DispatchReturns
  BY <1>20 DEF DispatchReturns
<1>21. CASE FinishSend
  BY <1>21 DEF FinishSend
<1>22. CASE Unlock
  BY <1>22 DEF Unlock
<1>23. CASE Exit
  BY <1>23 DEF Exit
<1>24. CASE SpuriousWakeup
  BY <1>24 DEF SpuriousWakeup
<1>25. CASE GuiCrash
  BY <1>25 DEF GuiCrash
<1>26. CASE UNCHANGED vars
  BY <1>26 DEF vars
<1> HIDE DEF HandedInv
<1>27. QED
  BY <1>1, <1>2, <1>3, <1>4, <1>5, <1>6, <1>7, <1>8, <1>9, <1>10, <1>11,
     <1>12, <1>13, <1>14, <1>15, <1>16, <1>17, <1>18, <1>19, <1>20, <1>21,
     <1>22, <1>23, <1>24, <1>25, <1>26
  DEF Next, GuiContinues, SenderStep

-----------------------------------------------------------------------------
\* The inductive invariant holds in every reachable state.
THEOREM Invariance == Spec => []IInv
<1>1. IInv /\ [Next]_vars => IInv'
  BY ControlInvStep, HandedInvStep DEF IInv
<1>2. QED
  BY InitInv, <1>1, PTL DEF Spec

\* Every variable keeps to its type, for every number of frames.
THEOREM TypeCorrect == Spec => []TypeOK
<1>1. IInv => TypeOK
  BY DEF IInv, ControlInv
<1>2. QED
  BY Invariance, <1>1, PTL

\* m_rawData is never sent while SendKinectData replaces it.
THEOREM WholeFrames == Spec => []HandedFramesAreWhole
<1>1. IInv => HandedFramesAreWhole
  BY DEF IInv, HandedInv, HandedFramesAreWhole
<1>2. QED
  BY Invariance, <1>1, PTL

\* No frame is sent twice, none overtakes another.
THEOREM OnceInOrder == Spec => []HandedOnceInOrder
<1>1. IInv => HandedOnceInOrder
  BY DEF IInv, HandedInv
<1>2. QED
  BY Invariance, <1>1, PTL

\* SendKinectData does not wait for the network.
THEOREM NoNetworkWait == Spec => []GuiNeverWaitsForNetwork
<1>1. IInv => GuiNeverWaitsForNetwork
  BY DEF IInv, ControlInv, LockInv, SlotInv, FrameBusy, StopPassedDiscard, SendPcs,
         GuiNeverWaitsForNetwork
<1>2. QED
  BY Invariance, <1>1, PTL

\* An accepted frame is not overwritten while m_bDataPrepared is set.
THEOREM FrameKept == Spec => AcceptedFrameIsKept
<1>1. IInv /\ [Next]_vars => [rawData' # rawData => ~prepared]_vars
  <2> SUFFICES ASSUME IInv, [Next]_vars, rawData' # rawData
               PROVE  ~prepared
    OBVIOUS
  <2>1. gpc \in {"enter", "copy"}
    BY DEF Next, vars, GuiContinues, SenderStep, sharedFlags, http, history,
           SendKinectData, ReplaceBuffer, Publish, Notify, Stop, ForgetConnection,
           Discard, StopNotify, Delete, Start, Loop, Wait, Woken, Lock, FillRequest,
           RecheckConnection, MakeRequest, UseFreedConnection, OnRequestDone,
           DispatchReturns, FinishSend, Unlock, Exit, SpuriousWakeup, GuiCrash
  <2>2. QED
    BY <2>1 DEF IInv, ControlInv, SlotInv
<1>2. QED
  BY Invariance, <1>1, PTL DEF Spec, AcceptedFrameIsKept

-----------------------------------------------------------------------------
\* Every step of the two threads is a step of the mailbox or leaves it alone.
LEMMA MailboxStep ==
  ASSUME IInv, [Next]_vars
  PROVE  [Mailbox!Next]_(Mailbox!vars)
<1> USE DEF IInv, ControlInv, TypeOK, LockInv, SlotInv, HandedInv, FrameBusy,
            FrameInHand, StopPassedDiscard, GuiPcs, SpcSet, SendPcs, sharedFlags,
            http, history, Mailbox!vars
<1>1. CASE SendKinectData
  BY <1>1 DEF SendKinectData
<1>2. CASE ReplaceBuffer
  BY <1>2 DEF ReplaceBuffer
<1>3. CASE Publish
  BY <1>3 DEF Publish, Mailbox!Next, Mailbox!Accept
<1>4. CASE Notify
  BY <1>4 DEF Notify, Wake
<1>5. CASE Stop
  BY <1>5 DEF Stop
<1>6. CASE ForgetConnection
  BY <1>6 DEF ForgetConnection
<1>7. CASE Discard
  BY <1>7 DEF Discard, Mailbox!Next, Mailbox!Release
<1>8. CASE StopNotify
  BY <1>8 DEF StopNotify, Wake
<1>9. CASE Delete
  BY <1>9 DEF Delete
<1>10. CASE Start
  BY <1>10 DEF Start
<1>11. CASE Loop
  BY <1>11 DEF Loop
<1>12. CASE Wait
  BY <1>12 DEF Wait
<1>13. CASE Woken
  BY <1>13 DEF Woken, Mailbox!Next, Mailbox!Take
<1>14. CASE Lock
  BY <1>14 DEF Lock
<1>15. CASE FillRequest
  BY <1>15 DEF FillRequest, Mailbox!Next, Mailbox!GiveUp
<1>16. CASE RecheckConnection
  BY <1>16 DEF RecheckConnection, Mailbox!Next, Mailbox!GiveUp
<1>17. CASE MakeRequest
  BY <1>17 DEF MakeRequest, Mailbox!Next, Mailbox!GiveUp, Mailbox!Hand
<1>18. CASE UseFreedConnection
  BY <1>18 DEF UseFreedConnection
<1>19. CASE OnRequestDone
  BY <1>19 DEF OnRequestDone
<1>20. CASE DispatchReturns
  BY <1>20 DEF DispatchReturns
<1>21. CASE FinishSend
  BY <1>21 DEF FinishSend, Mailbox!Next, Mailbox!Release
<1>22. CASE Unlock
  BY <1>22 DEF Unlock
<1>23. CASE Exit
  BY <1>23 DEF Exit
<1>24. CASE SpuriousWakeup
  BY <1>24 DEF SpuriousWakeup
<1>25. CASE GuiCrash
  BY <1>25 DEF GuiCrash
<1>26. CASE UNCHANGED vars
  BY <1>26 DEF vars
<1>27. QED
  BY <1>1, <1>2, <1>3, <1>4, <1>5, <1>6, <1>7, <1>8, <1>9, <1>10, <1>11,
     <1>12, <1>13, <1>14, <1>15, <1>16, <1>17, <1>18, <1>19, <1>20, <1>21,
     <1>22, <1>23, <1>24, <1>25, <1>26
  DEF Next, GuiContinues, SenderStep

\* The sender implements the one-place mailbox.
THEOREM Refinement == Spec => ImplementsMailbox
<1>1. Init => Mailbox!Init
  BY DEF Init, Constructed, Mailbox!Init, FrameInHand
<1>2. QED
  BY <1>1, Invariance, MailboxStep, PTL DEF Spec, ImplementsMailbox, Mailbox!Spec
=============================================================================
