--------------------- MODULE KinectTestMainFrame_proofs ---------------------
(***************************************************************************)
(* Safety of KinectTestMainFrame for any number of clicks.  Each part of   *)
(* the invariant says what a call leaves behind where another handler may  *)
(* run, or another call begin.                                             *)
(***************************************************************************)
EXTENDS KinectTestMainFrame, TLAPS

USE ConstantsAssumption DEF Ids

\* Call 2 runs inside a wxYield of call 1, and only after a click there.
StackInv ==
  /\ calls = 2 => pc[1] \in {"stopping", "deleting"} /\ reentered
  /\ closed => calls = 0
  /\ \A c \in 1..2 : c > calls => pc[c] = "test" /\ then[c] = "return"
  /\ \A c \in 1..2 : pc[c] = "create" => then[c] = "create"
  /\ then[2] # "quit"

\* Every grabber made, or still to be made by a running call, has had its click.
Due(c) == IF then[c] = "create" THEN 1 ELSE 0
ClickInv == created + Due(1) + Due(2) <= clicks

\* m_Grabber is never left pointing at a deleted grabber; past wxDELETE it is
\* NULL, past StopGrabbing m_DataSender is too.  Delete is called after Stop.
PointerInv ==
  /\ m_Grabber # 0 => m_Grabber \in exists
  /\ \A c \in 1..2 : calls = c =>
       /\ pc[c] \in {"sender", "deletesender", "create"} => m_Grabber = 0
       /\ pc[c] = "deletesender" => m_DataSender \in told
       /\ pc[c] = "create" => m_DataSender = 0
  /\ closed => m_Grabber = 0 /\ m_DataSender = 0
  /\ SenderIsOwned

\* Without a nested click a call stops and deletes the grabber it began with.
OwnerInv ==
  ~reentered =>
    /\ exists \subseteq {m_Grabber}
    /\ \A g \in Ids : thread[g] = "alive" => g = m_Grabber
    /\ calls = 1 /\ pc[1] \in {"stopping", "deleting"}
         => this[1] = m_Grabber /\ m_Grabber # 0 /\ thread[m_Grabber] = "none"

\* ... and, while no thread has failed, an open device has a live thread, except
\* between the two halves of Stop.
DeviceInv ==
  ~reentered /\ ~failed =>
    /\ registered \subseteq {m_Grabber}
    /\ \A g \in Ids : thread[g] = "alive" => g \in registered
    /\ ~(calls = 1 /\ pc[1] = "stopping") => \A g \in registered : thread[g] = "alive"

IInv == TypeOK /\ StackInv /\ ClickInv /\ PointerInv /\ OwnerInv /\ DeviceInv

LEMMA InitInv == Init => IInv
<1>1. Init => FlagsOK
  BY Zenon DEF Init, FlagsOK
<1>2. QED
  BY <1>1 DEF Init, IInv, TypeOK, StackInv, ClickInv, Due, PointerInv, OwnerInv, DeviceInv,
              SenderIsOwned

\* The flags stay Boolean.
LEMMA FlagsStep ==
  ASSUME FlagsOK, [Next]_vars
  PROVE  FlagsOK'
<1> USE DEF FlagsOK, call, grabber, sender, history
<1>1. CASE CloseFrame
  BY <1>1, Zenon DEF CloseFrame, Enter
<1>2. CASE OnSkeletonFrame
  BY <1>2, Zenon DEF OnSkeletonFrame
<1>3. ASSUME NEW next \in {"return", "create"}, Click(next)
      PROVE  FlagsOK'
  BY <1>3, Zenon DEF Click, Enter
<1>4. ASSUME NEW c \in 1..2, TestGrabber(c)
      PROVE  FlagsOK'
  BY <1>4, Zenon DEF TestGrabber, BeginDelete, Goto
<1>5. ASSUME NEW c \in 1..2, CloseDevice(c)
      PROVE  FlagsOK'
  BY <1>5, Zenon DEF CloseDevice, BeginDelete, Goto
<1>6. ASSUME NEW c \in 1..2, DeleteGrabber(c)
      PROVE  FlagsOK'
  BY <1>6, Zenon DEF DeleteGrabber, Goto
<1>7. ASSUME NEW c \in 1..2, StopSender(c)
      PROVE  FlagsOK'
  BY <1>7, Zenon DEF StopSender, ForgetSender, Goto, Leave
<1>7a. ASSUME NEW c \in 1..2, DeleteSender(c)
      PROVE  FlagsOK'
  BY <1>7a, Zenon DEF DeleteSender, ForgetSender, Goto, Leave
<1>8. ASSUME NEW c \in 1..2, Create(c)
      PROVE  FlagsOK'
  BY <1>8, Zenon DEF Create, Goto, Leave
<1>9. ASSUME NEW c \in 1..2, CreateSenderFails(c)
      PROVE  FlagsOK'
  BY <1>9, Zenon DEF CreateSenderFails
<1>10. ASSUME NEW g \in Ids, ThreadFails(g)
      PROVE  FlagsOK'
  BY <1>10, Zenon DEF ThreadFails
<1>11. ASSUME NEW g \in Ids, ReadSkeletonFrame(g)
      PROVE  FlagsOK'
  BY <1>11, Zenon DEF ReadSkeletonFrame
<1>12. ASSUME NEW g \in Ids, CallbackOnDeleted(g)
      PROVE  FlagsOK'
  BY <1>12, Zenon DEF CallbackOnDeleted
<1>12a. ASSUME NEW n \in Ids, SenderEnds(n)
      PROVE  FlagsOK'
  BY <1>12a, Zenon DEF SenderEnds
<1>12b. CASE OnDepthFrameWithoutSender
  BY <1>12b, Zenon DEF OnDepthFrameWithoutSender
<1>13. CASE UNCHANGED vars
  BY <1>13, Zenon DEF vars
<1>14. QED
  BY <1>1, <1>2, <1>3, <1>4, <1>5, <1>6, <1>7, <1>7a, <1>8, <1>9, <1>10,
     <1>11, <1>12, <1>12a, <1>12b, <1>13
  DEF Next, UserEvent, EventThread, Continue

\* The invariant is inductive.
LEMMA InvStep ==
  ASSUME IInv, [Next]_vars
  PROVE  IInv'
<1> FlagsOK'
  BY FlagsStep DEF IInv, TypeOK
<1> USE DEF IInv, TypeOK, StackInv, ClickInv, Due, PointerInv, OwnerInv, DeviceInv,
            SenderIsOwned, Dispatching, Running, Memory, IsStarted, call, grabber, sender, history
<1>1. CASE CloseFrame
  BY <1>1 DEF CloseFrame, Enter
<1>2. CASE OnSkeletonFrame
  BY <1>2 DEF OnSkeletonFrame
<1>3. ASSUME NEW next \in {"return", "create"}, Click(next)
      PROVE  IInv'
  <2>1. (calls = 1 => reentered') /\ (reentered => reentered')
    BY <1>3, Zenon DEF Click
  <2>2. TypeOK'
    BY <1>3, <2>1 DEF Click, Enter
  <2>3. StackInv'
    BY <1>3, <2>1 DEF Click, Enter
  <2>4. ClickInv'
    BY <1>3, <2>1 DEF Click, Enter
  <2>5. PointerInv'
    BY <1>3, <2>1 DEF Click, Enter
  <2>6. OwnerInv'
    BY <1>3, <2>1 DEF Click, Enter
  <2>7. DeviceInv'
    BY <1>3, <2>1 DEF Click, Enter
  <2>8. QED
    BY <2>2, <2>3, <2>4, <2>5, <2>6, <2>7
<1>4. ASSUME NEW c \in 1..2, TestGrabber(c)
      PROVE  IInv'
  BY <1>4 DEF TestGrabber, BeginDelete, Goto
<1>5. ASSUME NEW c \in 1..2, CloseDevice(c)
      PROVE  IInv'
  BY <1>5 DEF CloseDevice, BeginDelete, Goto
<1>6. ASSUME NEW c \in 1..2, DeleteGrabber(c)
      PROVE  IInv'
  BY <1>6 DEF DeleteGrabber, Goto
<1>7. ASSUME NEW c \in 1..2, StopSender(c)
      PROVE  IInv'
  <2>1. CASE /\ m_DataSender \in senders
             /\ told' = told \cup {m_DataSender} /\ pc' = [pc EXCEPT ![c] = "deletesender"]
             /\ UNCHANGED <<calls, this, then, m_DataSender, closed, crashed>>
    <3>1. calls = c /\ pc[c] = "sender"
          /\ UNCHANGED <<backend, grabber, senders, skeleton, clicks, created, history>>
      BY <1>7, Zenon DEF StopSender
    <3>2. QED
      BY <2>1, <3>1
  <2>2. CASE m_DataSender \notin senders /\ ForgetSender(c) /\ UNCHANGED told
    <3>1. calls = c /\ pc[c] = "sender"
          /\ UNCHANGED <<backend, grabber, senders, skeleton, clicks, created, history>>
      BY <1>7, Zenon DEF StopSender
    <3>2. closed' <=> closed \/ then[c] = "quit"
      BY <2>2, Zenon DEF ForgetSender
    <3>3. TypeOK'
      BY <2>2, <3>1, <3>2 DEF ForgetSender, Goto, Leave
    <3>4. StackInv'
      BY <2>2, <3>1, <3>2 DEF ForgetSender, Goto, Leave
    <3>5. ClickInv'
      BY <2>2, <3>1, <3>2 DEF ForgetSender, Goto, Leave
    <3>6. PointerInv'
      BY <2>2, <3>1, <3>2 DEF ForgetSender, Goto, Leave
    <3>7. OwnerInv'
      BY <2>2, <3>1, <3>2 DEF ForgetSender, Goto, Leave
    <3>8. DeviceInv'
      BY <2>2, <3>1, <3>2 DEF ForgetSender, Goto, Leave
    <3>9. QED
      BY <3>3, <3>4, <3>5, <3>6, <3>7, <3>8
  <2>3. QED
    BY <1>7, <2>1, <2>2, Zenon DEF StopSender, Goto
<1>7a. ASSUME NEW c \in 1..2, DeleteSender(c)
      PROVE  IInv'
  <2>1. closed' <=> closed \/ then[c] = "quit"
    BY <1>7a, Zenon DEF DeleteSender, ForgetSender
  <2>2. TypeOK'
    BY <1>7a, <2>1 DEF DeleteSender, ForgetSender, Goto, Leave
  <2>3. StackInv'
    BY <1>7a, <2>1 DEF DeleteSender, ForgetSender, Goto, Leave
  <2>4. ClickInv'
    BY <1>7a, <2>1 DEF DeleteSender, ForgetSender, Goto, Leave
  <2>5. PointerInv'
    BY <1>7a, <2>1 DEF DeleteSender, ForgetSender, Goto, Leave
  <2>6. OwnerInv'
    BY <1>7a, <2>1 DEF DeleteSender, ForgetSender, Goto, Leave
  <2>7. DeviceInv'
    BY <1>7a, <2>1 DEF DeleteSender, ForgetSender, Goto, Leave
  <2>8. QED
    BY <2>2, <2>3, <2>4, <2>5, <2>6, <2>7
<1>8. ASSUME NEW c \in 1..2, Create(c)
      PROVE  IInv'
  <2>1. created + 1 \in Ids
    <3>1. Due(1) + Due(2) >= 1
      BY <1>8 DEF Create
    <3>2. QED
      BY <3>1
  <2>2. m_Grabber = 0 /\ senders \subseteq told /\ calls = c /\ pc[c] = "create"
    BY <1>8 DEF Create
  <2>3. TypeOK'
    <3>1. thread' \in [Ids -> {"none", "alive", "ended"}]
      BY <1>8, <2>1 DEF Create
    <3>2. registered' \subseteq Ids /\ exists' \subseteq Ids /\ senders' \subseteq Ids
          /\ told' \subseteq Ids
      BY <1>8, <2>1 DEF Create
    <3>3. /\ calls' \in 0..2 /\ this' \in [1..2 -> 0..MaxClicks]
          /\ pc' \in [1..2 -> {"test", "stopping", "deleting", "sender", "deletesender", "create"}]
          /\ then' \in [1..2 -> {"return", "create", "quit"}]
      BY <1>8, <2>2 DEF Create, Goto, Leave
    <3>4. QED
      BY <1>8, <2>1, <3>1, <3>2, <3>3 DEF Create
  <2>4. StackInv'
    BY <1>8, <2>1, <2>2 DEF Create, Goto, Leave
  <2>5. ClickInv'
    BY <1>8, <2>1, <2>2 DEF Create, Goto, Leave
  <2>6. PointerInv'
    BY <1>8, <2>1, <2>2 DEF Create, Goto, Leave
  <2>7. OwnerInv'
    BY <1>8, <2>1, <2>2 DEF Create, Goto, Leave
  <2>8. DeviceInv'
    <3>1. ~reentered /\ ~failed => registered = {} /\ \A g \in Ids : thread[g] # "alive"
      BY <2>2
    <3>2. m_Grabber' = created + 1
      BY <1>8 DEF Create
    <3>3. \/ thread' = [thread EXCEPT ![created + 1] = "alive"]
             /\ registered' = registered \cup {created + 1}
          \/ UNCHANGED <<thread, registered>>
      BY <1>8 DEF Create
    <3>4. UNCHANGED <<reentered, failed>>
      BY <1>8 DEF Create
    <3> HIDE DEF TypeOK, StackInv, PointerInv, OwnerInv
    <3>5. thread \in [Ids -> {"none", "alive", "ended"}]
      BY DEF TypeOK
    <3>6. QED
      BY <2>1, <3>1, <3>2, <3>3, <3>4, <3>5
  <2>9. QED
    BY <2>3, <2>4, <2>5, <2>6, <2>7, <2>8
<1>9. ASSUME NEW c \in 1..2, CreateSenderFails(c)
      PROVE  IInv'
  BY <1>9 DEF CreateSenderFails
<1>10. ASSUME NEW g \in Ids, ThreadFails(g)
      PROVE  IInv'
  BY <1>10 DEF ThreadFails
<1>11. ASSUME NEW g \in Ids, ReadSkeletonFrame(g)
      PROVE  IInv'
  BY <1>11 DEF ReadSkeletonFrame
<1>12. ASSUME NEW g \in Ids, CallbackOnDeleted(g)
      PROVE  IInv'
  BY <1>12 DEF CallbackOnDeleted
<1>12a. ASSUME NEW n \in Ids, SenderEnds(n)
      PROVE  IInv'
  BY <1>12a DEF SenderEnds
<1>12b. CASE OnDepthFrameWithoutSender
  BY <1>12b DEF OnDepthFrameWithoutSender
<1>13. CASE UNCHANGED vars
  BY <1>13 DEF vars
<1> HIDE DEF IInv
<1>14. QED
  BY <1>1, <1>2, <1>3, <1>4, <1>5, <1>6, <1>7, <1>7a, <1>8, <1>9, <1>10,
     <1>11, <1>12, <1>12a, <1>12b, <1>13
  DEF Next, UserEvent, EventThread, Continue

\* The inductive invariant holds in every reachable state.
THEOREM Invariance == Spec => []IInv
  BY InitInv, InvStep, PTL DEF Spec

\* Every variable keeps to its type, for any number of clicks.
THEOREM TypeCorrect == Spec => []TypeOK
<1>1. IInv => TypeOK
  BY DEF IInv
<1>2. QED
  BY Invariance, <1>1, PTL

\* No handler finds m_Grabber pointing at a deleted grabber.
THEOREM GrabberPointerValid == Spec => []GrabberPointerIsValid
<1>1. IInv => GrabberPointerIsValid
  BY DEF IInv, PointerInv, GrabberPointerIsValid
<1>2. QED
  BY Invariance, <1>1, PTL

\* Every sender that runs without having been told to end is m_DataSender's.
THEOREM SenderOwned == Spec => []SenderIsOwned
<1>1. IInv => SenderIsOwned
  BY DEF IInv, PointerInv
<1>2. QED
  BY Invariance, <1>1, PTL

\* Without nested clicks no grabber is orphaned.
THEOREM GrabberOwned == Spec => []GrabberIsOwned
<1>1. IInv => GrabberIsOwned
  BY DEF IInv, OwnerInv, GrabberIsOwned
<1>2. QED
  BY Invariance, <1>1, PTL

\* Without nested clicks and failed threads every open device has its grabber.
THEOREM DeviceHasGrabber == Spec => []OpenDeviceHasGrabber
<1>1. IInv => OpenDeviceHasGrabber
  BY DEF IInv, TypeOK, PointerInv, DeviceInv, OpenDeviceHasGrabber
<1>2. QED
  BY Invariance, <1>1, PTL

\* With the same two exceptions, once the frame is gone no device is open, no event
\* thread runs and every sender that still runs was told to end.
THEOREM QuitTold == Spec => []QuitTellsAll
<1>1. IInv => QuitTellsAll
  BY DEF IInv, TypeOK, PointerInv, SenderIsOwned, StackInv, OwnerInv, DeviceInv,
         QuitTellsAll
<1>2. QED
  BY Invariance, <1>1, PTL

\* The four together.
THEOREM NoOrphans == Spec => []NothingIsOrphaned
<1>1. SenderIsOwned /\ GrabberIsOwned /\ OpenDeviceHasGrabber /\ QuitTellsAll
        => NothingIsOrphaned
  BY DEF NothingIsOrphaned
<1>2. QED
  BY SenderOwned, GrabberOwned, DeviceHasGrabber, QuitTold, <1>1, PTL
=============================================================================
