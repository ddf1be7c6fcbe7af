----------------------- MODULE KinectGrabberMSW_proofs -----------------------
(***************************************************************************)
(* Safety of KinectGrabberMSW for any number of frames.                    *)
(***************************************************************************)
EXTENDS KinectGrabberMSW, TLAPS

USE MaxFramesAssumption

\* The thread lives inside Start .. Stop, and so do the events it waits for.
LifeInv ==
  /\ thread = "alive" => phase \in {"started", "joining"}
  /\ phase = "started" => thread = "alive"
  /\ phase \in {"new", "started"} => ~cancel
  /\ phase \in {"started", "joining", "yield"} => handles = Streams /\ named = Streams
  /\ phase = "stopped" => handles = {}
  /\ tpc = "write" => read[cur] \in 1..MaxFrames

\* The thread is writing the buffer of s or has it to announce.
Busy(s) == tpc \in {"write", "post"} /\ cur = s

\* An idle buffer without an event is what the picture shows, or what the handler
\* that is copying began with.
QuietInv ==
  phase \in {"new", "started"} =>
    \A s \in Streams :
      events[s] = 0 /\ ~Busy(s) => IF gpc = s THEN copied = buffer[s] ELSE image[s] = buffer[s]

IInv == TypeOK /\ LifeInv /\ QuietInv

LEMMA InitInv == Init => IInv
<1>1. Init => FlagOK
  BY Zenon DEF Init, FlagOK
<1>2. QED
  BY <1>1 DEF Init, IInv, TypeOK, LifeInv, QuietInv, Busy, Zero, Streams, Depth, Color, Skeleton

\* The flag stays Boolean.
LEMMA FlagStep ==
  ASSUME FlagOK, [Next]_vars
  PROVE  FlagOK'
<1> USE DEF FlagOK, gui, entry, sdk, frames
<1>1. CASE Start
  BY <1>1, Zenon DEF Start
<1>2. CASE Stop
  BY <1>2, Zenon DEF Stop
<1>3. CASE Joined
  BY <1>3, Zenon DEF Joined
<1>4. CASE CloseEvents
  BY <1>4, Zenon DEF CloseEvents
<1>5. CASE Delete
  BY <1>5, Zenon DEF Delete
<1>6. CASE EndGrab
  BY <1>6, Zenon DEF EndGrab
<1>7. CASE TestDestroy
  BY <1>7, Zenon DEF TestDestroy
<1>8. CASE Wait
  BY <1>8, Zenon DEF Wait
<1>9. CASE ReadFrame
  BY <1>9, Zenon DEF ReadFrame
<1>10. CASE WriteBuffer
  BY <1>10, Zenon DEF WriteBuffer
<1>11. CASE Post
  BY <1>11, Zenon DEF Post
<1>12. ASSUME NEW s \in Streams, BeginGrab(s) PROVE FlagOK'
  BY <1>12, Zenon DEF BeginGrab
<1>13. ASSUME NEW s \in Streams, Deliver(s) PROVE FlagOK'
  BY <1>13, Zenon DEF Deliver
<1>14. CASE UNCHANGED vars
  BY <1>14, Zenon DEF vars
<1>15. QED
  BY <1>1, <1>2, <1>3, <1>4, <1>5, <1>6, <1>7, <1>8, <1>9, <1>10, <1>11, <1>12, <1>13, <1>14
  DEF Next, StopContinues, ThreadStep

\* The invariant is inductive.
LEMMA InvStep ==
  ASSUME IInv, [Next]_vars
  PROVE  IInv'
<1> FlagOK'
  BY FlagStep DEF IInv, TypeOK
<1> USE DEF IInv, TypeOK, LifeInv, QuietInv, Busy, HandlersRun, gui, entry, sdk, frames,
            Streams, Depth, Color, Skeleton
<1>1. CASE Start
  BY <1>1 DEF Start
<1>2. CASE Stop
  BY <1>2 DEF Stop
<1>3. CASE Joined
  BY <1>3 DEF Joined
<1>4. CASE CloseEvents
  BY <1>4 DEF CloseEvents
<1>5. CASE Delete
  BY <1>5 DEF Delete
<1>6. CASE EndGrab
  BY <1>6 DEF EndGrab
<1>7. CASE TestDestroy
  BY <1>7 DEF TestDestroy
<1>8. CASE Wait
  BY <1>8 DEF Wait
<1>9. CASE ReadFrame
  BY <1>9 DEF ReadFrame
<1>10. CASE WriteBuffer
  BY <1>10 DEF WriteBuffer
<1>11. CASE Post
  BY <1>11 DEF Post
<1>12. ASSUME NEW s \in Streams, BeginGrab(s) PROVE IInv'
  BY <1>12 DEF BeginGrab
<1>13. ASSUME NEW s \in Streams, Deliver(s) PROVE IInv'
  BY <1>13 DEF Deliver
<1>14. CASE UNCHANGED vars
  BY <1>14 DEF vars
<1> HIDE DEF IInv
<1>15. QED
  BY <1>1, <1>2, <1>3, <1>4, <1>5, <1>6, <1>7, <1>8, <1>9, <1>10, <1>11, <1>12, <1>13, <1>14
  DEF Next, StopContinues, ThreadStep

\* The inductive invariant holds in every reachable state.
THEOREM Invariance == Spec => []IInv
  BY InitInv, InvStep, PTL DEF Spec

\* Every variable keeps to its type, for any number of frames.
THEOREM TypeCorrect == Spec => []TypeOK
<1>1. IInv => TypeOK
  BY DEF IInv
<1>2. QED
  BY Invariance, <1>1, PTL

\* The thread waits for events that exist, and Stop leaves none behind.
THEOREM HandlesOutlive == Spec => []HandlesOutliveThread
<1>1. IInv => HandlesOutliveThread
  BY DEF IInv, LifeInv, HandlesOutliveThread
<1>2. QED
  BY Invariance, <1>1, PTL

\* A picture without events shows the whole of what its buffer holds.
THEOREM QuietIsWhole == Spec => []QuietPictureIsWhole
<1>1. IInv => QuietPictureIsWhole
  BY DEF IInv, QuietInv, Busy, QuietPictureIsWhole
<1>2. QED
  BY Invariance, <1>1, PTL
=============================================================================
