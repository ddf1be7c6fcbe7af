------------------------ MODULE KinectServer_proofs ------------------------
(***************************************************************************)
(* Safety of KinectServer for any set of clients and any number of         *)
(* requests: polling _status replaces a join once Stop has found a base.   *)
(***************************************************************************)
EXTENDS KinectServer, TLAPS

USE ConstantsAssumption

\* _status brackets Execute; a base that can be found lies inside it.
StatusInv ==
  /\ StoppedMeansOutside
  /\ evbase = "set" => tpc \notin {"none", "begin", "newbase"}
  /\ mpc = "main" <=> tpc = "none"

\* Stop has run, and looked for the base, before main() polls.
FoundInv ==
  /\ found => tpc \notin {"none", "begin", "newbase"}
  /\ objects # {"server", "processor"} => mpc \in {"delete", "exited"}
  /\ found /\ mpc \in {"delete", "exited"} => tpc = "done"

IInv == TypeOK /\ StatusInv /\ FoundInv

LEMMA InitInv == Init => IInv
<1>1. Init => FlagsOK
  BY Zenon DEF Init, Constructed, FlagsOK
<1>2. QED
  BY <1>1 DEF Init, Constructed, IInv, TypeOK, StatusInv, FoundInv, StoppedMeansOutside, Packets,
              Frames

\* The flags stay Boolean.
LEMMA FlagsStep ==
  ASSUME FlagsOK, [Next]_vars
  PROVE  FlagsOK'
<1> USE DEF FlagsOK, base, server, clients
<1>1. CASE StartThread
  BY <1>1, Zenon DEF StartThread
<1>2. CASE Stop
  BY <1>2, Zenon DEF Stop
<1>3. CASE ForgetHttp
  BY <1>3, Zenon DEF ForgetHttp
<1>4. CASE LoopBreak
  BY <1>4, Zenon DEF LoopBreak
<1>5. CASE PollStatus
  BY <1>5, Zenon DEF PollStatus
<1>6. CASE DeleteServer
  BY <1>6, Zenon DEF DeleteServer
<1>7. CASE DeleteProcessorAndReturn
  BY <1>7, Zenon DEF DeleteProcessorAndReturn
<1>8. CASE MainCrash
  BY <1>8, Zenon DEF MainCrash
<1>9. CASE Begin
  BY <1>9, Zenon DEF Begin
<1>10. CASE NewBase
  BY <1>10, Zenon DEF NewBase
<1>11. CASE NewHttp
  BY <1>11, Zenon DEF NewHttp
<1>12. CASE Bind
  BY <1>12, Zenon DEF Bind
<1>12a. CASE SetCallback
  BY <1>12a, Zenon DEF SetCallback
<1>13. CASE Dispatch
  BY <1>13, Zenon DEF Dispatch
<1>14. CASE LoopTurn
  BY <1>14, Zenon DEF LoopTurn
<1>15. CASE Processed
  BY <1>15, Zenon DEF Processed
<1>16. CASE SendReply
  BY <1>16, Zenon DEF SendReply
<1>17. CASE WaitFails
  BY <1>17, Zenon DEF WaitFails
<1>18. CASE FreeBase
  BY <1>18, Zenon DEF FreeBase
<1>19. CASE ForgetBase
  BY <1>19, Zenon DEF ForgetBase
<1>20. CASE SetStopped
  BY <1>20, Zenon DEF SetStopped
<1>21. CASE ThreadCrash
  BY <1>21, Zenon DEF ThreadCrash
<1>22. ASSUME NEW c \in Clients, Accept(c)
      PROVE  FlagsOK'
  BY <1>22, Zenon DEF Accept
<1>23. ASSUME NEW c \in Clients, Hangup(c)
      PROVE  FlagsOK'
  BY <1>23, Zenon DEF Hangup
<1>24. ASSUME NEW c \in Clients, OnRequest(c)
      PROVE  FlagsOK'
  BY <1>24, Zenon DEF OnRequest
<1>25. ASSUME NEW c \in Clients, Connect(c)
      PROVE  FlagsOK'
  BY <1>25, Zenon DEF Connect
<1>26. ASSUME NEW c \in Clients, Leave(c)
      PROVE  FlagsOK'
  BY <1>26, Zenon DEF Leave
<1>27. ASSUME NEW c \in Clients, NEW p \in Packets, Ask(c, p)
      PROVE  FlagsOK'
  BY <1>27, Zenon DEF Ask
<1>28. CASE UNCHANGED vars
  BY <1>28, Zenon DEF vars
<1>29. QED
  BY <1>1, <1>2, <1>3, <1>4, <1>5, <1>6, <1>7, <1>8, <1>9, <1>10, <1>11,
     <1>12, <1>12a, <1>13, <1>14, <1>15, <1>16, <1>17, <1>18, <1>19, <1>20, <1>21,
     <1>22, <1>23, <1>24, <1>25, <1>26, <1>27, <1>28
  DEF Next, MainContinues, ThreadStep, LoopEvent, ClientStep

\* The invariant is inductive.
LEMMA InvStep ==
  ASSUME IInv, [Next]_vars
  PROVE  IInv'
<1> FlagsOK'
  BY FlagsStep DEF IInv, TypeOK
<1> USE DEF IInv, TypeOK, StatusInv, FoundInv, StoppedMeansOutside, base, server,
            clients, Packets, Frames
<1>1. CASE StartThread
  BY <1>1 DEF StartThread
<1>2. CASE Stop
  BY <1>2 DEF Stop
<1>3. CASE ForgetHttp
  BY <1>3 DEF ForgetHttp
<1>4. CASE LoopBreak
  BY <1>4 DEF LoopBreak
<1>5. CASE PollStatus
  BY <1>5 DEF PollStatus
<1>6. CASE DeleteServer
  BY <1>6 DEF DeleteServer
<1>7. CASE DeleteProcessorAndReturn
  BY <1>7 DEF DeleteProcessorAndReturn
<1>8. CASE MainCrash
  BY <1>8 DEF MainCrash
<1>9. CASE Begin
  BY <1>9 DEF Begin
<1>10. CASE NewBase
  BY <1>10 DEF NewBase
<1>11. CASE NewHttp
  BY <1>11 DEF NewHttp
<1>12. CASE Bind
  BY <1>12 DEF Bind
<1>12a. CASE SetCallback
  BY <1>12a DEF SetCallback
<1>13. CASE Dispatch
  BY <1>13 DEF Dispatch
<1>14. CASE LoopTurn
  BY <1>14 DEF LoopTurn
<1>15. CASE Processed
  BY <1>15 DEF Processed
<1>16. CASE SendReply
  BY <1>16 DEF SendReply
<1>17. CASE WaitFails
  BY <1>17 DEF WaitFails
<1>18. CASE FreeBase
  BY <1>18 DEF FreeBase
<1>19. CASE ForgetBase
  BY <1>19 DEF ForgetBase
<1>20. CASE SetStopped
  BY <1>20 DEF SetStopped
<1>21. CASE ThreadCrash
  BY <1>21 DEF ThreadCrash
<1>22. ASSUME NEW c \in Clients, Accept(c)
      PROVE  IInv'
  BY <1>22 DEF Accept
<1>23. ASSUME NEW c \in Clients, Hangup(c)
      PROVE  IInv'
  BY <1>23 DEF Hangup
<1>24. ASSUME NEW c \in Clients, OnRequest(c)
      PROVE  IInv'
  BY <1>24 DEF OnRequest
<1>25. ASSUME NEW c \in Clients, Connect(c)
      PROVE  IInv'
  BY <1>25 DEF Connect
<1>26. ASSUME NEW c \in Clients, Leave(c)
      PROVE  IInv'
  BY <1>26 DEF Leave
<1>27. ASSUME NEW c \in Clients, NEW p \in Packets, Ask(c, p)
      PROVE  IInv'
  BY <1>27 DEF Ask
<1>28. CASE UNCHANGED vars
  BY <1>28 DEF vars
<1> HIDE DEF IInv
<1>29. QED
  BY <1>1, <1>2, <1>3, <1>4, <1>5, <1>6, <1>7, <1>8, <1>9, <1>10, <1>11,
     <1>12, <1>12a, <1>13, <1>14, <1>15, <1>16, <1>17, <1>18, <1>19, <1>20, <1>21,
     <1>22, <1>23, <1>24, <1>25, <1>26, <1>27, <1>28
  DEF Next, MainContinues, ThreadStep, LoopEvent, ClientStep

\* The inductive invariant holds in every reachable state.
THEOREM Invariance == Spec => []IInv
  BY InitInv, InvStep, PTL DEF Spec

\* Every variable keeps to its type, for any clients and any bound.
THEOREM TypeCorrect == Spec => []TypeOK
<1>1. IInv => TypeOK
  BY DEF IInv
<1>2. QED
  BY Invariance, <1>1, PTL

\* GetStatus says Stopped only outside Execute.
THEOREM StatusIsTrue == Spec => []StoppedMeansOutside
<1>1. IInv => StoppedMeansOutside
  BY DEF IInv, StatusInv
<1>2. QED
  BY Invariance, <1>1, PTL

\* When Stop has found an event base, main() deletes nothing before the thread
\* has left Execute.
THEOREM FoundBaseWaited == Spec => []FoundBaseIsWaitedFor
<1>1. IInv => FoundBaseIsWaitedFor
  BY DEF IInv, FoundInv, FoundBaseIsWaitedFor
<1>2. QED
  BY Invariance, <1>1, PTL
=============================================================================
