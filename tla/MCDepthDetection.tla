-------------------------- MODULE MCDepthDetection --------------------------
(***************************************************************************)
(* Model checking of VideoFrame and PclObjectDetector, the two models that *)
(* a depth frame meets on the server.  They share no variable, so there is *)
(* nothing to interleave: a behaviour is one of either, and what the other *)
(* has stays at a single initial state.                                    *)
(***************************************************************************)
EXTENDS VideoFrame, PclObjectDetector

VARIABLE part

allVars == <<part, pictureVars, vars>>

DepthInit ==
  /\ part \in {"picture", "detector"}
  /\ PictureInit /\ Init
  /\ part = "detector" => backend = "msw" /\ raw = 0 /\ width = 1 /\ height = 1

DepthNext ==
  /\ \/ part = "picture" /\ PictureNext /\ UNCHANGED vars
     \/ part = "detector" /\ Next /\ UNCHANGED pictureVars
  /\ UNCHANGED part

\* The detector's fairness, in the behaviours that are the detector's.
DepthFairness ==
  /\ WF_vars(part = "detector" /\ FeederContinues)
  /\ WF_vars(part = "detector" /\ WorkerStep)
  /\ SF_vars(part = "detector" /\ LockFill)
  /\ WF_vars(part = "detector" /\ CopyObjects)

DepthSpec == DepthInit /\ [][DepthNext]_allVars /\ DepthFairness
=============================================================================
