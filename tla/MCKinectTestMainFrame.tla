----------------------- MODULE MCKinectTestMainFrame -----------------------
(* Model checking of KinectTestMainFrame; the bounds are given in the cfg.  *)
EXTENDS KinectTestMainFrame
=============================================================================
