---------------------- MODULE MCKinectGrabberFreenect ----------------------
(* Model checking of KinectGrabberFreenect; the bound is given in the cfg.  *)
EXTENDS KinectGrabberFreenect
=============================================================================
