------------------------ MODULE MCKinectGrabberMSW ------------------------
(* Model checking of KinectGrabberMSW; the bounds are given in the cfg.    *)
EXTENDS KinectGrabberMSW
=============================================================================
