------------------------- MODULE MCKinectDataSender -------------------------
(* Model checking of KinectDataSender; the constants are given in the cfgs. *)
EXTENDS KinectDataSender
=============================================================================
