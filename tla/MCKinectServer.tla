--------------------------- MODULE MCKinectServer ---------------------------
(* Model checking of KinectServer; clients are model values.                *)
EXTENDS KinectServer
=============================================================================
