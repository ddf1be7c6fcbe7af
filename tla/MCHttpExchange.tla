--------------------------- MODULE MCHttpExchange ---------------------------
(* Model checking of HttpExchange; the bounds are given in the cfg.         *)
EXTENDS HttpExchange
=============================================================================
