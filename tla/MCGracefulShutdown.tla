------------------------- MODULE MCGracefulShutdown -------------------------
(* Two pieces of critical work in the request. *)
EXTENDS GracefulShutdown

CONSTANTS h1, h2
=============================================================================
