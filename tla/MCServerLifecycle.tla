------------------------- MODULE MCServerLifecycle -------------------------
(***************************************************************************)
(* Two HTTP requests and two RPCs, with and without the gRPC server.       *)
(***************************************************************************)
EXTENDS ServerLifecycle, TLC

CONSTANTS h1, h2, g1, g2
=============================================================================
