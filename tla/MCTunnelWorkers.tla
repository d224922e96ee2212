--------------------------- MODULE MCTunnelWorkers ---------------------------
(* TunnelWorkers and the streams they serve.  The actions on a route touch *)
(* no other route: two workers compete for one.                            *)
EXTENDS TunnelStreams
=============================================================================
