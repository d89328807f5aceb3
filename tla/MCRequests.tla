----------------------------- MODULE MCRequests -----------------------------
(* Requests for TLC: two requests, a channel of one frame, one-row streams. *)
EXTENDS Requests
=============================================================================
