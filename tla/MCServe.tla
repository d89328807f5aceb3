------------------------------- MODULE MCServe -------------------------------
(* Serve with three clients and room for two connections. *)
EXTENDS Serve
=============================================================================
