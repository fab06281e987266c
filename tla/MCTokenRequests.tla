-------------------------- MODULE MCTokenRequests --------------------------
(* The token endpoint and its pool with model values for requests and tokens. *)
EXTENDS TokenRequests
=============================================================================
