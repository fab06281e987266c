--------------------------- MODULE MCAccessTokens ---------------------------
(* Access tokens with model values for requests, tokens and clients. *)
EXTENDS AccessTokens
=============================================================================
