--------------------------- MODULE MCNicofClient ----------------------------
(* A client program with few request buffers and message ids.              *)
EXTENDS NicofClient
=============================================================================
