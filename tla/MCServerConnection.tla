------------------------- MODULE MCServerConnection -------------------------
(* An instance of ServerConnection for TLC.  No run of it makes the server *)
(* open more than five connections, so that the bound of six is never what *)
(* keeps it from connecting.                                               *)
EXTENDS ServerConnection
=============================================================================
