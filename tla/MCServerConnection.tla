------------------------- MODULE MCServerConnection -------------------------
(***************************************************************************)
(* One or two websocket threads and a few outages.                         *)
(***************************************************************************)
EXTENDS ServerConnection
=============================================================================
