--------------------------- MODULE MCRemoteAccess ---------------------------
(***************************************************************************)
(* One websocket thread, a few outages of the server and of its remote     *)
(* access.                                                                 *)
(***************************************************************************)
EXTENDS RemoteAccess
=============================================================================
