------------------------- MODULE MCWebsocketClient -------------------------
(* The instance of WebsocketClient for TLC. *)
EXTENDS WebsocketClient
=============================================================================
