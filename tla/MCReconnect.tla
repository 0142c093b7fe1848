----------------------------- MODULE MCReconnect -----------------------------
(* Clients behind one address, with a window and delays cut down.            *)
EXTENDS Reconnect, TLC

ShortDelays == <<1, 2, 4>>
=============================================================================
