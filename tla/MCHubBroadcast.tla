--------------------------- MODULE MCHubBroadcast ---------------------------
(* HubBroadcast for TLC. *)
EXTENDS HubBroadcast

MCChannel == {<<"news">>, <<"chat", "room1">>}
=============================================================================
