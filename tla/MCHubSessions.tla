--------------------------- MODULE MCHubSessions ----------------------------
(* One node that authenticates a second time, as after a reconnect. *)
EXTENDS HubSessions

CONSTANT a

Reconnect == <<a, a>>
=============================================================================
