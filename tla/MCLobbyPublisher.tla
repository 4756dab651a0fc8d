-------------------------- MODULE MCLobbyPublisher --------------------------
(* Small instances of LobbyPublisher for TLC. *)
EXTENDS LobbyPublisher
=============================================================================
