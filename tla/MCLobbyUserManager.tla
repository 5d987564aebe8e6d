------------------------ MODULE MCLobbyUserManager ------------------------
(* LobbyUserManager with two connections. *)
EXTENDS LobbyUserManager

CONSTANTS c1, c2

MCTwo == {c1, c2}
===========================================================================
