------------------------------ MODULE MCLobby ------------------------------
(* Small instances of rooms and queue for TLC. *)
EXTENDS Lobby, TLC
CONSTANTS c1, c2, c3
Conns3 == {c1, c2, c3}
Codes2 == {1, 2}
Timers3 == {1, 2, 3}
\* No property is a liveness property, and connections are only compared for equality.
Perms == Permutations(Conns3)
=============================================================================
