----------------------------- MODULE MCWsRooms -----------------------------
(* Instances of WsRooms for TLC. *)
EXTENDS WsRooms, TLC

CONSTANTS c1, c2, c3, r1, r2

\* Connections are interchangeable, and so are rooms.
ConnRoomSymmetry == Permutations({c1, c2, c3}) \cup Permutations({r1, r2})
=============================================================================
