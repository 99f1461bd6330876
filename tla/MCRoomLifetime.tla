----------------------------- MODULE MCRoomLifetime -----------------------------
(* Instances of RoomLifetime for TLC. *)
EXTENDS RoomLifetime
=============================================================================
