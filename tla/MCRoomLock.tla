----------------------------- MODULE MCRoomLock -----------------------------
(***************************************************************************)
(* Two request slots with two calls each, leases of one tick, try-locks    *)
(* (wait 0, the De-RTC checkpoint) and waiting calls (wait 1).             *)
(***************************************************************************)
EXTENDS RoomLock, TLC

MCWaits == {0, 1}

=============================================================================
