--------------------------- MODULE MCRoomRecovery ---------------------------
(* Members of a mesh whose server comes back.                              *)
EXTENDS RoomRecovery
=============================================================================
