----------------------------- MODULE MCRoomPage -----------------------------
EXTENDS RoomPage
=============================================================================
