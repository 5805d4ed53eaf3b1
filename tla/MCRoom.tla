------------------------------- MODULE MCRoom -------------------------------
(***************************************************************************)
(* An instance of ConversationRoom for TLC.                                *)
(***************************************************************************)
EXTENDS RoomProperties

CONSTANTS r1, r2, r3, none

ThreeRequests == {r1, r2, r3}

=============================================================================
