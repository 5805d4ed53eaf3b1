------------------------------ MODULE MCClient ------------------------------
(***************************************************************************)
(* An instance of RoomClient for TLC.                                      *)
(***************************************************************************)
EXTENDS ClientProperties

CONSTANTS a, b

OneBrowser == {a}
TheOther == {b}

\* a browser sees of a blocked message of its own what it sees of a
\* delivered one, and of the other's what it sees of a failed one
DeliveredOrFailed ==
    {[status |-> "delivered", advised |-> {"sender", "recipient"}],
     [status |-> "failed", advised |-> {}]}

=============================================================================
