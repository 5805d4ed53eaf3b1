---------------------------- MODULE RoomContract ----------------------------
(***************************************************************************)
(* What a conversation room promises: it is opened by one person, a second *)
(* may enter once, which makes it active, and it is closed once, for good, *)
(* with at most one summary asked for.                                     *)
(***************************************************************************)
EXTENDS Naturals

VARIABLES
    phase,       \* absent, waiting, active, ended
    people,      \* how many people the room has
    summaries    \* how many summaries have been asked for

roomVars == <<phase, people, summaries>>

Init == phase = "absent" /\ people = 0 /\ summaries = 0

Open ==
    /\ phase = "absent"
    /\ phase' = "waiting"
    /\ people' = 1
    /\ UNCHANGED summaries

Enter ==
    /\ phase = "waiting"
    /\ people = 1
    /\ phase' = "active"
    /\ people' = 2
    /\ UNCHANGED summaries

Close ==
    /\ phase \in {"waiting", "active"}
    /\ phase' = "ended"
    /\ summaries = 0
    /\ summaries' \in {0, 1}
    /\ UNCHANGED people

Next == Open \/ Enter \/ Close

Spec == Init /\ [][Next]_roomVars

=============================================================================
