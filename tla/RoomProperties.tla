--------------------------- MODULE RoomProperties ---------------------------
(***************************************************************************)
(* What makes a conversation room correct.                                 *)
(***************************************************************************)
EXTENDS ConversationRoom

RequestOps == {"none", "join", "insert", "reply", "end"}
RequestState == [op : RequestOps, role : Roles, row : Row]

\* every variable has its type, and a client only holds tokens that exist
TypeOK ==
    /\ status \in Status
    /\ invitees \in Nat
    /\ used \in BOOLEAN
    /\ issued \in SUBSET Tokens
    /\ expired \in SUBSET Tokens
    /\ revoked \in SUBSET Tokens
    /\ held \in SUBSET (Roles \cap issued)
    /\ summaries \in Nat
    /\ lock \in Requests \cup {NoRequest}
    /\ req \in [Requests -> RequestState]

\* However many joins race, the room gets one invitee: the unique constraint
\* on (conversation, role) never has to step in.  The invitation is used
\* exactly if that invitee exists, the room is active only with both, and a
\* waiting room has only its creator: activate_conversation, which wants two
\* participants in a waiting room, could never succeed.
OneInvitationOneInvitee ==
    /\ invitees <= 1
    /\ used <=> invitees = 1
    /\ status = "active" => invitees = 1
    /\ status \in {"absent", "waiting"} => invitees = 0

InvitationOpen ==
    /\ status = "waiting"
    /\ ~used
    /\ "invitation" \notin expired \cup revoked

JoinDecided == \E r \in Requests : req[r].op = "insert"

\* Once the invitation is used, revoked or expired or the room has ended,
\* and no join has passed its checks, no join ever will: a join that began
\* earlier and waited for the lock does not act on the row it read before.
ClosedToJoins == ~InvitationOpen /\ status # "absent" /\ ~JoinDecided
ClosedStaysClosed ==
    [][ClosedToJoins => ClosedToJoins' /\ invitees' = invitees]_vars

LockedOut ==
    /\ status # "absent"
    /\ \A r \in Requests : req[r].op \notin {"insert", "reply"}
    /\ \A p \in Roles : ~(p \in held /\ p \notin expired \cup revoked)
    /\ ~InvitationOpen
EndsUnderWay == {r \in Requests : req[r].op = "end"}

\* When every session is lost, expired or revoked, the invitation is closed
\* and no session is about to be handed out, the ends authenticated before
\* are all that can still act.  They may, although their sessions are gone:
\* one of them ends the room, once; no other is begun, and nobody gets in.
OnlyOldEndsAct ==
    [][LockedOut =>
          /\ LockedOut'
          /\ EndsUnderWay' \subseteq EndsUnderWay
          /\ UNCHANGED invitees
          /\ \/ UNCHANGED <<status, summaries>>
             \/ /\ status # "ended" /\ status' = "ended"
                /\ EndsUnderWay' # EndsUnderWay]_vars

Contract ==
    INSTANCE RoomContract WITH
        phase <- status,
        people <- IF status = "absent" THEN 0 ELSE 1 + invitees,
        summaries <- summaries

\* The services implement the room's contract: opened once, entered once,
\* closed once, never reopened by a join that was waiting while it ended.
ImplementsRoom == Contract!Spec

\* No request waits for ever behind others on the conversation's row.
RequestIsAnswered ==
    \A r \in Requests : req[r].op # "none" ~> req[r].op = "none"

=============================================================================
