-------------------------- MODULE ConversationRoom --------------------------
(***************************************************************************)
(* One conversation: its creation, the single-use invitation, the race to  *)
(* join, the end, and the three credentials that expire or are revoked.    *)
(*                                                                         *)
(* A join reads its invitation, waits for the lock of the conversation     *)
(* row, reads the invitation again, decides and writes.  The invitation    *)
(* and the sessions are not locked, so they may change between the         *)
(* decision and the commit: these are two actions.  The end decides and    *)
(* writes under the lock alone, but was authenticated in an earlier        *)
(* transaction.  A request may be dropped at any point: its transaction    *)
(* rolls back, or its answer, which carries the only copy of a raw session *)
(* token, is lost.                                                         *)
(***************************************************************************)
EXTENDS Naturals, FiniteSets

CONSTANTS
    Requests,      \* concurrent HTTP requests
    NoRequest,
    DirectCalls    \* may repository methods that no service calls be called?

ASSUME NoRequestAssumption == NoRequest \notin Requests
ASSUME RoomCallsAssumption == DirectCalls \in BOOLEAN

VARIABLES
    status,        \* conversations.status
    invitees,      \* number of participants rows with the role invitee
    used,          \* invitations.used_at is set
    issued,        \* tokens that exist
    expired,       \* tokens whose expires_at has passed
    revoked,       \* tokens with revoked_at set
    held,          \* roles whose client has received its raw session token
    summaries,     \* number of conversation_summaries rows
    lock,          \* the request that holds the conversation row's lock
    req            \* where each request stands

db == <<status, invitees, used, issued, revoked, summaries>>
vars == <<status, invitees, used, issued, expired, revoked, held, summaries,
          lock, req>>

----------------------------------------------------------------------------
Status == {"absent", "waiting", "active", "ended"}
Roles == {"creator", "invitee"}
Tokens == Roles \cup {"invitation"}

\* an Invitation object as a transaction has loaded it
Row == [used : BOOLEAN, revoked : BOOLEAN]
NoRow == [used |-> FALSE, revoked |-> FALSE]
InvitationRow == [used |-> used, revoked |-> "invitation" \in revoked]

Idle == [op |-> "none", role |-> "creator", row |-> NoRow]

Init ==
    /\ status = "absent"
    /\ invitees = 0
    /\ used = FALSE
    /\ issued = {}
    /\ expired = {}
    /\ revoked = {}
    /\ held = {}
    /\ summaries = 0
    /\ lock = NoRequest
    /\ req = [r \in Requests |-> Idle]

Unlocked == lock = NoRequest

Finish(r) == req' = [req EXCEPT ![r] = Idle]

\* the transaction has committed; the response carries the session token
Answer(r, role) == req' = [req EXCEPT ![r].op = "reply", ![r].role = role]

----------------------------------------------------------------------------
(* Creation *)

\* fault: the creator gets no session
CreateWithoutSession(r) ==
    /\ req[r] = Idle
    /\ status = "absent"
    /\ status' = "waiting"
    /\ issued' = {"invitation"}
    /\ Answer(r, "creator")
    /\ UNCHANGED <<invitees, used, expired, revoked, held, summaries, lock>>

Create(r) ==
    /\ req[r] = Idle
    /\ status = "absent"
    /\ status' = "waiting"
    /\ issued' = {"invitation", "creator"}
    /\ Answer(r, "creator")
    /\ UNCHANGED <<invitees, used, expired, revoked, held, summaries, lock>>

Reply(r) ==
    /\ req[r].op = "reply"
    /\ held' = held \cup {req[r].role}
    /\ Finish(r)
    /\ UNCHANGED <<db, expired, lock>>

----------------------------------------------------------------------------
(* Joining *)

\* only the creator's client can have passed the invitation on
JoinStart(r) ==
    /\ req[r] = Idle
    /\ "creator" \in held
    /\ req' = [req EXCEPT ![r].op = "join", ![r].row = InvitationRow]
    /\ UNCHANGED <<db, expired, held, lock>>

\* fault: the invitation is not read again once the lock is held
Unrefreshed(r) == req[r].row

Refreshed(r) == InvitationRow

\* fault: the conversation's own status is not looked at
AdmissibleToEndedRoom(r) ==
    /\ ~Refreshed(r).used
    /\ ~Refreshed(r).revoked
    /\ "invitation" \notin expired
    /\ invitees < 1

\* _validate_join_state and the count of participants
Admissible(r) ==
    /\ ~Refreshed(r).used
    /\ ~Refreshed(r).revoked
    /\ "invitation" \notin expired
    /\ status = "waiting"
    /\ 1 + invitees < 2

\* fault: the conversation row is read without its lock
JoinAdmitUnlocked(r) ==
    /\ req[r].op = "join"
    /\ Admissible(r)
    /\ lock' = r
    /\ req' = [req EXCEPT ![r].op = "insert", ![r].row = Refreshed(r)]
    /\ UNCHANGED <<db, expired, held>>

JoinAdmit(r) ==
    /\ req[r].op = "join"
    /\ Unlocked
    /\ Admissible(r)
    /\ lock' = r
    /\ req' = [req EXCEPT ![r].op = "insert", ![r].row = Refreshed(r)]
    /\ UNCHANGED <<db, expired, held>>

JoinRefuse(r) ==
    /\ req[r].op = "join"
    /\ Unlocked
    /\ ~Admissible(r)
    /\ Finish(r)
    /\ UNCHANGED <<db, expired, held, lock>>

\* fault: the transaction is never ended
JoinCommitLocked(r) ==
    /\ req[r].op = "insert"
    /\ invitees' = invitees + 1
    /\ issued' = issued \cup {"invitee"}
    /\ used' = TRUE
    /\ status' = "active"
    /\ Answer(r, "invitee")
    /\ UNCHANGED <<expired, revoked, held, summaries, lock>>

JoinCommit(r) ==
    /\ req[r].op = "insert"
    /\ invitees' = invitees + 1
    /\ issued' = issued \cup {"invitee"}
    /\ used' = TRUE
    /\ status' = "active"
    /\ lock' = NoRequest
    /\ Answer(r, "invitee")
    /\ UNCHANGED <<expired, revoked, held, summaries>>

----------------------------------------------------------------------------
(* The end *)

\* fault: a session never ends
AuthenticForEver(p) == p \in held

\* get_valid_by_token_hash finds the session
Authentic(p) == p \in held /\ p \notin expired \cup revoked

\* get_authenticated_participant and require_conversation
EndStart(r, p) ==
    /\ req[r] = Idle
    /\ Authentic(p)
    /\ req' = [req EXCEPT ![r].op = "end", ![r].role = p]
    /\ UNCHANGED <<db, expired, held, lock>>

EndCommit(r, generateSummary) ==
    /\ req[r].op = "end"
    /\ Unlocked
    /\ status # "ended"
    /\ status' = "ended"
    /\ summaries' = IF generateSummary THEN summaries + 1 ELSE summaries
    /\ Finish(r)
    /\ UNCHANGED <<invitees, used, issued, expired, revoked, held, lock>>

\* ConversationAlreadyEndedError
EndRefuse(r) ==
    /\ req[r].op = "end"
    /\ Unlocked
    /\ status = "ended"
    /\ Finish(r)
    /\ UNCHANGED <<db, expired, held, lock>>

----------------------------------------------------------------------------
(* Failures, time, revocation *)

\* the client or the server gives up: rollback, or a lost response
Drop(r) ==
    /\ req[r].op # "none"
    /\ lock' = IF lock = r THEN NoRequest ELSE lock
    /\ Finish(r)
    /\ UNCHANGED <<db, expired, held>>

\* each expires_at is a reading of the wall clock and one day, and later
\* readings decide when it has passed: nothing keeps them in an order
Expire(t) ==
    /\ t \in issued \ expired
    /\ expired' = expired \cup {t}
    /\ UNCHANGED <<db, held, lock, req>>

Revoke(t) ==
    /\ DirectCalls
    /\ t \in issued \ revoked
    /\ revoked' = revoked \cup {t}
    /\ UNCHANGED <<status, invitees, used, issued, expired, held, summaries,
                   lock, req>>

----------------------------------------------------------------------------
\* what the server goes on to do for a request it has begun
Serve(r) ==
    \/ Reply(r)
    \/ JoinAdmit(r) \/ JoinRefuse(r) \/ JoinCommit(r)
    \/ \E generateSummary \in BOOLEAN : EndCommit(r, generateSummary)
    \/ EndRefuse(r)

Next ==
    \/ \E r \in Requests :
        \/ Create(r)
        \/ JoinStart(r)
        \/ \E p \in Roles : EndStart(r, p)
        \/ Serve(r)
        \/ Drop(r)
    \/ \E t \in Tokens : Expire(t) \/ Revoke(t)

Spec == Init /\ [][Next]_vars

\* PostgreSQL grants a row lock in the order it was asked for
FairSpec == Spec /\ \A r \in Requests : SF_vars(Serve(r))

=============================================================================
