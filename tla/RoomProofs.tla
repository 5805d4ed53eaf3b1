----------------------------- MODULE RoomProofs -----------------------------
(***************************************************************************)
(* For any number of requests: the room's types, its single invitee, that  *)
(* it implements its contract, and that a closed invitation stays closed.  *)
(***************************************************************************)
EXTENDS RoomProperties, TLAPS

\* a token in an answer under way exists
AnswersIssued == \A r \in Requests : req[r].op = "reply" => req[r].role \in issued

\* a request holds the conversation's lock exactly while it inserts
LockedToInsert == \A r \in Requests : req[r].op = "insert" <=> lock = r

\* what a join found under the lock stays true until it commits
DecisionStands == JoinDecided => status = "waiting" /\ invitees = 0

\* nobody talks to a room before it is created
QuietBeforeCreation ==
    status = "absent" => held = {} /\ \A r \in Requests : req[r].op = "none"

\* only the end asks for a summary
SummaryOnlyAfterEnd == summaries = 0 \/ status = "ended"

RoomInv ==
    /\ TypeOK
    /\ AnswersIssued
    /\ LockedToInsert
    /\ DecisionStands
    /\ QuietBeforeCreation
    /\ SummaryOnlyAfterEnd
    /\ OneInvitationOneInvitee

USE DEF Status, Roles, Tokens, Row

-----------------------------------------------------------------------------
\* A request that changes its op and its role leaves the others alone.
LEMMA RequestTurns ==
    ASSUME TypeOK, NEW r \in Requests, NEW o \in RequestOps, NEW p \in Roles,
           req' = [req EXCEPT ![r].op = o, ![r].role = p]
    PROVE  /\ req' \in [Requests -> RequestState]
           /\ req'[r].op = o /\ req'[r].role = p
           /\ \A q \in Requests : q # r => req'[q] = req[q]
  <1> DEFINE turned == [req[r] EXCEPT !.op = o, !.role = p]
  <1>1. turned \in RequestState /\ turned.op = o /\ turned.role = p
    BY DEF RequestState, TypeOK
  <1>2. req' = [req EXCEPT ![r] = turned]
    BY DEF TypeOK, RequestState
  <1> HIDE DEF turned
  <1>3. req \in [Requests -> RequestState]
    BY DEF TypeOK
  <1>4. req' \in [Requests -> RequestState] /\ req'[r] = turned
    BY <1>1, <1>2, <1>3
  <1>5. \A q \in Requests : q # r => req'[q] = req[q]
    BY <1>2, <1>3
  <1> QED
    BY <1>1, <1>4, <1>5

\* So does one that reads the invitation.
LEMMA RequestReads ==
    ASSUME TypeOK, NEW r \in Requests, NEW o \in RequestOps, NEW w \in Row,
           req' = [req EXCEPT ![r].op = o, ![r].row = w]
    PROVE  /\ req' \in [Requests -> RequestState]
           /\ req'[r].op = o /\ req'[r].role = req[r].role
           /\ \A q \in Requests : q # r => req'[q] = req[q]
  <1> DEFINE read == [req[r] EXCEPT !.op = o, !.row = w]
  <1>1. read \in RequestState /\ read.op = o /\ read.role = req[r].role
    BY DEF RequestState, TypeOK
  <1>2. req' = [req EXCEPT ![r] = read]
    BY DEF TypeOK, RequestState
  <1> HIDE DEF read
  <1> QED
    BY <1>1, <1>2 DEF TypeOK

-----------------------------------------------------------------------------
\* The invariant holds of an empty database.
LEMMA RoomInit == Init => RoomInv
  <1> SUFFICES ASSUME Init PROVE RoomInv
    OBVIOUS
  <1> USE DEF Init, Idle, NoRow
  <1>1. TypeOK
    BY DEF TypeOK, RequestState, RequestOps
  <1>2. AnswersIssued /\ LockedToInsert /\ DecisionStands
    BY NoRequestAssumption DEF AnswersIssued, LockedToInsert, DecisionStands, JoinDecided
  <1>3. QuietBeforeCreation /\ SummaryOnlyAfterEnd /\ OneInvitationOneInvitee
    BY DEF QuietBeforeCreation, SummaryOnlyAfterEnd, OneInvitationOneInvitee
  <1> QED
    BY <1>1, <1>2, <1>3 DEF RoomInv

\* Every step preserves it.
LEMMA RoomStep == RoomInv /\ [Next]_vars => RoomInv'
  <1> SUFFICES ASSUME RoomInv, [Next]_vars PROVE RoomInv'
    OBVIOUS
  <1>0. Idle \in RequestState /\ Idle.op = "none"
    BY DEF Idle, NoRow, RequestState, RequestOps
  <1> USE NoRequestAssumption
      DEF RoomInv, TypeOK, AnswersIssued, LockedToInsert, DecisionStands,
          JoinDecided, QuietBeforeCreation, SummaryOnlyAfterEnd,
          OneInvitationOneInvitee
  <1>1. ASSUME NEW r \in Requests, Create(r) PROVE RoomInv'
    <2>1. /\ req' \in [Requests -> RequestState]
          /\ req'[r].op = "reply" /\ req'[r].role = "creator"
          /\ \A q \in Requests : q # r => req'[q] = req[q]
      BY <1>1, RequestTurns DEF Create, Answer, RequestOps
    <2> QED
      BY <1>1, <2>1 DEF Create, Idle
  <1>2. ASSUME NEW r \in Requests, JoinStart(r) PROVE RoomInv'
    <2>1. InvitationRow \in Row
      BY DEF InvitationRow
    <2>2. /\ req' \in [Requests -> RequestState]
          /\ req'[r].op = "join"
          /\ \A q \in Requests : q # r => req'[q] = req[q]
      BY <1>2, <2>1, RequestReads DEF JoinStart, RequestOps
    <2> QED
      BY <1>2, <2>2 DEF JoinStart, Idle, db
  <1>3. ASSUME NEW r \in Requests, NEW p \in Roles, EndStart(r, p) PROVE RoomInv'
    <2>1. /\ req' \in [Requests -> RequestState]
          /\ req'[r].op = "end"
          /\ \A q \in Requests : q # r => req'[q] = req[q]
      BY <1>3, RequestTurns DEF EndStart, RequestOps
    <2> QED
      BY <1>3, <2>1 DEF EndStart, Authentic, Idle, db
  <1>4. ASSUME NEW r \in Requests, Reply(r) PROVE RoomInv'
    BY <1>4, <1>0 DEF Reply, Finish, db
  <1>5. ASSUME NEW r \in Requests, JoinAdmit(r) PROVE RoomInv'
    <2>1. Refreshed(r) \in Row
      BY DEF Refreshed, InvitationRow
    <2>2. /\ req' \in [Requests -> RequestState]
          /\ req'[r].op = "insert"
          /\ \A q \in Requests : q # r => req'[q] = req[q]
      BY <1>5, <2>1, RequestReads DEF JoinAdmit, RequestOps
    <2> QED
      BY <1>5, <2>2 DEF JoinAdmit, Unlocked, Admissible, db
  <1>6. ASSUME NEW r \in Requests, JoinRefuse(r) PROVE RoomInv'
    BY <1>6, <1>0 DEF JoinRefuse, Unlocked, Finish, db
  <1>7. ASSUME NEW r \in Requests, JoinCommit(r) PROVE RoomInv'
    <2>1. /\ req' \in [Requests -> RequestState]
          /\ req'[r].op = "reply" /\ req'[r].role = "invitee"
          /\ \A q \in Requests : q # r => req'[q] = req[q]
      BY <1>7, RequestTurns DEF JoinCommit, Answer, RequestOps
    <2> QED
      BY <1>7, <2>1 DEF JoinCommit
  <1>8. ASSUME NEW r \in Requests, NEW g \in BOOLEAN, EndCommit(r, g) PROVE RoomInv'
    BY <1>8, <1>0 DEF EndCommit, Unlocked, Finish
  <1>9. ASSUME NEW r \in Requests, EndRefuse(r) PROVE RoomInv'
    BY <1>9, <1>0 DEF EndRefuse, Unlocked, Finish, db
  <1>10. ASSUME NEW r \in Requests, Drop(r) PROVE RoomInv'
    BY <1>10, <1>0 DEF Drop, Finish, db
  <1>11. ASSUME NEW t \in Tokens, Expire(t) PROVE RoomInv'
    BY <1>11 DEF Expire, db
  <1>12. ASSUME NEW t \in Tokens, Revoke(t) PROVE RoomInv'
    BY <1>12 DEF Revoke
  <1>13. CASE UNCHANGED vars
    BY <1>13 DEF vars
  <1> QED
    BY <1>1, <1>2, <1>3, <1>4, <1>5, <1>6, <1>7, <1>8, <1>9, <1>10, <1>11,
       <1>12, <1>13 DEF Next, Serve

\* The invariant holds throughout every behaviour of the room.
THEOREM RoomInvariant == Spec => []RoomInv
  BY RoomInit, RoomStep, PTL DEF Spec

\* Every variable of the room keeps its type, and clients hold issued tokens.
THEOREM RoomTypes == Spec => []TypeOK
  <1>1. RoomInv => TypeOK
    BY DEF RoomInv
  <1> QED
    BY <1>1, RoomInvariant, PTL

\* Racing joins leave one invitee, for whom the invitation was used.
THEOREM RoomHasOneInvitee == Spec => []OneInvitationOneInvitee
  <1>1. RoomInv => OneInvitationOneInvitee
    BY DEF RoomInv
  <1> QED
    BY <1>1, RoomInvariant, PTL

-----------------------------------------------------------------------------
\* Every step of the room is a step of its contract or leaves it alone.
LEMMA RoomStepImplements ==
    RoomInv /\ [Next]_vars => [Contract!Next]_Contract!roomVars
  <1> SUFFICES ASSUME RoomInv, [Next]_vars
               PROVE  [Contract!Next]_Contract!roomVars
    OBVIOUS
  <1> USE DEF Contract!Next, Contract!roomVars
  <1>1. ASSUME NEW r \in Requests, Create(r) PROVE Contract!Open
    BY <1>1 DEF Create, Contract!Open, RoomInv, OneInvitationOneInvitee, TypeOK
  <1>2. ASSUME NEW r \in Requests, JoinCommit(r) PROVE Contract!Enter
    <2>1. status = "waiting" /\ invitees = 0
      BY <1>2 DEF JoinCommit, RoomInv, DecisionStands, JoinDecided
    <2> QED
      BY <1>2, <2>1 DEF JoinCommit, Contract!Enter
  <1>3. ASSUME NEW r \in Requests, NEW g \in BOOLEAN, EndCommit(r, g)
        PROVE  Contract!Close
    <2>1. status \in {"waiting", "active"}
      BY <1>3 DEF EndCommit, RoomInv, QuietBeforeCreation, TypeOK
    <2>2. summaries = 0
      BY <2>1 DEF RoomInv, SummaryOnlyAfterEnd
    <2> QED
      BY <1>3, <2>1, <2>2 DEF EndCommit, Contract!Close
  <1>4. ASSUME NEW r \in Requests,
               \/ JoinStart(r) \/ \E p \in Roles : EndStart(r, p)
               \/ Reply(r) \/ JoinAdmit(r) \/ JoinRefuse(r)
               \/ EndRefuse(r) \/ Drop(r)
        PROVE  UNCHANGED <<status, invitees, summaries>>
    BY <1>4 DEF JoinStart, EndStart, Reply, JoinAdmit, JoinRefuse, EndRefuse,
                Drop, db
  <1>5. ASSUME NEW t \in Tokens, Expire(t) \/ Revoke(t)
        PROVE  UNCHANGED <<status, invitees, summaries>>
    BY <1>5 DEF Expire, Revoke, db
  <1>6. CASE UNCHANGED vars
    BY <1>6 DEF vars
  <1> QED
    BY <1>1, <1>2, <1>3, <1>4, <1>5, <1>6 DEF Next, Serve

\* The room is opened once, entered once, closed once, and never reopened.
THEOREM RoomImplementsContract == Spec => ImplementsRoom
  <1>1. Init => Contract!Init
    BY DEF Init, Contract!Init
  <1> QED
    BY <1>1, RoomInvariant, RoomStepImplements, PTL
    DEF Spec, ImplementsRoom, Contract!Spec

-----------------------------------------------------------------------------
\* A join decides only by JoinAdmit.
LEMMA DecidedByAdmission ==
    ASSUME TypeOK, [Next]_vars, ~JoinDecided, JoinDecided'
    PROVE  \E r \in Requests : JoinAdmit(r)
  <1> SUFFICES ASSUME \A r \in Requests : ~JoinAdmit(r) PROVE ~JoinDecided'
    OBVIOUS
  <1> USE DEF JoinDecided
  <1>1. ASSUME NEW r \in Requests,
               Create(r) \/ \E p \in Roles : EndStart(r, p)
        PROVE  ~JoinDecided'
    BY <1>1, RequestTurns DEF Create, EndStart, Answer, RequestOps
  <1>2. ASSUME NEW r \in Requests, JoinStart(r) PROVE ~JoinDecided'
    <2>1. InvitationRow \in Row
      BY DEF InvitationRow, TypeOK
    <2> QED
      BY <1>2, <2>1, RequestReads DEF JoinStart, RequestOps
  <1>3. ASSUME NEW r \in Requests, Finish(r) PROVE ~JoinDecided'
    BY <1>3 DEF Finish, Idle, TypeOK
  <1>4. ASSUME NEW r \in Requests, JoinCommit(r) PROVE FALSE
    BY <1>4 DEF JoinCommit
  <1>5. CASE UNCHANGED req
    BY <1>5
  <1> QED
    BY <1>1, <1>2, <1>3, <1>4, <1>5
    DEF Next, Serve, Reply, JoinRefuse, EndCommit, EndRefuse, Drop, Expire,
        Revoke, vars

\* No step lets anyone in once the room is closed to joins.
LEMMA ClosedStep ==
    TypeOK /\ ClosedToJoins /\ [Next]_vars
        => ClosedToJoins' /\ invitees' = invitees
  <1> SUFFICES ASSUME TypeOK, ClosedToJoins, [Next]_vars
               PROVE  ClosedToJoins' /\ invitees' = invitees
    OBVIOUS
  <1>1. \A r \in Requests : ~JoinAdmit(r)
    BY DEF ClosedToJoins, InvitationOpen, JoinAdmit, Admissible, Refreshed,
           InvitationRow
  <1>2. ~JoinDecided /\ ~JoinDecided'
    BY <1>1, DecidedByAdmission DEF ClosedToJoins
  <1>3. \A r \in Requests : ~JoinCommit(r) /\ ~Create(r)
    BY <1>2 DEF JoinDecided, JoinCommit, Create, ClosedToJoins
  <1>4. /\ UNCHANGED <<invitees, used>>
        /\ status' \in {status, "ended"}
        /\ expired \subseteq expired' /\ revoked \subseteq revoked'
    BY <1>1, <1>3
    DEF Next, Serve, JoinStart, EndStart, Reply, JoinRefuse, EndCommit,
        EndRefuse, Drop, Expire, Revoke, vars, db
  <1> QED
    BY <1>2, <1>4 DEF ClosedToJoins, InvitationOpen

\* A used, revoked or expired invitation, or an ended room, admits nobody.
THEOREM ClosedRoomStaysClosed == Spec => ClosedStaysClosed
  <1>1. TypeOK /\ [Next]_vars
            => [ClosedToJoins => ClosedToJoins' /\ invitees' = invitees]_vars
    BY ClosedStep
  <1> QED
    BY <1>1, RoomTypes, PTL DEF Spec, ClosedStaysClosed

-----------------------------------------------------------------------------
\* With every session gone and the invitation closed, a step turns a waiting
\* request away, lets a token go, or is the end that was authenticated before.
LEMMA LockedOutStep ==
    ASSUME TypeOK, LockedOut, [Next]_vars
    PROVE  /\ LockedOut'
           /\ EndsUnderWay' \subseteq EndsUnderWay
           /\ UNCHANGED invitees
           /\ \/ UNCHANGED <<status, summaries>>
              \/ /\ status # "ended" /\ status' = "ended"
                 /\ EndsUnderWay' # EndsUnderWay
  <1> DEFINE Turned(r) == JoinStart(r) \/ JoinRefuse(r) \/ EndRefuse(r) \/ Drop(r)
             Ended(r) == \E g \in BOOLEAN : EndCommit(r, g)
             Lost(t) == Expire(t) \/ Revoke(t)
  <1>1. \A r \in Requests : ~JoinAdmit(r) /\ ~Create(r)
    BY DEF LockedOut, InvitationOpen, JoinAdmit, Admissible, Refreshed,
           InvitationRow, Create
  <1>2. \A r \in Requests : \A p \in Roles : ~EndStart(r, p)
    BY DEF LockedOut, EndStart, Authentic
  <1>3. \A r \in Requests : req[r].op \notin {"reply", "insert"}
    BY DEF LockedOut
  <1>4. \/ \E r \in Requests : Turned(r) \/ Ended(r)
        \/ \E t \in Tokens : Lost(t)
        \/ UNCHANGED vars
    BY <1>1, <1>2, <1>3 DEF Next, Serve, Reply, JoinCommit
  <1>5. /\ UNCHANGED <<invitees, used, held>>
        /\ status' \in {status, "ended"}
        /\ expired \subseteq expired' /\ revoked \subseteq revoked'
    BY <1>4 DEF JoinStart, JoinRefuse, EndRefuse, EndCommit, Drop, Expire,
                Revoke, vars, db
  <1>6. \A q \in Requests :
           req'[q].op = req[q].op \/ req'[q].op \in {"none", "join"}
    <2>1. CASE UNCHANGED req
      BY <2>1
    <2>2. ASSUME NEW r \in Requests, JoinStart(r)
          PROVE  \A q \in Requests :
                    req'[q].op = req[q].op \/ req'[q].op \in {"none", "join"}
      <3>1. InvitationRow \in Row
        BY DEF InvitationRow, TypeOK
      <3> QED
        BY <2>2, <3>1, RequestReads DEF JoinStart, RequestOps
    <2>3. ASSUME NEW r \in Requests, Finish(r)
          PROVE  \A q \in Requests :
                    req'[q].op = req[q].op \/ req'[q].op \in {"none", "join"}
      BY <2>3 DEF Finish, Idle, TypeOK
    <2> QED
      BY <1>4, <2>1, <2>2, <2>3
      DEF JoinRefuse, EndRefuse, EndCommit, Drop, Expire, Revoke, vars
  <1>7. LockedOut' /\ EndsUnderWay' \subseteq EndsUnderWay
    BY <1>5, <1>6 DEF LockedOut, InvitationOpen, EndsUnderWay
  <1>8. ASSUME NEW r \in Requests, Ended(r)
        PROVE  /\ status # "ended" /\ status' = "ended"
               /\ EndsUnderWay' # EndsUnderWay
    <2>1. req[r].op = "end" /\ req'[r] = Idle
      BY <1>8 DEF EndCommit, Finish, TypeOK
    <2> QED
      BY <1>8, <2>1 DEF EndCommit, EndsUnderWay, Idle
  <1>9. ASSUME ~\E r \in Requests : Ended(r)
        PROVE  UNCHANGED <<status, summaries>>
    BY <1>4, <1>9 DEF JoinStart, JoinRefuse, EndRefuse, Drop, Expire, Revoke,
                      vars, db
  <1> QED
    BY <1>5, <1>7, <1>8, <1>9

\* In a room everybody is locked out of, nothing happens but an end that was
\* authenticated in time, at most once.
THEOREM LockedOutForGood == Spec => OnlyOldEndsAct
  <1>1. TypeOK /\ [Next]_vars
            => [LockedOut =>
                   /\ LockedOut'
                   /\ EndsUnderWay' \subseteq EndsUnderWay
                   /\ UNCHANGED invitees
                   /\ \/ UNCHANGED <<status, summaries>>
                      \/ /\ status # "ended" /\ status' = "ended"
                         /\ EndsUnderWay' # EndsUnderWay]_vars
    BY LockedOutStep
  <1> QED
    BY <1>1, RoomTypes, PTL DEF Spec, OnlyOldEndsAct

=============================================================================
